---------------------------- MODULE MCSshSession ----------------------------
EXTENDS SshSession
=============================================================================
