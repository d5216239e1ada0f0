--------------------------- MODULE MCGaSupervisor ---------------------------
EXTENDS GaSupervisor
=============================================================================
