--------------------------- MODULE MCBridgeClient ---------------------------
(* An instance of BridgeClient: two runtimes, two starts and two sockets, so  *)
(* that each has an older one that may come late.                            *)
EXTENDS BridgeClient
=============================================================================
