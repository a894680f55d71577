-------------------------- MODULE MCBroadcastServer --------------------------
(* A small instance of BroadcastServer for TLC.                            *)
EXTENDS BroadcastServer, TLC
=============================================================================
