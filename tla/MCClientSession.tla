-------------------------- MODULE MCClientSession --------------------------
(* Small instances of ClientSession for TLC: the bounds are in the .cfg.   *)
EXTENDS ClientSession
=============================================================================
