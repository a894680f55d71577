--------------------------- MODULE MCServerLocking ---------------------------
(* Small instance of ServerLocking for TLC: the bounds are in the .cfg.    *)
EXTENDS ServerLocking
=============================================================================
