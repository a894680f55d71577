------------------------------ MODULE MCCodec ------------------------------
(* Small instance of Codec for TLC: the bounds are in the .cfg.            *)
EXTENDS Codec

(* Below, just below and just above the lengths onMessage takes.           *)
MCStrayLens == {-1, 9, 15}
=============================================================================
