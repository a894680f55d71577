---------------------------- MODULE MCRedisPubSub ----------------------------
(* Small instances of RedisPubSub for TLC.                                 *)
EXTENDS RedisPubSub, TLC

(* The calling threads are interchangeable.                                *)
Symmetry == Permutations(Threads)
=============================================================================
