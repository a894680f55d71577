----------------------------- MODULE MCPresence -----------------------------
(* Small instances of Presence for TLC.                                    *)
EXTENDS Presence, TLC

CONSTANTS l1, l2, c1, c2, c3, alice

(* Two connections share loop l1, a third is served by l2.                 *)
MCLoopOf == (c1 :> l1) @@ (c2 :> l1) @@ (c3 :> l2)
=============================================================================
