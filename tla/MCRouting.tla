----------------------------- MODULE MCRouting -----------------------------
(* Small instances of Routing for TLC.                                     *)
EXTENDS Routing, TLC

CONSTANTS l1, l2, c1, c2, c3, alice, bob, team, empty

(* Two connections share loop l1, a third is served by l2.                 *)
MCLoopOf == (c1 :> l1) @@ (c2 :> l1) @@ (c3 :> l2)
MCLoopOfPair == (c1 :> l1) @@ (c3 :> l2)

(* A group of all users, and one that does not exist.                     *)
MCMembersOf == [g \in Groups |-> IF g = empty THEN {} ELSE Users]

(* alice may use both connections, bob one of them.                        *)
MCLogsInAs == (c1 :> {alice}) @@ (c3 :> {alice, bob})
=============================================================================
