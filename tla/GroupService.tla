---------------------------- MODULE GroupService ----------------------------
(***************************************************************************)
(* What the group commands promise a client that has the server for        *)
(* itself: each request is one atomic change of the membership relation,   *)
(* and the answer says whether it was made and lists the user's groups.    *)
(***************************************************************************)
CONSTANTS Users, Groups

VARIABLES
  membership,  \* set of <<user, group>>
  phase,       \* "idle", "requested", "done"
  request,     \* the request being served
  ok           \* its outcome

vars == <<membership, phase, request, ok>>

Exists(g) == \E u \in Users : <<u, g>> \in membership

Init == membership = {} /\ phase = "idle"

Receive ==
  /\ phase = "idle"
  /\ phase' = "requested"
  /\ request' \in [op : {"CREATE", "JOIN", "LEAVE", "QUERY", "OTHER"},
                   user : Users, group : Groups]
  /\ UNCHANGED membership

(* A group exists while it has members; its creator is the first.          *)
Perform ==
  LET m == <<request.user, request.group>> IN
  /\ phase = "requested"
  /\ phase' = "done"
  /\ UNCHANGED request
  /\ CASE request.op = "CREATE" ->
            /\ ok' = ~Exists(request.group)
            /\ membership' = IF ok' THEN membership \cup {m} ELSE membership
       [] request.op = "JOIN" ->
            /\ ok' = (Exists(request.group) /\ m \notin membership)
            /\ membership' = IF ok' THEN membership \cup {m} ELSE membership
       [] request.op = "LEAVE" ->
            /\ ok' = (m \in membership)
            /\ membership' = membership \ {m}
       [] OTHER ->
            /\ ok' = (request.op = "QUERY")
            /\ UNCHANGED membership

Reply ==
  /\ phase = "done"
  /\ phase' = "idle"
  /\ UNCHANGED membership

Next == Receive \/ Perform \/ Reply

Spec == Init /\ [][Next]_vars
=============================================================================
