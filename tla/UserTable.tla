------------------------------ MODULE UserTable ------------------------------
(***************************************************************************)
(* What the accounts of the broadcast server promise: every login, search  *)
(* and registration is one atomic operation on a table of passwords, made  *)
(* at some moment between its request and its answer.                      *)
(***************************************************************************)
CONSTANTS
  Loops,      \* the event loops that serve requests
  Users,
  Passwords,
  Empty,      \* the empty password, one of Passwords
  Absent      \* no account

VARIABLES
  table,      \* user -> password, or Absent
  phase,      \* per loop: "idle", "requested" or "done"
  request,    \* per loop: the request it serves
  result,     \* per loop: its outcome, once it is done
  answer      \* the last response sent

vars == <<table, phase, request, result, answer>>

Requests ==
  [op : {"LOGIN", "REGISTER"}, user : Users, password : Passwords] \cup [op : {"SEARCH"}]

Init ==
  /\ table = [u \in Users |-> Absent]
  /\ phase = [l \in Loops |-> "idle"]

Receive(l) ==
  /\ phase[l] = "idle"
  /\ phase' = [phase EXCEPT ![l] = "requested"]
  /\ request'[l] \in Requests
  /\ UNCHANGED <<table, answer>>

Perform(l) ==
  LET r == request[l] IN
  /\ phase[l] = "requested"
  /\ phase' = [phase EXCEPT ![l] = "done"]
  /\ CASE r.op = "LOGIN" ->
            /\ result'[l] = [success |-> \/ table[r.user] = r.password
                                         \/ table[r.user] = Absent /\ r.password = Empty]
            /\ UNCHANGED table
       [] r.op = "SEARCH" ->
            /\ result'[l] = [usernames |-> {u \in Users : table[u] # Absent}]
            /\ UNCHANGED table
       [] r.op = "REGISTER" ->
            /\ result'[l] = [success |-> table[r.user] = Absent]
            /\ table' = IF table[r.user] = Absent
                        THEN [table EXCEPT ![r.user] = r.password]
                        ELSE table
  /\ UNCHANGED <<request, answer>>

Reply(l) ==
  /\ phase[l] = "done"
  /\ phase' = [phase EXCEPT ![l] = "idle"]
  /\ answer' = [request |-> request[l], result |-> result[l]]
  /\ UNCHANGED table

Next ==
  \E l \in Loops :
    /\ Receive(l) \/ Perform(l) \/ Reply(l)
    /\ \A k \in Loops \ {l} : request'[k] = request[k] /\ result'[k] = result[k]

Spec == Init /\ [][Next]_vars
=============================================================================
