----------------------------- MODULE GroupStore -----------------------------
(***************************************************************************)
(* The group commands of the server (onGroupRequest in server.cc).  The    *)
(* membership of a group is stored twice at Redis: group:<g>:users and     *)
(* user:<u>:groups.  A request runs as a series of separate Redis          *)
(* commands, each atomic, and the commands of requests served by other     *)
(* event loops, or by other chat servers on the same Redis, come between.  *)
(* A server may crash after any command, and all of its loops with it.     *)
(***************************************************************************)
EXTENDS Naturals, FiniteSets

CONSTANTS
  Servers,      \* chat server processes
  Workers,      \* event loops there may be, of all the chat servers
  Users,
  Groups,
  SerialUsers,  \* TRUE: a user has one request in flight (one client)
  MaxCrashes    \* bound: crashes of a server in the middle of requests

ASSUME GroupStoreAssumption ==
  /\ SerialUsers \in BOOLEAN
  /\ MaxCrashes \in Nat

VARIABLES
  loops,    \* the workers of each server (setThreadNum, an argument of it)
  members,  \* group:<g>:users; Redis has no empty sets, {} is no key
  joined,   \* user:<u>:groups
  wpc,      \* the next command of each worker's handler
  req,      \* the GroupRequest it serves
  exists,   \* groupExists
  first,    \* reply1->integer == 1
  ok,       \* operationSuccess
  answer,   \* the last GroupResponse sent since a request was received
  crashes,  \* crashes so far
  torn      \* history: memberships a crash left half written

vars == <<loops, members, joined, wpc, req, exists, first, ok, answer, crashes, torn>>

Requests == [op : {"CREATE", "JOIN", "LEAVE", "QUERY", "OTHER"},
             user : Users, group : Groups]
Errors == {"none", "exists", "missing", "already", "not in group", "unknown"}
Answers == [req : Requests, ok : BOOLEAN, error : Errors, joined : SUBSET Groups]
NoRequest == [op |-> "none"]
NoAnswer == [req |-> NoRequest]

(* Every variable has its type.                                            *)
TypeOK ==
  /\ loops \in [Servers -> SUBSET Workers]
  /\ members \in [Groups -> SUBSET Users]
  /\ joined \in [Users -> SUBSET Groups]
  /\ wpc \in [Workers -> {"idle", "exists", "sadd1", "sadd2", "srem1", "srem2",
                          "scard1", "del1", "scard2", "del2", "smembers"}]
  /\ req \in [Workers -> Requests \cup {NoRequest}]
  /\ exists \in [Workers -> BOOLEAN]
  /\ first \in [Workers -> BOOLEAN]
  /\ ok \in [Workers -> BOOLEAN]
  /\ answer \in Answers \cup {NoAnswer}
  /\ crashes \in 0..MaxCrashes
  /\ torn \in SUBSET (Users \X Groups)

(* A worker is a thread of one process; at least one server is up.         *)
Deployments ==
  {f \in [Servers -> SUBSET Workers] :
     /\ \A s, t \in Servers : s # t => f[s] \cap f[t] = {}
     /\ \E s \in Servers : f[s] # {}}

Init ==
  /\ loops \in Deployments
  /\ members = [g \in Groups |-> {}]
  /\ joined = [u \in Users |-> {}]
  /\ wpc = [w \in Workers |-> "idle"]
  /\ req = [w \in Workers |-> NoRequest]
  /\ exists = [w \in Workers |-> FALSE]
  /\ first = [w \in Workers |-> FALSE]
  /\ ok = [w \in Workers |-> FALSE]
  /\ answer = NoAnswer
  /\ crashes = 0
  /\ torn = {}
-----------------------------------------------------------------------------
U(w) == req[w].user
G(w) == req[w].group
(* A request of u is being served.                                         *)
Busy(u) == \E w \in Workers : wpc[w] # "idle" /\ U(w) = u

Goto(w, label) == wpc' = [wpc EXCEPT ![w] = label]

(* The handlers of the workers W are left, and their locals with them.     *)
Leave(W) ==
  /\ wpc' = [w \in Workers |-> IF w \in W THEN "idle" ELSE wpc[w]]
  /\ req' = [w \in Workers |-> IF w \in W THEN NoRequest ELSE req[w]]
  /\ exists' = [w \in Workers |-> w \notin W /\ exists[w]]
  /\ first' = [w \in Workers |-> w \notin W /\ first[w]]
  /\ ok' = [w \in Workers |-> w \notin W /\ ok[w]]

(* A worker takes up a request; the username in it is taken at its word.   *)
Receive(w) ==
  /\ wpc[w] = "idle"
  /\ \E r \in Requests :
       /\ ~(SerialUsers /\ Busy(r.user))
       /\ req' = [req EXCEPT ![w] = r]
  /\ Goto(w, "exists")
  /\ answer' = NoAnswer
  /\ UNCHANGED <<loops, members, joined, exists, first, ok, crashes, torn>>

(* Mutant of ExistsCmd: an unknown operation falls through to a handler    *)
(* that is not there.                                                      *)
ExistsCmdUnknown(w) ==
  LET e == members[G(w)] # {} IN
  /\ wpc[w] = "exists"
  /\ exists' = [exists EXCEPT ![w] = e]
  /\ Goto(w, CASE req[w].op = "CREATE" /\ ~e -> "sadd1"
               [] req[w].op = "JOIN" /\ e    -> "sadd1"
               [] req[w].op = "LEAVE" /\ e   -> "srem1"
               [] req[w].op = "OTHER"        -> "other"
               [] OTHER                      -> "smembers")
  /\ ok' = [ok EXCEPT ![w] = (req[w].op = "QUERY")]
  /\ UNCHANGED <<loops, members, joined, req, first, answer, crashes, torn>>

(* EXISTS group:<g>:users decides which commands follow.                   *)
ExistsCmd(w) ==
  LET e == members[G(w)] # {} IN
  /\ wpc[w] = "exists"
  /\ exists' = [exists EXCEPT ![w] = e]
  /\ Goto(w, CASE req[w].op = "CREATE" /\ ~e -> "sadd1"
               [] req[w].op = "JOIN" /\ e    -> "sadd1"
               [] req[w].op = "LEAVE" /\ e   -> "srem1"
               [] OTHER                      -> "smembers")
  /\ ok' = [ok EXCEPT ![w] = (req[w].op = "QUERY")]
  /\ UNCHANGED <<loops, members, joined, req, first, answer, crashes, torn>>

(* SADD group:<g>:users                                                    *)
Sadd1(w) ==
  /\ wpc[w] = "sadd1"
  /\ first' = [first EXCEPT ![w] = U(w) \notin members[G(w)]]
  /\ members' = [members EXCEPT ![G(w)] = @ \cup {U(w)}]
  /\ Goto(w, "sadd2")
  /\ UNCHANGED <<loops, joined, req, exists, ok, answer, crashes, torn>>

(* Mutant of Sadd2: a user in the group already is not written again.      *)
Sadd2IfNew(w) ==
  /\ wpc[w] = "sadd2"
  /\ ok' = [ok EXCEPT ![w] = first[w] /\ G(w) \notin joined[U(w)]]
  /\ joined' = IF first[w] THEN [joined EXCEPT ![U(w)] = @ \cup {G(w)}] ELSE joined
  /\ Goto(w, "smembers")
  /\ torn' = torn \ {<<U(w), G(w)>>}
  /\ UNCHANGED <<loops, members, req, exists, first, answer, crashes>>

(* Mutant of Sadd2: the second set is forgotten.                           *)
Sadd2Forgotten(w) ==
  /\ wpc[w] = "sadd2"
  /\ ok' = [ok EXCEPT ![w] = first[w]]
  /\ Goto(w, "smembers")
  /\ torn' = torn \ {<<U(w), G(w)>>}
  /\ UNCHANGED <<loops, members, joined, req, exists, first, answer, crashes>>

(* SADD user:<u>:groups; success if both sets changed.                     *)
Sadd2(w) ==
  /\ wpc[w] = "sadd2"
  /\ ok' = [ok EXCEPT ![w] = first[w] /\ G(w) \notin joined[U(w)]]
  /\ joined' = [joined EXCEPT ![U(w)] = @ \cup {G(w)}]
  /\ Goto(w, "smembers")
  /\ torn' = torn \ {<<U(w), G(w)>>}
  /\ UNCHANGED <<loops, members, req, exists, first, answer, crashes>>

(* Mutant of Srem1: the two SREM commands in the other order: this one     *)
(* runs against the user's set and leaves the group's set to the second.   *)
Srem1SecondSetOnly(w) ==
  /\ wpc[w] = "srem1"
  /\ first' = [first EXCEPT ![w] = G(w) \in joined[U(w)]]
  /\ joined' = [joined EXCEPT ![U(w)] = @ \ {G(w)}]
  /\ Goto(w, "srem2")
  /\ torn' = torn \ {<<U(w), G(w)>>}
  /\ UNCHANGED <<loops, members, req, exists, ok, answer, crashes>>

(* SREM group:<g>:users                                                    *)
Srem1(w) ==
  /\ wpc[w] = "srem1"
  /\ first' = [first EXCEPT ![w] = U(w) \in members[G(w)]]
  /\ members' = [members EXCEPT ![G(w)] = @ \ {U(w)}]
  /\ Goto(w, "srem2")
  /\ torn' = torn \ {<<U(w), G(w)>>}
  /\ UNCHANGED <<loops, joined, req, exists, ok, answer, crashes>>

(* SREM user:<u>:groups                                                    *)
Srem2(w) ==
  /\ wpc[w] = "srem2"
  /\ ok' = [ok EXCEPT ![w] = first[w] /\ G(w) \in joined[U(w)]]
  /\ joined' = [joined EXCEPT ![U(w)] = @ \ {G(w)}]
  /\ Goto(w, "scard1")
  /\ UNCHANGED <<loops, members, req, exists, first, answer, crashes, torn>>

(* SCARD group:<g>:users                                                   *)
Scard1(w) ==
  /\ wpc[w] = "scard1"
  /\ Goto(w, IF members[G(w)] = {} THEN "del1" ELSE "scard2")
  /\ UNCHANGED <<loops, members, joined, req, exists, first, ok, answer, crashes, torn>>

(* DEL group:<g>:users                                                     *)
Del1(w) ==
  /\ wpc[w] = "del1"
  /\ members' = [members EXCEPT ![G(w)] = {}]
  /\ Goto(w, "scard2")
  /\ UNCHANGED <<loops, joined, req, exists, first, ok, answer, crashes, torn>>

(* SCARD user:<u>:groups                                                   *)
Scard2(w) ==
  /\ wpc[w] = "scard2"
  /\ Goto(w, IF joined[U(w)] = {} THEN "del2" ELSE "smembers")
  /\ UNCHANGED <<loops, members, joined, req, exists, first, ok, answer, crashes, torn>>

(* DEL user:<u>:groups                                                     *)
Del2(w) ==
  /\ wpc[w] = "del2"
  /\ joined' = [joined EXCEPT ![U(w)] = {}]
  /\ Goto(w, "smembers")
  /\ UNCHANGED <<loops, members, req, exists, first, ok, answer, crashes, torn>>

(* The error message that goes with a refusal.                             *)
ErrorOf(w) ==
  IF ok[w] THEN "none"
  ELSE CASE req[w].op = "CREATE" -> "exists"
         [] req[w].op = "JOIN"   -> IF exists[w] THEN "already" ELSE "missing"
         [] req[w].op = "LEAVE"  -> IF exists[w] THEN "not in group" ELSE "missing"
         [] OTHER                -> "unknown"

(* SMEMBERS user:<u>:groups, and the response.                             *)
Smembers(w) ==
  /\ wpc[w] = "smembers"
  /\ answer' = [req |-> req[w], ok |-> ok[w], error |-> ErrorOf(w), joined |-> joined[U(w)]]
  /\ Leave({w})
  /\ UNCHANGED <<loops, members, joined, crashes, torn>>

(* The process dies, and with it all of its event loops, in the middle of  *)
(* whatever requests they serve; Redis keeps what it has.  A handler       *)
(* between its two SADD commands leaves a membership half written.         *)
Crash(s) ==
  /\ \E w \in loops[s] : wpc[w] # "idle"
  /\ crashes < MaxCrashes
  /\ crashes' = crashes + 1
  /\ torn' = torn \cup {<<U(w), G(w)>> : w \in {v \in loops[s] : wpc[v] = "sadd2"}}
  /\ Leave(loops[s])
  /\ UNCHANGED <<loops, members, joined, answer>>
-----------------------------------------------------------------------------
Step(w) ==
  \/ ExistsCmd(w) \/ Sadd1(w) \/ Sadd2(w) \/ Srem1(w) \/ Srem2(w)
  \/ Scard1(w) \/ Del1(w) \/ Scard2(w) \/ Del2(w) \/ Smembers(w)

Next == \E s \in Servers : (\E w \in loops[s] : Receive(w) \/ Step(w)) \/ Crash(s)

Spec == Init /\ [][Next]_vars
-----------------------------------------------------------------------------
(***************************************************************************)
(* Properties                                                              *)
(***************************************************************************)

(* u gets the messages of g (processGroupMessage reads group:<g>:users)    *)
(* without seeing g among its groups.                                      *)
Unseen(u, g) == u \in members[g] /\ g \notin joined[u]

(* If users send one request at a time and no server crashes, nobody is in *)
(* a group unseen, whatever requests of other users run in between.        *)
MembersSeeTheirGroups ==
  (SerialUsers /\ crashes = 0) =>
     \A u \in Users, g \in Groups : ~Busy(u) => ~Unseen(u, g)

(* The damage of a crash, which may cut the requests of several loops, is  *)
(* confined: outside a request of its own, a user is in a group unseen     *)
(* only if a crash stopped that user between the two SADD commands for     *)
(* that group, and neither a repeated JOIN nor a LEAVE of it has run the   *)
(* pair of commands since.  No other command spreads the damage.           *)
CrashDamageConfined ==
  SerialUsers =>
    \A u \in Users, g \in Groups :
      (~Busy(u) /\ Unseen(u, g)) => <<u, g>> \in torn

(* The answer to a request shows its own effect, also when the request     *)
(* repeats one that a crash cut short and is refused as already done.      *)
AnswersShowOwnChange ==
  LET a == answer
      g == a.req.group
  IN  (SerialUsers /\ a # NoAnswer) =>
        /\ a.req.op = "CREATE" /\ a.ok => g \in a.joined
        /\ a.req.op = "JOIN" /\ a.error # "missing" => g \in a.joined
        /\ a.req.op = "LEAVE" /\ a.error # "missing" => g \notin a.joined

(* The comment in onGroupRequest: the group is deleted if it has no        *)
(* members (any more).                                                     *)
DelOnlyEmptyGroups ==
  \A w \in Workers : wpc[w] = "del1" => members[G(w)] = {}

(* The abstract service, as the requests of worker w show it.              *)
Membership == {m \in Users \X Groups : m[1] \in members[m[2]]}
Phase(w) ==
  CASE wpc[w] = "idle"                         -> "idle"
    [] wpc[w] \in {"exists", "sadd1", "srem1"} -> "requested"
    [] OTHER                                   -> "done"
Outcome(w) == IF wpc[w] \in {"sadd2", "srem2"} THEN first[w] ELSE ok[w]

Running == UNION {loops[s] : s \in Servers}

Service(w) == INSTANCE GroupService WITH
  membership <- Membership,
  phase      <- Phase(w),
  request    <- req[w],
  ok         <- Outcome(w)

(* A server with one event loop, until it crashes, implements the abstract *)
(* service: the series of Redis commands of onGroupRequest is one atomic   *)
(* change of the membership relation, so the two sets agree and the second *)
(* command of a pair never contradicts the first.                          *)
ImplementsGroupService ==
  [][\A w \in Workers :
       (Running = {w} /\ crashes' = 0) => [Service(w)!Next]_(Service(w)!vars)]_vars
=============================================================================
