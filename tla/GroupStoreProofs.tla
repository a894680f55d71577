-------------------------- MODULE GroupStoreProofs --------------------------
(***************************************************************************)
(* Proofs about GroupStore: what the interleaved group commands guarantee  *)
(* for any number of servers, users and groups.                            *)
(***************************************************************************)
EXTENDS GroupStore, TLAPS

-----------------------------------------------------------------------------
(* Every worker inside the handler serves a request of the right kind.     *)
ServesRequest ==
  \A w \in Workers :
    /\ wpc[w] # "idle" => req[w] \in Requests
    /\ wpc[w] \in {"sadd1", "sadd2"} => req[w].op \in {"CREATE", "JOIN"}
    /\ wpc[w] \in {"srem1", "srem2", "scard1", "del1", "scard2", "del2"} => req[w].op = "LEAVE"

(* Users send one request at a time.                                       *)
OneRequestPerUser ==
  \A v, w \in Workers :
    (v # w /\ wpc[v] # "idle" /\ wpc[w] # "idle") => U(v) # U(w)

(* What the commands a worker has executed have left behind: only requests *)
(* of the same user could undo it.                                         *)
Effect(w) ==
  /\ wpc[w] = "srem2" => U(w) \notin members[G(w)]
  /\ wpc[w] \in {"scard1", "del1", "scard2", "del2"} => G(w) \notin joined[U(w)]
  /\ wpc[w] = "del2" => joined[U(w)] = {}
  /\ wpc[w] = "smembers" =>
       /\ (req[w].op = "CREATE" /\ ok[w]) => G(w) \in joined[U(w)]
       /\ (req[w].op = "JOIN" /\ (ok[w] \/ exists[w])) => G(w) \in joined[U(w)]
       /\ (req[w].op = "LEAVE" /\ (ok[w] \/ exists[w])) => G(w) \notin joined[U(w)]

CommandsTookEffect == \A w \in Workers : Effect(w)

(* The members who do not see their group are in the middle of joining it, *)
(* or a crash has stopped them there.                                      *)
Joining(u, g) == \E w \in Workers : wpc[w] = "sadd2" /\ U(w) = u /\ G(w) = g
DamageInv ==
  /\ \A u \in Users, g \in Groups : Unseen(u, g) => Joining(u, g) \/ <<u, g>> \in torn
  /\ crashes = 0 => torn = {}

SerialInv ==
  /\ OneRequestPerUser /\ CommandsTookEffect /\ DamageInv
  /\ AnswersShowOwnChange

IInv == TypeOK /\ ServesRequest /\ (SerialUsers => SerialInv)
-----------------------------------------------------------------------------
(* Every action keeps the types.                                           *)
LEMMA TypeStep == TypeOK /\ ServesRequest /\ [Next]_vars => TypeOK'
<1> SUFFICES ASSUME TypeOK, ServesRequest, [Next]_vars PROVE TypeOK'
  OBVIOUS
<1>0. CASE UNCHANGED vars
  BY <1>0 DEF TypeOK, vars
<1>14. ASSUME NEW s \in Servers, Crash(s) PROVE TypeOK'
  <2>1. /\ wpc' \in [Workers -> {"idle", "exists", "sadd1", "sadd2", "srem1", "srem2",
                                  "scard1", "del1", "scard2", "del2", "smembers"}]
        /\ req' \in [Workers -> Requests \cup {NoRequest}]
        /\ exists' \in [Workers -> BOOLEAN]
        /\ first' \in [Workers -> BOOLEAN]
        /\ ok' \in [Workers -> BOOLEAN]
    BY <1>14 DEF Crash, Leave, TypeOK
  <2>2. \A w \in loops[s] : wpc[w] = "sadd2" => U(w) \in Users /\ G(w) \in Groups
    BY <1>14 DEF TypeOK, ServesRequest, Requests, U, G
  <2>3. torn' \in SUBSET (Users \X Groups)
    BY <1>14, <2>2 DEF Crash, TypeOK
  <2> QED BY <1>14, <2>1, <2>3, GroupStoreAssumption DEF Crash, TypeOK
<1> SUFFICES ASSUME NEW w \in Workers, Receive(w) \/ Step(w) PROVE TypeOK'
  BY <1>0, <1>14 DEF Next, TypeOK
<1>1. CASE Receive(w)
  BY <1>1 DEF Receive, Goto, TypeOK
<1>2. ASSUME wpc[w] # "idle" PROVE U(w) \in Users /\ G(w) \in Groups /\ req[w] \in Requests
  BY <1>2 DEF ServesRequest, Requests, U, G
<1>3. CASE ExistsCmd(w)
  <2>1. wpc' \in [Workers -> {"idle", "exists", "sadd1", "sadd2", "srem1", "srem2",
                              "scard1", "del1", "scard2", "del2", "smembers"}]
    BY <1>3 DEF ExistsCmd, Goto, TypeOK
  <2> QED BY <1>3, <2>1 DEF ExistsCmd, TypeOK
<1>4. CASE Sadd1(w)
  BY <1>4, <1>2 DEF Sadd1, Goto, TypeOK
<1>5. CASE Sadd2(w)
  BY <1>5, <1>2 DEF Sadd2, Goto, TypeOK
<1>6. CASE Srem1(w)
  BY <1>6, <1>2 DEF Srem1, Goto, TypeOK
<1>7. CASE Srem2(w)
  BY <1>7, <1>2 DEF Srem2, Goto, TypeOK
<1>8. CASE Scard1(w)
  BY <1>8 DEF Scard1, Goto, TypeOK
<1>9. CASE Del1(w)
  BY <1>9, <1>2 DEF Del1, Goto, TypeOK
<1>10. CASE Scard2(w)
  BY <1>10 DEF Scard2, Goto, TypeOK
<1>11. CASE Del2(w)
  BY <1>11, <1>2 DEF Del2, Goto, TypeOK
<1>12. ASSUME Leave({w})
       PROVE  /\ wpc' \in [Workers -> {"idle", "exists", "sadd1", "sadd2", "srem1", "srem2",
                                       "scard1", "del1", "scard2", "del2", "smembers"}]
              /\ req' \in [Workers -> Requests \cup {NoRequest}]
              /\ exists' \in [Workers -> BOOLEAN]
              /\ first' \in [Workers -> BOOLEAN]
              /\ ok' \in [Workers -> BOOLEAN]
  BY <1>12 DEF Leave, TypeOK
<1>13. CASE Smembers(w)
  <2>1. /\ req[w] \in Requests /\ ok[w] \in BOOLEAN /\ joined[U(w)] \in SUBSET Groups
        /\ exists[w] \in BOOLEAN
    BY <1>2, <1>13 DEF Smembers, TypeOK
  <2>2. ErrorOf(w) \in Errors
    BY <2>1 DEF ErrorOf, Errors
  <2>3. answer' \in Answers
    BY <2>1, <2>2, <1>13 DEF Smembers, Answers
  <2> QED BY <2>3, <1>12, <1>13 DEF Smembers, TypeOK
<1> QED
  BY <1>1, <1>3, <1>4, <1>5, <1>6, <1>7, <1>8, <1>9, <1>10, <1>11, <1>13 DEF Step

(* A worker's request fits the command it is about to execute.             *)
LEMMA RequestStep == TypeOK /\ ServesRequest /\ [Next]_vars => ServesRequest'
<1> SUFFICES ASSUME TypeOK, ServesRequest, [Next]_vars PROVE ServesRequest'
  OBVIOUS
<1>0. CASE UNCHANGED vars
  BY <1>0 DEF ServesRequest, vars
<1>8. ASSUME NEW s \in Servers, Crash(s) PROVE ServesRequest'
  <2>1. \A v \in Workers : wpc'[v] = "idle" \/ (wpc'[v] = wpc[v] /\ req'[v] = req[v])
    BY <1>8 DEF Crash, Leave, TypeOK
  <2> QED BY <2>1 DEF ServesRequest
<1> SUFFICES ASSUME NEW w \in Workers, Receive(w) \/ Step(w) PROVE ServesRequest'
  BY <1>0, <1>8 DEF Next, TypeOK
<1>1. CASE Receive(w)
  <2>1. PICK r \in Requests : req' = [req EXCEPT ![w] = r]
    BY <1>1 DEF Receive
  <2> QED BY <1>1, <2>1 DEF Receive, Goto, TypeOK, ServesRequest
<1>2. CASE Smembers(w)
  <2>1. \A v \in Workers : wpc'[v] = "idle" \/ (wpc'[v] = wpc[v] /\ req'[v] = req[v])
    BY <1>2 DEF Smembers, Leave, TypeOK
  <2> QED BY <2>1 DEF ServesRequest
<1>3. CASE ExistsCmd(w)
  <2>1. /\ wpc[w] = "exists" /\ UNCHANGED req
        /\ \A v \in Workers : v # w => wpc'[v] = wpc[v]
        /\ wpc'[w] \in {"sadd1", "srem1", "smembers"}
        /\ wpc'[w] = "sadd1" => req[w].op \in {"CREATE", "JOIN"}
        /\ wpc'[w] = "srem1" => req[w].op = "LEAVE"
    BY <1>3 DEF ExistsCmd, Goto, TypeOK
  <2> QED BY <2>1 DEF ServesRequest
<1>4. CASE Sadd1(w) \/ Sadd2(w)
  BY <1>4 DEF Sadd1, Sadd2, Goto, TypeOK, ServesRequest
<1>5. CASE Srem1(w) \/ Srem2(w)
  BY <1>5 DEF Srem1, Srem2, Goto, TypeOK, ServesRequest
<1>6. CASE Scard1(w) \/ Del1(w)
  BY <1>6 DEF Scard1, Del1, Goto, TypeOK, ServesRequest
<1>7. CASE Scard2(w) \/ Del2(w)
  BY <1>7 DEF Scard2, Del2, Goto, TypeOK, ServesRequest
<1> QED BY <1>1, <1>2, <1>3, <1>4, <1>5, <1>6, <1>7 DEF Step
-----------------------------------------------------------------------------
(***************************************************************************)
(* One command of a worker.                                                *)
(***************************************************************************)

(* A command of w changes nothing for the other workers: they serve other  *)
(* users, whose sets it does not touch except by deleting a group.         *)
OthersUntouched(w) ==
  /\ \A v \in Workers : v # w => /\ wpc'[v] = wpc[v] /\ req'[v] = req[v]
                                 /\ ok'[v] = ok[v] /\ exists'[v] = exists[v]
  /\ \A u \in Users : u # U(w) => joined'[u] = joined[u]
  /\ \A u \in Users, g \in Groups : (u # U(w) /\ u \in members'[g]) => u \in members[g]

(* So whatever the others' commands achieved stays.                        *)
LEMMA OthersKeepEffect ==
  ASSUME TypeOK, ServesRequest, OneRequestPerUser, CommandsTookEffect,
         NEW w \in Workers, wpc[w] # "idle", OthersUntouched(w),
         NEW v \in Workers, v # w
  PROVE  Effect(v)'
<1>1. CASE wpc[v] = "idle"
  BY <1>1 DEF OthersUntouched, Effect
<1>2. CASE wpc[v] # "idle"
  <2>1. U(v) # U(w) /\ U(v) \in Users /\ G(v) \in Groups
    BY <1>2 DEF OneRequestPerUser, ServesRequest, Requests, U, G
  <2>2. U(v)' = U(v) /\ G(v)' = G(v)
    BY DEF OthersUntouched, U, G
  <2>3. joined'[U(v)] = joined[U(v)] /\ (U(v) \in members'[G(v)] => U(v) \in members[G(v)])
    BY <2>1 DEF OthersUntouched
  <2>4. wpc'[v] = wpc[v] /\ req'[v] = req[v] /\ ok'[v] = ok[v] /\ exists'[v] = exists[v]
    BY DEF OthersUntouched
  <2>5. Effect(v)
    BY DEF CommandsTookEffect
  <2> QED BY <2>2, <2>3, <2>4, <2>5 DEF Effect
<1> QED BY <1>1, <1>2

(* Without a crash the damage does not grow.                               *)
LEMMA NoNewDamage ==
  ASSUME DamageInv, crashes' = crashes, torn' \subseteq torn,
         \A u \in Users, g \in Groups :
           Unseen(u, g)' /\ ~Joining(u, g)' =>
             /\ Unseen(u, g) /\ ~Joining(u, g)
             /\ <<u, g>> \in torn => <<u, g>> \in torn'
  PROVE  DamageInv'
BY DEF DamageInv

(* The serial part of the invariant after a command of w, from what is     *)
(* left to show about w itself.                                            *)
LEMMA CommandKeepsSerialInv ==
  ASSUME TypeOK, ServesRequest, SerialInv,
         NEW w \in Workers, wpc[w] # "idle", OthersUntouched(w),
         U(w)' = U(w), G(w)' = G(w), crashes' = crashes, answer' = answer,
         \/ torn' = torn
         \/ torn' = torn \ {<<U(w), G(w)>>} /\ ~Unseen(U(w), G(w))',
         Effect(w)', wpc[w] = "sadd2" => ~Unseen(U(w), G(w))',
         \A g \in Groups : Unseen(U(w), g)' =>
            Unseen(U(w), g) \/ (g = G(w) /\ wpc'[w] = "sadd2")
  PROVE  SerialInv'
<1>0. U(w) \in Users /\ G(w) \in Groups
  BY DEF ServesRequest, Requests, U, G
<1>1. OneRequestPerUser'
  <2> SUFFICES ASSUME NEW v \in Workers, NEW x \in Workers, v # x,
                      wpc'[v] # "idle", wpc'[x] # "idle"
               PROVE  U(v)' # U(x)'
    BY DEF OneRequestPerUser
  <2>1. U(v)' = U(v) /\ U(x)' = U(x)
    BY DEF OthersUntouched, U
  <2>2. wpc[v] # "idle" /\ wpc[x] # "idle"
    BY DEF OthersUntouched
  <2> QED BY <2>1, <2>2 DEF SerialInv, OneRequestPerUser
<1>2. CommandsTookEffect'
  BY OthersKeepEffect DEF SerialInv, CommandsTookEffect
<1>3. DamageInv'
  <2>1. ASSUME NEW u \in Users, NEW g \in Groups, Unseen(u, g)', ~Joining(u, g)'
        PROVE  /\ Unseen(u, g) /\ ~Joining(u, g)
               /\ <<u, g>> \in torn => <<u, g>> \in torn'
    <3>1. ~(u = U(w) /\ g = G(w) /\ wpc'[w] = "sadd2")
      BY <2>1 DEF Joining
    <3>2. Unseen(u, g)
      <4>1. CASE u = U(w)
        BY <2>1, <3>1, <4>1
      <4>2. CASE u # U(w)
        BY <2>1, <4>2 DEF OthersUntouched, Unseen
      <4> QED BY <4>1, <4>2
    <3>3. ASSUME NEW v \in Workers, wpc[v] = "sadd2", U(v) = u, G(v) = g PROVE FALSE
      <4>1. v # w
        BY <2>1, <3>3
      <4> QED BY <2>1, <3>3, <4>1 DEF OthersUntouched, U, G, Joining
    <3>4. <<u, g>> \in torn => <<u, g>> \in torn'
      BY <2>1
    <3> QED BY <3>2, <3>3, <3>4 DEF Joining
  <2> QED BY <2>1, NoNewDamage DEF SerialInv
<1>4. AnswersShowOwnChange'
  BY DEF SerialInv, AnswersShowOwnChange
<1> QED BY <1>1, <1>2, <1>3, <1>4 DEF SerialInv

(* Every Redis command of the handler keeps the serial invariant.          *)
LEMMA CommandStep ==
  ASSUME TypeOK, ServesRequest, SerialInv, NEW w \in Workers, Step(w), ~Smembers(w)
  PROVE  SerialInv'
<1>0. wpc[w] # "idle" /\ Effect(w)
  BY DEF Step, ExistsCmd, Sadd1, Sadd2, Srem1, Srem2, Scard1, Del1, Scard2, Del2,
         Smembers, SerialInv, CommandsTookEffect
<1>u. U(w) \in Users /\ G(w) \in Groups
  BY <1>0 DEF ServesRequest, Requests, U, G
<1>1. CASE ExistsCmd(w)
  <2>1. /\ wpc[w] = "exists" /\ UNCHANGED <<members, joined, req, answer, crashes, torn>>
        /\ \A v \in Workers : v # w => wpc'[v] = wpc[v] /\ ok'[v] = ok[v] /\ exists'[v] = exists[v]
        /\ wpc'[w] \in {"sadd1", "srem1", "smembers"}
    BY <1>1 DEF ExistsCmd, Goto, TypeOK
  <2>2. wpc'[w] = "smembers" =>
          /\ req[w].op = "CREATE" => ~ok'[w]
          /\ req[w].op \in {"JOIN", "LEAVE"} => (~ok'[w] /\ ~exists'[w])
    BY <1>1 DEF ExistsCmd, Goto, TypeOK
  <2>3. OthersUntouched(w) /\ U(w)' = U(w) /\ G(w)' = G(w)
    BY <2>1 DEF OthersUntouched, U, G
  <2>4. Effect(w)'
    BY <2>1, <2>2 DEF Effect
  <2>5. \A g \in Groups : Unseen(U(w), g)' => Unseen(U(w), g)
    BY <2>1, <2>3 DEF Unseen
  <2> QED BY <1>0, <2>1, <2>3, <2>4, <2>5, CommandKeepsSerialInv
<1>2. CASE Sadd1(w)
  <2>1. /\ wpc[w] = "sadd1" /\ wpc'[w] = "sadd2"
        /\ UNCHANGED <<joined, req, ok, exists, answer, crashes, torn>>
        /\ \A v \in Workers : v # w => wpc'[v] = wpc[v]
        /\ members'[G(w)] = members[G(w)] \cup {U(w)}
        /\ \A g \in Groups : g # G(w) => members'[g] = members[g]
    BY <1>2, <1>u DEF Sadd1, Goto, TypeOK
  <2>2. OthersUntouched(w) /\ U(w)' = U(w) /\ G(w)' = G(w)
    BY <2>1 DEF OthersUntouched, U, G
  <2>3. Effect(w)'
    BY <2>1 DEF Effect
  <2>4. \A g \in Groups : Unseen(U(w), g)' => Unseen(U(w), g) \/ (g = G(w) /\ wpc'[w] = "sadd2")
    BY <2>1, <2>2 DEF Unseen
  <2> QED BY <1>0, <2>1, <2>2, <2>3, <2>4, CommandKeepsSerialInv
<1>3. CASE Sadd2(w)
  <2>1. /\ wpc[w] = "sadd2" /\ wpc'[w] = "smembers"
        /\ UNCHANGED <<members, req, exists, answer, crashes>>
        /\ torn' = torn \ {<<U(w), G(w)>>}
        /\ \A v \in Workers : v # w => wpc'[v] = wpc[v] /\ ok'[v] = ok[v]
        /\ joined'[U(w)] = joined[U(w)] \cup {G(w)}
        /\ \A u \in Users : u # U(w) => joined'[u] = joined[u]
    BY <1>3, <1>u DEF Sadd2, Goto, TypeOK
  <2>2. OthersUntouched(w) /\ U(w)' = U(w) /\ G(w)' = G(w)
    BY <2>1 DEF OthersUntouched, U, G
  <2>3. req[w].op \in {"CREATE", "JOIN"}
    BY <2>1 DEF ServesRequest
  <2>4. Effect(w)'
    BY <2>1, <2>2, <2>3 DEF Effect
  <2>5. /\ \A g \in Groups : Unseen(U(w), g)' => Unseen(U(w), g)
        /\ ~Unseen(U(w), G(w))'
    BY <2>1, <2>2 DEF Unseen
  <2> QED BY <1>0, <2>1, <2>2, <2>4, <2>5, CommandKeepsSerialInv
<1>4. CASE Srem1(w)
  <2>1. /\ wpc[w] = "srem1" /\ wpc'[w] = "srem2"
        /\ UNCHANGED <<joined, req, ok, exists, answer, crashes>>
        /\ torn' = torn \ {<<U(w), G(w)>>}
        /\ \A v \in Workers : v # w => wpc'[v] = wpc[v]
        /\ members'[G(w)] = members[G(w)] \ {U(w)}
        /\ \A g \in Groups : g # G(w) => members'[g] = members[g]
    BY <1>4, <1>u DEF Srem1, Goto, TypeOK
  <2>2. OthersUntouched(w) /\ U(w)' = U(w) /\ G(w)' = G(w)
    BY <2>1 DEF OthersUntouched, U, G
  <2>3. Effect(w)'
    BY <2>1, <2>2 DEF Effect
  <2>4. /\ \A g \in Groups : Unseen(U(w), g)' => Unseen(U(w), g)
        /\ ~Unseen(U(w), G(w))'
    BY <2>1, <2>2 DEF Unseen
  <2> QED BY <1>0, <2>1, <2>2, <2>3, <2>4, CommandKeepsSerialInv
<1>5. CASE Srem2(w)
  <2>1. /\ wpc[w] = "srem2" /\ wpc'[w] = "scard1"
        /\ UNCHANGED <<members, req, exists, answer, crashes, torn>>
        /\ \A v \in Workers : v # w => wpc'[v] = wpc[v] /\ ok'[v] = ok[v]
        /\ joined'[U(w)] = joined[U(w)] \ {G(w)}
        /\ \A u \in Users : u # U(w) => joined'[u] = joined[u]
    BY <1>5, <1>u DEF Srem2, Goto, TypeOK
  <2>2. OthersUntouched(w) /\ U(w)' = U(w) /\ G(w)' = G(w)
    BY <2>1 DEF OthersUntouched, U, G
  <2>3. Effect(w)'
    BY <2>1, <2>2 DEF Effect
  <2>4. U(w) \notin members[G(w)]
    BY <1>0, <2>1 DEF Effect
  <2>5. \A g \in Groups : Unseen(U(w), g)' => Unseen(U(w), g)
    BY <2>1, <2>2, <2>4 DEF Unseen
  <2> QED BY <1>0, <2>1, <2>2, <2>3, <2>5, CommandKeepsSerialInv
<1>6. CASE Scard1(w) \/ Scard2(w)
  <2>1. /\ UNCHANGED <<members, joined, req, ok, exists, answer, crashes, torn>>
        /\ \A v \in Workers : v # w => wpc'[v] = wpc[v]
        /\ wpc[w] \in {"scard1", "scard2"}
        /\ wpc'[w] \in {"del1", "scard2", "del2", "smembers"}
        /\ wpc'[w] = "del2" => joined[U(w)] = {}
    <3>1. CASE Scard1(w)
      BY <3>1 DEF Scard1, Goto, TypeOK
    <3>2. CASE Scard2(w)
      BY <3>2 DEF Scard2, Goto, TypeOK
    <3> QED BY <1>6, <3>1, <3>2
  <2>2. OthersUntouched(w) /\ U(w)' = U(w) /\ G(w)' = G(w)
    BY <2>1 DEF OthersUntouched, U, G
  <2>3. req[w].op = "LEAVE"
    BY <2>1 DEF ServesRequest
  <2>4. Effect(w)'
    BY <1>0, <2>1, <2>2, <2>3 DEF Effect
  <2>5. \A g \in Groups : Unseen(U(w), g)' => Unseen(U(w), g)
    BY <2>1, <2>2 DEF Unseen
  <2> QED BY <1>0, <2>1, <2>2, <2>4, <2>5, CommandKeepsSerialInv
<1>7. CASE Del1(w)
  <2>1. /\ wpc[w] = "del1" /\ wpc'[w] = "scard2"
        /\ UNCHANGED <<joined, req, ok, exists, answer, crashes, torn>>
        /\ \A v \in Workers : v # w => wpc'[v] = wpc[v]
        /\ members'[G(w)] = {}
        /\ \A g \in Groups : g # G(w) => members'[g] = members[g]
    BY <1>7, <1>u DEF Del1, Goto, TypeOK
  <2>2. OthersUntouched(w) /\ U(w)' = U(w) /\ G(w)' = G(w)
    BY <2>1 DEF OthersUntouched, U, G
  <2>3. Effect(w)'
    BY <1>0, <2>1, <2>2 DEF Effect
  <2>4. \A g \in Groups : Unseen(U(w), g)' => Unseen(U(w), g)
    BY <2>1, <2>2 DEF Unseen
  <2> QED BY <1>0, <2>1, <2>2, <2>3, <2>4, CommandKeepsSerialInv
<1>8. CASE Del2(w)
  <2>1. /\ wpc[w] = "del2" /\ wpc'[w] = "smembers"
        /\ UNCHANGED <<members, req, ok, exists, answer, crashes, torn>>
        /\ \A v \in Workers : v # w => wpc'[v] = wpc[v]
        /\ joined'[U(w)] = {} /\ joined[U(w)] = {}
        /\ \A u \in Users : u # U(w) => joined'[u] = joined[u]
    BY <1>0, <1>8, <1>u DEF Del2, Goto, TypeOK, Effect
  <2>2. OthersUntouched(w) /\ U(w)' = U(w) /\ G(w)' = G(w)
    BY <2>1 DEF OthersUntouched, U, G
  <2>3. req[w].op = "LEAVE"
    BY <2>1 DEF ServesRequest
  <2>4. Effect(w)'
    BY <2>1, <2>2, <2>3 DEF Effect
  <2>5. \A g \in Groups : Unseen(U(w), g)' => Unseen(U(w), g)
    BY <2>1, <2>2 DEF Unseen
  <2> QED BY <1>0, <2>1, <2>2, <2>4, <2>5, CommandKeepsSerialInv
<1> QED BY <1>1, <1>2, <1>3, <1>4, <1>5, <1>6, <1>7, <1>8 DEF Step

(* A request is taken up only if its user has none in flight.              *)
LEMMA ReceiveStep ==
  ASSUME TypeOK, ServesRequest, SerialUsers, SerialInv, NEW w \in Workers, Receive(w)
  PROVE  SerialInv'
<1>1. PICK r \in Requests : ~Busy(r.user) /\ req' = [req EXCEPT ![w] = r]
  BY DEF Receive
<1>2. /\ wpc[w] = "idle" /\ wpc'[w] = "exists" /\ req'[w] = r
      /\ \A v \in Workers : v # w => wpc'[v] = wpc[v] /\ req'[v] = req[v]
      /\ UNCHANGED <<members, joined, exists, ok, crashes, torn>>
      /\ answer' = NoAnswer
  BY <1>1 DEF Receive, Goto, TypeOK
<1>3. \A v \in Workers : v # w => U(v)' = U(v) /\ G(v)' = G(v)
  BY <1>2 DEF U, G
<1>4. OneRequestPerUser'
  <2>1. ASSUME NEW v \in Workers, v # w, wpc[v] # "idle" PROVE U(v)' # U(w)'
    <3>1. U(w)' = r.user /\ U(v)' = U(v)
      BY <1>2, <1>3, <2>1 DEF U
    <3> QED BY <1>1, <2>1, <3>1 DEF Busy
  <2>2. ASSUME NEW v \in Workers, NEW x \in Workers, v # x, v # w, x # w,
               wpc[v] # "idle", wpc[x] # "idle"
        PROVE  U(v)' # U(x)'
    BY <1>3, <2>2 DEF SerialInv, OneRequestPerUser
  <2> QED BY <1>2, <2>1, <2>2 DEF OneRequestPerUser
<1>5. CommandsTookEffect'
  <2>1. Effect(w)'
    BY <1>2 DEF Effect
  <2>2. ASSUME NEW v \in Workers, v # w PROVE Effect(v)'
    <3>1. Effect(v) /\ U(v)' = U(v) /\ G(v)' = G(v)
      BY <1>3, <2>2 DEF SerialInv, CommandsTookEffect
    <3> QED BY <1>2, <2>2, <3>1 DEF Effect
  <2> QED BY <2>1, <2>2 DEF CommandsTookEffect
<1>6. DamageInv'
  <2>1. ASSUME NEW u \in Users, NEW g \in Groups, Unseen(u, g)', ~Joining(u, g)'
        PROVE  Unseen(u, g) /\ ~Joining(u, g)
    <3>1. Unseen(u, g)
      BY <2>1, <1>2 DEF Unseen
    <3>2. ASSUME NEW v \in Workers, wpc[v] = "sadd2", U(v) = u, G(v) = g PROVE FALSE
      <4>1. v # w /\ wpc'[v] = "sadd2" /\ U(v)' = u /\ G(v)' = g
        BY <3>2, <1>2, <1>3
      <4> QED BY <2>1, <4>1 DEF Joining
    <3> QED BY <3>1, <3>2 DEF Joining
  <2> QED BY <2>1, <1>2, NoNewDamage DEF SerialInv
<1>7. AnswersShowOwnChange'
  BY <1>2 DEF AnswersShowOwnChange
<1> QED BY <1>4, <1>5, <1>6, <1>7 DEF SerialInv

(* Handlers that are left, by an answer or by a crash, leave the others as *)
(* they are.                                                               *)
LEMMA LeaveStep ==
  ASSUME TypeOK, ServesRequest, SerialInv, NEW W \in SUBSET Workers, Leave(W),
         UNCHANGED <<members, joined>>
  PROVE  /\ OneRequestPerUser' /\ CommandsTookEffect'
         /\ \A v \in W : wpc'[v] = "idle"
         /\ \A v \in Workers \ W : wpc'[v] = wpc[v] /\ U(v)' = U(v) /\ G(v)' = G(v)
         /\ \A u \in Users, g \in Groups : Unseen(u, g)' <=> Unseen(u, g)
<1>1. /\ \A v \in W : wpc'[v] = "idle"
      /\ \A v \in Workers \ W : /\ wpc'[v] = wpc[v] /\ req'[v] = req[v]
                                /\ ok'[v] = ok[v] /\ exists'[v] = exists[v]
  BY DEF Leave, TypeOK
<1>2. \A v \in Workers \ W : U(v)' = U(v) /\ G(v)' = G(v)
  BY <1>1 DEF U, G
<1>3. OneRequestPerUser'
  <2> SUFFICES ASSUME NEW v \in Workers, NEW x \in Workers, v # x,
                      wpc'[v] # "idle", wpc'[x] # "idle"
               PROVE  U(v)' # U(x)'
    BY DEF OneRequestPerUser
  <2>1. v \in Workers \ W /\ x \in Workers \ W
    BY <1>1
  <2> QED BY <1>1, <1>2, <2>1 DEF SerialInv, OneRequestPerUser
<1>4. CommandsTookEffect'
  <2>1. ASSUME NEW v \in W PROVE Effect(v)'
    BY <1>1 DEF Effect
  <2>2. ASSUME NEW v \in Workers \ W PROVE Effect(v)'
    <3>1. Effect(v) /\ U(v)' = U(v) /\ G(v)' = G(v)
      BY <1>2 DEF SerialInv, CommandsTookEffect
    <3> QED BY <1>1, <3>1 DEF Effect
  <2> QED BY <2>1, <2>2 DEF CommandsTookEffect
<1>5. \A u \in Users, g \in Groups : Unseen(u, g)' <=> Unseen(u, g)
  BY DEF Unseen
<1> QED BY <1>1, <1>2, <1>3, <1>4, <1>5

(* The answer is sent and the handler left.                                *)
LEMMA AnswerStep ==
  ASSUME TypeOK, ServesRequest, SerialInv, NEW w \in Workers, Smembers(w)
  PROVE  SerialInv'
<1>1. /\ wpc[w] = "smembers" /\ Leave({w}) /\ UNCHANGED <<members, joined, crashes, torn>>
      /\ answer' = [req |-> req[w], ok |-> ok[w], error |-> ErrorOf(w), joined |-> joined[U(w)]]
  BY DEF Smembers
<1>2. /\ OneRequestPerUser' /\ CommandsTookEffect'
      /\ \A v \in Workers \ {w} : wpc'[v] = wpc[v] /\ U(v)' = U(v) /\ G(v)' = G(v)
      /\ \A u \in Users, g \in Groups : Unseen(u, g)' <=> Unseen(u, g)
  BY <1>1, LeaveStep
<1>3. DamageInv'
  <2>1. ASSUME NEW u \in Users, NEW g \in Groups, Unseen(u, g)', ~Joining(u, g)'
        PROVE  Unseen(u, g) /\ ~Joining(u, g)
    <3>1. ASSUME NEW v \in Workers, wpc[v] = "sadd2", U(v) = u, G(v) = g PROVE FALSE
      <4>1. v \in Workers \ {w}
        BY <1>1, <3>1
      <4>2. wpc'[v] = "sadd2" /\ U(v)' = u /\ G(v)' = g
        BY <3>1, <4>1, <1>2
      <4> QED BY <2>1, <4>2 DEF Joining
    <3> QED BY <1>2, <2>1, <3>1 DEF Joining
  <2> QED BY <1>1, <2>1, NoNewDamage DEF SerialInv
<1>4. AnswersShowOwnChange'
  <2>1. Effect(w)
    BY DEF SerialInv, CommandsTookEffect
  <2>2. /\ answer'.req = req[w] /\ answer'.ok = ok[w]
        /\ answer'.error = ErrorOf(w) /\ answer'.joined = joined[U(w)]
    BY <1>1
  <2>3. req[w].op \in {"JOIN", "LEAVE"} /\ ErrorOf(w) # "missing" => (ok[w] \/ exists[w])
    BY DEF ErrorOf
  <2>4. /\ req[w].op = "CREATE" /\ ok[w] => G(w) \in joined[U(w)]
        /\ req[w].op = "JOIN" /\ ErrorOf(w) # "missing" => G(w) \in joined[U(w)]
        /\ req[w].op = "LEAVE" /\ ErrorOf(w) # "missing" => G(w) \notin joined[U(w)]
    BY <1>1, <2>1, <2>3 DEF Effect
  <2> QED BY <2>2, <2>4 DEF AnswersShowOwnChange, G
<1> QED BY <1>2, <1>3, <1>4 DEF SerialInv

(* A process dies with all of its loops: the memberships they were between *)
(* the two commands of are torn, and no others.                            *)
LEMMA CrashStep ==
  ASSUME TypeOK, ServesRequest, SerialInv, NEW s \in Servers, Crash(s)
  PROVE  SerialInv'
<1>1. /\ Leave(loops[s]) /\ UNCHANGED <<members, joined, answer>> /\ crashes' = crashes + 1
      /\ torn' = torn \cup {<<U(w), G(w)>> : w \in {v \in loops[s] : wpc[v] = "sadd2"}}
      /\ loops[s] \in SUBSET Workers
  BY DEF Crash, TypeOK
<1>2. /\ OneRequestPerUser' /\ CommandsTookEffect'
      /\ \A v \in Workers \ loops[s] : wpc'[v] = wpc[v] /\ U(v)' = U(v) /\ G(v)' = G(v)
      /\ \A u \in Users, g \in Groups : Unseen(u, g)' <=> Unseen(u, g)
  BY <1>1, LeaveStep
<1>3. ASSUME NEW u \in Users, NEW g \in Groups, Unseen(u, g)'
      PROVE  Joining(u, g)' \/ <<u, g>> \in torn'
  <2>1. CASE <<u, g>> \in torn
    BY <1>1, <2>1
  <2>2. CASE <<u, g>> \notin torn
    <3>1. PICK v \in Workers : wpc[v] = "sadd2" /\ U(v) = u /\ G(v) = g
      BY <1>2, <1>3, <2>2 DEF SerialInv, DamageInv, Joining
    <3>2. CASE v \in loops[s]
      BY <1>1, <3>1, <3>2
    <3>3. CASE v \in Workers \ loops[s]
      <4>1. wpc'[v] = "sadd2" /\ U(v)' = u /\ G(v)' = g
        BY <1>2, <3>1, <3>3
      <4> QED BY <4>1 DEF Joining
    <3> QED BY <3>2, <3>3
  <2> QED BY <2>1, <2>2
<1>4. crashes' # 0
  <2>1. crashes \in Nat
    BY GroupStoreAssumption DEF TypeOK
  <2> QED BY <1>1, <2>1
<1>5. DamageInv'
  BY <1>3, <1>4 DEF DamageInv
<1>6. AnswersShowOwnChange'
  BY <1>1 DEF SerialInv, AnswersShowOwnChange
<1> QED BY <1>2, <1>5, <1>6 DEF SerialInv
-----------------------------------------------------------------------------
(* Before the first request.                                               *)
LEMMA InvInit == Init => IInv
<1> SUFFICES ASSUME Init PROVE IInv
  OBVIOUS
<1>1. TypeOK
  BY GroupStoreAssumption DEF Init, Deployments, TypeOK
<1>2. ServesRequest
  BY DEF Init, ServesRequest
<1>3. DamageInv
  <2>1. \A u \in Users, g \in Groups : ~Unseen(u, g)
    BY DEF Init, Unseen
  <2> QED BY <2>1 DEF Init, DamageInv
<1>4. SerialInv
  BY <1>3 DEF Init, SerialInv, OneRequestPerUser, CommandsTookEffect, Effect, AnswersShowOwnChange
<1> QED BY <1>1, <1>2, <1>4 DEF IInv

(* Every step keeps the invariant.                                         *)
LEMMA InvStep == IInv /\ [Next]_vars => IInv'
<1> SUFFICES ASSUME IInv, [Next]_vars PROVE IInv'
  OBVIOUS
<1>1. TypeOK' /\ ServesRequest'
  BY TypeStep, RequestStep DEF IInv
<1>2. ASSUME SerialUsers PROVE SerialInv'
  <2>1. TypeOK /\ ServesRequest /\ SerialInv
    BY <1>2 DEF IInv
  <2>2. CASE UNCHANGED vars
    <3>1. OneRequestPerUser' /\ CommandsTookEffect' /\ AnswersShowOwnChange'
      BY <2>1, <2>2 DEF vars, SerialInv, OneRequestPerUser, CommandsTookEffect, Effect,
         AnswersShowOwnChange, U, G
    <3>2. DamageInv'
      BY <2>1, <2>2 DEF vars, SerialInv, DamageInv, Unseen, Joining, U, G
    <3> QED BY <3>1, <3>2 DEF SerialInv
  <2>3. ASSUME NEW w \in Workers, Receive(w) \/ Step(w) PROVE SerialInv'
    BY <1>2, <2>1, <2>3, ReceiveStep, CommandStep, AnswerStep
  <2>4. ASSUME NEW s \in Servers, Crash(s) PROVE SerialInv'
    BY <2>1, <2>4, CrashStep
  <2> QED BY <2>1, <2>2, <2>3, <2>4 DEF Next, TypeOK
<1> QED BY <1>1, <1>2 DEF IInv

(* The group store stays typed.                                            *)
THEOREM GroupTypes == Spec => []TypeOK
<1>1. IInv => TypeOK
  BY DEF IInv
<1> QED BY <1>1, InvInit, InvStep, PTL DEF Spec

(* If no server crashes and users send one request at a time, nobody gets  *)
(* the messages of a group that is not in their list, however the commands *)
(* of other users' requests, deletions of groups included, interleave.     *)
THEOREM MembershipVisible == Spec => []MembersSeeTheirGroups
<1>1. IInv => MembersSeeTheirGroups
  <2> SUFFICES ASSUME IInv, SerialUsers, crashes = 0,
                      NEW u \in Users, NEW g \in Groups, Unseen(u, g)
               PROVE  Busy(u)
    BY DEF MembersSeeTheirGroups
  <2>3. Joining(u, g)
    BY DEF IInv, SerialInv, DamageInv
  <2>4. PICK w \in Workers : wpc[w] = "sadd2" /\ U(w) = u
    BY <2>3 DEF Joining
  <2> QED BY <2>4 DEF Busy
<1> QED BY <1>1, InvInit, InvStep, PTL DEF Spec

(* If users send one request at a time, the damage of crashes is confined  *)
(* to the memberships whose two SADD commands a crash came between, until  *)
(* a JOIN or a LEAVE mends them, however many servers crash, with however  *)
(* many loops, and whatever is requested in between.                       *)
THEOREM DamageConfined == Spec => []CrashDamageConfined
<1>1. IInv => CrashDamageConfined
  <2> SUFFICES ASSUME IInv, SerialUsers, NEW u \in Users, NEW g \in Groups,
                      ~Busy(u), Unseen(u, g)
               PROVE  <<u, g>> \in torn
    BY DEF CrashDamageConfined
  <2>1. ~Joining(u, g)
    BY DEF Joining, Busy
  <2> QED BY <2>1 DEF IInv, SerialInv, DamageInv
<1> QED BY <1>1, InvInit, InvStep, PTL DEF Spec

(* The answer to a request always shows its own effect, after crashes too. *)
THEOREM AnswersTruthful == Spec => []AnswersShowOwnChange
<1>1. IInv => AnswersShowOwnChange
  BY DEF IInv, SerialInv, AnswersShowOwnChange
<1> QED BY <1>1, InvInit, InvStep, PTL DEF Spec
-----------------------------------------------------------------------------
(***************************************************************************)
(* One event loop: the service is atomic                                   *)
(***************************************************************************)

(* What w knows when nobody else runs: the two sets agree outside the pair *)
(* of commands it is in the middle of, the first of the pair foretells the *)
(* second, and what EXISTS and SCARD said is still true.                   *)
Solo(w) ==
  /\ \A u \in Users, g \in Groups :
       \/ u \in members[g] <=> g \in joined[u]
       \/ wpc[w] \in {"sadd2", "srem2"} /\ u = U(w) /\ g = G(w)
  /\ wpc[w] \in {"idle", "exists"} => ok[w] = FALSE
  /\ wpc[w] = "sadd1" => (req[w].op = "CREATE" <=> members[G(w)] = {})
  /\ wpc[w] = "sadd2" => first[w] = (G(w) \notin joined[U(w)]) /\ U(w) \in members[G(w)]
  /\ wpc[w] = "srem2" => first[w] = (G(w) \in joined[U(w)]) /\ U(w) \notin members[G(w)]
  /\ wpc[w] = "del1" => members[G(w)] = {}
  /\ wpc[w] = "del2" => joined[U(w)] = {}

SoloInv == \A w \in Workers : Running = {w} /\ crashes = 0 => Solo(w)

(* A group exists in the service if group:<g>:users does at Redis.         *)
LEMMA ServiceExists ==
  ASSUME TypeOK, NEW w \in Workers, NEW g \in Groups
  PROVE  Service(w)!Exists(g) <=> members[g] # {}
<1>1. members[g] \subseteq Users
  BY DEF TypeOK
<1>2. \A u \in Users : <<u, g>> \in Membership <=> u \in members[g]
  BY DEF Membership
<1> QED BY <1>1, <1>2 DEF Service!Exists

(* A command that changes none of the memberships, and not the outcome, is *)
(* no step of the service.                                                 *)
LEMMA ServiceStutters ==
  ASSUME NEW w \in Workers, members' = members, req' = req,
         Phase(w)' = Phase(w), Outcome(w)' = Outcome(w)
  PROVE  [Service(w)!Next]_(Service(w)!vars)
<1>1. Membership' = Membership
  BY DEF Membership
<1> QED BY <1>1 DEF Service!vars

(* Every step of the only worker keeps what it knows, and is a step of the *)
(* service.                                                                *)
LEMMA SoloStep ==
  ASSUME TypeOK, ServesRequest, NEW w \in Workers, Solo(w), Receive(w) \/ Step(w)
  PROVE  Solo(w)' /\ [Service(w)!Next]_(Service(w)!vars)
<1>u. wpc[w] # "idle" => U(w) \in Users /\ G(w) \in Groups /\ req[w] \in Requests
  BY DEF ServesRequest, Requests, U, G
<1>m. \A u \in Users, g \in Groups : <<u, g>> \in Membership <=> u \in members[g]
  BY DEF Membership
<1>1. CASE Receive(w)
  <2>1. PICK r \in Requests : req' = [req EXCEPT ![w] = r]
    BY <1>1 DEF Receive
  <2>2. /\ wpc[w] = "idle" /\ wpc'[w] = "exists" /\ req'[w] \in Requests
        /\ UNCHANGED <<members, joined, exists, first, ok, crashes>>
    BY <1>1, <2>1 DEF Receive, Goto, TypeOK
  <2>3. Solo(w)'
    BY <2>2 DEF Solo
  <2>4. Phase(w) = "idle" /\ Phase(w)' = "requested" /\ Membership' = Membership
    BY <2>2 DEF Phase, Membership
  <2>5. Service(w)!Receive
    BY <2>2, <2>4 DEF Service!Receive, Requests
  <2> QED BY <2>3, <2>5 DEF Service!Next
<1>2. CASE ExistsCmd(w)
  <2>1. /\ wpc[w] = "exists" /\ wpc'[w] \in {"sadd1", "srem1", "smembers"}
        /\ UNCHANGED <<members, joined, req, first>>
        /\ ok'[w] = (req[w].op = "QUERY") /\ ok[w] = FALSE
        /\ wpc'[w] = "sadd1" => (req[w].op = "CREATE" <=> members[G(w)] = {})
        /\ wpc'[w] = "sadd1" => req[w].op \in {"CREATE", "JOIN"}
        /\ wpc'[w] = "srem1" => req[w].op = "LEAVE"
        /\ wpc'[w] = "smembers" =>
             /\ req[w].op = "CREATE" => members[G(w)] # {}
             /\ req[w].op = "JOIN" => members[G(w)] = {}
             /\ req[w].op = "LEAVE" => members[G(w)] = {}
    BY <1>2 DEF ExistsCmd, Goto, TypeOK, Solo
  <2>2. U(w)' = U(w) /\ G(w)' = G(w) /\ Membership' = Membership
    BY <2>1 DEF U, G, Membership
  <2>3. Solo(w)'
    BY <2>1, <2>2 DEF Solo
  <2>4. CASE wpc'[w] \in {"sadd1", "srem1"}
    <3>1. Phase(w)' = Phase(w)
      BY <2>1, <2>4 DEF Phase
    <3>2. Outcome(w)' = Outcome(w)
      BY <2>1, <2>4 DEF Outcome
    <3> QED BY <2>1, <2>3, <3>1, <3>2, ServiceStutters
  <2>5. CASE wpc'[w] = "smembers"
    <3>1. Phase(w) = "requested" /\ Phase(w)' = "done"
      BY <2>1, <2>5 DEF Phase
    <3>2. Outcome(w)' = (req[w].op = "QUERY")
      BY <2>1, <2>5 DEF Outcome
    <3>3. U(w) \in Users /\ G(w) \in Groups /\ req[w].user = U(w) /\ req[w].group = G(w)
      BY <1>u, <2>1 DEF U, G
    <3>4. Service(w)!Exists(G(w)) <=> members[G(w)] # {}
      BY <3>3, ServiceExists
    <3>5. members[G(w)] = {} => <<U(w), G(w)>> \notin Membership
      BY <3>3, <1>m
    <3>6. Service(w)!Perform
      <4>1. CASE req[w].op = "CREATE"
        BY <4>1, <2>1, <2>2, <2>5, <3>1, <3>2, <3>3, <3>4 DEF Service!Perform
      <4>2. CASE req[w].op = "JOIN"
        BY <4>2, <2>1, <2>2, <2>5, <3>1, <3>2, <3>3, <3>4 DEF Service!Perform
      <4>3. CASE req[w].op = "LEAVE"
        <5>1. <<U(w), G(w)>> \notin Membership
          BY <4>3, <2>1, <2>5, <3>5
        <5>2. Membership' = Membership \ {<<U(w), G(w)>>}
          BY <5>1, <2>2
        <5> QED BY <4>3, <5>1, <5>2, <2>1, <3>1, <3>2, <3>3 DEF Service!Perform
      <4>4. CASE req[w].op \notin {"CREATE", "JOIN", "LEAVE"}
        BY <4>4, <2>1, <2>2, <3>1, <3>2 DEF Service!Perform
      <4> QED BY <4>1, <4>2, <4>3, <4>4
    <3> QED BY <2>3, <3>6 DEF Service!Next
  <2> QED BY <2>1, <2>4, <2>5
<1>3. CASE Sadd1(w)
  <2>u. U(w) \in Users /\ G(w) \in Groups /\ req[w].user = U(w) /\ req[w].group = G(w)
    BY <1>3, <1>u DEF Sadd1, U, G
  <2>1. /\ wpc[w] = "sadd1" /\ wpc'[w] = "sadd2" /\ UNCHANGED <<joined, req, ok>>
        /\ first'[w] = (U(w) \notin members[G(w)])
        /\ members'[G(w)] = members[G(w)] \cup {U(w)}
        /\ \A g \in Groups : g # G(w) => members'[g] = members[g]
        /\ U(w)' = U(w) /\ G(w)' = G(w)
    BY <1>3, <2>u DEF Sadd1, Goto, TypeOK, U, G
  <2>2. U(w) \in members[G(w)] <=> G(w) \in joined[U(w)]
    BY <2>1, <2>u DEF Solo
  <2>3. \A u \in Users, g \in Groups : ~(u = U(w) /\ g = G(w)) =>
          (u \in members'[g] <=> g \in joined'[u])
    BY <2>1 DEF Solo
  <2>4. Solo(w)'
    BY <2>1, <2>2, <2>3 DEF Solo
  <2>5. Membership' = Membership \cup {<<U(w), G(w)>>}
    <3>1. \A u \in Users, g \in Groups :
            u \in members'[g] <=> u \in members[g] \/ <<u, g>> = <<U(w), G(w)>>
      BY <2>1
    <3> QED BY <3>1, <2>u DEF Membership
  <2>6. req[w].op \in {"CREATE", "JOIN"} /\ (req[w].op = "CREATE" <=> members[G(w)] = {})
    BY <2>1 DEF Solo, ServesRequest
  <2>7. Phase(w) = "requested" /\ Phase(w)' = "done" /\ Outcome(w)' = (U(w) \notin members[G(w)])
    BY <2>1 DEF Phase, Outcome
  <2>8. Service(w)!Exists(G(w)) <=> members[G(w)] # {}
    BY <2>u, ServiceExists
  <2>9. <<U(w), G(w)>> \in Membership <=> U(w) \in members[G(w)]
    BY <2>u, <1>m
  <2>10. Service(w)!Perform
    <3>1. CASE req[w].op = "CREATE"
      <4>1. Outcome(w)' = TRUE
        BY <3>1, <2>6, <2>7
      <4> QED BY <4>1, <3>1, <2>u, <2>1, <2>5, <2>6, <2>7, <2>8 DEF Service!Perform
    <3>2. CASE req[w].op = "JOIN"
      <4>1. Membership' = IF Outcome(w)' THEN Membership \cup {<<U(w), G(w)>>} ELSE Membership
        BY <2>5, <2>7, <2>9
      <4>2. Outcome(w)' = (Service(w)!Exists(G(w)) /\ <<U(w), G(w)>> \notin Membership)
        BY <3>2, <2>6, <2>7, <2>8, <2>9
      <4> QED BY <4>1, <4>2, <3>2, <2>u, <2>1, <2>7 DEF Service!Perform
    <3> QED BY <3>1, <3>2, <2>6
  <2> QED BY <2>4, <2>10 DEF Service!Next
<1>4. CASE Sadd2(w)
  <2>u. U(w) \in Users /\ G(w) \in Groups
    BY <1>4, <1>u DEF Sadd2
  <2>1. /\ wpc[w] = "sadd2" /\ wpc'[w] = "smembers" /\ UNCHANGED <<members, req, first>>
        /\ ok'[w] = (first[w] /\ G(w) \notin joined[U(w)])
        /\ joined'[U(w)] = joined[U(w)] \cup {G(w)}
        /\ \A u \in Users : u # U(w) => joined'[u] = joined[u]
    BY <1>4, <2>u DEF Sadd2, Goto, TypeOK
  <2>2. first[w] = (G(w) \notin joined[U(w)]) /\ U(w) \in members[G(w)]
    BY <2>1 DEF Solo
  <2>3. \A u \in Users, g \in Groups : u \in members'[g] <=> g \in joined'[u]
    <3> TAKE u \in Users, g \in Groups
    <3>1. CASE u = U(w) /\ g = G(w)
      BY <3>1, <2>1, <2>2
    <3>2. CASE ~(u = U(w) /\ g = G(w))
      <4>1. u \in members[g] <=> g \in joined[u]
        BY <3>2 DEF Solo
      <4> QED BY <3>2, <4>1, <2>1
    <3> QED BY <3>1, <3>2
  <2>4. Solo(w)'
    BY <2>1, <2>3 DEF Solo
  <2>5. Phase(w)' = Phase(w) /\ Outcome(w)' = Outcome(w)
    BY <2>1, <2>2 DEF Phase, Outcome
  <2> QED BY <2>1, <2>4, <2>5, ServiceStutters
<1>5. CASE Srem1(w)
  <2>u. U(w) \in Users /\ G(w) \in Groups /\ req[w].user = U(w) /\ req[w].group = G(w)
    BY <1>5, <1>u DEF Srem1, U, G
  <2>1. /\ wpc[w] = "srem1" /\ wpc'[w] = "srem2" /\ UNCHANGED <<joined, req, ok>>
        /\ first'[w] = (U(w) \in members[G(w)])
        /\ members'[G(w)] = members[G(w)] \ {U(w)}
        /\ \A g \in Groups : g # G(w) => members'[g] = members[g]
        /\ U(w)' = U(w) /\ G(w)' = G(w)
    BY <1>5, <2>u DEF Srem1, Goto, TypeOK, U, G
  <2>2. U(w) \in members[G(w)] <=> G(w) \in joined[U(w)]
    BY <2>1, <2>u DEF Solo
  <2>3. \A u \in Users, g \in Groups : ~(u = U(w) /\ g = G(w)) =>
          (u \in members'[g] <=> g \in joined'[u])
    BY <2>1 DEF Solo
  <2>4. Solo(w)'
    BY <2>1, <2>2, <2>3 DEF Solo
  <2>5. Membership' = Membership \ {<<U(w), G(w)>>}
    <3>1. \A u \in Users, g \in Groups :
            u \in members'[g] <=> u \in members[g] /\ <<u, g>> # <<U(w), G(w)>>
      BY <2>1
    <3> QED BY <3>1, <2>u DEF Membership
  <2>6. req[w].op = "LEAVE"
    BY <2>1 DEF ServesRequest
  <2>7. Phase(w) = "requested" /\ Phase(w)' = "done" /\ Outcome(w)' = (U(w) \in members[G(w)])
    BY <2>1 DEF Phase, Outcome
  <2>8. <<U(w), G(w)>> \in Membership <=> U(w) \in members[G(w)]
    BY <2>u, <1>m
  <2>9. Service(w)!Perform
    BY <2>u, <2>1, <2>5, <2>6, <2>7, <2>8 DEF Service!Perform
  <2> QED BY <2>4, <2>9 DEF Service!Next
<1>6. CASE Srem2(w)
  <2>u. U(w) \in Users /\ G(w) \in Groups
    BY <1>6, <1>u DEF Srem2
  <2>1. /\ wpc[w] = "srem2" /\ wpc'[w] = "scard1" /\ UNCHANGED <<members, req, first>>
        /\ ok'[w] = (first[w] /\ G(w) \in joined[U(w)])
        /\ joined'[U(w)] = joined[U(w)] \ {G(w)}
        /\ \A u \in Users : u # U(w) => joined'[u] = joined[u]
    BY <1>6, <2>u DEF Srem2, Goto, TypeOK
  <2>2. first[w] = (G(w) \in joined[U(w)]) /\ U(w) \notin members[G(w)]
    BY <2>1 DEF Solo
  <2>3. \A u \in Users, g \in Groups : u \in members'[g] <=> g \in joined'[u]
    <3> TAKE u \in Users, g \in Groups
    <3>1. CASE u = U(w) /\ g = G(w)
      BY <3>1, <2>1, <2>2
    <3>2. CASE ~(u = U(w) /\ g = G(w))
      <4>1. u \in members[g] <=> g \in joined[u]
        BY <3>2 DEF Solo
      <4> QED BY <3>2, <4>1, <2>1
    <3> QED BY <3>1, <3>2
  <2>4. Solo(w)'
    BY <2>1, <2>3 DEF Solo
  <2>5. Phase(w)' = Phase(w)
    BY <2>1 DEF Phase
  <2>6. ok'[w] = first[w]
    <3>1. first[w] = (G(w) \in joined[U(w)])
      BY <2>2
    <3>2. ok'[w] = (first[w] /\ G(w) \in joined[U(w)])
      BY <2>1
    <3>3. CASE G(w) \in joined[U(w)]
      <4>1. first[w] = TRUE
        BY <3>1, <3>3
      <4> QED BY <3>2, <3>3, <4>1
    <3>4. CASE G(w) \notin joined[U(w)]
      <4>0. first[w] \in BOOLEAN
        BY DEF TypeOK
      <4>1. first[w] = FALSE
        BY <3>1, <3>4, <4>0
      <4>2. ok'[w] = FALSE
        BY <3>2, <3>4
      <4> QED BY <4>1, <4>2
    <3> QED BY <3>3, <3>4
  <2>7. Outcome(w)' = ok'[w] /\ Outcome(w) = first[w]
    BY <2>1 DEF Outcome
  <2> QED BY <2>1, <2>4, <2>5, <2>6, <2>7, ServiceStutters
<1>7. CASE Scard1(w) \/ Scard2(w)
  <2>1. /\ wpc[w] \in {"scard1", "scard2"} /\ wpc'[w] \in {"del1", "scard2", "del2", "smembers"}
        /\ wpc'[w] = "del1" => members[G(w)] = {}
        /\ wpc'[w] = "del2" => joined[U(w)] = {}
        /\ UNCHANGED <<members, joined, req, first, ok>>
    <3>1. CASE Scard1(w)
      BY <3>1 DEF Scard1, Goto, TypeOK
    <3>2. CASE Scard2(w)
      BY <3>2 DEF Scard2, Goto, TypeOK
    <3> QED BY <1>7, <3>1, <3>2
  <2>2. U(w)' = U(w) /\ G(w)' = G(w)
    BY <2>1 DEF U, G
  <2>3. \A u \in Users, g \in Groups : u \in members[g] <=> g \in joined[u]
    BY <2>1 DEF Solo
  <2>4. Solo(w)'
    BY <2>1, <2>2, <2>3 DEF Solo
  <2>5. Phase(w)' = Phase(w) /\ Outcome(w)' = Outcome(w)
    BY <2>1 DEF Phase, Outcome
  <2> QED BY <2>1, <2>4, <2>5, ServiceStutters
<1>8. CASE Del1(w) \/ Del2(w)
  <2>u. U(w) \in Users /\ G(w) \in Groups
    BY <1>8, <1>u DEF Del1, Del2
  <2>1. /\ wpc[w] \in {"del1", "del2"} /\ wpc'[w] \in {"scard2", "smembers"}
        /\ UNCHANGED <<req, first, ok>>
        /\ members' = members /\ joined' = joined
    <3>1. CASE Del1(w)
      <4>1. members[G(w)] = {} /\ members' = [members EXCEPT ![G(w)] = {}]
        BY <3>1 DEF Del1, Solo
      <4>2. members' = members
        BY <4>1, <2>u DEF TypeOK
      <4> QED BY <3>1, <4>2 DEF Del1, Goto, TypeOK
    <3>2. CASE Del2(w)
      <4>1. joined[U(w)] = {} /\ joined' = [joined EXCEPT ![U(w)] = {}]
        BY <3>2 DEF Del2, Solo
      <4>2. joined' = joined
        BY <4>1, <2>u DEF TypeOK
      <4> QED BY <3>2, <4>2 DEF Del2, Goto, TypeOK
    <3> QED BY <1>8, <3>1, <3>2
  <2>2. \A u \in Users, g \in Groups : u \in members[g] <=> g \in joined[u]
    BY <2>1 DEF Solo
  <2>3. Solo(w)'
    BY <2>1, <2>2 DEF Solo
  <2>4. Phase(w)' = Phase(w) /\ Outcome(w)' = Outcome(w)
    BY <2>1 DEF Phase, Outcome
  <2> QED BY <2>1, <2>3, <2>4, ServiceStutters
<1>9. CASE Smembers(w)
  <2>1. /\ wpc[w] = "smembers" /\ wpc'[w] = "idle" /\ ok'[w] = FALSE
        /\ UNCHANGED <<members, joined>>
    BY <1>9 DEF Smembers, Leave, TypeOK
  <2>2. \A u \in Users, g \in Groups : u \in members[g] <=> g \in joined[u]
    BY <2>1 DEF Solo
  <2>3. Solo(w)'
    BY <2>1, <2>2 DEF Solo
  <2>4. Phase(w) = "done" /\ Phase(w)' = "idle" /\ Membership' = Membership
    BY <2>1 DEF Phase, Membership
  <2>5. Service(w)!Reply
    BY <2>4 DEF Service!Reply
  <2> QED BY <2>3, <2>5 DEF Service!Next
<1> QED BY <1>1, <1>2, <1>3, <1>4, <1>5, <1>6, <1>7, <1>8, <1>9 DEF Step

(* With one event loop, and until it crashes, the series of Redis commands *)
(* of onGroupRequest implements one atomic change of the membership        *)
(* relation, whatever users and groups there are.                          *)
THEOREM ServiceRefinement == Spec => ImplementsGroupService
<1>1. Init => SoloInv
  BY DEF Init, SoloInv, Solo
<1> DEFINE StepOK == \A w \in Workers :
                (Running = {w} /\ crashes' = 0) => [Service(w)!Next]_(Service(w)!vars)
<1>2. ASSUME IInv, SoloInv, [Next]_vars PROVE SoloInv' /\ [StepOK]_vars
  <2>0. TypeOK /\ ServesRequest /\ crashes \in Nat
    BY <1>2, GroupStoreAssumption DEF IInv, TypeOK
  <2>1. CASE UNCHANGED vars
    <3>1. \A w \in Workers : Solo(w)' <=> Solo(w)
      BY <2>1 DEF vars, Solo, U, G
    <3> QED BY <1>2, <2>1, <3>1 DEF SoloInv, vars, Running
  <2>c. ASSUME NEW s \in Servers, Crash(s) PROVE SoloInv' /\ StepOK
    <3>1. crashes' # 0
      BY <2>0, <2>c DEF Crash
    <3> QED BY <3>1 DEF SoloInv
  <2>2. ASSUME NEW s \in Servers, NEW w \in loops[s], Receive(w) \/ Step(w)
        PROVE  SoloInv' /\ StepOK
    <3>1. w \in Workers /\ w \in Running /\ loops' = loops
      BY <2>0, <2>2 DEF TypeOK, Running, Receive, Step, ExistsCmd, Sadd1, Sadd2, Srem1, Srem2,
         Scard1, Del1, Scard2, Del2, Smembers
    <3>2. Running' = Running
      BY <3>1 DEF Running
    <3>3. CASE Receive(w) \/ Step(w)
      <4>1. crashes' = crashes
        BY <3>3 DEF Receive, Step, ExistsCmd, Sadd1, Sadd2, Srem1, Srem2, Scard1, Del1,
           Scard2, Del2, Smembers
      <4>2. ASSUME NEW v \in Workers, Running = {v}, crashes = 0
            PROVE  Solo(v)' /\ [Service(v)!Next]_(Service(v)!vars)
        <5>1. v = w /\ Solo(w)
          BY <1>2, <3>1, <4>2 DEF SoloInv
        <5>2. Solo(w)' /\ [Service(w)!Next]_(Service(w)!vars)
          BY <5>1, <2>0, <3>1, <3>3, SoloStep
        <5> QED BY <5>1, <5>2
      <4> QED BY <3>2, <4>1, <4>2 DEF SoloInv
    <3> QED BY <2>2, <3>3
  <2> QED BY <1>2, <2>1, <2>2, <2>c DEF Next
<1> QED BY <1>1, <1>2, InvInit, InvStep, PTL DEF Spec, ImplementsGroupService
=============================================================================
