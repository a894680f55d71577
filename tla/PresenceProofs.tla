--------------------------- MODULE PresenceProofs ---------------------------
(***************************************************************************)
(* Proofs about Presence, for any number of loops, connections, users and  *)
(* Redis servers.                                                          *)
(***************************************************************************)
EXTENDS Presence, TLAPS

-----------------------------------------------------------------------------
(* The inductive invariant.  The checked properties speak of loops between *)
(* two callbacks; here the states inside a callback are described as well. *)

(* A handler writes to Redis exactly while its loop holds the mutex.       *)
LockInv ==
  \A l \in Loops : pc[l] \in {"subscribe", "unsubscribe"} <=> mutex = l

(* What a handler that waits, or writes to Redis, knows about its loop.    *)
HandlerInv ==
  \A l \in Loops :
    /\ pc[l] \in {"add", "subscribe"} => local[l][who[l]] # {}
    /\ pc[l] \in {"remove", "unsubscribe"} => local[l][who[l]] = {}
    /\ pc[l] = "remove" => l \in online[who[l]]
    /\ pc[l] \in {"subscribe", "unsubscribe"} => online[who[l]] = {}

(* The index and the loops' own connections differ only for the user that  *)
(* a loop's handler is working on.                                         *)
IndexInv ==
  \A l \in Loops, u \in Users :
    /\ l \in online[u] => (local[l][u] # {} \/ (pc[l] = "remove" /\ who[l] = u))
    /\ local[l][u] # {} =>
         (l \in online[u] \/ (pc[l] \in {"add", "subscribe"} /\ who[l] = u))

Good(u) == u # Guest /\ accounts[u] \in Passwords /\ accounts[u] # EmptyPassword

AccountInv ==
  /\ accounts[Guest] = NoAccount
  /\ \A u \in Users : online[u] # {} => Good(u)
  /\ \A l \in Loops, u \in Users : local[l][u] # {} => Good(u)

(* The part of a loop of writes to Redis that lies behind server p.        *)
HasSubscribed(l, p)    == pc[l] = "subscribe" /\ p < next[l]
YetToUnsubscribe(l, p) == pc[l] = "unsubscribe" /\ p >= next[l]

(* At each Redis server that can be reached, once it has read what was     *)
(* written: users in the index are subscribed, and nobody else except the  *)
(* user whose subscription or unsubscription is under way.                 *)
RedisInv ==
  \A p \in PubSubs :
    /\ ~alive[p] => (pipe[p] = <<>> /\ subs[p] = {})
    /\ alive[p] => \A u \in Users :
         Subscribed(p, u) <=>
           \/ online[u] # {}
           \/ \E l \in Loops : who[l] = u /\ (HasSubscribed(l, p) \/ YetToUnsubscribe(l, p))

IInv == TypeOK /\ LockInv /\ HandlerInv /\ IndexInv /\ AccountInv /\ RedisInv

-----------------------------------------------------------------------------
(***************************************************************************)
(* What Redis will be subscribed to, when a command is written and when it *)
(* is read.                                                                *)
(***************************************************************************)

(* A command written last decides for its user, and for nobody else: what  *)
(* SUBSCRIBE and UNSUBSCRIBE on one connection amount to.                  *)
LEMMA SettledAppend ==
  ASSUME NEW q \in Seq(Commands), NEW cmd \in Commands, NEW S, NEW u
  PROVE  Settled(Append(q, cmd), S, u) <=>
           IF cmd.user = u THEN cmd.op = "SUBSCRIBE" ELSE Settled(q, S, u)
<1> DEFINE r == Append(q, cmd)
<1>1. /\ Len(q) \in Nat /\ Len(r) = Len(q) + 1
      /\ r[Len(q) + 1] = cmd
      /\ \A i \in 1..Len(q) : r[i] = q[i] /\ q[i] \in Commands
  OBVIOUS
<1>2. CASE cmd.user = u
  <2>1. Settled(r, S, u) => cmd.op = "SUBSCRIBE"
    <3>1. ~ \A i \in 1..Len(r) : r[i].user # u
      BY <1>1, <1>2
    <3>2. ASSUME NEW i \in 1..Len(r), r[i] = [op |-> "SUBSCRIBE", user |-> u],
                 \A j \in 1..Len(r) : j > i => r[j].user # u
          PROVE  cmd.op = "SUBSCRIBE"
      <4>1. i = Len(q) + 1
        BY <1>1, <1>2, <3>2
      <4> QED BY <4>1, <1>1, <3>2
    <3> QED BY <3>1, <3>2 DEF Settled
  <2>2. ASSUME cmd.op = "SUBSCRIBE" PROVE Settled(r, S, u)
    <3>1. cmd = [op |-> "SUBSCRIBE", user |-> u]
      BY <1>2, <2>2 DEF Commands
    <3>2. Len(q) + 1 \in 1..Len(r) /\ \A j \in 1..Len(r) : ~(j > Len(q) + 1)
      BY <1>1
    <3> QED BY <3>1, <3>2, <1>1 DEF Settled
  <2> QED BY <1>2, <2>1, <2>2
<1>3. CASE cmd.user # u
  <2>1. (\A i \in 1..Len(r) : r[i].user # u) <=> (\A i \in 1..Len(q) : q[i].user # u)
    BY <1>1, <1>3
  <2>2. ASSUME NEW i \in 1..Len(r), r[i] = [op |-> "SUBSCRIBE", user |-> u],
               \A j \in 1..Len(r) : j > i => r[j].user # u
        PROVE  /\ i \in 1..Len(q) /\ q[i] = [op |-> "SUBSCRIBE", user |-> u]
               /\ \A j \in 1..Len(q) : j > i => q[j].user # u
    <3>1. i # Len(q) + 1
      BY <1>1, <1>3, <2>2
    <3> QED BY <3>1, <1>1, <2>2
  <2>3. ASSUME NEW i \in 1..Len(q), q[i] = [op |-> "SUBSCRIBE", user |-> u],
               \A j \in 1..Len(q) : j > i => q[j].user # u
        PROVE  /\ i \in 1..Len(r) /\ r[i] = [op |-> "SUBSCRIBE", user |-> u]
               /\ \A j \in 1..Len(r) : j > i => r[j].user # u
    BY <1>1, <1>3, <2>3
  <2> QED BY <1>3, <2>1, <2>2, <2>3 DEF Settled
<1> QED BY <1>2, <1>3

(* What Redis does when it reads a command.                                *)
Executed(cmd, S) == IF cmd.op = "SUBSCRIBE" THEN S \cup {cmd.user} ELSE S \ {cmd.user}

(* Reading the oldest command changes nothing about where Redis will be    *)
(* once it has read all of them.                                           *)
LEMMA SettledTail ==
  ASSUME NEW q \in Seq(Commands), q # <<>>, NEW S, NEW u
  PROVE  Settled(Tail(q), Executed(Head(q), S), u) <=> Settled(q, S, u)
<1> DEFINE r == Tail(q)
<1> DEFINE T == Executed(Head(q), S)
<1>1. /\ Len(q) \in Nat \ {0} /\ Len(r) = Len(q) - 1
      /\ Head(q) = q[1] /\ q[1] \in Commands
      /\ \A i \in 1..Len(r) : r[i] = q[i + 1]
      /\ \A i \in 2..Len(q) : q[i] = r[i - 1] /\ i - 1 \in 1..Len(r)
  OBVIOUS
<1>2. ASSUME NEW i \in 1..Len(r)
      PROVE  (\A j \in 1..Len(r) : j > i => r[j].user # u)
               <=> (\A j \in 1..Len(q) : j > i + 1 => q[j].user # u)
  <2>1. ASSUME \A j \in 1..Len(r) : j > i => r[j].user # u, NEW j \in 1..Len(q), j > i + 1
        PROVE  q[j].user # u
    BY <1>1, <2>1
  <2>2. ASSUME \A j \in 1..Len(q) : j > i + 1 => q[j].user # u, NEW j \in 1..Len(r), j > i
        PROVE  r[j].user # u
    <3>1. j + 1 \in 1..Len(q) /\ j + 1 > i + 1
      BY <1>1, <2>2
    <3> QED BY <1>1, <2>2, <3>1
  <2> QED BY <2>1, <2>2
<1> DEFINE Last(s, i) == /\ s[i] = [op |-> "SUBSCRIBE", user |-> u]
                         /\ \A j \in 1..Len(s) : j > i => s[j].user # u
<1>3. (\E i \in 1..Len(r) : Last(r, i)) <=> (\E i \in 2..Len(q) : Last(q, i))
  <2>1. ASSUME NEW i \in 1..Len(r), Last(r, i) PROVE i + 1 \in 2..Len(q) /\ Last(q, i + 1)
    BY <1>1, <1>2, <2>1
  <2>2. ASSUME NEW i \in 2..Len(q), Last(q, i) PROVE i - 1 \in 1..Len(r) /\ Last(r, i - 1)
    <3>1. i - 1 \in 1..Len(r) /\ (i - 1) + 1 = i
      BY <1>1
    <3> QED BY <1>1, <1>2, <2>2, <3>1
  <2> QED BY <2>1, <2>2
<1>4. (\A i \in 1..Len(r) : r[i].user # u) <=> (\A i \in 2..Len(q) : q[i].user # u)
  <2>1. ASSUME \A i \in 2..Len(q) : q[i].user # u, NEW i \in 1..Len(r) PROVE r[i].user # u
    <3>1. i + 1 \in 2..Len(q)
      BY <1>1
    <3> QED BY <1>1, <2>1, <3>1
  <2>2. ASSUME \A i \in 1..Len(r) : r[i].user # u, NEW i \in 2..Len(q) PROVE q[i].user # u
    BY <1>1, <2>2
  <2> QED BY <2>1, <2>2
<1>5. Last(q, 1) <=> /\ q[1] = [op |-> "SUBSCRIBE", user |-> u]
                     /\ \A i \in 2..Len(q) : q[i].user # u
  BY <1>1
<1>6. (\E i \in 1..Len(q) : Last(q, i)) <=> (Last(q, 1) \/ \E i \in 2..Len(q) : Last(q, i))
  BY <1>1
<1>7. (\A i \in 1..Len(q) : q[i].user # u) <=>
        (q[1].user # u /\ \A i \in 2..Len(q) : q[i].user # u)
  BY <1>1
<1>8. u \in T <=> \/ q[1] = [op |-> "SUBSCRIBE", user |-> u]
                  \/ u \in S /\ q[1].user # u
  BY <1>1 DEF Executed, Commands
<1>9. Settled(r, T, u) <=> (u \in T /\ \A i \in 1..Len(r) : r[i].user # u)
                             \/ \E i \in 1..Len(r) : Last(r, i)
  BY DEF Settled
<1>10. Settled(q, S, u) <=> (u \in S /\ \A i \in 1..Len(q) : q[i].user # u)
                             \/ \E i \in 1..Len(q) : Last(q, i)
  BY DEF Settled
<1> HIDE DEF Last, r, T
<1> QED BY <1>3, <1>4, <1>5, <1>6, <1>7, <1>8, <1>9, <1>10 DEF r, T

-----------------------------------------------------------------------------
(***************************************************************************)
(* Type correctness.                                                       *)
(***************************************************************************)

(* Every action keeps the types and the capacity of the sockets.           *)
LEMMA TypeStep == TypeOK /\ [Next]_vars => TypeOK'
<1> SUFFICES ASSUME TypeOK, [Next]_vars PROVE TypeOK'
  OBVIOUS
<1> USE PresenceAssumption
<1>1. ASSUME NEW c \in Conns, ConnectionUp(c) PROVE TypeOK'
  BY <1>1 DEF TypeOK, ConnectionUp, threadVars, redisVars
<1>2. ASSUME NEW c \in Conns, NEW u \in Users, NEW pw \in Passwords, OnRegisterRequest(c, u, pw)
      PROVE  TypeOK'
  BY <1>2 DEF TypeOK, OnRegisterRequest, threadVars, redisVars
<1>3. ASSUME NEW c \in Conns, NEW u \in Users, NEW pw \in Passwords, OnLoginRequest(c, u, pw)
      PROVE  TypeOK'
  BY <1>3 DEF TypeOK, OnLoginRequest, PcValues, accountVars, redisVars
<1>4. ASSUME NEW c \in Conns, Logout(c)
      PROVE  /\ local' \in [Loops -> [Users -> SUBSET Conns]]
             /\ pc' \in [Loops -> PcValues]
             /\ who' \in [Loops -> Users]
  <2>1. CASE UNCHANGED <<local, pc, who>>
    BY <2>1 DEF TypeOK
  <2>2. ASSUME NEW u \in UsersOf(c),
               local' = [local EXCEPT ![LoopOf[c]][u] = @ \ {c}],
               \/ pc' = [pc EXCEPT ![LoopOf[c]] = "remove"]
                  /\ who' = [who EXCEPT ![LoopOf[c]] = u]
               \/ UNCHANGED <<pc, who>>
        PROVE  /\ local' \in [Loops -> [Users -> SUBSET Conns]]
               /\ pc' \in [Loops -> PcValues]
               /\ who' \in [Loops -> Users]
    <3>1. u \in Users /\ LoopOf[c] \in Loops
      BY <2>2 DEF UsersOf
    <3>2. local' \in [Loops -> [Users -> SUBSET Conns]]
      BY <2>2, <3>1 DEF TypeOK
    <3>3. pc' \in [Loops -> PcValues] /\ who' \in [Loops -> Users]
      <4>1. CASE UNCHANGED <<pc, who>>
        BY <4>1 DEF TypeOK
      <4>2. CASE /\ pc' = [pc EXCEPT ![LoopOf[c]] = "remove"]
                 /\ who' = [who EXCEPT ![LoopOf[c]] = u]
        BY <4>2, <3>1 DEF TypeOK, PcValues
      <4> QED BY <2>2, <4>1, <4>2
    <3> QED BY <3>2, <3>3
  <2> QED BY <1>4, <2>1, <2>2 DEF Logout
<1>5. ASSUME NEW c \in Conns, OnLogoutRequest(c) PROVE TypeOK'
  BY <1>5, <1>4 DEF TypeOK, OnLogoutRequest, accountVars, redisVars
<1>6. ASSUME NEW c \in Conns, ConnectionDown(c) PROVE TypeOK'
  BY <1>6, <1>4 DEF TypeOK, ConnectionDown, redisVars
<1>AddKnownUser. ASSUME NEW l \in Loops, AddKnownUser(l) PROVE TypeOK'
  <2>1. UNCHANGED <<accounts, connState, local, who, pipe, subs, alive>>
    BY <1>AddKnownUser DEF AddKnownUser, accountVars, redisVars
  <2>2. online' \in [Users -> SUBSET Loops] /\ mutex' \in Loops \cup {Nobody}
    BY <1>AddKnownUser DEF TypeOK, AddKnownUser
  <2>3. pc' \in [Loops -> PcValues] /\ next' \in [Loops -> 1..(NumPubSubs + 1)]
    BY <1>AddKnownUser DEF TypeOK, AddKnownUser, PcValues
  <2> QED BY <2>1, <2>2, <2>3 DEF TypeOK
<1>RemoveLoop. ASSUME NEW l \in Loops, RemoveLoop(l) PROVE TypeOK'
  <2>1. UNCHANGED <<accounts, connState, local, who, pipe, subs, alive>>
    BY <1>RemoveLoop DEF RemoveLoop, accountVars, redisVars
  <2>2. online' \in [Users -> SUBSET Loops] /\ mutex' \in Loops \cup {Nobody}
    BY <1>RemoveLoop DEF TypeOK, RemoveLoop
  <2>3. pc' \in [Loops -> PcValues] /\ next' \in [Loops -> 1..(NumPubSubs + 1)]
    BY <1>RemoveLoop DEF TypeOK, RemoveLoop, PcValues
  <2> QED BY <2>1, <2>2, <2>3 DEF TypeOK
<1>AddFirstUser. ASSUME NEW l \in Loops, AddFirstUser(l) PROVE TypeOK'
  <2>1. UNCHANGED <<accounts, connState, local, who, pipe, subs, alive>>
    BY <1>AddFirstUser DEF AddFirstUser, accountVars, redisVars
  <2>2. online' \in [Users -> SUBSET Loops] /\ mutex' \in Loops \cup {Nobody}
    BY <1>AddFirstUser DEF TypeOK, AddFirstUser
  <2>3. pc' \in [Loops -> PcValues] /\ next' \in [Loops -> 1..(NumPubSubs + 1)]
    BY <1>AddFirstUser DEF TypeOK, AddFirstUser, PcValues
  <2> QED BY <2>1, <2>2, <2>3 DEF TypeOK
<1>RemoveLastLoop. ASSUME NEW l \in Loops, RemoveLastLoop(l) PROVE TypeOK'
  <2>1. UNCHANGED <<accounts, connState, local, who, pipe, subs, alive>>
    BY <1>RemoveLastLoop DEF RemoveLastLoop, accountVars, redisVars
  <2>2. online' \in [Users -> SUBSET Loops] /\ mutex' \in Loops \cup {Nobody}
    BY <1>RemoveLastLoop DEF TypeOK, RemoveLastLoop
  <2>3. pc' \in [Loops -> PcValues] /\ next' \in [Loops -> 1..(NumPubSubs + 1)]
    BY <1>RemoveLastLoop DEF TypeOK, RemoveLastLoop, PcValues
  <2> QED BY <2>1, <2>2, <2>3 DEF TypeOK
<1>SubscribeDone. ASSUME NEW l \in Loops, SubscribeDone(l) PROVE TypeOK'
  <2>1. UNCHANGED <<accounts, connState, local, who, pipe, subs, alive>>
    BY <1>SubscribeDone DEF SubscribeDone, accountVars, redisVars
  <2>2. online' \in [Users -> SUBSET Loops] /\ mutex' \in Loops \cup {Nobody}
    BY <1>SubscribeDone DEF TypeOK, SubscribeDone
  <2>3. pc' \in [Loops -> PcValues] /\ next' \in [Loops -> 1..(NumPubSubs + 1)]
    BY <1>SubscribeDone DEF TypeOK, SubscribeDone, PcValues
  <2> QED BY <2>1, <2>2, <2>3 DEF TypeOK
<1>UnsubscribeDone. ASSUME NEW l \in Loops, UnsubscribeDone(l) PROVE TypeOK'
  <2>1. UNCHANGED <<accounts, connState, local, who, pipe, subs, alive>>
    BY <1>UnsubscribeDone DEF UnsubscribeDone, accountVars, redisVars
  <2>2. online' \in [Users -> SUBSET Loops] /\ mutex' \in Loops \cup {Nobody}
    BY <1>UnsubscribeDone DEF TypeOK, UnsubscribeDone
  <2>3. pc' \in [Loops -> PcValues] /\ next' \in [Loops -> 1..(NumPubSubs + 1)]
    BY <1>UnsubscribeDone DEF TypeOK, UnsubscribeDone, PcValues
  <2> QED BY <2>1, <2>2, <2>3 DEF TypeOK
<1>10. ASSUME NEW l \in Loops, NEW op \in {"SUBSCRIBE", "UNSUBSCRIBE"}, WriteCommand(l, op)
       PROVE  TypeOK'
  <2>1. /\ next' \in [Loops -> 1..(NumPubSubs + 1)]
        /\ UNCHANGED <<accountVars, local, online, mutex, pc, who, subs, alive>>
    BY <1>10 DEF TypeOK, WriteCommand, PubSubs
  <2>2. /\ pipe' \in [PubSubs -> Seq(Commands)]
        /\ \A p \in PubSubs : Len(pipe'[p]) <= PipeCapacity
    <3>1. CASE pipe' = pipe
      BY <3>1 DEF TypeOK
    <3>2. CASE alive[next[l]]
      <4> DEFINE cmd == [op |-> op, user |-> who[l]]
      <4>1. cmd \in Commands /\ next[l] \in PubSubs
        BY <1>10 DEF TypeOK, WriteCommand, Commands
      <4>2. Len(pipe[next[l]]) < PipeCapacity
            /\ pipe' = [pipe EXCEPT ![next[l]] = Append(@, cmd)]
        BY <1>10, <3>2 DEF WriteCommand
      <4>3. Append(pipe[next[l]], cmd) \in Seq(Commands)
            /\ Len(Append(pipe[next[l]], cmd)) = Len(pipe[next[l]]) + 1
            /\ Len(pipe[next[l]]) \in Nat
        BY <4>1 DEF TypeOK
      <4> HIDE DEF cmd
      <4> QED BY <4>1, <4>2, <4>3 DEF TypeOK
    <3> QED BY <1>10, <3>1, <3>2 DEF WriteCommand
  <2> QED BY <2>1, <2>2 DEF TypeOK, accountVars
<1>11. ASSUME NEW l \in Loops, Subscribe(l) \/ Unsubscribe(l) PROVE TypeOK'
  BY <1>10, <1>11 DEF Subscribe, Unsubscribe
<1>12. ASSUME NEW p \in PubSubs, RedisExecutes(p) PROVE TypeOK'
  <2>1. /\ Head(pipe[p]) \in Commands
        /\ Tail(pipe[p]) \in Seq(Commands)
        /\ Len(pipe[p]) \in Nat
        /\ Len(Tail(pipe[p])) = Len(pipe[p]) - 1
    BY <1>12 DEF TypeOK, RedisExecutes
  <2>2. /\ pipe' \in [PubSubs -> Seq(Commands)]
        /\ \A q \in PubSubs : Len(pipe'[q]) <= PipeCapacity
    BY <1>12, <2>1 DEF TypeOK, RedisExecutes
  <2>3. subs' \in [PubSubs -> SUBSET Users]
    BY <1>12, <2>1 DEF TypeOK, RedisExecutes, Commands
  <2> QED BY <1>12, <2>2, <2>3 DEF TypeOK, RedisExecutes, accountVars, threadVars
<1>13. ASSUME NEW p \in PubSubs, RedisConnectionLost(p) PROVE TypeOK'
  BY <1>13 DEF TypeOK, RedisConnectionLost, accountVars, threadVars
<1>14. CASE UNCHANGED vars
  BY <1>14 DEF TypeOK, vars
<1> QED
  BY <1>1, <1>2, <1>3, <1>5, <1>6, <1>AddKnownUser, <1>RemoveLoop, <1>AddFirstUser,
     <1>RemoveLastLoop, <1>SubscribeDone, <1>UnsubscribeDone, <1>11, <1>12, <1>13, <1>14
     DEF Next, Callback, LockMutex, Unblocked

(* TypeOK holds initially.                                                 *)
LEMMA TypeInit == Init => TypeOK
BY PresenceAssumption DEF Init, TypeOK, PcValues, PubSubs

(* The state stays typed, and no Redis socket is filled beyond capacity.   *)
THEOREM TypeCorrect == Spec => []TypeOK
BY TypeInit, TypeStep, PTL DEF Spec
-----------------------------------------------------------------------------
(***************************************************************************)
(* The inductive invariant holds initially.                                *)
(***************************************************************************)

(* Nothing is online and nothing subscribed before the first login.        *)
LEMMA InvInit == Init => IInv
<1> SUFFICES ASSUME Init PROVE IInv
  OBVIOUS
<1>1. TypeOK
  BY TypeInit
<1>2. LockInv /\ HandlerInv /\ IndexInv /\ AccountInv
  BY PresenceAssumption DEF Init, LockInv, HandlerInv, IndexInv, AccountInv
<1>3. RedisInv
  BY DEF Init, RedisInv, Subscribed, Settled, HasSubscribed, YetToUnsubscribe
<1> QED BY <1>1, <1>2, <1>3 DEF IInv
-----------------------------------------------------------------------------
(***************************************************************************)
(* Callbacks: register, login, logout, connection up and down.             *)
(***************************************************************************)

Writing == {"subscribe", "unsubscribe"}

(* A step that touches neither the index nor Redis, and no handler that is *)
(* writing to Redis, keeps RedisInv.                                       *)
LEMMA RedisUntouched ==
  ASSUME RedisInv, UNCHANGED <<online, next, pipe, subs, alive>>,
         \A l \in Loops : \/ pc'[l] = pc[l] /\ who'[l] = who[l]
                          \/ pc[l] \notin Writing /\ pc'[l] \notin Writing
  PROVE  RedisInv'
<1>1. ASSUME NEW p \in PubSubs, NEW u \in Users PROVE Subscribed(p, u)' <=> Subscribed(p, u)
  BY DEF Subscribed
<1>2. ASSUME NEW p \in PubSubs, NEW u \in Users, NEW l \in Loops
      PROVE  (who[l] = u /\ (HasSubscribed(l, p) \/ YetToUnsubscribe(l, p)))'
                <=> (who[l] = u /\ (HasSubscribed(l, p) \/ YetToUnsubscribe(l, p)))
  <2>1. CASE pc'[l] = pc[l] /\ who'[l] = who[l]
    BY <2>1 DEF HasSubscribed, YetToUnsubscribe
  <2>2. CASE pc[l] \notin Writing /\ pc'[l] \notin Writing
    BY <2>2 DEF HasSubscribed, YetToUnsubscribe, Writing
  <2> QED BY <2>1, <2>2
<1> QED BY <1>1, <1>2 DEF RedisInv

(* A login request that is accepted.                                       *)
LEMMA LoginStep ==
  ASSUME IInv, NEW c \in Conns, NEW u \in Users, NEW pw \in Passwords,
         OnLoginRequest(c, u, pw)
  PROVE  LockInv' /\ HandlerInv' /\ IndexInv' /\ AccountInv' /\ RedisInv'
<1> DEFINE k == LoopOf[c]
<1>1. /\ k \in Loops /\ pc[k] = "idle" /\ Good(u)
      /\ local' = [local EXCEPT ![k][u] = @ \cup {c}]
      /\ pc' = [pc EXCEPT ![k] = "add"]
      /\ who' = [who EXCEPT ![k] = u]
      /\ UNCHANGED <<accounts, online, mutex, next, pipe, subs, alive>>
  BY PresenceAssumption DEF OnLoginRequest, Ready, Authenticates, Good, IInv, AccountInv,
     accountVars, redisVars
<1> HIDE DEF k
<1>2. /\ pc'[k] = "add" /\ who'[k] = u
      /\ \A l \in Loops : l # k => pc'[l] = pc[l] /\ who'[l] = who[l]
  BY <1>1 DEF IInv, TypeOK
<1>3. /\ local'[k][u] # {}
      /\ \A l \in Loops, v \in Users :
           (l # k \/ v # u) => local'[l][v] = local[l][v]
  BY <1>1 DEF IInv, TypeOK
<1>4. who \in [Loops -> Users]
  BY DEF IInv, TypeOK
<1>5. LockInv'
  BY <1>1, <1>2 DEF IInv, LockInv
<1>6. HandlerInv'
  BY <1>1, <1>2, <1>3, <1>4 DEF IInv, HandlerInv
<1>7. IndexInv'
  BY <1>1, <1>2, <1>3 DEF IInv, IndexInv
<1>8. AccountInv'
  BY <1>1, <1>3 DEF IInv, AccountInv, Good
<1>9. RedisInv'
  BY <1>1, <1>2, RedisUntouched DEF IInv, Writing
<1> QED BY <1>5, <1>6, <1>7, <1>8, <1>9

(* logout(conn), for a request as for a closed connection.                 *)
LEMMA LogoutStep ==
  ASSUME IInv, NEW c \in Conns, pc[LoopOf[c]] = "idle", Logout(c),
         UNCHANGED <<accounts, online, mutex, next, pipe, subs, alive>>
  PROVE  LockInv' /\ HandlerInv' /\ IndexInv' /\ AccountInv' /\ RedisInv'
<1> DEFINE k == LoopOf[c]
<1>k. k \in Loops /\ who \in [Loops -> Users]
  BY PresenceAssumption DEF IInv, TypeOK
<1>1. CASE UNCHANGED <<local, pc, who>>
  <2>1. RedisInv'
    BY <1>1, RedisUntouched DEF IInv
  <2> QED
    BY <2>1, <1>1 DEF IInv, LockInv, HandlerInv, IndexInv, AccountInv, Good
<1>2. ASSUME NEW u \in UsersOf(c),
             local' = [local EXCEPT ![k][u] = @ \ {c}],
             IF local[k][u] = {c}
             THEN /\ pc' = [pc EXCEPT ![k] = "remove"]
                  /\ who' = [who EXCEPT ![k] = u]
             ELSE UNCHANGED <<pc, who>>
      PROVE  LockInv' /\ HandlerInv' /\ IndexInv' /\ AccountInv' /\ RedisInv'
  <2>1. u \in Users /\ c \in local[k][u]
    BY <1>2 DEF UsersOf
  <2>2. k \in online[u]
    BY <2>1, <1>k DEF IInv, IndexInv
  <2> HIDE DEF k
  <2>3. /\ local'[k][u] = local[k][u] \ {c}
        /\ \A l \in Loops, v \in Users : (l # k \/ v # u) => local'[l][v] = local[l][v]
    BY <1>2, <2>1, <1>k DEF IInv, TypeOK
  <2>4. CASE local[k][u] = {c}
    <3>1. /\ pc'[k] = "remove" /\ who'[k] = u
          /\ \A l \in Loops : l # k => pc'[l] = pc[l] /\ who'[l] = who[l]
      BY <1>2, <2>4, <1>k DEF IInv, TypeOK
    <3>2. local'[k][u] = {} /\ pc[k] = "idle"
      BY <2>3, <2>4 DEF k
    <3>3. LockInv'
      BY <3>1, <3>2 DEF IInv, LockInv
    <3>4. HandlerInv'
      BY <3>1, <3>2, <2>2, <2>3, <1>k DEF IInv, HandlerInv
    <3>5. IndexInv'
      BY <3>1, <3>2, <2>3 DEF IInv, IndexInv
    <3>6. AccountInv'
      BY <3>2, <2>3 DEF IInv, AccountInv, Good
    <3>7. RedisInv'
      BY <3>1, <3>2, RedisUntouched DEF IInv, Writing
    <3> QED BY <3>3, <3>4, <3>5, <3>6, <3>7
  <2>5. CASE local[k][u] # {c}
    <3>1. UNCHANGED <<pc, who>>
      BY <1>2, <2>5
    <3>2. local'[k][u] # {} /\ local[k][u] # {} /\ pc[k] = "idle"
      BY <2>1, <2>3, <2>5 DEF k
    <3>3. LockInv'
      BY <3>1 DEF IInv, LockInv
    <3>4. HandlerInv'
      BY <3>1, <3>2, <2>3, <1>k DEF IInv, HandlerInv
    <3>5. IndexInv'
      BY <3>1, <3>2, <2>3 DEF IInv, IndexInv
    <3>6. AccountInv'
      BY <3>2, <2>1, <2>3 DEF IInv, AccountInv, Good
    <3>7. RedisInv'
      BY <3>1, RedisUntouched DEF IInv
    <3> QED BY <3>3, <3>4, <3>5, <3>6, <3>7
  <2> QED BY <2>4, <2>5
<1> QED BY <1>1, <1>2 DEF Logout

(* Every callback of the event loops keeps the invariant.                  *)
LEMMA CallbackStep ==
  ASSUME IInv, TypeOK', NEW c \in Conns, Callback(c)
  PROVE  IInv'
<1>1. CASE ConnectionUp(c)
  <2>1. UNCHANGED <<accounts, local, online, mutex, pc, who, next, pipe, subs, alive>>
    BY <1>1 DEF ConnectionUp, threadVars, redisVars
  <2>2. RedisInv'
    BY <2>1, RedisUntouched DEF IInv
  <2> QED BY <2>1, <2>2 DEF IInv, LockInv, HandlerInv, IndexInv, AccountInv, Good
<1>2. ASSUME NEW u \in Users, NEW pw \in Passwords, OnRegisterRequest(c, u, pw)
      PROVE  IInv'
  <2>1. /\ UNCHANGED <<local, online, mutex, pc, who, next, pipe, subs, alive>>
        /\ u # Guest /\ accounts[u] = NoAccount
        /\ accounts' = [accounts EXCEPT ![u] = pw]
    BY <1>2 DEF OnRegisterRequest, threadVars, redisVars
  <2>2. RedisInv'
    BY <2>1, RedisUntouched DEF IInv
  <2>3. AccountInv'
    BY <2>1, PresenceAssumption DEF IInv, TypeOK, AccountInv, Good
  <2> QED BY <2>1, <2>2, <2>3 DEF IInv, LockInv, HandlerInv, IndexInv
<1>3. ASSUME NEW u \in Users, NEW pw \in Passwords, OnLoginRequest(c, u, pw)
      PROVE  IInv'
  BY <1>3, LoginStep DEF IInv
<1>4. CASE OnLogoutRequest(c)
  BY <1>4, LogoutStep DEF IInv, OnLogoutRequest, Ready, accountVars, redisVars
<1>5. CASE ConnectionDown(c)
  BY <1>5, LogoutStep DEF IInv, ConnectionDown, Ready, redisVars
<1> QED BY <1>1, <1>2, <1>3, <1>4, <1>5 DEF Callback
-----------------------------------------------------------------------------
(***************************************************************************)
(* Handlers that take the mutex.                                           *)
(***************************************************************************)

(* The short critical sections: the user stays in the index before and     *)
(* after, so nothing changes for Redis.                                    *)
LEMMA ShortSectionStep ==
  ASSUME IInv, NEW l \in Loops, AddKnownUser(l) \/ RemoveLoop(l)
  PROVE  LockInv' /\ HandlerInv' /\ IndexInv' /\ AccountInv' /\ RedisInv'
<1> DEFINE u == who[l]
<1>1. /\ u \in Users
      /\ pc'[l] = "idle"
      /\ \A k \in Loops : k # l => pc'[k] = pc[k]
      /\ \A v \in Users : v # u => online'[v] = online[v]
      /\ online[u] # {} /\ online'[u] # {}
      /\ \A k \in Loops : k # l => (k \in online'[u] <=> k \in online[u])
      /\ mutex = Nobody
      /\ UNCHANGED <<accounts, local, mutex, who, next, pipe, subs, alive>>
  <2>1. CASE AddKnownUser(l)
    BY <2>1 DEF AddKnownUser, IInv, TypeOK, accountVars, redisVars
  <2>2. CASE RemoveLoop(l)
    BY <2>2 DEF RemoveLoop, IInv, TypeOK, accountVars, redisVars
  <2> QED BY <2>1, <2>2
<1>2. \/ pc[l] = "add" /\ l \in online'[u] /\ local[l][u] # {}
      \/ pc[l] = "remove" /\ l \notin online'[u] /\ local[l][u] = {}
  <2>1. CASE AddKnownUser(l)
    BY <2>1, <1>1 DEF AddKnownUser, IInv, TypeOK, HandlerInv
  <2>2. CASE RemoveLoop(l)
    BY <2>2, <1>1 DEF RemoveLoop, IInv, TypeOK, HandlerInv
  <2> QED BY <2>1, <2>2
<1>3. \A k \in Loops : pc[k] \notin Writing
  BY <1>1, PresenceAssumption DEF IInv, LockInv, Writing
<1>4. LockInv'
  BY <1>1, <1>2 DEF IInv, LockInv
<1>5. HandlerInv'
  BY <1>1, <1>2, <1>3 DEF IInv, TypeOK, HandlerInv, Writing
<1>6. IndexInv'
  BY <1>1, <1>2 DEF IInv, IndexInv
<1>7. AccountInv'
  BY <1>1, <1>2 DEF IInv, AccountInv, Good
<1>8. RedisInv'
  <2>1. \A p \in PubSubs, v \in Users : Subscribed(p, v)' <=> Subscribed(p, v)
    BY <1>1 DEF Subscribed
  <2>2. \A p \in PubSubs, k \in Loops :
          /\ ~HasSubscribed(k, p) /\ ~YetToUnsubscribe(k, p)
          /\ ~HasSubscribed(k, p)' /\ ~YetToUnsubscribe(k, p)'
    BY <1>1, <1>3 DEF HasSubscribed, YetToUnsubscribe, Writing
  <2>3. \A v \in Users : online'[v] # {} <=> online[v] # {}
    BY <1>1
  <2> QED BY <1>1, <2>1, <2>2, <2>3 DEF IInv, RedisInv
<1> QED BY <1>4, <1>5, <1>6, <1>7, <1>8

(* The long critical sections begin: the mutex stays locked, the writes to *)
(* Redis are all still to come.                                            *)
LEMMA LongSectionStep ==
  ASSUME IInv, NEW l \in Loops, AddFirstUser(l) \/ RemoveLastLoop(l)
  PROVE  LockInv' /\ HandlerInv' /\ IndexInv' /\ AccountInv' /\ RedisInv'
<1> DEFINE u == who[l]
<1>1. /\ u \in Users /\ next'[l] = 1
      /\ \A k \in Loops : k # l => pc'[k] = pc[k] /\ next'[k] = next[k]
      /\ \A v \in Users : v # u => online'[v] = online[v]
      /\ online'[u] = {}
      /\ mutex = Nobody /\ mutex' = l
      /\ UNCHANGED <<accounts, local, who, pipe, subs, alive>>
  <2>1. CASE AddFirstUser(l)
    BY <2>1 DEF AddFirstUser, IInv, TypeOK, accountVars, redisVars
  <2>2. CASE RemoveLastLoop(l)
    BY <2>2 DEF RemoveLastLoop, IInv, TypeOK, accountVars, redisVars
  <2> QED BY <2>1, <2>2
<1>2. \/ pc[l] = "add" /\ pc'[l] = "subscribe" /\ online[u] = {} /\ local[l][u] # {}
      \/ /\ pc[l] = "remove" /\ pc'[l] = "unsubscribe" /\ online[u] = {l}
         /\ local[l][u] = {}
  <2>1. CASE AddFirstUser(l)
    BY <2>1, <1>1 DEF AddFirstUser, IInv, TypeOK, HandlerInv
  <2>2. CASE RemoveLastLoop(l)
    <3>1. l \in online[u] /\ local[l][u] = {} /\ pc[l] = "remove"
      BY <2>2 DEF RemoveLastLoop, IInv, HandlerInv
    <3>2. online[u] = {l} /\ pc'[l] = "unsubscribe"
      BY <2>2, <3>1 DEF RemoveLastLoop, IInv, TypeOK
    <3> QED BY <3>1, <3>2
  <2> QED BY <2>1, <2>2
<1>3. \A k \in Loops : pc[k] \notin Writing
  BY <1>1, PresenceAssumption DEF IInv, LockInv, Writing
<1>4. LockInv'
  BY <1>1, <1>2, <1>3, PresenceAssumption DEF LockInv, Writing
<1>5. HandlerInv'
  <2>1. ASSUME NEW k \in Loops, k # l, pc[k] = "remove" PROVE who[k] # u
    <3>1. k \in online[who[k]]
      BY <2>1 DEF IInv, HandlerInv
    <3> QED BY <3>1, <2>1, <1>2
  <2> QED BY <1>1, <1>2, <1>3, <2>1 DEF IInv, TypeOK, HandlerInv, Writing
<1>6. IndexInv'
  <2>1. ASSUME NEW k \in Loops, NEW v \in Users, local[k][v] # {}
        PROVE  k \in online'[v] \/ (pc'[k] \in {"add", "subscribe"} /\ who[k] = v)
    <3>1. k \in online[v] \/ (pc[k] \in {"add", "subscribe"} /\ who[k] = v)
      BY <2>1 DEF IInv, IndexInv
    <3> QED BY <1>1, <1>2, <2>1, <3>1
  <2>2. ASSUME NEW k \in Loops, NEW v \in Users, k \in online'[v]
        PROVE  local[k][v] # {} \/ (pc'[k] = "remove" /\ who[k] = v)
    <3>1. v # u /\ k \in online[v]
      BY <1>1, <2>2
    <3>2. local[k][v] # {} \/ (pc[k] = "remove" /\ who[k] = v)
      BY <3>1 DEF IInv, IndexInv
    <3> QED BY <1>1, <3>1, <3>2
  <2> QED BY <2>1, <2>2, <1>1 DEF IndexInv
<1>7. AccountInv'
  BY <1>1 DEF IInv, AccountInv, Good
<1>8. RedisInv'
  <2> SUFFICES ASSUME NEW p \in PubSubs
               PROVE  /\ ~alive'[p] => (pipe'[p] = <<>> /\ subs'[p] = {})
                      /\ alive'[p] => \A v \in Users :
                           Subscribed(p, v)' <=>
                             \/ online'[v] # {}
                             \/ \E k \in Loops : who'[k] = v
                                  /\ (HasSubscribed(k, p) \/ YetToUnsubscribe(k, p))'
    BY DEF RedisInv
  <2>1. \A v \in Users : Subscribed(p, v)' <=> Subscribed(p, v)
    BY <1>1 DEF Subscribed
  <2>2. p \in Nat /\ p >= 1
    BY PresenceAssumption DEF PubSubs
  <2>3. \A k \in Loops : ~HasSubscribed(k, p) /\ ~YetToUnsubscribe(k, p)
    BY <1>3 DEF HasSubscribed, YetToUnsubscribe, Writing
  <2>4. \A k \in Loops : k # l => ~HasSubscribed(k, p)' /\ ~YetToUnsubscribe(k, p)'
    BY <1>1, <1>3 DEF HasSubscribed, YetToUnsubscribe, Writing
  <2>5. ~HasSubscribed(l, p)' /\ (YetToUnsubscribe(l, p)' <=> pc'[l] = "unsubscribe")
    BY <1>1, <2>2 DEF HasSubscribed, YetToUnsubscribe
  <2>6. ~alive[p] => (pipe[p] = <<>> /\ subs[p] = {})
    BY DEF IInv, RedisInv
  <2>7. ASSUME alive[p], NEW v \in Users
        PROVE  Subscribed(p, v) <=> online[v] # {}
    BY <2>3, <2>7 DEF IInv, RedisInv
  <2>8. ASSUME alive[p], NEW v \in Users
        PROVE  Subscribed(p, v)' <=>
                 \/ online'[v] # {}
                 \/ \E k \in Loops : who'[k] = v
                      /\ (HasSubscribed(k, p) \/ YetToUnsubscribe(k, p))'
    <3>1. (\E k \in Loops : who'[k] = v /\ (HasSubscribed(k, p) \/ YetToUnsubscribe(k, p))')
            <=> (u = v /\ pc'[l] = "unsubscribe")
      BY <1>1, <2>4, <2>5
    <3>2. CASE v = u
      BY <3>1, <3>2, <1>1, <1>2, <2>1, <2>7, <2>8
    <3>3. CASE v # u
      BY <3>1, <3>3, <1>1, <2>1, <2>7, <2>8
    <3> QED BY <3>2, <3>3
  <2> QED BY <1>1, <2>6, <2>8
<1> QED BY <1>4, <1>5, <1>6, <1>7, <1>8
-----------------------------------------------------------------------------
(***************************************************************************)
(* Handlers that hold the mutex.                                           *)
(***************************************************************************)

(* No other loop writes to Redis at the same time.                         *)
LEMMA OneWriter ==
  ASSUME LockInv, NEW l \in Loops, pc[l] \in Writing, NEW k \in Loops, k # l
  PROVE  mutex = l /\ pc[k] \notin Writing
BY DEF LockInv, Writing

(* One SUBSCRIBE or UNSUBSCRIBE is written: server next[l] moves from the  *)
(* part still to do to the part done.                                      *)
LEMMA WriteStep ==
  ASSUME IInv, NEW l \in Loops, Subscribe(l) \/ Unsubscribe(l)
  PROVE  LockInv' /\ HandlerInv' /\ IndexInv' /\ AccountInv' /\ RedisInv'
<1> DEFINE u == who[l]
<1> DEFINE s == next[l]
<1> DEFINE op == IF pc[l] = "subscribe" THEN "SUBSCRIBE" ELSE "UNSUBSCRIBE"
<1> DEFINE cmd == [op |-> op, user |-> u]
<1>1. pc[l] \in Writing /\ WriteCommand(l, op)
  BY DEF Subscribe, Unsubscribe, Writing
<1>2. /\ u \in Users /\ s \in PubSubs /\ s \in Nat /\ cmd \in Commands
      /\ next'[l] = s + 1
      /\ UNCHANGED <<accounts, local, online, mutex, pc, who, subs, alive>>
  BY <1>1, PresenceAssumption DEF WriteCommand, IInv, TypeOK, PubSubs, Commands, accountVars
<1>3. \A k \in Loops : k # l => pc[k] \notin Writing
  BY <1>1, OneWriter DEF IInv
<1>4. online[u] = {}
  BY <1>1 DEF IInv, HandlerInv, Writing
<1>5. LockInv' /\ HandlerInv' /\ IndexInv' /\ AccountInv'
  BY <1>2 DEF IInv, LockInv, HandlerInv, IndexInv, AccountInv, Good
<1>6. RedisInv'
  <2> SUFFICES ASSUME NEW p \in PubSubs
               PROVE  /\ ~alive'[p] => (pipe'[p] = <<>> /\ subs'[p] = {})
                      /\ alive'[p] => \A v \in Users :
                           Subscribed(p, v)' <=>
                             \/ online'[v] # {}
                             \/ \E k \in Loops : who'[k] = v
                                  /\ (HasSubscribed(k, p) \/ YetToUnsubscribe(k, p))'
    BY DEF RedisInv
  <2>1. p \in Nat /\ pipe \in [PubSubs -> Seq(Commands)] /\ pipe[p] \in Seq(Commands)
    BY PresenceAssumption DEF PubSubs, IInv, TypeOK
  <2>2. /\ ~alive[p] => (pipe[p] = <<>> /\ subs[p] = {})
        /\ ~alive[p] => pipe'[p] = pipe[p]
    <3>1. ~alive[p] => pipe'[p] = pipe[p]
      <4>1. CASE ~alive[s]
        BY <1>1, <4>1 DEF WriteCommand
      <4>2. CASE alive[s]
        BY <1>1, <1>2, <2>1, <4>2 DEF WriteCommand
      <4> QED BY <4>1, <4>2
    <3> QED BY <3>1 DEF IInv, RedisInv
  <2>3. \A k \in Loops : k # l =>
           /\ ~HasSubscribed(k, p) /\ ~YetToUnsubscribe(k, p)
           /\ ~HasSubscribed(k, p)' /\ ~YetToUnsubscribe(k, p)'
    BY <1>2, <1>3 DEF HasSubscribed, YetToUnsubscribe, Writing
  <2>4. ASSUME alive[p], NEW v \in Users
        PROVE  Subscribed(p, v)' <=>
                 \/ online'[v] # {}
                 \/ \E k \in Loops : who'[k] = v
                      /\ (HasSubscribed(k, p) \/ YetToUnsubscribe(k, p))'
    <3>1. (\E k \in Loops : who'[k] = v /\ (HasSubscribed(k, p) \/ YetToUnsubscribe(k, p))')
            <=> (u = v /\ (HasSubscribed(l, p)' \/ YetToUnsubscribe(l, p)'))
      BY <1>2, <2>3
    <3>2. (\E k \in Loops : who[k] = v /\ (HasSubscribed(k, p) \/ YetToUnsubscribe(k, p)))
            <=> (u = v /\ (HasSubscribed(l, p) \/ YetToUnsubscribe(l, p)))
      BY <2>3
    <3>3. Subscribed(p, v) <=>
            \/ online[v] # {}
            \/ u = v /\ (HasSubscribed(l, p) \/ YetToUnsubscribe(l, p))
      BY <3>2, <2>4 DEF IInv, RedisInv
    <3>4. CASE p # s
      <4>1. pipe'[p] = pipe[p]
        <5>1. CASE ~alive[s]
          BY <1>1, <5>1 DEF WriteCommand
        <5>2. CASE alive[s]
          BY <1>1, <1>2, <2>1, <3>4, <5>2 DEF WriteCommand
        <5> QED BY <5>1, <5>2
      <4>2. Subscribed(p, v)' <=> Subscribed(p, v)
        BY <4>1, <1>2 DEF Subscribed
      <4>3. /\ HasSubscribed(l, p)' <=> HasSubscribed(l, p)
            /\ YetToUnsubscribe(l, p)' <=> YetToUnsubscribe(l, p)
        BY <1>2, <2>1, <3>4 DEF HasSubscribed, YetToUnsubscribe
      <4> QED BY <3>1, <3>3, <4>2, <4>3, <1>2
    <3>5. CASE p = s
      <4>1. pipe'[p] = Append(pipe[p], cmd)
        BY <1>1, <1>2, <2>1, <2>4, <3>5 DEF WriteCommand
      <4>2. Subscribed(p, v)' <=> IF u = v THEN op = "SUBSCRIBE" ELSE Subscribed(p, v)
        <5>1. Subscribed(p, v)' <=> Settled(Append(pipe[p], cmd), subs[p], v)
          BY <4>1, <1>2 DEF Subscribed
        <5>2. cmd.user = u /\ cmd.op = op
          OBVIOUS
        <5> HIDE DEF cmd, op, u
        <5> QED BY <5>1, <5>2, <1>2, <2>1, SettledAppend DEF Subscribed
      <4>3. /\ HasSubscribed(l, p)' <=> pc[l] = "subscribe"
            /\ ~YetToUnsubscribe(l, p)'
        BY <1>2, <2>1, <3>5 DEF HasSubscribed, YetToUnsubscribe
      <4>4. (op = "SUBSCRIBE") <=> (pc[l] = "subscribe")
        OBVIOUS
      <4> HIDE DEF op
      <4> QED BY <3>1, <3>3, <4>2, <4>3, <4>4, <1>2, <1>4
    <3> QED BY <3>4, <3>5
  <2> QED BY <1>2, <2>2, <2>4
<1> QED BY <1>5, <1>6

(* The last server has been written to: a login enters the index, a logout *)
(* has left it, and the mutex is released.                                 *)
LEMMA DoneStep ==
  ASSUME IInv, NEW l \in Loops, SubscribeDone(l) \/ UnsubscribeDone(l)
  PROVE  LockInv' /\ HandlerInv' /\ IndexInv' /\ AccountInv' /\ RedisInv'
<1> DEFINE u == who[l]
<1>1. /\ u \in Users /\ pc[l] \in Writing /\ next[l] = NumPubSubs + 1
      /\ pc'[l] = "idle"
      /\ \A k \in Loops : k # l => pc'[k] = pc[k]
      /\ \A v \in Users : v # u => online'[v] = online[v]
      /\ mutex' = Nobody
      /\ UNCHANGED <<accounts, local, who, next, pipe, subs, alive>>
  <2>1. CASE SubscribeDone(l)
    BY <2>1 DEF SubscribeDone, IInv, TypeOK, Writing, accountVars, redisVars
  <2>2. CASE UnsubscribeDone(l)
    BY <2>2 DEF UnsubscribeDone, IInv, TypeOK, Writing, accountVars, redisVars
  <2> QED BY <2>1, <2>2
<1>2. online[u] = {}
  BY <1>1 DEF IInv, HandlerInv, Writing
<1>3. \/ pc[l] = "subscribe" /\ online'[u] = {l} /\ local[l][u] # {}
      \/ pc[l] = "unsubscribe" /\ online'[u] = {} /\ local[l][u] = {}
  <2>1. CASE SubscribeDone(l)
    BY <2>1, <1>1, <1>2 DEF SubscribeDone, IInv, TypeOK, HandlerInv
  <2>2. CASE UnsubscribeDone(l)
    BY <2>2, <1>1, <1>2 DEF UnsubscribeDone, IInv, TypeOK, HandlerInv
  <2> QED BY <2>1, <2>2
<1>4. mutex = l /\ \A k \in Loops : k # l => pc[k] \notin Writing
  BY <1>1 DEF IInv, LockInv, Writing
<1>5. LockInv'
  BY <1>1, <1>4, PresenceAssumption DEF LockInv, Writing
<1>6. HandlerInv'
  <2>1. ASSUME NEW k \in Loops, k # l, pc[k] = "remove" PROVE who[k] # u
    <3>1. k \in online[who[k]]
      BY <2>1 DEF IInv, HandlerInv
    <3> QED BY <3>1, <1>2
  <2> QED BY <1>1, <1>3, <1>4, <2>1 DEF IInv, TypeOK, HandlerInv, Writing
<1>7. IndexInv'
  <2>1. ASSUME NEW k \in Loops, NEW v \in Users, local[k][v] # {}
        PROVE  k \in online'[v] \/ (pc'[k] \in {"add", "subscribe"} /\ who[k] = v)
    <3>1. k \in online[v] \/ (pc[k] \in {"add", "subscribe"} /\ who[k] = v)
      BY <2>1 DEF IInv, IndexInv
    <3> QED BY <1>1, <1>2, <1>3, <2>1, <3>1
  <2>2. ASSUME NEW k \in Loops, NEW v \in Users, k \in online'[v]
        PROVE  local[k][v] # {} \/ (pc'[k] = "remove" /\ who[k] = v)
    <3>1. CASE v = u
      BY <1>3, <2>2, <3>1
    <3>2. CASE v # u
      <4>1. local[k][v] # {} \/ (pc[k] = "remove" /\ who[k] = v)
        BY <1>1, <2>2, <3>2 DEF IInv, IndexInv
      <4> QED BY <4>1, <1>1, <3>2
    <3> QED BY <3>1, <3>2
  <2> QED BY <2>1, <2>2, <1>1 DEF IndexInv
<1>8. AccountInv'
  BY <1>1, <1>3 DEF IInv, AccountInv, Good
<1>9. RedisInv'
  <2> SUFFICES ASSUME NEW p \in PubSubs
               PROVE  /\ ~alive'[p] => (pipe'[p] = <<>> /\ subs'[p] = {})
                      /\ alive'[p] => \A v \in Users :
                           Subscribed(p, v)' <=>
                             \/ online'[v] # {}
                             \/ \E k \in Loops : who'[k] = v
                                  /\ (HasSubscribed(k, p) \/ YetToUnsubscribe(k, p))'
    BY DEF RedisInv
  <2>1. \A v \in Users : Subscribed(p, v)' <=> Subscribed(p, v)
    BY <1>1 DEF Subscribed
  <2>2. p \in Nat /\ p < NumPubSubs + 1 /\ NumPubSubs \in Nat
    BY PresenceAssumption DEF PubSubs
  <2>3. \A k \in Loops : k # l => ~HasSubscribed(k, p) /\ ~YetToUnsubscribe(k, p)
    BY <1>4 DEF HasSubscribed, YetToUnsubscribe, Writing
  <2>4. \A k \in Loops : ~HasSubscribed(k, p)' /\ ~YetToUnsubscribe(k, p)'
    BY <1>1, <1>4 DEF HasSubscribed, YetToUnsubscribe, Writing
  <2>5. (HasSubscribed(l, p) <=> pc[l] = "subscribe") /\ ~YetToUnsubscribe(l, p)
    BY <1>1, <2>2 DEF HasSubscribed, YetToUnsubscribe
  <2>6. ~alive[p] => (pipe[p] = <<>> /\ subs[p] = {})
    BY DEF IInv, RedisInv
  <2>7. ASSUME alive[p], NEW v \in Users
        PROVE  Subscribed(p, v) <=> (online[v] # {} \/ (u = v /\ pc[l] = "subscribe"))
    BY <2>3, <2>5, <2>7 DEF IInv, RedisInv
  <2>8. ASSUME alive[p], NEW v \in Users
        PROVE  Subscribed(p, v)' <=> online'[v] # {}
    BY <1>1, <1>2, <1>3, <2>1, <2>7, <2>8
  <2> QED BY <1>1, <2>4, <2>6, <2>8
<1> QED BY <1>5, <1>6, <1>7, <1>8, <1>9
-----------------------------------------------------------------------------
(***************************************************************************)
(* Redis.                                                                  *)
(***************************************************************************)

(* Redis reads a command, or the connection breaks.                        *)
LEMMA RedisStep ==
  ASSUME IInv, NEW p \in PubSubs, RedisExecutes(p) \/ RedisConnectionLost(p)
  PROVE  LockInv' /\ HandlerInv' /\ IndexInv' /\ AccountInv' /\ RedisInv'
<1>1. /\ UNCHANGED <<accounts, local, online, mutex, pc, who, next>>
      /\ \A q \in PubSubs : q # p => /\ pipe'[q] = pipe[q] /\ subs'[q] = subs[q]
                                     /\ alive'[q] = alive[q]
  <2>1. CASE RedisExecutes(p)
    BY <2>1 DEF RedisExecutes, IInv, TypeOK, accountVars, threadVars
  <2>2. CASE RedisConnectionLost(p)
    BY <2>2 DEF RedisConnectionLost, IInv, TypeOK, accountVars, threadVars
  <2> QED BY <2>1, <2>2
<1>2. LockInv' /\ HandlerInv' /\ IndexInv' /\ AccountInv'
  BY <1>1 DEF IInv, LockInv, HandlerInv, IndexInv, AccountInv, Good
<1>3. \A q \in PubSubs, k \in Loops :
        /\ HasSubscribed(k, q)' <=> HasSubscribed(k, q)
        /\ YetToUnsubscribe(k, q)' <=> YetToUnsubscribe(k, q)
  BY <1>1 DEF HasSubscribed, YetToUnsubscribe
<1>4. \A q \in PubSubs, v \in Users : q # p => (Subscribed(q, v)' <=> Subscribed(q, v))
  BY <1>1 DEF Subscribed
<1>5. CASE RedisExecutes(p)
  <2>1. /\ alive'[p] = alive[p] /\ pipe[p] # <<>> /\ pipe[p] \in Seq(Commands)
        /\ pipe'[p] = Tail(pipe[p])
        /\ subs'[p] = Executed(Head(pipe[p]), subs[p])
    BY <1>5 DEF RedisExecutes, IInv, TypeOK, Executed
  <2>2. \A v \in Users : Subscribed(p, v)' <=> Subscribed(p, v)
    BY <2>1, SettledTail DEF Subscribed
  <2>3. alive[p]
    BY <2>1 DEF IInv, RedisInv
  <2>4. RedisInv'
    <3>1. \A q \in PubSubs : alive'[q] = alive[q]
      BY <1>1, <2>1
    <3>2. \A q \in PubSubs : ~alive'[q] => (pipe'[q] = <<>> /\ subs'[q] = {})
      BY <1>1, <2>3, <3>1 DEF IInv, RedisInv
    <3>3. \A q \in PubSubs, v \in Users : Subscribed(q, v)' <=> Subscribed(q, v)
      BY <1>4, <2>2
    <3> QED BY <1>1, <1>3, <3>1, <3>2, <3>3 DEF IInv, RedisInv
  <2> QED BY <1>2, <2>4
<1>6. CASE RedisConnectionLost(p)
  <2>1. ~alive'[p] /\ pipe'[p] = <<>> /\ subs'[p] = {}
    BY <1>6 DEF RedisConnectionLost, IInv, TypeOK
  <2>2. RedisInv'
    BY <1>1, <1>3, <1>4, <2>1 DEF IInv, RedisInv
  <2> QED BY <1>2, <2>2
<1> QED BY <1>5, <1>6
-----------------------------------------------------------------------------
(***************************************************************************)
(* The theorems.                                                           *)
(***************************************************************************)

(* Every step of the server and of Redis keeps the invariant.              *)
LEMMA InvStep == IInv /\ [Next]_vars => IInv'
<1> SUFFICES ASSUME IInv, [Next]_vars PROVE IInv'
  OBVIOUS
<1>1. TypeOK'
  BY TypeStep DEF IInv
<1>2. ASSUME NEW c \in Conns, Callback(c) PROVE IInv'
  BY <1>1, <1>2, CallbackStep
<1>3. ASSUME NEW l \in Loops, LockMutex(l) PROVE IInv'
  BY <1>1, <1>3, ShortSectionStep, LongSectionStep DEF LockMutex, IInv
<1>4. ASSUME NEW l \in Loops, Unblocked(l) PROVE IInv'
  BY <1>1, <1>4, WriteStep, DoneStep DEF Unblocked, IInv
<1>5. ASSUME NEW p \in PubSubs, RedisExecutes(p) \/ RedisConnectionLost(p) PROVE IInv'
  BY <1>1, <1>5, RedisStep DEF IInv
<1>6. CASE UNCHANGED vars
  <2>1. UNCHANGED <<accounts, local, online, mutex, pc, who, next, pipe, subs, alive>>
    BY <1>6 DEF vars
  <2>2. RedisInv'
    BY <2>1, RedisUntouched DEF IInv
  <2> QED BY <1>1, <2>1, <2>2 DEF IInv, LockInv, HandlerInv, IndexInv, AccountInv, Good
<1> QED BY <1>2, <1>3, <1>4, <1>5, <1>6 DEF Next

(* IInv is an invariant of the server.                                     *)
THEOREM Invariance == Spec => []IInv
BY InvInit, InvStep, PTL DEF Spec

(* online_users_ and the loops' connections agree between callbacks.       *)
THEOREM IndexCorrect == Spec => []IndexMatchesConnections
<1>1. IInv => IndexMatchesConnections
  BY DEF IInv, IndexInv, IndexMatchesConnections
<1> QED BY <1>1, Invariance, PTL

(* A finished login is subscribed at every Redis server within reach until *)
(* the user's last connection of the loop has gone, however logins and     *)
(* logouts of the same user on other loops interleave with it.             *)
THEOREM SubscriptionCorrect == Spec => []SessionsAreSubscribed
<1>1. IInv => SessionsAreSubscribed
  <2> SUFFICES ASSUME IInv, NEW l \in Loops, NEW u \in Users, NEW p \in PubSubs,
                      pc[l] = "idle", local[l][u] # {}, alive[p]
               PROVE  Subscribed(p, u)
    BY DEF SessionsAreSubscribed
  <2>1. online[u] # {}
    BY DEF IInv, IndexInv
  <2> QED BY <2>1 DEF IInv, RedisInv
<1> QED BY <1>1, Invariance, PTL

(* No channel stays subscribed after its user's last logout.               *)
THEOREM UnsubscriptionCorrect == Spec => []NoOrphanSubscription
<1>1. IInv => NoOrphanSubscription
  <2> SUFFICES ASSUME IInv, NEW u \in Users, NEW p \in PubSubs,
                      mutex = Nobody, Subscribed(p, u)
               PROVE  online[u] # {}
    BY DEF NoOrphanSubscription
  <2>1. \A l \in Loops : ~HasSubscribed(l, p) /\ ~YetToUnsubscribe(l, p)
    BY PresenceAssumption DEF IInv, LockInv, HasSubscribed, YetToUnsubscribe
  <2>2. alive[p]
    <3>1. ~alive[p] => ~Subscribed(p, u)
      BY DEF IInv, RedisInv, Subscribed, Settled
    <3> QED BY <3>1
  <2> QED BY <2>1, <2>2 DEF IInv, RedisInv
<1> QED BY <1>1, Invariance, PTL

(* Only users with an account and a password are ever online.              *)
THEOREM OnlineCorrect == Spec => []OnlyAccountsOnline
<1>1. IInv => OnlyAccountsOnline
  BY PresenceAssumption
     DEF IInv, AccountInv, Good, OnlyAccountsOnline, SearchOnline, SearchAll
<1> QED BY <1>1, Invariance, PTL
=============================================================================
