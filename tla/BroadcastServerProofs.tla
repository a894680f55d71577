------------------------ MODULE BroadcastServerProofs ------------------------
(***************************************************************************)
(* Proofs about BroadcastServer: copy-on-write never writes to a map that  *)
(* somebody reads, the map is as good as a table with atomic operations,   *)
(* and all connections hear the texts in one order.                        *)
(***************************************************************************)
EXTENDS BroadcastServer, FiniteSetTheorems, TLAPS

-----------------------------------------------------------------------------
(***************************************************************************)
(* The inductive invariant                                                 *)
(***************************************************************************)

Labels == {"idle", "get", "read", "lock", "copy", "emplace", "respond", "lockLoops", "queue"}

(* A handler serves a request of its kind.                                 *)
RequestInv ==
  \A l \in Loops :
    /\ pc[l] \in {"get", "read"} => req[l] \in Requests /\ req[l].op # "REGISTER"
    /\ pc[l] \in {"lock", "copy", "emplace", "respond"} =>
         req[l] \in Requests /\ req[l].op = "REGISTER"

(* The writer has users_mutex_, a reader has a reference, and the map the  *)
(* writer has found unshared, or has made, stays unshared.                 *)
AccountInv ==
  /\ \A l \in Loops : pc[l] \in {"copy", "emplace"} <=> usersMutex = l
  /\ \A l \in Loops : pc[l] = "read" <=> held[l] # Null
  /\ \A l \in Loops : pc[l] = "emplace" => Unique(usersPtr)

(* The loops that wait to begin a broadcast.                               *)
Waiting == {l \in Loops : pc[l] = "lockLoops"}

(* One loop at a time walks over loops_, with the latest text.             *)
WalkInv ==
  /\ texts + Cardinality(Waiting) <= requests
  /\ \A l \in Loops : pc[l] = "queue" <=> loopsMutex = l
  /\ \A l \in Loops : pc[l] = "queue" <=> todo[l] # {}
  /\ \A l \in Loops : pc[l] = "queue" => text[l] = texts /\ texts > 0

(* A connection is on one loop at most, and silent until it comes up.      *)
ConnInv ==
  /\ \A l, k \in Loops, c \in Conns : (c \in local[l] /\ c \in local[k]) => l = k
  /\ \A c \in fresh : heard[c] = <<>> /\ \A l \in Loops : c \notin local[l]

(* The last text that loop k has been given.                               *)
LastQueued(k) == IF \E l \in Loops : k \in todo[l] THEN texts - 1 ELSE texts

(* A loop's queue holds the end of the one sequence of texts, and what its *)
(* connections have heard joins it without a gap.                          *)
OrderInv ==
  /\ \A k \in Loops : \A i \in 1..Len(queue[k]) :
       queue[k][i] = LastQueued(k) - Len(queue[k]) + i
  /\ \A k \in Loops : \A c \in local[k] :
       heard[c] # <<>> => heard[c][Len(heard[c])] = LastQueued(k) - Len(queue[k])

IInv ==
  /\ TypeOK /\ RequestInv /\ AccountInv
  /\ WalkInv /\ ConnInv /\ OrderInv /\ OneOrder
-----------------------------------------------------------------------------
(***************************************************************************)
(* Types                                                                   *)
(***************************************************************************)

(* A pigeonhole: every loop keeps one map alive at most and the writer     *)
(* none, so there is an address to copy the map to.                        *)
LEMMA FreeAddress ==
  ASSUME TypeOK, AccountInv, NEW l \in Loops, pc[l] = "copy"
  PROVE  \E a \in Addresses : a # usersPtr /\ Unique(a)
<1> SUFFICES ASSUME \A a \in Addresses : a = usersPtr \/ ~Unique(a) PROVE FALSE
  OBVIOUS
<1> DEFINE N == Cardinality(Loops)
           Others == Loops \ {l}
           Copies == Addresses \ {usersPtr}
           Holder == [a \in Copies |-> CHOOSE k \in Others : held[k] = a]
<1>1. IsFiniteSet(Loops) /\ N \in Nat
  BY BroadcastServerAssumption, FS_CardinalityType
<1>2. IsFiniteSet(Others) /\ Cardinality(Others) = N - 1
  BY <1>1, FS_RemoveElement
<1>3. IsFiniteSet(Addresses) /\ Cardinality(Addresses) = N + 1
  <2>1. 1 \in Int /\ N + 1 \in Int /\ ~(1 > N + 1) /\ (N + 1) - 1 + 1 = N + 1
    BY <1>1
  <2>2. Addresses = 1..(N + 1)
    BY DEF Addresses
  <2> HIDE DEF N
  <2> QED BY <2>1, <2>2, FS_Interval
<1>4. IsFiniteSet(Copies) /\ Cardinality(Copies) = N
  <2>1. usersPtr \in Addresses
    BY DEF TypeOK
  <2>2. IsFiniteSet(Copies) /\ Cardinality(Copies) =
          IF usersPtr \in Addresses THEN Cardinality(Addresses) - 1 ELSE Cardinality(Addresses)
    BY <1>3, FS_RemoveElement
  <2> QED BY <1>1, <1>3, <2>1, <2>2
<1>5. \A a \in Copies : \E k \in Others : held[k] = a
  <2>1. Null \notin Addresses
    BY <1>1 DEF Addresses, Null
  <2>2. held[l] = Null
    BY DEF AccountInv
  <2> QED BY <2>1, <2>2 DEF Unique
<1>6. \A a \in Copies : Holder[a] \in Others /\ held[Holder[a]] = a
  BY <1>5
<1>7. Holder \in [Copies -> Others] /\ Cardinality(Others) < Cardinality(Copies)
  BY <1>1, <1>2, <1>4, <1>6
<1> HIDE DEF N, Others, Copies, Holder
<1> QED BY <1>2, <1>4, <1>6, <1>7, FS_PigeonHole

(* The answer a reader gives is of its type.                               *)
LEMMA ReadResultType ==
  ASSUME NEW map \in [Users -> Passwords \cup {Absent}], NEW r \in Requests, r.op # "REGISTER"
  PROVE  ReadResult(map, r) \in Results
BY BroadcastServerAssumption DEF ReadResult, Results

(* Starting and ending a wait for loops_mutex_ changes the number of       *)
(* waiting loops by one.                                                   *)
LEMMA WaitingChanges ==
  ASSUME NEW l \in Loops
  PROVE  /\ Cardinality(Waiting) \in Nat
         /\ (pc[l] # "lockLoops" /\ Waiting' = Waiting \cup {l})
              => Cardinality(Waiting') = Cardinality(Waiting) + 1
         /\ (pc[l] = "lockLoops" /\ Waiting' = Waiting \ {l})
              => Cardinality(Waiting') = Cardinality(Waiting) - 1
<1>1. IsFiniteSet(Waiting) /\ Cardinality(Waiting) \in Nat
  BY BroadcastServerAssumption, FS_Subset, FS_CardinalityType DEF Waiting
<1>2. l \in Waiting <=> pc[l] = "lockLoops"
  BY DEF Waiting
<1>3. Cardinality(Waiting \cup {l}) = IF l \in Waiting THEN Cardinality(Waiting)
                                      ELSE Cardinality(Waiting) + 1
  BY <1>1, FS_AddElement
<1>4. Cardinality(Waiting \ {l}) = IF l \in Waiting THEN Cardinality(Waiting) - 1
                                   ELSE Cardinality(Waiting)
  BY <1>1, FS_RemoveElement
<1> QED BY <1>1, <1>2, <1>3, <1>4

(* The address chosen for a copy.                                          *)
FreeSpot == CHOOSE a \in Addresses : a # usersPtr /\ Unique(a)

(* Every step keeps the types and serves requests of its kind.             *)
LEMMA TypeStep ==
  TypeOK /\ RequestInv /\ AccountInv /\ WalkInv /\ [Next]_vars => TypeOK' /\ RequestInv'
<1> SUFFICES ASSUME TypeOK, RequestInv, AccountInv, WalkInv, [Next]_vars
             PROVE  TypeOK' /\ RequestInv'
  OBVIOUS
<1> USE BroadcastServerAssumption DEF accountVars, textVars, connVars, Goto
<1>0. CASE UNCHANGED vars
  BY <1>0 DEF vars, TypeOK, RequestInv
<1> SUFFICES ASSUME NEW l \in Loops,
                    \/ \E c \in Conns : ConnectionUp(l, c) \/ ConnectionDown(l, c)
                    \/ ReceiveRequest(l) \/ OnTextMessage(l) \/ Run(l)
             PROVE  TypeOK' /\ RequestInv'
  BY <1>0 DEF Next
<1>1. ASSUME NEW c \in Conns, ConnectionUp(l, c) \/ ConnectionDown(l, c)
      PROVE  TypeOK' /\ RequestInv'
  <2>1. local[l] \in SUBSET Conns /\ fresh \subseteq Conns
    BY DEF TypeOK
  <2>2. fresh' \subseteq Conns /\ local' \in [Loops -> SUBSET Conns]
    <3>1. CASE ConnectionUp(l, c)
      BY <2>1, <3>1 DEF ConnectionUp, TypeOK
    <3>2. CASE ConnectionDown(l, c)
      BY <2>1, <3>2 DEF ConnectionDown, TypeOK
    <3> QED BY <1>1, <3>1, <3>2
  <2>3. UNCHANGED <<accountVars, textVars, pc, requests>>
    BY <1>1 DEF ConnectionUp, ConnectionDown
  <2> QED BY <2>2, <2>3 DEF TypeOK, RequestInv
<1>2. CASE ReceiveRequest(l)
  <2>1. PICK r \in Requests : /\ Dispatch(l, IF r.op = "REGISTER" THEN "lock" ELSE "get")
                              /\ req' = [req EXCEPT ![l] = r]
    BY <1>2 DEF ReceiveRequest
  <2>2. requests' \in 0..MaxRequests /\ texts \in 0..requests'
    BY <2>1 DEF Dispatch, TypeOK
  <2>3. UNCHANGED <<maps, usersPtr, held, usersMutex, inserted, answer, connVars, textVars>>
    BY <1>2, <2>1 DEF ReceiveRequest, Dispatch
  <2>4. pc' \in [Loops -> Labels] /\ req' \in [Loops -> Requests \cup {NoRequest}]
    BY <2>1 DEF Dispatch, TypeOK, Labels
  <2>5. RequestInv'
    BY <2>1 DEF Dispatch, RequestInv, TypeOK
  <2> QED BY <2>2, <2>3, <2>4, <2>5 DEF TypeOK, Labels
<1>3. CASE OnTextMessage(l)
  <2>1. requests' \in 0..MaxRequests /\ texts \in 0..requests'
    BY <1>3 DEF OnTextMessage, Dispatch, TypeOK
  <2> QED BY <1>3, <2>1 DEF OnTextMessage, Dispatch, TypeOK, RequestInv
<1>4. CASE GetUsersPtr(l)
  BY <1>4 DEF GetUsersPtr, Hold, TypeOK, RequestInv
<1>5. CASE ReadUsers(l)
  <2>1. held[l] \in Addresses
    BY <1>5 DEF ReadUsers, AccountInv, TypeOK
  <2>2. ReadResult(maps[held[l]], req[l]) \in Results /\ req[l] \in Requests
    BY <1>5, <2>1, ReadResultType DEF ReadUsers, RequestInv, TypeOK
  <2>3. answer' \in [request : Requests, result : Results]
    BY <1>5, <2>2 DEF ReadUsers, Respond
  <2>4. /\ held' \in [Loops -> Addresses \cup {Null}] /\ pc' \in [Loops -> Labels]
        /\ req' \in [Loops -> Requests \cup {NoRequest}]
        /\ UNCHANGED <<maps, usersPtr, usersMutex, inserted, connVars, textVars, requests>>
    BY <1>5 DEF ReadUsers, Respond, TypeOK, Labels
  <2>5. RequestInv'
    BY <1>5 DEF ReadUsers, Respond, RequestInv, TypeOK
  <2> QED BY <2>3, <2>4, <2>5 DEF TypeOK, Labels
<1>6. CASE RegisterLock(l)
  BY <1>6 DEF RegisterLock, TypeOK, RequestInv
<1>7. CASE RegisterCopy(l)
  <2>1. /\ pc[l] = "copy" /\ usersPtr' = FreeSpot
        /\ maps' = [maps EXCEPT ![FreeSpot] = maps[usersPtr]]
        /\ pc' = [pc EXCEPT ![l] = "emplace"]
        /\ UNCHANGED <<held, usersMutex, req, inserted, answer, connVars, textVars, requests>>
    BY <1>7 DEF RegisterCopy, Reset, FreeSpot
  <2>2. FreeSpot \in Addresses
    BY <2>1, FreeAddress DEF FreeSpot
  <2> QED BY <2>1, <2>2 DEF TypeOK, RequestInv
<1>8. CASE RegisterEmplace(l)
  <2>1. req[l].user \in Users /\ req[l].password \in Passwords
    BY <1>8 DEF RegisterEmplace, RequestInv, Requests
  <2> QED BY <1>8, <2>1 DEF RegisterEmplace, TypeOK, RequestInv
<1>9. CASE RegisterRespond(l)
  <2>1. req[l] \in Requests /\ [success |-> inserted[l]] \in Results
    BY <1>9 DEF RegisterRespond, RequestInv, Results, TypeOK
  <2>2. answer' \in [request : Requests, result : Results]
    BY <1>9, <2>1 DEF RegisterRespond, Respond
  <2>3. /\ pc' \in [Loops -> Labels] /\ inserted' \in [Loops -> BOOLEAN]
        /\ req' \in [Loops -> Requests \cup {NoRequest}]
        /\ UNCHANGED <<maps, usersPtr, held, usersMutex, connVars, textVars, requests>>
    BY <1>9 DEF RegisterRespond, Respond, TypeOK, Labels
  <2>4. RequestInv'
    BY <1>9 DEF RegisterRespond, Respond, RequestInv, TypeOK
  <2> QED BY <2>2, <2>3, <2>4 DEF TypeOK, Labels
<1>10. CASE LockLoops(l)
  <2>1. Cardinality(Waiting) \in Nat /\ Cardinality(Waiting) >= 1
    <3>1. l \in Waiting /\ IsFiniteSet(Waiting)
      BY <1>10, FS_Subset DEF LockLoops, StartWalk, Waiting
    <3>2. Waiting # {} /\ Cardinality(Waiting) \in Nat /\ (Cardinality(Waiting) = 0 <=> Waiting = {})
      BY <3>1, FS_CardinalityType, FS_EmptySet
    <3> QED BY <3>2
  <2>2. texts' \in 1..requests
    BY <1>10, <2>1 DEF LockLoops, StartWalk, WalkInv, TypeOK
  <2>3. texts' \in Texts
    BY <2>2 DEF Texts, TypeOK
  <2>4. /\ pc' \in [Loops -> Labels] /\ text' \in [Loops -> Texts \cup {0}]
        /\ todo' \in [Loops -> SUBSET Loops] /\ loopsMutex' \in Loops
        /\ UNCHANGED <<queue, heard, accountVars, connVars, requests>>
    BY <1>10, <2>3 DEF LockLoops, StartWalk, TypeOK, Labels
  <2>5. RequestInv'
    BY <1>10 DEF LockLoops, StartWalk, RequestInv, TypeOK
  <2> QED BY <2>2, <2>4, <2>5 DEF TypeOK, Labels
<1>11. ASSUME NEW k \in Loops, QueueInLoop(l, k) PROVE TypeOK' /\ RequestInv'
  <2>1. text[l] \in Texts
    BY <1>11 DEF QueueInLoop, QueueTo, WalkInv, TypeOK
  <2>2. queue' \in [Loops -> Seq(Texts)] /\ todo' \in [Loops -> SUBSET Loops]
    BY <1>11, <2>1 DEF QueueInLoop, QueueTo, TypeOK
  <2>3. /\ pc' \in [Loops -> Labels] /\ text' \in [Loops -> Texts \cup {0}]
        /\ loopsMutex' \in Loops \cup {Nobody}
        /\ UNCHANGED <<heard, texts, accountVars, connVars, requests>>
    BY <1>11 DEF QueueInLoop, QueueTo, TypeOK, Labels
  <2>4. RequestInv'
    BY <1>11 DEF QueueInLoop, QueueTo, RequestInv, TypeOK
  <2> QED BY <2>2, <2>3, <2>4 DEF TypeOK, Labels
<1>12. CASE DistributeTextMessage(l)
  <2>1. Head(queue[l]) \in Texts /\ Tail(queue[l]) \in Seq(Texts)
    BY <1>12 DEF DistributeTextMessage, TypeOK
  <2>2. heard' \in [Conns -> Seq(Texts)] /\ queue' \in [Loops -> Seq(Texts)]
    BY <1>12, <2>1 DEF DistributeTextMessage, TypeOK
  <2> QED BY <1>12, <2>2 DEF DistributeTextMessage, TypeOK, RequestInv
<1> QED
  BY <1>1, <1>2, <1>3, <1>4, <1>5, <1>6, <1>7, <1>8, <1>9, <1>10, <1>11, <1>12 DEF Run
-----------------------------------------------------------------------------
(***************************************************************************)
(* Accounts                                                                *)
(***************************************************************************)

(* Copy-on-write: a reader takes its reference under the mutex the writer  *)
(* holds, so nobody gets at the writer's map.                              *)
LEMMA AccountStep == TypeOK /\ AccountInv /\ [Next]_vars => AccountInv'
<1> SUFFICES ASSUME TypeOK, AccountInv, [Next]_vars PROVE AccountInv'
  OBVIOUS
<1> USE BroadcastServerAssumption DEF accountVars, textVars, connVars, Goto
<1>0. CASE UNCHANGED vars
  BY <1>0 DEF vars, AccountInv, Unique
<1> SUFFICES ASSUME NEW l \in Loops,
                    \/ \E c \in Conns : ConnectionUp(l, c) \/ ConnectionDown(l, c)
                    \/ ReceiveRequest(l) \/ OnTextMessage(l) \/ Run(l)
             PROVE  AccountInv'
  BY <1>0 DEF Next
<1>1. ASSUME pc[l] \notin {"copy", "emplace", "read"},
             pc'[l] \notin {"copy", "emplace", "read"},
             \A k \in Loops \ {l} : pc'[k] = pc[k],
             UNCHANGED <<usersPtr, held, usersMutex>>
      PROVE  AccountInv'
  BY <1>1 DEF AccountInv, Unique
<1>2. CASE \/ \E c \in Conns : ConnectionUp(l, c) \/ ConnectionDown(l, c)
           \/ ReceiveRequest(l) \/ OnTextMessage(l)
  BY <1>1, <1>2 DEF ConnectionUp, ConnectionDown, ReceiveRequest, OnTextMessage, Dispatch, TypeOK
<1>3. CASE RegisterRespond(l) \/ LockLoops(l) \/ DistributeTextMessage(l)
  BY <1>1, <1>3 DEF RegisterRespond, Respond, LockLoops, StartWalk, DistributeTextMessage, TypeOK
<1>4. ASSUME NEW k \in Loops, QueueInLoop(l, k) PROVE AccountInv'
  BY <1>1, <1>4 DEF QueueInLoop, QueueTo, TypeOK
<1>5. CASE GetUsersPtr(l)
  <2>1. usersPtr # Null
    BY DEF TypeOK, Addresses, Null
  <2> QED BY <1>5, <2>1 DEF GetUsersPtr, Hold, TypeOK, AccountInv, Unique
<1>6. CASE ReadUsers(l)
  <2>1. usersPtr # Null
    BY DEF TypeOK, Addresses, Null
  <2> QED BY <1>6, <2>1 DEF ReadUsers, Respond, TypeOK, AccountInv, Unique
<1>7. CASE RegisterLock(l)
  BY <1>7 DEF RegisterLock, TypeOK, AccountInv, Unique
<1>8. CASE RegisterCopy(l)
  <2>1. /\ pc[l] = "copy" /\ usersPtr' = FreeSpot
        /\ pc' = [pc EXCEPT ![l] = "emplace"]
        /\ UNCHANGED <<held, usersMutex>>
    BY <1>8 DEF RegisterCopy, Reset, FreeSpot
  <2>2. Unique(FreeSpot)
    BY <2>1, FreeAddress DEF FreeSpot
  <2> QED BY <2>1, <2>2 DEF TypeOK, AccountInv, Unique
<1>9. CASE RegisterEmplace(l)
  BY <1>9 DEF RegisterEmplace, TypeOK, AccountInv, Unique
<1> QED BY <1>2, <1>3, <1>4, <1>5, <1>6, <1>7, <1>8, <1>9 DEF Run
-----------------------------------------------------------------------------
(***************************************************************************)
(* Texts                                                                   *)
(***************************************************************************)

(* One walk over the loops at a time.                                      *)
LEMMA WalkStep == TypeOK /\ WalkInv /\ [Next]_vars => WalkInv'
<1> SUFFICES ASSUME TypeOK, WalkInv, [Next]_vars PROVE WalkInv'
  OBVIOUS
<1> USE BroadcastServerAssumption DEF accountVars, textVars, connVars, Goto
<1>0. CASE UNCHANGED vars
  BY <1>0 DEF vars, WalkInv, Waiting
<1> SUFFICES ASSUME NEW l \in Loops,
                    \/ \E c \in Conns : ConnectionUp(l, c) \/ ConnectionDown(l, c)
                    \/ ReceiveRequest(l) \/ OnTextMessage(l) \/ Run(l)
             PROVE  WalkInv'
  BY <1>0 DEF Next
<1>1. ASSUME pc[l] \notin {"lockLoops", "queue"},
             pc'[l] \notin {"lockLoops", "queue"},
             \A k \in Loops \ {l} : pc'[k] = pc[k],
             requests' \in {requests, requests + 1},
             UNCHANGED <<loopsMutex, todo, text, texts>>
      PROVE  WalkInv'
  <2>1. Waiting' = Waiting
    BY <1>1 DEF Waiting
  <2>2. texts + Cardinality(Waiting') <= requests'
    BY <1>1, <2>1, WaitingChanges DEF WalkInv, TypeOK
  <2> QED BY <1>1, <2>2 DEF WalkInv
<1>2. CASE ReceiveRequest(l) \/ \E c \in Conns : ConnectionUp(l, c) \/ ConnectionDown(l, c)
  BY <1>1, <1>2 DEF ConnectionUp, ConnectionDown, ReceiveRequest, Dispatch, TypeOK
<1>3. CASE GetUsersPtr(l) \/ ReadUsers(l) \/ RegisterLock(l) \/ RegisterCopy(l)
           \/ RegisterEmplace(l) \/ RegisterRespond(l) \/ DistributeTextMessage(l)
  BY <1>1, <1>3 DEF GetUsersPtr, Hold, ReadUsers, RegisterLock, RegisterCopy, Reset,
     RegisterEmplace, RegisterRespond, Respond, DistributeTextMessage, TypeOK
<1>4. CASE OnTextMessage(l)
  <2>1. Waiting' = Waiting \cup {l} /\ pc[l] # "lockLoops"
    BY <1>4 DEF OnTextMessage, Dispatch, Waiting, TypeOK
  <2>2. /\ requests' = requests + 1 /\ UNCHANGED <<loopsMutex, todo, text, texts>>
        /\ pc' = [pc EXCEPT ![l] = "lockLoops"] /\ pc[l] = "idle"
    BY <1>4 DEF OnTextMessage, Dispatch
  <2>3. texts' + Cardinality(Waiting') <= requests'
    <3>1. Cardinality(Waiting) \in Nat /\ Cardinality(Waiting') = Cardinality(Waiting) + 1
      BY <2>1, WaitingChanges
    <3> QED BY <2>2, <3>1 DEF WalkInv, TypeOK
  <2> QED BY <2>2, <2>3 DEF WalkInv, TypeOK
<1>5. CASE LockLoops(l)
  <2>1. Waiting' = Waiting \ {l} /\ pc[l] = "lockLoops"
    BY <1>5 DEF LockLoops, StartWalk, Waiting, TypeOK
  <2>2. texts' + Cardinality(Waiting') <= requests'
    <3>1. Cardinality(Waiting) \in Nat /\ Cardinality(Waiting') = Cardinality(Waiting) - 1
      BY <2>1, WaitingChanges
    <3>2. texts' = texts + 1 /\ requests' = requests
      BY <1>5 DEF LockLoops, StartWalk
    <3> QED BY <3>1, <3>2 DEF WalkInv, TypeOK
  <2>3. \A k \in Loops : pc[k] # "queue" /\ todo[k] = {}
    BY <1>5 DEF LockLoops, WalkInv
  <2> QED BY <1>5, <2>2, <2>3 DEF LockLoops, StartWalk, WalkInv, TypeOK
<1>6. ASSUME NEW k \in Loops, QueueInLoop(l, k) PROVE WalkInv'
  <2>1. Waiting' = Waiting
    BY <1>6 DEF QueueInLoop, QueueTo, Waiting, TypeOK
  <2>2. texts' + Cardinality(Waiting') <= requests'
    BY <1>6, <2>1 DEF QueueInLoop, QueueTo, WalkInv
  <2>3. CASE todo[l] \ {k} = {}
    BY <1>6, <2>2, <2>3 DEF QueueInLoop, QueueTo, WalkInv, TypeOK
  <2>4. CASE todo[l] \ {k} # {}
    BY <1>6, <2>2, <2>4 DEF QueueInLoop, QueueTo, WalkInv, TypeOK
  <2> QED BY <2>3, <2>4
<1> QED BY <1>2, <1>3, <1>4, <1>5, <1>6 DEF Run

(* A connection stays on its loop.                                         *)
LEMMA ConnStep == TypeOK /\ ConnInv /\ [Next]_vars => ConnInv'
<1> SUFFICES ASSUME TypeOK, ConnInv, [Next]_vars PROVE ConnInv'
  OBVIOUS
<1> USE DEF accountVars, textVars, connVars
<1>0. CASE UNCHANGED vars
  BY <1>0 DEF vars, ConnInv
<1> SUFFICES ASSUME NEW l \in Loops,
                    \/ \E c \in Conns : ConnectionUp(l, c) \/ ConnectionDown(l, c)
                    \/ ReceiveRequest(l) \/ OnTextMessage(l) \/ Run(l)
             PROVE  ConnInv'
  BY <1>0 DEF Next
<1>1. ASSUME NEW c \in Conns, ConnectionUp(l, c) PROVE ConnInv'
  BY <1>1 DEF ConnectionUp, ConnInv, TypeOK
<1>2. ASSUME NEW c \in Conns, ConnectionDown(l, c) PROVE ConnInv'
  BY <1>2 DEF ConnectionDown, ConnInv, TypeOK
<1>3. CASE DistributeTextMessage(l)
  BY <1>3 DEF DistributeTextMessage, ConnInv, TypeOK
<1>4. ASSUME UNCHANGED <<local, fresh, heard>> PROVE ConnInv'
  BY <1>4 DEF ConnInv
<1>5. CASE ReceiveRequest(l) \/ OnTextMessage(l)
  BY <1>4, <1>5 DEF ReceiveRequest, OnTextMessage, Dispatch
<1>6. CASE GetUsersPtr(l) \/ ReadUsers(l) \/ RegisterLock(l) \/ RegisterCopy(l)
           \/ RegisterEmplace(l) \/ RegisterRespond(l)
  BY <1>4, <1>6 DEF GetUsersPtr, Hold, ReadUsers, RegisterLock, RegisterCopy, Reset,
     RegisterEmplace, RegisterRespond
<1>7. CASE LockLoops(l) \/ \E k \in Loops : QueueInLoop(l, k)
  BY <1>4, <1>7 DEF LockLoops, StartWalk, QueueInLoop, QueueTo
<1> QED BY <1>1, <1>2, <1>3, <1>5, <1>6, <1>7 DEF Run

(* What a loop has queued and what its connections have heard fit together *)
(* after every step.                                                       *)
LEMMA OrderStep ==
  TypeOK /\ WalkInv /\ ConnInv /\ OrderInv /\ OneOrder /\ [Next]_vars => OrderInv' /\ OneOrder'
<1> SUFFICES ASSUME TypeOK, WalkInv, ConnInv, OrderInv, OneOrder, [Next]_vars
             PROVE  OrderInv' /\ OneOrder'
  OBVIOUS
<1> USE BroadcastServerAssumption DEF accountVars, textVars, connVars
<1>0. ASSUME UNCHANGED <<queue, heard, todo, texts, local>> PROVE OrderInv' /\ OneOrder'
  BY <1>0 DEF OrderInv, OneOrder, LastQueued
<1>1. CASE UNCHANGED vars
  BY <1>0, <1>1 DEF vars
<1> SUFFICES ASSUME NEW l \in Loops,
                    \/ \E c \in Conns : ConnectionUp(l, c) \/ ConnectionDown(l, c)
                    \/ ReceiveRequest(l) \/ OnTextMessage(l) \/ Run(l)
             PROVE  OrderInv' /\ OneOrder'
  BY <1>1 DEF Next
<1>2. CASE ReceiveRequest(l) \/ OnTextMessage(l)
  BY <1>0, <1>2 DEF ReceiveRequest, OnTextMessage, Dispatch
<1>3. CASE GetUsersPtr(l) \/ ReadUsers(l) \/ RegisterLock(l) \/ RegisterCopy(l)
           \/ RegisterEmplace(l) \/ RegisterRespond(l)
  BY <1>0, <1>3 DEF GetUsersPtr, Hold, ReadUsers, RegisterLock, RegisterCopy, Reset,
     RegisterEmplace, RegisterRespond
<1>4. ASSUME NEW d \in Conns, ConnectionUp(l, d) \/ ConnectionDown(l, d)
      PROVE  OrderInv' /\ OneOrder'
  <2>1. UNCHANGED <<queue, heard, todo, texts>>
    BY <1>4 DEF ConnectionUp, ConnectionDown
  <2>2. ASSUME NEW k \in Loops, NEW c \in local'[k] PROVE c \in local[k] \/ heard[c] = <<>>
    <3>1. CASE ConnectionUp(l, d)
      BY <2>2, <3>1 DEF ConnectionUp, ConnInv, TypeOK
    <3>2. CASE ConnectionDown(l, d)
      BY <2>2, <3>2 DEF ConnectionDown, TypeOK
    <3> QED BY <1>4, <3>1, <3>2
  <2> QED BY <2>1, <2>2 DEF OrderInv, OneOrder, LastQueued
<1>5. CASE LockLoops(l)
  <2>1. \A k \in Loops : todo[k] = {}
    BY <1>5 DEF LockLoops, WalkInv
  <2>2. /\ UNCHANGED <<queue, heard, local>> /\ texts' = texts + 1 /\ texts \in Nat
        /\ todo' = [todo EXCEPT ![l] = Loops]
    BY <1>5 DEF LockLoops, StartWalk, TypeOK
  <2>3. \A k \in Loops : LastQueued(k)' = LastQueued(k)
    BY <2>1, <2>2 DEF LastQueued, TypeOK
  <2> QED BY <2>2, <2>3 DEF OrderInv, OneOrder
<1>6. ASSUME NEW j \in Loops, QueueInLoop(l, j) PROVE OrderInv' /\ OneOrder'
  <2>1. \A k \in Loops : k # l => todo[k] = {}
    BY <1>6 DEF QueueInLoop, QueueTo, WalkInv
  <2>2. /\ UNCHANGED <<heard, texts, local>> /\ texts \in Nat /\ j \in todo[l]
        /\ todo' = [todo EXCEPT ![l] = @ \ {j}]
        /\ queue' = [queue EXCEPT ![j] = Append(@, texts)] /\ texts \in Texts
    <3>1. pc[l] = "queue" /\ queue' = [queue EXCEPT ![j] = Append(@, text[l])]
      BY <1>6 DEF QueueInLoop, QueueTo
    <3>2. text[l] = texts /\ texts \in Nat \ {0} /\ text[l] \in Texts
      BY <3>1 DEF WalkInv, TypeOK
    <3> QED BY <1>6, <3>1, <3>2 DEF QueueInLoop, QueueTo
  <2>3. \A k \in Loops : k # j => LastQueued(k)' = LastQueued(k) /\ queue'[k] = queue[k]
    BY <2>1, <2>2 DEF LastQueued, TypeOK
  <2>4. LastQueued(j) = texts - 1 /\ LastQueued(j)' = texts
    BY <2>1, <2>2 DEF LastQueued, TypeOK
  <2>5. /\ Len(queue'[j]) = Len(queue[j]) + 1 /\ Len(queue[j]) \in Nat
        /\ \A i \in 1..Len(queue[j]) : queue'[j][i] = queue[j][i]
        /\ queue'[j][Len(queue[j]) + 1] = texts
    BY <2>2 DEF TypeOK
  <2>6. ASSUME NEW k \in Loops, NEW i \in 1..Len(queue'[k])
        PROVE  queue'[k][i] = LastQueued(k)' - Len(queue'[k]) + i
    <3>1. CASE k # j
      BY <2>3, <2>6, <3>1 DEF OrderInv
    <3>2. CASE k = j /\ i <= Len(queue[j])
      <4>1. queue[j][i] = LastQueued(j) - Len(queue[j]) + i
        BY <2>5, <2>6, <3>2 DEF OrderInv
      <4>2. i \in Int /\ i \in 1..Len(queue[j])
        BY <2>5, <2>6, <3>2
      <4>3. queue'[k][i] = (texts - 1) - Len(queue[j]) + i
        BY <2>4, <2>5, <3>2, <4>1, <4>2
      <4>4. (texts - 1) - Len(queue[j]) + i = texts - (Len(queue[j]) + 1) + i
        BY <2>2, <2>5, <4>2
      <4> QED BY <2>4, <2>5, <3>2, <4>3, <4>4
    <3>3. CASE k = j /\ i = Len(queue[j]) + 1
      BY <2>2, <2>4, <2>5, <3>3
    <3> QED BY <2>5, <3>1, <3>2, <3>3
  <2>7. ASSUME NEW k \in Loops, NEW c \in local[k], heard[c] # <<>>
        PROVE  heard[c][Len(heard[c])] = LastQueued(k)' - Len(queue'[k])
    <3>1. heard[c][Len(heard[c])] = LastQueued(k) - Len(queue[k])
      BY <2>7 DEF OrderInv
    <3>2. CASE k # j
      BY <2>3, <3>1, <3>2
    <3>3. CASE k = j
      BY <2>2, <2>4, <2>5, <3>1, <3>3
    <3> QED BY <3>2, <3>3
  <2> QED BY <2>2, <2>6, <2>7 DEF OrderInv, OneOrder
<1>7. CASE DistributeTextMessage(l)
  <2> DEFINE q == queue[l]
             last == LastQueued(l)
  <2>1. /\ q # <<>> /\ q \in Seq(Texts) /\ Len(q) \in Nat \ {0}
        /\ queue' = [queue EXCEPT ![l] = Tail(q)]
        /\ heard' = [c \in Conns |-> IF c \in local[l] THEN Append(heard[c], q[1]) ELSE heard[c]]
        /\ UNCHANGED <<todo, texts, local>>
    BY <1>7 DEF DistributeTextMessage, TypeOK
  <2>2. \A k \in Loops : LastQueued(k)' = LastQueued(k) /\ LastQueued(k) \in Int
    BY <2>1 DEF LastQueued, TypeOK
  <2>3. q[1] = last - Len(q) + 1
    BY <2>1 DEF OrderInv
  <2>4. /\ Len(queue'[l]) = Len(q) - 1
        /\ \A i \in 1..(Len(q) - 1) : queue'[l][i] = q[i + 1]
        /\ \A k \in Loops : k # l => queue'[k] = queue[k]
    BY <2>1 DEF TypeOK
  <2>5. ASSUME NEW k \in Loops, NEW i \in 1..Len(queue'[k])
        PROVE  queue'[k][i] = LastQueued(k)' - Len(queue'[k]) + i
    <3>1. CASE k # l
      BY <2>2, <2>4, <3>1 DEF OrderInv
    <3>2. CASE k = l
      <4>1. i + 1 \in 1..Len(q) /\ i \in 1..(Len(q) - 1)
        BY <2>1, <2>4, <3>2
      <4>2. q[i + 1] = last - Len(q) + (i + 1)
        BY <4>1 DEF OrderInv
      <4> HIDE DEF q, last
      <4>3. queue'[k][i] = last - Len(q) + (i + 1) /\ Len(queue'[k]) = Len(q) - 1
        BY <2>4, <3>2, <4>1, <4>2
      <4>4. LastQueued(k)' = last /\ last \in Int
        BY <2>2, <3>2 DEF last
      <4>5. Len(q) \in Int /\ i \in Int
        BY <2>1, <4>1
      <4>6. last - Len(q) + (i + 1) = last - (Len(q) - 1) + i
        BY <4>4, <4>5
      <4> QED BY <4>3, <4>4, <4>6
    <3> QED BY <3>1, <3>2
  <2>6. \A c \in Conns : /\ heard[c] \in Seq(Texts)
                         /\ c \in local[l] => heard'[c] = Append(heard[c], q[1])
                         /\ c \notin local[l] => heard'[c] = heard[c]
    BY <2>1 DEF TypeOK
  <2>7. q[1] \in Texts
    BY <2>1
  <2>8. ASSUME NEW k \in Loops, NEW c \in local[k], heard'[c] # <<>>
        PROVE  heard'[c][Len(heard'[c])] = LastQueued(k)' - Len(queue'[k])
    <3>1. c \in Conns
      BY DEF TypeOK
    <3>2. CASE k = l
      <4>1. heard'[c][Len(heard'[c])] = q[1]
        BY <2>6, <2>7, <3>1, <3>2
      <4>2. Len(queue'[k]) = Len(q) - 1 /\ LastQueued(k)' = last /\ last \in Int
        BY <2>2, <2>4, <3>2
      <4> HIDE DEF q, last
      <4> QED BY <2>1, <2>3, <4>1, <4>2
    <3>3. CASE k # l
      <4>1. c \notin local[l]
        BY <3>1, <3>3 DEF ConnInv
      <4>2. heard'[c] = heard[c] /\ queue'[k] = queue[k] /\ LastQueued(k)' = LastQueued(k)
        BY <2>2, <2>4, <2>6, <3>1, <3>3, <4>1
      <4> QED BY <2>8, <4>2 DEF OrderInv
    <3> QED BY <3>2, <3>3
  <2>9. ASSUME NEW c \in Conns, NEW i \in 1..(Len(heard'[c]) - 1)
        PROVE  heard'[c][i + 1] = heard'[c][i] + 1
    <3>1. CASE c \notin local[l]
      BY <2>6, <2>9, <3>1 DEF OneOrder
    <3>2. CASE c \in local[l]
      <4> DEFINE h == heard[c]
      <4>1. /\ h \in Seq(Texts) /\ Len(h) \in Nat /\ Len(heard'[c]) = Len(h) + 1
            /\ \A j \in 1..Len(h) : heard'[c][j] = h[j]
            /\ heard'[c][Len(h) + 1] = q[1]
        <5>1. h \in Seq(Texts) /\ q[1] \in Texts /\ heard'[c] = Append(h, q[1])
          BY <2>6, <2>7, <3>2
        <5> HIDE DEF q, h
        <5> QED BY <5>1
      <4>2. CASE i = Len(h)
        <5>1. h # <<>> /\ h[Len(h)] = last - Len(q)
          BY <2>9, <3>2, <4>1, <4>2 DEF OrderInv
        <5>2. heard'[c][i] = last - Len(q) /\ heard'[c][i + 1] = q[1]
          BY <4>1, <4>2, <5>1
        <5>3. last \in Int
          BY <2>2
        <5> HIDE DEF q, last, h
        <5> QED BY <2>1, <2>3, <5>2, <5>3
      <4>3. CASE i < Len(h)
        <5>1. i \in 1..(Len(h) - 1) /\ i \in 1..Len(h) /\ i + 1 \in 1..Len(h)
          BY <2>9, <4>1, <4>3
        <5>2. h[i + 1] = h[i] + 1
          BY <5>1 DEF OneOrder
        <5> HIDE DEF h
        <5> QED BY <4>1, <5>1, <5>2
      <4> HIDE DEF h
      <4> QED BY <2>9, <4>1, <4>2, <4>3
    <3> QED BY <3>1, <3>2
  <2>10. OrderInv'
    BY <2>1, <2>5, <2>8 DEF OrderInv
  <2>11. OneOrder'
    BY <2>9 DEF OneOrder
  <2> QED BY <2>10, <2>11
<1> QED BY <1>2, <1>3, <1>4, <1>5, <1>6, <1>7 DEF Run
-----------------------------------------------------------------------------
(* The invariant holds in every reachable state.                           *)
THEOREM Invariance == Spec => []IInv
<1>1. Init => IInv
  <2> SUFFICES ASSUME Init PROVE IInv
    OBVIOUS
  <2>1. TypeOK
    <3>1. 1 \in Addresses /\ Cardinality(Loops) \in Nat
      BY BroadcastServerAssumption, FS_CardinalityType DEF Addresses
    <3>2. /\ queue \in [Loops -> Seq(Texts)] /\ heard \in [Conns -> Seq(Texts)]
          /\ maps \in [Addresses -> [Users -> Passwords \cup {Absent}]]
          /\ requests \in 0..MaxRequests /\ texts \in 0..requests
      BY BroadcastServerAssumption DEF Init
    <3> QED BY <3>1, <3>2 DEF Init, TypeOK
  <2>2. RequestInv /\ ConnInv /\ OneOrder
    BY DEF Init, RequestInv, ConnInv, OneOrder
  <2>3. AccountInv
    BY BroadcastServerAssumption DEF Init, AccountInv
  <2>4. WalkInv
    <3>1. Waiting = {}
      BY DEF Init, Waiting
    <3>2. Cardinality(Waiting) = 0
      BY <3>1, FS_EmptySet
    <3> QED BY <3>2, BroadcastServerAssumption DEF Init, WalkInv
  <2>5. OrderInv
    BY DEF Init, OrderInv
  <2> QED BY <2>1, <2>2, <2>3, <2>4, <2>5 DEF IInv
<1>2. IInv /\ [Next]_vars => IInv'
  BY TypeStep, AccountStep, WalkStep, ConnStep, OrderStep DEF IInv
<1> QED BY <1>1, <1>2, PTL DEF Spec

(* Every variable has its type; an address is left for every copy.         *)
THEOREM BroadcastTypes == Spec => []TypeOK
<1>1. IInv => TypeOK
  BY DEF IInv
<1> QED BY <1>1, Invariance, PTL

(* assert(users_ptr_.unique()) holds, and still does when emplace runs.    *)
THEOREM CopyOnWrite == Spec => []WritesUnsharedMap
<1>1. IInv => WritesUnsharedMap
  BY DEF IInv, AccountInv, WritesUnsharedMap
<1> QED BY <1>1, Invariance, PTL

(* All connections hear the texts in one order, without gaps, on any       *)
(* number of loops.                                                        *)
THEOREM TextsInOneOrder == Spec => []OneOrder
<1>1. IInv => OneOrder
  BY DEF IInv
<1> QED BY <1>1, Invariance, PTL
-----------------------------------------------------------------------------
(***************************************************************************)
(* The refinement                                                          *)
(***************************************************************************)

(* A step that leaves the requests and their outcomes as they are.         *)
LEMMA TableStutter ==
  ASSUME UNCHANGED <<req, answer>>, maps'[usersPtr'] = maps[usersPtr],
         \A l \in Loops : Phase(l)' = Phase(l) /\ Outcome(l)' = Outcome(l)
  PROVE  UNCHANGED Table!vars
BY DEF Table!vars

(* A step that concerns the request of one loop.                           *)
LEMMA TableStep ==
  ASSUME NEW l \in Loops,
         Table!Receive(l) \/ Table!Perform(l) \/ Table!Reply(l),
         \A k \in Loops \ {l} : req'[k] = req[k] /\ Outcome(k)' = Outcome(k)
  PROVE  Table!Next
BY DEF Table!Next

(* What a reader makes of the map is what the table answers.               *)
LEMMA ReadMeansPerform ==
  ASSUME NEW map \in [Users -> Passwords \cup {Absent}],
         NEW r \in Requests, r.op = "LOGIN"
  PROVE  ReadResult(map, r) =
           [success |-> map[r.user] = r.password \/ (map[r.user] = Absent /\ r.password = Empty)]
<1>1. r.user \in Users /\ r.password \in Passwords
  BY DEF Requests
<1>2. (StoredPassword(map, r.user) = r.password)
        <=> (map[r.user] = r.password \/ (map[r.user] = Absent /\ r.password = Empty))
  BY <1>1, BroadcastServerAssumption DEF StoredPassword
<1>3. (StoredPassword(map, r.user) = r.password)
        = (map[r.user] = r.password \/ (map[r.user] = Absent /\ r.password = Empty))
  BY <1>2
<1> QED BY <1>3 DEF ReadResult

(* Every step is a step of the table or none of its business.              *)
LEMMA TableNext == IInv /\ [Next]_vars => [Table!Next]_(Table!vars)
<1> SUFFICES ASSUME IInv, [Next]_vars PROVE Table!Next \/ UNCHANGED Table!vars
  OBVIOUS
<1> USE DEF accountVars, textVars, connVars, Goto
<1>0. CASE UNCHANGED vars
  BY <1>0, TableStutter DEF vars, Phase, Outcome
<1> SUFFICES ASSUME NEW l \in Loops,
                    \/ \E c \in Conns : ConnectionUp(l, c) \/ ConnectionDown(l, c)
                    \/ ReceiveRequest(l) \/ OnTextMessage(l) \/ Run(l)
             PROVE  Table!Next \/ UNCHANGED Table!vars
  BY <1>0 DEF Next
<1> USE DEF IInv
<1>1. ASSUME UNCHANGED accountVars, \A k \in Loops : Phase(k)' = Phase(k),
             \A k \in Loops : pc'[k] = "read" <=> pc[k] = "read"
      PROVE  UNCHANGED Table!vars
  BY <1>1, TableStutter DEF Outcome
<1>2. CASE \E c \in Conns : ConnectionUp(l, c) \/ ConnectionDown(l, c)
  BY <1>1, <1>2 DEF ConnectionUp, ConnectionDown, Phase
<1>3. CASE OnTextMessage(l)
  BY <1>1, <1>3 DEF OnTextMessage, Dispatch, Phase, TypeOK
<1>4. CASE LockLoops(l) \/ DistributeTextMessage(l)
  BY <1>1, <1>4 DEF LockLoops, StartWalk, DistributeTextMessage, Phase, TypeOK
<1>5. ASSUME NEW k \in Loops, QueueInLoop(l, k) PROVE UNCHANGED Table!vars
  BY <1>1, <1>5 DEF QueueInLoop, QueueTo, Phase, TypeOK
<1>6. CASE RegisterLock(l)
  <2>1. UNCHANGED <<maps, usersPtr, held, req, inserted, answer>>
    BY <1>6 DEF RegisterLock
  <2>2. \A k \in Loops : Phase(k)' = Phase(k) /\ (pc'[k] = "read" <=> pc[k] = "read")
    BY <1>6 DEF RegisterLock, Phase, TypeOK
  <2> QED BY <2>1, <2>2, TableStutter DEF Outcome
<1>7. CASE RegisterCopy(l)
  <2>1. /\ pc[l] = "copy" /\ usersPtr' = FreeSpot
        /\ maps' = [maps EXCEPT ![FreeSpot] = maps[usersPtr]]
        /\ pc' = [pc EXCEPT ![l] = "emplace"]
        /\ UNCHANGED <<held, req, inserted, answer>>
    BY <1>7 DEF RegisterCopy, Reset, FreeSpot
  <2>2. FreeSpot \in Addresses /\ Unique(FreeSpot)
    BY <2>1, FreeAddress DEF FreeSpot
  <2>3. maps'[usersPtr'] = maps[usersPtr]
    BY <2>1, <2>2 DEF TypeOK
  <2>4. \A k \in Loops : Phase(k)' = Phase(k)
    BY <2>1 DEF Phase, TypeOK
  <2>5. \A k \in Loops : Outcome(k)' = Outcome(k)
    <3>1. \A k \in Loops : maps'[held'[k]] = maps[held[k]]
      BY <2>1, <2>2 DEF Unique, TypeOK
    <3>2. \A k \in Loops : pc'[k] = "read" <=> pc[k] = "read"
      BY <2>1 DEF TypeOK
    <3> QED BY <2>1, <3>1, <3>2 DEF Outcome
  <2> QED BY <2>1, <2>3, <2>4, <2>5, TableStutter
<1>8. CASE ReceiveRequest(l)
  <2>1. PICK r \in Requests : /\ Dispatch(l, IF r.op = "REGISTER" THEN "lock" ELSE "get")
                              /\ req' = [req EXCEPT ![l] = r]
    BY <1>8 DEF ReceiveRequest
  <2>2. /\ UNCHANGED <<maps, usersPtr, held, inserted, answer>>
        /\ pc[l] = "idle" /\ pc'[l] \in {"lock", "get"}
        /\ \A k \in Loops \ {l} : pc'[k] = pc[k] /\ req'[k] = req[k]
        /\ req'[l] = r
    BY <1>8, <2>1 DEF ReceiveRequest, Dispatch, TypeOK
  <2>3. \A k \in Loops \ {l} : Outcome(k)' = Outcome(k) /\ Phase(k)' = Phase(k)
    BY <2>2 DEF Outcome, Phase
  <2>4. Phase(l) = "idle" /\ Phase(l)' = "requested"
    BY <2>2 DEF Phase
  <2>5. [k \in Loops |-> Phase(k)]' = [[k \in Loops |-> Phase(k)] EXCEPT ![l] = "requested"]
    BY <2>3, <2>4
  <2>6. Table!Receive(l)
    BY <2>2, <2>4, <2>5 DEF Table!Receive, Table!Requests, Requests
  <2> QED BY <2>2, <2>3, <2>6, TableStep
<1>9. CASE GetUsersPtr(l)
  <2>1. /\ UNCHANGED <<maps, usersPtr, req, inserted, answer>>
        /\ pc[l] = "get" /\ pc'[l] = "read" /\ held'[l] = usersPtr
        /\ \A k \in Loops \ {l} : pc'[k] = pc[k] /\ held'[k] = held[k]
    BY <1>9 DEF GetUsersPtr, Hold, TypeOK
  <2>2. \A k \in Loops \ {l} : Outcome(k)' = Outcome(k) /\ Phase(k)' = Phase(k)
    BY <2>1 DEF Outcome, Phase
  <2>3. Phase(l) = "requested" /\ Phase(l)' = "done"
    BY <2>1 DEF Phase
  <2>4. [k \in Loops |-> Phase(k)]' = [[k \in Loops |-> Phase(k)] EXCEPT ![l] = "done"]
    BY <2>2, <2>3
  <2>5. Outcome(l)' = ReadResult(maps[usersPtr], req[l])
    BY <2>1 DEF Outcome
  <2>6. /\ req[l] \in Requests /\ req[l].op # "REGISTER" /\ req[l].op \in {"LOGIN", "REGISTER", "SEARCH"}
        /\ maps[usersPtr] \in [Users -> Passwords \cup {Absent}]
    BY <2>1 DEF RequestInv, Requests, TypeOK
  <2>7. CASE req[l].op = "LOGIN"
    <3>1. Outcome(l)' = [success |->
            \/ maps[usersPtr][req[l].user] = req[l].password
            \/ maps[usersPtr][req[l].user] = Absent /\ req[l].password = Empty]
      BY <2>5, <2>6, <2>7, ReadMeansPerform
    <3>2. Table!Perform(l)
      BY <2>1, <2>3, <2>4, <2>7, <3>1 DEF Table!Perform
    <3> QED BY <2>1, <2>2, <3>2, TableStep
  <2>8. CASE req[l].op = "SEARCH"
    <3>1. Outcome(l)' = [usernames |-> {u \in Users : maps[usersPtr][u] # Absent}]
      BY <2>5, <2>8 DEF ReadResult
    <3>2. Table!Perform(l)
      BY <2>1, <2>3, <2>4, <2>8, <3>1 DEF Table!Perform
    <3> QED BY <2>1, <2>2, <3>2, TableStep
  <2> QED BY <2>6, <2>7, <2>8
<1>10. CASE RegisterEmplace(l)
  <2> DEFINE r == req[l]
             old == maps[usersPtr]
  <2>1. /\ UNCHANGED <<usersPtr, held, req, answer>>
        /\ pc[l] = "emplace" /\ pc'[l] = "respond"
        /\ maps' = IF old[r.user] = Absent THEN [maps EXCEPT ![usersPtr][r.user] = r.password]
                   ELSE maps
        /\ inserted'[l] = (old[r.user] = Absent)
        /\ \A k \in Loops \ {l} : pc'[k] = pc[k] /\ inserted'[k] = inserted[k]
    BY <1>10 DEF RegisterEmplace, TypeOK
  <2>2. \A k \in Loops : pc[k] = "read" => held[k] \in Addresses /\ held[k] # usersPtr
    BY <2>1 DEF AccountInv, Unique, TypeOK
  <2>3. \A k \in Loops : pc[k] = "read" => maps'[held[k]] = maps[held[k]]
    BY <2>1, <2>2 DEF TypeOK
  <2>4. \A k \in Loops \ {l} : Outcome(k)' = Outcome(k) /\ Phase(k)' = Phase(k)
    BY <2>1, <2>3 DEF Outcome, Phase
  <2>5. Phase(l) = "requested" /\ Phase(l)' = "done"
    BY <2>1 DEF Phase
  <2>6. [k \in Loops |-> Phase(k)]' = [[k \in Loops |-> Phase(k)] EXCEPT ![l] = "done"]
    BY <2>4, <2>5
  <2>7. Outcome(l)' = [success |-> old[r.user] = Absent]
    BY <2>1 DEF Outcome
  <2>8. r.op = "REGISTER"
    BY <2>1 DEF RequestInv
  <2>9. maps'[usersPtr'] = IF old[r.user] = Absent THEN [old EXCEPT ![r.user] = r.password] ELSE old
    BY <2>1 DEF TypeOK
  <2>10. Table!Perform(l)
    BY <2>1, <2>5, <2>6, <2>7, <2>8, <2>9 DEF Table!Perform
  <2> QED BY <2>1, <2>4, <2>10, TableStep
<1>11. CASE ReadUsers(l)
  <2>1. /\ UNCHANGED <<maps, usersPtr, inserted>>
        /\ pc[l] = "read" /\ pc'[l] = "idle"
        /\ answer' = [request |-> req[l], result |-> ReadResult(maps[held[l]], req[l])]
        /\ \A k \in Loops \ {l} : pc'[k] = pc[k] /\ held'[k] = held[k] /\ req'[k] = req[k]
    BY <1>11 DEF ReadUsers, Respond, TypeOK
  <2>2. \A k \in Loops \ {l} : Outcome(k)' = Outcome(k) /\ Phase(k)' = Phase(k)
    BY <2>1 DEF Outcome, Phase
  <2>3. Phase(l) = "done" /\ Phase(l)' = "idle" /\ Outcome(l) = ReadResult(maps[held[l]], req[l])
    BY <2>1 DEF Phase, Outcome
  <2>4. [k \in Loops |-> Phase(k)]' = [[k \in Loops |-> Phase(k)] EXCEPT ![l] = "idle"]
    BY <2>2, <2>3
  <2>5. Table!Reply(l)
    BY <2>1, <2>3, <2>4 DEF Table!Reply
  <2> QED BY <2>1, <2>2, <2>5, TableStep
<1>12. CASE RegisterRespond(l)
  <2>1. /\ UNCHANGED <<maps, usersPtr, held>>
        /\ pc[l] = "respond" /\ pc'[l] = "idle"
        /\ answer' = [request |-> req[l], result |-> [success |-> inserted[l]]]
        /\ \A k \in Loops \ {l} :
             pc'[k] = pc[k] /\ req'[k] = req[k] /\ inserted'[k] = inserted[k]
    BY <1>12 DEF RegisterRespond, Respond, TypeOK
  <2>2. \A k \in Loops \ {l} : Outcome(k)' = Outcome(k) /\ Phase(k)' = Phase(k)
    BY <2>1 DEF Outcome, Phase
  <2>3. Phase(l) = "done" /\ Phase(l)' = "idle" /\ Outcome(l) = [success |-> inserted[l]]
    BY <2>1 DEF Phase, Outcome
  <2>4. [k \in Loops |-> Phase(k)]' = [[k \in Loops |-> Phase(k)] EXCEPT ![l] = "idle"]
    BY <2>2, <2>3
  <2>5. Table!Reply(l)
    BY <2>1, <2>3, <2>4 DEF Table!Reply
  <2> QED BY <2>1, <2>2, <2>5, TableStep
<1> QED
  BY <1>2, <1>3, <1>4, <1>5, <1>6, <1>7, <1>8, <1>9, <1>10, <1>11, <1>12 DEF Run

(* The shared map that is copied on write behaves as a table with atomic   *)
(* operations, for any number of loops, users and passwords.               *)
THEOREM AccountsAreATable == Spec => ImplementsUserTable
<1>1. Init => Table!Init
  <2> SUFFICES ASSUME Init PROVE Table!Init
    OBVIOUS
  <2>1. 1 \in Addresses
    BY BroadcastServerAssumption, FS_CardinalityType DEF Addresses
  <2> QED BY <2>1 DEF Init, Table!Init, Phase
<1>2. IInv /\ [Next]_vars => [Table!Next]_(Table!vars)
  BY TableNext
<1> QED BY <1>1, <1>2, Invariance, PTL DEF Spec, ImplementsUserTable, Table!Spec
=============================================================================
