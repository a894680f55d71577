-------------------------- MODULE RedisPubSubProofs --------------------------
(***************************************************************************)
(* Proofs about RedisPubSub: the connection is never used by two threads   *)
(* at once, callback_ sees every publisher's messages in order, and the    *)
(* object implements the mailbox of PubSubMailbox.  About ServerLocking:   *)
(* it implements RedisPubSub, and its two locks are taken in one order.    *)
(***************************************************************************)
EXTENDS ServerLocking, FiniteSetTheorems, SequenceTheorems, WellFoundedInduction, TLAPS

-----------------------------------------------------------------------------
(* A caller under way has a command to write, and a listener at work has a *)
(* reply of the kind it is about to deal with.                             *)
ControlInv ==
  /\ \A t \in Threads : cpc[t] # "idle" => call[t] \in Commands
  /\ lpc = "handle" => reply \in Replies
  /\ lpc = "callback" => \E m \in Messages : reply = Chat(m)

(* Messages of one publisher: x was published before y.                    *)
Older(x, y) == x.from = y.from => x.num < y.num

(* The listener has a chat message in its hands.                           *)
Holds(m) == lpc \in {"handle", "callback"} /\ reply = Chat(m)

(* Where a message stands on its way: written by its publisher and unread  *)
(* by Redis, or sent to us by Redis and not yet taken.                     *)
PubAt(t, i, m)   == i \in 1..Len(pubs[t]) /\ pubs[t][i].chan # Unlock /\ pubs[t][i].msg = m
InboxAt(i, m)    == i \in 1..Len(inbox) /\ inbox[i] = Chat(m)
DeliveredAt(i, m) == i \in 1..Len(delivered) /\ delivered[i] = m

(* Publishers number their messages, and write only their own.             *)
Numbered ==
  /\ \A t \in Threads, i \in Nat, m \in Messages :
       PubAt(t, i, m) => m.from = t /\ m.num <= sent
  /\ \A i \in Nat, m \in Messages : InboxAt(i, m) => m.num <= sent
  /\ \A m \in Messages : Holds(m) => m.num <= sent
  /\ \A i \in Nat, m \in Messages : DeliveredAt(i, m) => m.num <= sent

(* Within each of these places the messages of a publisher are in order.   *)
SortedInside ==
  /\ \A t \in Threads, i, j \in Nat, x, y \in Messages :
       (PubAt(t, i, x) /\ PubAt(t, j, y) /\ i < j) => x.num < y.num
  /\ \A i, j \in Nat, x, y \in Messages :
       (InboxAt(i, x) /\ InboxAt(j, y) /\ i < j) => Older(x, y)
  /\ \A i, j \in Nat, x, y \in Messages :
       (DeliveredAt(i, x) /\ DeliveredAt(j, y) /\ i < j) => Older(x, y)

(* What is further on its way is older.                                    *)
SortedAcross ==
  /\ \A t \in Threads, i, j \in Nat, x, y \in Messages :
       (InboxAt(i, x) /\ PubAt(t, j, y)) => Older(x, y)
  /\ \A t \in Threads, j \in Nat, x, y \in Messages :
       (Holds(x) /\ PubAt(t, j, y)) => Older(x, y)
  /\ \A t \in Threads, i, j \in Nat, x, y \in Messages :
       (DeliveredAt(i, x) /\ PubAt(t, j, y)) => Older(x, y)
  /\ \A j \in Nat, x, y \in Messages : (Holds(x) /\ InboxAt(j, y)) => Older(x, y)
  /\ \A i, j \in Nat, x, y \in Messages :
       (DeliveredAt(i, x) /\ InboxAt(j, y)) => Older(x, y)
  /\ \A i \in Nat, x, y \in Messages : (DeliveredAt(i, x) /\ Holds(y)) => Older(x, y)

OrderInv == Numbered /\ SortedInside /\ SortedAcross

IInv == TypeOK /\ ControlInv /\ ContextExclusive /\ OrderInv
-----------------------------------------------------------------------------
(* Every step keeps the types and the control invariant.                   *)
LEMMA TypeStep == TypeOK /\ ControlInv /\ [Next]_vars => TypeOK' /\ ControlInv'
<1> SUFFICES ASSUME TypeOK, ControlInv, [Next]_vars PROVE TypeOK' /\ ControlInv'
  OBVIOUS
<1> USE RedisPubSubAssumption DEF listenerVars, callerVars
<1>0. CASE UNCHANGED vars
  BY <1>0 DEF vars, TypeOK, ControlInv
<1>1. ASSUME NEW t \in Threads, NEW op \in {"SUBSCRIBE", "UNSUBSCRIBE"},
             NEW ch \in Channels \cup {Unlock}, Begin(t, op, ch), stop' \in BOOLEAN
      PROVE  TypeOK' /\ ControlInv'
  <2>1. [op |-> op, chan |-> ch] \in Commands
    BY DEF Commands
  <2> QED BY <1>1, <2>1 DEF Begin, TypeOK, ControlInv
<1>2. ASSUME NEW t \in Threads, Caller(t) PROVE TypeOK' /\ ControlInv'
  <2>1. ASSUME NEW ch \in Channels, Publish(t, ch) PROVE TypeOK' /\ ControlInv'
    <3>1. sent' \in 1..MaxPublish
      BY <2>1 DEF Publish, TypeOK
    <3>2. [chan |-> ch, msg |-> [from |-> t, num |-> sent']] \in Publications
      BY <3>1 DEF Publications, Messages
    <3> QED BY <2>1, <3>1, <3>2 DEF Publish, TypeOK, ControlInv
  <2> QED BY <1>1, <1>2, <2>1 DEF Caller, Subscribe, Unsubscribe, Stop, TypeOK
<1>3. ASSUME NEW t \in Threads, TryTimeout(t) PROVE TypeOK' /\ ControlInv'
  <2>1. [chan |-> Unlock] \in Publications
    BY DEF Publications
  <2> QED BY <1>3, <2>1 DEF TryTimeout, TypeOK, ControlInv
<1>4. ASSUME NEW t \in Threads, Acquire(t) PROVE TypeOK' /\ ControlInv'
  BY <1>4 DEF Acquire, TypeOK, ControlInv
<1>5. ASSUME NEW t \in Threads, Write(t) PROVE TypeOK' /\ ControlInv'
  BY <1>5 DEF Write, TypeOK, ControlInv
<1>6. CASE ListenerCheck
  BY <1>6 DEF ListenerCheck, TypeOK, ControlInv
<1>7. CASE ListenerLock
  BY <1>7 DEF ListenerLock, TypeOK, ControlInv
<1>8. CASE ListenerReceive
  BY <1>8 DEF ListenerReceive, TypeOK, ControlInv
<1>9. CASE ListenerError
  BY <1>9 DEF ListenerError, TypeOK, ControlInv
<1>10. CASE ListenerHandle
  <2>1. CASE reply.kind = "chat"
    BY <1>10, <2>1 DEF ListenerHandle, TypeOK, ControlInv, Replies, Ack, UnlockMsg, Chat
  <2>2. CASE reply.kind # "chat"
    BY <1>10, <2>2 DEF ListenerHandle, TypeOK, ControlInv, Replies, Ack, UnlockMsg, Chat
  <2> QED BY <2>1, <2>2
<1>11. CASE ListenerWake
  BY <1>11 DEF ListenerWake, TypeOK, ControlInv
<1>12. CASE ListenerCallback
  <2>1. reply.msg \in Messages
    BY <1>12 DEF ListenerCallback, ControlInv, Chat
  <2> QED BY <1>12, <2>1 DEF ListenerCallback, TypeOK, ControlInv
<1>13. CASE RedisReadsCommand
  <2>1. Head(cmds) \in Commands /\ Tail(cmds) \in Seq(Commands)
    BY <1>13 DEF RedisReadsCommand, TypeOK
  <2>2. Ack \in Replies
    BY DEF Replies
  <2> QED BY <1>13, <2>1, <2>2 DEF RedisReadsCommand, TypeOK, ControlInv, Commands
<1>14. ASSUME NEW t \in Threads, RedisReadsPublish(t) PROVE TypeOK' /\ ControlInv'
  <2>1. /\ Head(pubs[t]) \in Publications
        /\ pubs' \in [Threads -> Seq(Publications)]
    BY <1>14 DEF RedisReadsPublish, TypeOK
  <2>2. (IF Head(pubs[t]).chan = Unlock THEN UnlockMsg ELSE Chat(Head(pubs[t]).msg)) \in Replies
    BY <2>1 DEF Publications, Replies
  <2> QED BY <1>14, <2>1, <2>2 DEF RedisReadsPublish, TypeOK, ControlInv
<1>15. CASE ConnectionLost
  <2>1. PICK k \in 0..Len(inbox) : inbox' = SubSeq(inbox, 1, k)
    BY <1>15 DEF ConnectionLost
  <2>2. inbox' \in Seq(Replies)
    BY <2>1 DEF TypeOK
  <2>3. /\ connected' = FALSE /\ subscribed' = {} /\ cmds' = <<>>
        /\ UNCHANGED <<mtx, stop, lpc, reply, cpc, call, calls, sent, pubs, delivered>>
    BY <1>15 DEF ConnectionLost
  <2>4. cmds' \in Seq(Commands)
    BY <2>3
  <2> QED BY <2>2, <2>3, <2>4 DEF TypeOK, ControlInv
<1> QED
  BY <1>0, <1>2, <1>3, <1>4, <1>5, <1>6, <1>7, <1>8, <1>9, <1>10, <1>11, <1>12, <1>13,
     <1>14, <1>15 DEF Next, ListenerStep, Redis

(* Every step keeps the connection to its one user.                        *)
LEMMA ExclusiveStep ==
  TypeOK /\ ControlInv /\ ContextExclusive /\ [Next]_vars => ContextExclusive'
<1> SUFFICES ASSUME TypeOK, ControlInv, ContextExclusive, [Next]_vars PROVE ContextExclusive'
  OBVIOUS
<1> USE RedisPubSubAssumption DEF TypeOK, ContextExclusive, listenerVars, callerVars
<1>1. CASE UNCHANGED vars
  BY <1>1 DEF vars
<1>2. ASSUME NEW t \in Threads, Caller(t) \/ TryTimeout(t) PROVE ContextExclusive'
  BY <1>2 DEF Caller, Subscribe, Unsubscribe, Stop, Begin, Publish, TryTimeout
<1>3. ASSUME NEW t \in Threads, Acquire(t) PROVE ContextExclusive'
  BY <1>3 DEF Acquire
<1>4. ASSUME NEW t \in Threads, Write(t) PROVE ContextExclusive'
  BY <1>4 DEF Write
<1>5. CASE ListenerCheck \/ ListenerHandle \/ ListenerWake \/ ListenerCallback
  <2>1. CASE ListenerHandle
    <3>1. lpc' # "recv"
      BY <2>1 DEF ListenerHandle, ControlInv, Replies, Ack, UnlockMsg, Chat
    <3> QED BY <2>1, <3>1 DEF ListenerHandle
  <2> QED BY <1>5, <2>1 DEF ListenerCheck, ListenerWake, ListenerCallback
<1>6. CASE ListenerLock
  BY <1>6 DEF ListenerLock
<1>7. CASE ListenerReceive \/ ListenerError
  BY <1>7 DEF ListenerReceive, ListenerError
<1>8. CASE Redis \/ ConnectionLost
  BY <1>8 DEF Redis, RedisReadsCommand, RedisReadsPublish, ConnectionLost
<1> QED
  BY <1>1, <1>2, <1>3, <1>4, <1>5, <1>6, <1>7, <1>8 DEF Next, ListenerStep

(* A step that adds no message, and at most takes some from the front of   *)
(* a queue, keeps the order.                                               *)
LEMMA OrderFrame ==
  ASSUME OrderInv, sent' = sent,
         NEW d \in [Threads -> Nat], NEW e \in Nat,
         \A t \in Threads, i \in Nat, m \in Messages : PubAt(t, i, m)' => PubAt(t, i + d[t], m),
         \A i \in Nat, m \in Messages : InboxAt(i, m)' => InboxAt(i + e, m),
         \A i \in Nat, m \in Messages : DeliveredAt(i, m)' => DeliveredAt(i, m),
         \A m \in Messages : Holds(m)' => Holds(m)
  PROVE  OrderInv'
<1>1. Numbered'
  BY DEF OrderInv, Numbered
<1>2. SortedInside'
  BY DEF OrderInv, SortedInside, Older
<1>3. SortedAcross'
  BY DEF OrderInv, SortedAcross, Older
<1> QED BY <1>1, <1>2, <1>3 DEF OrderInv

(* Most steps leave all queues alone.                                      *)
LEMMA OrderUnmoved ==
  ASSUME OrderInv, UNCHANGED <<sent, pubs, inbox, delivered>>,
         \A m \in Messages : Holds(m)' => Holds(m)
  PROVE  OrderInv'
<1> DEFINE d == [t \in Threads |-> 0]
<1>1. d \in [Threads -> Nat]
  OBVIOUS
<1>2. \A t \in Threads, i \in Nat, m \in Messages : PubAt(t, i, m)' => PubAt(t, i + d[t], m)
  BY DEF PubAt
<1>3. \A i \in Nat, m \in Messages : InboxAt(i, m)' => InboxAt(i + 0, m)
  BY DEF InboxAt
<1>4. \A i \in Nat, m \in Messages : DeliveredAt(i, m)' => DeliveredAt(i, m)
  BY DEF DeliveredAt
<1> HIDE DEF d
<1> QED BY <1>1, <1>2, <1>3, <1>4, OrderFrame

(* Every step keeps the messages of a publisher in order.                  *)
LEMMA OrderStep == TypeOK /\ ControlInv /\ OrderInv /\ [Next]_vars => OrderInv'
<1> SUFFICES ASSUME TypeOK, ControlInv, OrderInv, [Next]_vars PROVE OrderInv'
  OBVIOUS
<1> USE RedisPubSubAssumption DEF listenerVars, callerVars
<1> DEFINE none == [t \in Threads |-> 0]
<1>0. none \in [Threads -> Nat] /\ \A t \in Threads : none[t] = 0
  OBVIOUS
<1> HIDE DEF none
<1>1. CASE UNCHANGED vars
  BY <1>1, OrderUnmoved DEF vars, Holds
<1>2. ASSUME NEW t \in Threads, Acquire(t) \/ Write(t) PROVE OrderInv'
  BY <1>2, OrderUnmoved DEF Acquire, Write, Holds
<1>3. ASSUME NEW t \in Threads, NEW op, NEW ch, Begin(t, op, ch) PROVE OrderInv'
  BY <1>3, OrderUnmoved DEF Begin, Holds
<1>4. CASE ListenerCheck \/ ListenerLock \/ ListenerError \/ ListenerWake \/ ListenerHandle
  BY <1>4, OrderUnmoved DEF ListenerCheck, ListenerLock, ListenerError, ListenerWake,
     ListenerHandle, Holds
<1>5. ASSUME NEW t \in Threads, TryTimeout(t) PROVE OrderInv'
  <2>1. UNCHANGED <<sent, inbox, delivered, lpc, reply>>
    BY <1>5 DEF TryTimeout
  <2>2. \A s \in Threads, i \in Nat, m \in Messages : PubAt(s, i, m)' => PubAt(s, i + none[s], m)
    BY <1>0, <1>5 DEF TryTimeout, PubAt, TypeOK
  <2>3. \A i \in Nat, m \in Messages : InboxAt(i, m)' => InboxAt(i + 0, m)
    BY <2>1 DEF InboxAt
  <2> QED BY <1>0, <2>1, <2>2, <2>3, OrderFrame DEF Holds, DeliveredAt
<1>6. CASE RedisReadsCommand
  <2>1. UNCHANGED <<sent, pubs, delivered, lpc, reply>> /\ inbox' = Append(inbox, Ack)
    BY <1>6 DEF RedisReadsCommand
  <2>2. \A s \in Threads, i \in Nat, m \in Messages : PubAt(s, i, m)' => PubAt(s, i + none[s], m)
    BY <1>0, <2>1 DEF PubAt
  <2>3. \A i \in Nat, m \in Messages : InboxAt(i, m)' => InboxAt(i + 0, m)
    BY <2>1 DEF InboxAt, TypeOK, Ack, Chat
  <2> QED BY <1>0, <2>1, <2>2, <2>3, OrderFrame DEF Holds, DeliveredAt
<1>7. CASE ConnectionLost
  <2>1. PICK k \in 0..Len(inbox) : inbox' = SubSeq(inbox, 1, k)
    BY <1>7 DEF ConnectionLost
  <2>2. UNCHANGED <<sent, pubs, delivered, lpc, reply>>
    BY <1>7 DEF ConnectionLost
  <2>3. \A s \in Threads, i \in Nat, m \in Messages : PubAt(s, i, m)' => PubAt(s, i + none[s], m)
    BY <1>0, <2>2 DEF PubAt
  <2>4. \A i \in Nat, m \in Messages : InboxAt(i, m)' => InboxAt(i + 0, m)
    BY <2>1 DEF InboxAt, TypeOK
  <2> QED BY <1>0, <2>2, <2>3, <2>4, OrderFrame DEF Holds, DeliveredAt
<1>8. ASSUME NEW t \in Threads, NEW ch \in Channels, Publish(t, ch) PROVE OrderInv'
  <2> DEFINE new == [from |-> t, num |-> sent']
  <2>1. /\ sent' = sent + 1 /\ sent \in Nat
        /\ new \in Messages /\ new.from = t /\ new.num = sent + 1
        /\ UNCHANGED <<inbox, delivered, lpc, reply>>
    BY <1>8 DEF Publish, TypeOK, Messages
  <2>2. \A s \in Threads, i \in Nat, m \in Messages :
          PubAt(s, i, m)' => PubAt(s, i, m) \/ (s = t /\ i = Len(pubs[t]) + 1 /\ m = new)
    BY <1>8, <2>1 DEF Publish, PubAt, TypeOK
  <2>3. /\ \A i \in Nat, m \in Messages : InboxAt(i, m)' <=> InboxAt(i, m)
        /\ \A i \in Nat, m \in Messages : DeliveredAt(i, m)' <=> DeliveredAt(i, m)
        /\ \A m \in Messages : Holds(m)' <=> Holds(m)
    BY <2>1 DEF InboxAt, DeliveredAt, Holds
  <2>4. \A i \in Nat, m \in Messages : PubAt(t, i, m) => i <= Len(pubs[t])
    BY DEF PubAt, TypeOK
  <2>5. \A m \in Messages : m.num \in Nat
    BY DEF Messages
  <2> HIDE DEF new
  <2>6. Numbered'
    BY <2>1, <2>2, <2>3, <2>5 DEF OrderInv, Numbered
  <2>7. SortedInside'
    <3>1. \A s \in Threads, i, j \in Nat, x, y \in Messages :
            (PubAt(s, i, x)' /\ PubAt(s, j, y)' /\ i < j) => x.num < y.num
      <4> SUFFICES ASSUME NEW s \in Threads, NEW i \in Nat, NEW j \in Nat,
                          NEW x \in Messages, NEW y \in Messages,
                          PubAt(s, i, x)', PubAt(s, j, y)', i < j
                   PROVE  x.num < y.num
        OBVIOUS
      <4>1. Len(pubs[t]) \in Nat
        BY DEF TypeOK
      <4>2. PubAt(s, i, x)
        BY <2>2, <2>4, <4>1
      <4>3. CASE PubAt(s, j, y)
        BY <4>2, <4>3 DEF OrderInv, SortedInside
      <4>4. CASE y = new
        BY <2>1, <2>5, <4>2, <4>4 DEF OrderInv, Numbered
      <4> QED BY <2>2, <4>3, <4>4
    <3> QED BY <2>3, <3>1 DEF OrderInv, SortedInside, Older
  <2>8. SortedAcross'
    BY <2>1, <2>2, <2>3, <2>5 DEF OrderInv, Numbered, SortedAcross, Older
  <2> QED BY <2>6, <2>7, <2>8 DEF OrderInv
<1>9. ASSUME NEW t \in Threads, RedisReadsPublish(t) PROVE OrderInv'
  <2> DEFINE p == Head(pubs[t])
             d == [s \in Threads |-> IF s = t THEN 1 ELSE 0]
  <2>1. /\ UNCHANGED <<sent, delivered, lpc, reply>>
        /\ p \in Publications /\ p = pubs[t][1] /\ Len(pubs[t]) >= 1
    BY <1>9 DEF RedisReadsPublish, TypeOK
  <2>2. d \in [Threads -> Nat] /\ \A s \in Threads : d[s] = IF s = t THEN 1 ELSE 0
    OBVIOUS
  <2>3. \A s \in Threads, i \in Nat, m \in Messages : PubAt(s, i, m)' => PubAt(s, i + d[s], m)
    BY <1>9, <2>2 DEF RedisReadsPublish, PubAt, TypeOK
  <2>4. /\ \A i \in Nat, m \in Messages : DeliveredAt(i, m)' <=> DeliveredAt(i, m)
        /\ \A m \in Messages : Holds(m)' <=> Holds(m)
    BY <2>1 DEF DeliveredAt, Holds
  <2> HIDE DEF d
  <2>5. CASE p.chan \in subscribed /\ p.chan # Unlock
    <3>1. p.msg \in Messages /\ PubAt(t, 1, p.msg)
      BY <2>1, <2>5 DEF Publications, PubAt
    <3>2. inbox' = Append(inbox, Chat(p.msg))
      BY <1>9, <2>5 DEF RedisReadsPublish
    <3>3. \A i \in Nat, m \in Messages :
            InboxAt(i, m)' => InboxAt(i, m) \/ (i = Len(inbox) + 1 /\ m = p.msg)
      <4>1. inbox \in Seq(Replies) /\ Chat(p.msg) \in Replies
        BY <3>1 DEF TypeOK, Replies
      <4>2. \A x, y \in Messages : Chat(x) = Chat(y) => x = y
        BY DEF Chat
      <4> QED BY <3>1, <3>2, <4>1, <4>2 DEF InboxAt
    <3>4. \A i \in Nat, m \in Messages : InboxAt(i, m) => i <= Len(inbox)
      BY DEF InboxAt, TypeOK
    <3>5. \A i \in Nat, m \in Messages : PubAt(t, i, m)' => PubAt(t, i + 1, m) /\ i >= 1
      BY <2>2, <2>3 DEF PubAt
    <3>6. \A s \in Threads, i \in Nat, m \in Messages : (s # t /\ PubAt(s, i, m)') => PubAt(s, i, m)
      BY <2>2, <2>3
    <3>7. \A m \in Messages : m.num \in Nat
      BY DEF Messages
    <3> HIDE DEF p
    <3>8. Numbered'
      <4>1. \A s \in Threads, i \in Nat, m \in Messages :
              PubAt(s, i, m)' => m.from = s /\ m.num <= sent
        BY <3>5, <3>6 DEF OrderInv, Numbered
      <4>2. \A i \in Nat, m \in Messages : InboxAt(i, m)' => m.num <= sent
        BY <2>4, <3>1, <3>3 DEF OrderInv, Numbered
      <4> QED BY <4>1, <4>2, <2>1, <2>4 DEF OrderInv, Numbered
    <3>9. SortedInside'
      <4>1. \A s \in Threads, i, j \in Nat, x, y \in Messages :
              (PubAt(s, i, x)' /\ PubAt(s, j, y)' /\ i < j) => x.num < y.num
        BY <3>5, <3>6 DEF OrderInv, SortedInside
      <4>2. \A i, j \in Nat, x, y \in Messages :
              (InboxAt(i, x)' /\ InboxAt(j, y)' /\ i < j) => Older(x, y)
        BY <3>1, <3>3, <3>4 DEF OrderInv, SortedInside, SortedAcross, TypeOK
      <4> QED BY <2>4, <4>1, <4>2 DEF OrderInv, SortedInside, Older
    <3>10. SortedAcross'
      <4>1. \A s \in Threads, j \in Nat, y \in Messages : PubAt(s, j, y)' => Older(p.msg, y)
        BY <3>1, <3>5, <3>6 DEF OrderInv, Numbered, SortedInside, Older
      <4>2. \A s \in Threads, i, j \in Nat, x, y \in Messages :
              (InboxAt(i, x)' /\ PubAt(s, j, y)') => Older(x, y)
        BY <3>3, <3>5, <3>6, <4>1 DEF OrderInv, SortedAcross
      <4>3. \A s \in Threads, i, j \in Nat, x, y \in Messages :
              /\ (Holds(x)' /\ PubAt(s, j, y)') => Older(x, y)
              /\ (DeliveredAt(i, x)' /\ PubAt(s, j, y)') => Older(x, y)
        BY <2>4, <3>5, <3>6 DEF OrderInv, SortedAcross
      <4>4. \A i, j \in Nat, x, y \in Messages :
              /\ (Holds(x)' /\ InboxAt(j, y)') => Older(x, y)
              /\ (DeliveredAt(i, x)' /\ InboxAt(j, y)') => Older(x, y)
        BY <2>4, <3>1, <3>3 DEF OrderInv, SortedAcross
      <4>5. \A i \in Nat, x, y \in Messages : (DeliveredAt(i, x)' /\ Holds(y)') => Older(x, y)
        BY <2>4 DEF OrderInv, SortedAcross
      <4> QED BY <4>2, <4>3, <4>4, <4>5 DEF SortedAcross, Older
    <3> QED BY <3>8, <3>9, <3>10 DEF OrderInv
  <2>6. CASE ~(p.chan \in subscribed /\ p.chan # Unlock)
    <3>1. inbox' = inbox \/ inbox' = Append(inbox, UnlockMsg)
      BY <1>9, <2>6 DEF RedisReadsPublish
    <3>2. \A i \in Nat, m \in Messages : InboxAt(i, m)' => InboxAt(i + 0, m)
      <4>1. inbox \in Seq(Replies) /\ UnlockMsg \in Replies
        BY DEF TypeOK, Replies
      <4>2. \A m \in Messages : UnlockMsg # Chat(m)
        BY DEF UnlockMsg, Chat
      <4> QED BY <3>1, <4>1, <4>2 DEF InboxAt
    <3> QED BY <2>1, <2>2, <2>3, <2>4, <3>2, OrderFrame
  <2> QED BY <2>5, <2>6
<1>10. CASE ListenerReceive
  <2>1. /\ UNCHANGED <<sent, pubs, delivered>>
        /\ lpc = "recv" /\ lpc' = "handle" /\ reply' = inbox[1] /\ Len(inbox) >= 1
        /\ inbox' = Tail(inbox)
    BY <1>10 DEF ListenerReceive, TypeOK
  <2>2. /\ \A s \in Threads, i \in Nat, m \in Messages : PubAt(s, i, m)' <=> PubAt(s, i, m)
        /\ \A i \in Nat, m \in Messages : DeliveredAt(i, m)' <=> DeliveredAt(i, m)
    BY <2>1 DEF PubAt, DeliveredAt
  <2>3. \A i \in Nat, m \in Messages : InboxAt(i, m)' => InboxAt(i + 1, m) /\ i >= 1
    BY <2>1 DEF InboxAt, TypeOK
  <2>4. \A m \in Messages : Holds(m)' => InboxAt(1, m)
    BY <2>1 DEF Holds, InboxAt, TypeOK
  <2>5. Numbered'
    BY <2>1, <2>2, <2>3, <2>4 DEF OrderInv, Numbered
  <2>6. SortedInside'
    BY <2>2, <2>3 DEF OrderInv, SortedInside, Older
  <2>7. SortedAcross'
    BY <2>2, <2>3, <2>4 DEF OrderInv, SortedInside, SortedAcross, Older
  <2> QED BY <2>5, <2>6, <2>7 DEF OrderInv
<1>11. CASE ListenerCallback
  <2>1. PICK new \in Messages : reply = Chat(new)
    BY <1>11 DEF ListenerCallback, ControlInv
  <2>2. /\ UNCHANGED <<sent, pubs, inbox>>
        /\ Holds(new) /\ delivered' = Append(delivered, new)
        /\ \A m \in Messages : ~Holds(m)'
    BY <1>11, <2>1 DEF ListenerCallback, Holds, Chat
  <2>3. /\ \A s \in Threads, i \in Nat, m \in Messages : PubAt(s, i, m)' <=> PubAt(s, i, m)
        /\ \A i \in Nat, m \in Messages : InboxAt(i, m)' <=> InboxAt(i, m)
    BY <2>2 DEF PubAt, InboxAt
  <2>4. \A i \in Nat, m \in Messages :
          /\ DeliveredAt(i, m)' => DeliveredAt(i, m) \/ (i = Len(delivered) + 1 /\ m = new)
          /\ DeliveredAt(i, m) => i <= Len(delivered)
    BY <2>2 DEF DeliveredAt, TypeOK
  <2>5. Numbered'
    BY <2>2, <2>3, <2>4 DEF OrderInv, Numbered
  <2>6. SortedInside'
    <3>1. \A i, j \in Nat, x, y \in Messages :
            (DeliveredAt(i, x)' /\ DeliveredAt(j, y)' /\ i < j) => Older(x, y)
      <4> SUFFICES ASSUME NEW i \in Nat, NEW j \in Nat, NEW x \in Messages, NEW y \in Messages,
                          DeliveredAt(i, x)', DeliveredAt(j, y)', i < j
                   PROVE  Older(x, y)
        OBVIOUS
      <4>1. Len(delivered) \in Nat
        BY DEF TypeOK
      <4>2. DeliveredAt(i, x)
        BY <2>4, <4>1
      <4>3. CASE DeliveredAt(j, y)
        BY <4>2, <4>3 DEF OrderInv, SortedInside
      <4>4. CASE y = new
        BY <2>2, <4>2, <4>4 DEF OrderInv, SortedAcross
      <4> QED BY <2>4, <4>3, <4>4
    <3> QED BY <2>3, <3>1 DEF OrderInv, SortedInside, Older
  <2>7. SortedAcross'
    BY <2>2, <2>3, <2>4 DEF OrderInv, SortedAcross, Older
  <2> QED BY <2>5, <2>6, <2>7 DEF OrderInv
<1> QED
  BY <1>1, <1>2, <1>3, <1>4, <1>5, <1>6, <1>7, <1>8, <1>9, <1>10, <1>11
  DEF Next, Caller, Subscribe, Unsubscribe, Stop, ListenerStep, Redis
-----------------------------------------------------------------------------
(* The invariant holds in every reachable state.                           *)
THEOREM Invariance == Spec => []IInv
<1>1. Init => IInv
  <2> SUFFICES ASSUME Init PROVE IInv
    OBVIOUS
  <2>1. TypeOK
    <3>1. [op |-> "SUBSCRIBE", chan |-> Unlock] \in Commands
      BY DEF Commands
    <3>2. cmds \in Seq(Commands)
      BY <3>1 DEF Init
    <3>3. /\ inbox \in Seq(Replies) /\ delivered \in Seq(Messages)
          /\ pubs \in [Threads -> Seq(Publications)]
      BY DEF Init
    <3>4. cpc \in [Threads -> {"idle", "try", "write"}] /\ call \in [Threads -> Commands \cup {NoCall}]
      BY DEF Init
    <3>5. calls \in 0..MaxCalls /\ sent \in 0..MaxPublish
      BY RedisPubSubAssumption DEF Init
    <3>6. /\ mtx \in Threads \cup {Listener, Nobody} /\ stop \in BOOLEAN /\ connected \in BOOLEAN
          /\ lpc = "check" /\ reply \in Replies \cup {NoReply}
          /\ subscribed \subseteq Channels \cup {Unlock}
      BY DEF Init
    <3> QED BY <3>2, <3>3, <3>4, <3>5, <3>6 DEF TypeOK
  <2>2. ControlInv
    BY DEF Init, ControlInv
  <2>3. ContextExclusive
    BY RedisPubSubAssumption DEF Init, ContextExclusive
  <2>4. OrderInv
    BY DEF Init, OrderInv, Numbered, SortedInside, SortedAcross, PubAt, InboxAt, DeliveredAt, Holds
  <2> QED BY <2>1, <2>2, <2>3, <2>4 DEF IInv
<1>2. IInv /\ [Next]_vars => IInv'
  BY TypeStep, ExclusiveStep, OrderStep DEF IInv
<1> QED BY <1>1, <1>2, PTL DEF Spec

(* Every variable has its type, for any number of threads and channels.    *)
THEOREM PubSubTypes == Spec => []TypeOK
<1>1. IInv => TypeOK
  BY DEF IInv
<1> QED BY <1>1, Invariance, PTL

(* The listener inside redisGetReply and the writers of subscribe and      *)
(* unsubscribe never use redis_context_ at the same time.                  *)
THEOREM ConnectionExclusive == Spec => []ContextExclusive
<1>1. IInv => ContextExclusive
  BY DEF IInv
<1> QED BY <1>1, Invariance, PTL

(* callback_ sees each publisher's messages in the order of publish(), and *)
(* none of them twice, through a connection that may break at any time.    *)
THEOREM CallbackInOrder == Spec => []DeliveredInOrder
<1>1. IInv => DeliveredInOrder
  <2> SUFFICES ASSUME IInv, NEW i \in 1..Len(delivered), NEW j \in 1..Len(delivered),
                      i < j, delivered[i].from = delivered[j].from
               PROVE  delivered[i].num < delivered[j].num
    BY DEF DeliveredInOrder
  <2>1. /\ i \in Nat /\ j \in Nat /\ delivered[i] \in Messages /\ delivered[j] \in Messages
        /\ DeliveredAt(i, delivered[i]) /\ DeliveredAt(j, delivered[j])
    BY DEF IInv, TypeOK, DeliveredAt
  <2> QED BY <2>1 DEF IInv, OrderInv, SortedInside, Older
<1> QED BY <1>1, Invariance, PTL
-----------------------------------------------------------------------------
(***************************************************************************)
(* Counting the chat messages in a sequence of replies                     *)
(***************************************************************************)

(* A set of numbers has a least element.                                   *)
LEMMA MinNat ==
  ASSUME NEW T \in SUBSET Nat, T # {}
  PROVE  \E x \in T : \A y \in T : x <= y
<1>1. IsWellFoundedOn(OpToRel(<, Nat), Nat)
  BY NatLessThanWellFounded
<1>2. PICK x \in T : \A y \in T : ~ (<<y, x>> \in OpToRel(<, Nat))
  BY <1>1, WFMin
<1>3. ASSUME NEW y \in T, y < x PROVE FALSE
  <2>1. <<y, x>> \in OpToRel(<, Nat)
    BY <1>3 DEF OpToRel
  <2> QED BY <1>2, <2>1
<1> QED BY <1>3

(* Chat messages can be counted.                                           *)
LEMMA RankType ==
  ASSUME NEW s, NEW i \in Nat
  PROVE  /\ IsFiniteSet({j \in 1..i : s[j].kind = "chat"})
         /\ Rank(s, i) \in Nat
<1>1. IsFiniteSet(1..i)
  BY FS_Interval
<1>2. {j \in 1..i : s[j].kind = "chat"} \in SUBSET (1..i)
  OBVIOUS
<1>3. IsFiniteSet({j \in 1..i : s[j].kind = "chat"})
  BY <1>1, <1>2, FS_Subset
<1> QED BY <1>3, FS_CardinalityType DEF Rank

(* One reply further on.                                                   *)
LEMMA RankNext ==
  ASSUME NEW s, NEW i \in Nat
  PROVE  Rank(s, i + 1) = IF s[i + 1].kind = "chat" THEN Rank(s, i) + 1 ELSE Rank(s, i)
<1> DEFINE A == {j \in 1..i : s[j].kind = "chat"}
           B == {j \in 1..(i + 1) : s[j].kind = "chat"}
<1>1. IsFiniteSet(A)
  BY RankType
<1>2. CASE s[i + 1].kind = "chat"
  <2>1. B = A \cup {i + 1} /\ i + 1 \notin A
    BY <1>2
  <2> HIDE DEF A, B
  <2>2. Cardinality(B) = Cardinality(A) + 1
    BY <1>1, <2>1, FS_AddElement
  <2> QED BY <1>2, <2>2 DEF Rank, A, B
<1>3. CASE s[i + 1].kind # "chat"
  <2>1. B = A
    BY <1>3
  <2> QED BY <1>3, <2>1 DEF Rank
<1> QED BY <1>2, <1>3

(* There is none before the first reply.                                   *)
LEMMA RankZero == \A s : Rank(s, 0) = 0
<1>1. \A s : {j \in 1..0 : s[j].kind = "chat"} = {}
  OBVIOUS
<1> QED BY <1>1, FS_EmptySet DEF Rank

(* There are no fewer further on.                                          *)
LEMMA RankMonotone ==
  ASSUME NEW s, NEW i \in Nat, NEW k \in Nat, i <= k
  PROVE  Rank(s, i) <= Rank(s, k)
<1>1. {j \in 1..i : s[j].kind = "chat"} \in SUBSET {j \in 1..k : s[j].kind = "chat"}
  OBVIOUS
<1> QED BY <1>1, RankType, FS_Subset DEF Rank

(* Sequences that agree so far have the same ranks.                        *)
LEMMA RankSame ==
  ASSUME NEW s, NEW t, NEW i \in Nat, \A j \in 1..i : s[j] = t[j]
  PROVE  Rank(s, i) = Rank(t, i)
<1>1. {j \in 1..i : s[j].kind = "chat"} = {j \in 1..i : t[j].kind = "chat"}
  OBVIOUS
<1> QED BY <1>1 DEF Rank

(* A chat message is counted itself.                                       *)
LEMMA RankStrict ==
  ASSUME NEW s, NEW i \in Nat, NEW k \in Nat, i < k, s[k].kind = "chat"
  PROVE  Rank(s, i) < Rank(s, k)
<1>1. k - 1 \in Nat /\ i <= k - 1 /\ (k - 1) + 1 = k
  OBVIOUS
<1>2. Rank(s, k) = Rank(s, k - 1) + 1
  BY <1>1, RankNext
<1>3. Rank(s, i) <= Rank(s, k - 1)
  BY <1>1, RankMonotone
<1>4. Rank(s, i) \in Nat /\ Rank(s, k - 1) \in Nat
  BY <1>1, RankType
<1> QED BY <1>2, <1>3, <1>4

(* Every number up to the last rank is the rank of a chat message.         *)
LEMMA RankReached ==
  ASSUME NEW s, NEW k \in Nat, NEW n \in 1..Rank(s, k)
  PROVE  \E i \in 1..k : s[i].kind = "chat" /\ Rank(s, i) = n
<1> DEFINE T == {i \in Nat : i <= k /\ Rank(s, i) >= n}
<1>1. k \in T /\ T \in SUBSET Nat /\ n \in Nat
  BY RankType
<1>2. PICK i \in T : \A y \in T : i <= y
  <2> HIDE DEF T
  <2> QED BY <1>1, MinNat
<1>3. i # 0
  BY <1>1, RankZero
<1>4. i - 1 \in Nat /\ (i - 1) + 1 = i /\ i - 1 <= k
  BY <1>3
<1>5. ~(Rank(s, i - 1) >= n)
  BY <1>2, <1>4
<1>6. Rank(s, i) = IF s[i].kind = "chat" THEN Rank(s, i - 1) + 1 ELSE Rank(s, i - 1)
  BY <1>4, RankNext
<1>7. Rank(s, i) \in Nat /\ Rank(s, i - 1) \in Nat /\ Rank(s, i) >= n
  BY <1>4, RankType
<1> QED BY <1>1, <1>3, <1>4, <1>5, <1>6, <1>7

(* q lists the chat messages of s.                                         *)
Lists(s, q) ==
  /\ q \in Seq(Messages)
  /\ Len(q) = Rank(s, Len(s))
  /\ \A i \in 1..Len(s) : s[i].kind = "chat" => q[Rank(s, i)] = s[i].msg

(* A chat message carries a message.                                       *)
LEMMA ChatMessage ==
  ASSUME NEW r \in Replies, r.kind = "chat"
  PROVE  r.msg \in Messages /\ r = Chat(r.msg)
BY DEF Replies, Ack, UnlockMsg, Chat

(* ChatsOf does so.                                                        *)
LEMMA ChatsListed ==
  ASSUME NEW s \in Seq(Replies)
  PROVE  Lists(s, ChatsOf(s))
<1>0. Len(s) \in Nat /\ \A i \in 1..Len(s) : s[i] \in Replies
  OBVIOUS
<1>1. Rank(s, Len(s)) \in Nat
  BY <1>0, RankType
<1> DEFINE At(n) == CHOOSE i \in 1..Len(s) : s[i].kind = "chat" /\ Rank(s, i) = n
<1>2. \A n \in 1..Rank(s, Len(s)) :
        At(n) \in 1..Len(s) /\ s[At(n)].kind = "chat" /\ Rank(s, At(n)) = n
  <2> TAKE n \in 1..Rank(s, Len(s))
  <2>1. \E i \in 1..Len(s) : s[i].kind = "chat" /\ Rank(s, i) = n
    BY <1>0, RankReached
  <2> QED BY <2>1
<1>3. ChatsOf(s) = [n \in 1..Rank(s, Len(s)) |-> s[At(n)].msg]
  BY DEF ChatsOf
<1> HIDE DEF At
<1>4. \A n \in 1..Rank(s, Len(s)) : s[At(n)].msg \in Messages
  BY <1>0, <1>2, ChatMessage
<1>5. ChatsOf(s) \in Seq(Messages) /\ Len(ChatsOf(s)) = Rank(s, Len(s))
  BY <1>1, <1>3, <1>4
<1>6. ASSUME NEW i \in 1..Len(s), s[i].kind = "chat"
      PROVE  ChatsOf(s)[Rank(s, i)] = s[i].msg
  <2>1. Rank(s, i) \in 1..Rank(s, Len(s))
    <3>1. 0 \in Nat /\ i \in Nat /\ 0 < i /\ i <= Len(s)
      BY <1>0
    <3>2. Rank(s, 0) < Rank(s, i) /\ Rank(s, 0) = 0
      BY <3>1, <1>6, RankStrict, RankZero
    <3>3. Rank(s, i) <= Rank(s, Len(s)) /\ Rank(s, i) \in Nat
      BY <3>1, <1>0, RankMonotone, RankType
    <3> QED BY <1>1, <3>2, <3>3
  <2>2. At(Rank(s, i)) = i
    <3>1. At(Rank(s, i)) \in Nat /\ i \in Nat /\ Rank(s, i) \in Nat
      BY <1>0, <1>2, <2>1
    <3>2. ~(At(Rank(s, i)) < i)
      BY <3>1, <1>2, <1>6, <2>1, RankStrict
    <3>3. ~(i < At(Rank(s, i)))
      BY <3>1, <1>2, <2>1, RankStrict
    <3> QED BY <3>1, <3>2, <3>3
  <2> QED BY <1>3, <2>1, <2>2
<1> QED BY <1>5, <1>6 DEF Lists

(* Nothing else does.                                                      *)
LEMMA ListUnique ==
  ASSUME NEW s \in Seq(Replies), NEW q, Lists(s, q)
  PROVE  q = ChatsOf(s)
<1>0. Len(s) \in Nat
  OBVIOUS
<1>1. Lists(s, ChatsOf(s))
  BY ChatsListed
<1> DEFINE p == ChatsOf(s)
<1> HIDE DEF p
<1>2. /\ p \in Seq(Messages) /\ q \in Seq(Messages) /\ Len(p) = Len(q)
      /\ Len(q) = Rank(s, Len(s))
  BY <1>1 DEF Lists, p
<1>3. \A n \in 1..Len(q) : q[n] = p[n]
  <2> TAKE n \in 1..Len(q)
  <2>1. n \in 1..Rank(s, Len(s))
    BY <1>2
  <2>2. PICK i \in 1..Len(s) : s[i].kind = "chat" /\ Rank(s, i) = n
    BY <2>1, <1>0, RankReached
  <2> QED BY <2>2, <1>1 DEF Lists, p
<1>4. p = q
  BY <1>2, <1>3, SeqEqual
<1> QED BY <1>4 DEF p

(* A reply arrives.                                                        *)
LEMMA ChatsAppend ==
  ASSUME NEW s \in Seq(Replies), NEW r \in Replies
  PROVE  ChatsOf(Append(s, r)) = IF r.kind = "chat" THEN Append(ChatsOf(s), r.msg) ELSE ChatsOf(s)
<1> DEFINE t == Append(s, r)
           n == Len(s)
           q == ChatsOf(s)
           p == IF r.kind = "chat" THEN Append(q, r.msg) ELSE q
<1>1. /\ t \in Seq(Replies) /\ n \in Nat /\ Len(t) = n + 1 /\ t[n + 1] = r
      /\ \A i \in 1..n : t[i] = s[i]
  OBVIOUS
<1>2. Lists(s, q)
  BY ChatsListed
<1> HIDE DEF t, n, q
<1>3. \A i \in 0..n : Rank(t, i) = Rank(s, i) /\ Rank(s, i) \in Nat
  <2> TAKE i \in 0..n
  <2>1. i \in Nat /\ \A j \in 1..i : t[j] = s[j]
    BY <1>1
  <2> QED BY <2>1, RankSame, RankType
<1>4. Rank(t, n + 1) = IF r.kind = "chat" THEN Rank(s, n) + 1 ELSE Rank(s, n)
  <2>1. Rank(t, n) = Rank(s, n)
    BY <1>1, <1>3
  <2> QED BY <1>1, <2>1, RankNext
<1>5. q \in Seq(Messages) /\ Len(q) = Rank(s, n) /\ Rank(s, n) \in Nat
  BY <1>1, <1>2, <1>3 DEF Lists, n
<1>6. r.kind = "chat" => r.msg \in Messages
  BY ChatMessage
<1>7. p \in Seq(Messages) /\ Len(p) = Rank(t, Len(t))
  BY <1>1, <1>4, <1>5, <1>6
<1>8. \A k \in 1..Len(q) : p[k] = q[k]
  BY <1>5, <1>6
<1>9. ASSUME NEW i \in 1..Len(t), t[i].kind = "chat"
      PROVE  p[Rank(t, i)] = t[i].msg
  <2>1. CASE i = n + 1
    BY <2>1, <1>9, <1>1, <1>4, <1>5, <1>6
  <2>2. CASE i # n + 1
    <3>1. i \in 1..n /\ i \in 0..n /\ i \in Nat
      BY <2>2, <1>1
    <3>2. s[i].kind = "chat" /\ q[Rank(s, i)] = s[i].msg
      BY <3>1, <1>1, <1>2, <1>9 DEF Lists, n
    <3>3. Rank(s, i) \in 1..Len(q)
      <4>1. Rank(s, 0) < Rank(s, i) /\ Rank(s, 0) = 0
        BY <3>1, <3>2, RankStrict, RankZero
      <4>2. Rank(s, i) <= Rank(s, n)
        BY <3>1, <1>1, RankMonotone
      <4> QED BY <4>1, <4>2, <3>1, <1>3, <1>5
    <3> QED BY <3>1, <3>2, <3>3, <1>1, <1>3, <1>8
  <2> QED BY <2>1, <2>2
<1>10. Lists(t, p)
  BY <1>7, <1>9 DEF Lists
<1> HIDE DEF p
<1>11. p = ChatsOf(t)
  BY <1>1, <1>10, ListUnique
<1> QED BY <1>11 DEF p, q, t

(* The connection breaks and only the first k replies are left.            *)
LEMMA ChatsCut ==
  ASSUME NEW s \in Seq(Replies), NEW k \in 0..Len(s)
  PROVE  /\ Rank(s, k) \in 0..Len(ChatsOf(s))
         /\ ChatsOf(SubSeq(s, 1, k)) = SubSeq(ChatsOf(s), 1, Rank(s, k))
<1> DEFINE t == SubSeq(s, 1, k)
           q == ChatsOf(s)
           m == Rank(s, k)
           p == SubSeq(q, 1, m)
<1>1. /\ t \in Seq(Replies) /\ k \in Nat /\ Len(s) \in Nat /\ k <= Len(s) /\ Len(t) = k
      /\ \A i \in 1..k : t[i] = s[i]
  OBVIOUS
<1>2. Lists(s, q)
  BY ChatsListed
<1> HIDE DEF t, q
<1>3. \A i \in 0..k : Rank(t, i) = Rank(s, i) /\ Rank(s, i) \in Nat
  <2> TAKE i \in 0..k
  <2>1. i \in Nat /\ \A j \in 1..i : t[j] = s[j]
    BY <1>1
  <2> QED BY <2>1, RankSame, RankType
<1>4. q \in Seq(Messages) /\ Len(q) = Rank(s, Len(s)) /\ Len(q) \in Nat
  BY <1>2 DEF Lists
<1>5. m \in Nat /\ m <= Len(q) /\ m = Rank(t, Len(t))
  <2>1. Rank(s, k) <= Rank(s, Len(s))
    BY <1>1, RankMonotone
  <2> QED BY <2>1, <1>1, <1>3, <1>4
<1> HIDE DEF m
<1>6. p \in Seq(Messages) /\ Len(p) = m /\ \A j \in 1..m : p[j] = q[j]
  BY <1>4, <1>5
<1>7. ASSUME NEW i \in 1..Len(t), t[i].kind = "chat"
      PROVE  p[Rank(t, i)] = t[i].msg
  <2>1. i \in 1..Len(s) /\ i \in 0..k /\ i \in Nat /\ s[i] = t[i] /\ i <= k
    BY <1>1
  <2>2. q[Rank(s, i)] = s[i].msg
    BY <2>1, <1>2, <1>7 DEF Lists
  <2>3. Rank(s, i) \in 1..m
    <3>1. Rank(s, 0) < Rank(s, i) /\ Rank(s, 0) = 0
      BY <2>1, <1>7, RankStrict, RankZero
    <3>2. Rank(s, i) <= m
      BY <2>1, <1>1, RankMonotone DEF m
    <3> QED BY <3>1, <3>2, <2>1, <1>3, <1>5
  <2> QED BY <2>1, <2>2, <2>3, <1>3, <1>6
<1>8. Lists(t, p)
  BY <1>5, <1>6, <1>7 DEF Lists
<1> HIDE DEF p
<1>9. p = ChatsOf(t)
  BY <1>1, <1>8, ListUnique
<1> QED BY <1>4, <1>5, <1>9 DEF p, q, t, m

(* The first reply leaves.                                                 *)
LEMMA ChatsTail ==
  ASSUME NEW s \in Seq(Replies), s # <<>>
  PROVE  ChatsOf(s) = IF Head(s).kind = "chat"
                      THEN <<Head(s).msg>> \o ChatsOf(Tail(s)) ELSE ChatsOf(Tail(s))
<1> DEFINE t == Tail(s)
           n == Len(t)
           q == ChatsOf(t)
           c == IF Head(s).kind = "chat" THEN 1 ELSE 0
           p == IF Head(s).kind = "chat" THEN <<Head(s).msg>> \o q ELSE q
<1>1. /\ t \in Seq(Replies) /\ n \in Nat /\ Len(s) = n + 1 /\ s[1] = Head(s) /\ s[1] \in Replies
      /\ \A i \in 1..n : t[i] = s[i + 1]
  OBVIOUS
<1>2. Lists(t, q)
  BY <1>1, ChatsListed
<1>c. c \in 0..1
  OBVIOUS
<1>3. Rank(s, 1) = c
  <2>1. 0 \in Nat /\ 0 + 1 = 1
    OBVIOUS
  <2>2. Rank(s, 1) = IF s[1].kind = "chat" THEN Rank(s, 0) + 1 ELSE Rank(s, 0)
    BY <2>1, RankNext
  <2> QED BY <1>1, <2>2, RankZero
<1> HIDE DEF t, n, q
<1>4. \A i \in 0..n : Rank(s, i + 1) = Rank(t, i) + c
  <2> DEFINE T == {i \in Nat : i <= n /\ Rank(s, i + 1) # Rank(t, i) + c}
  <2>1. SUFFICES ASSUME T # {} PROVE FALSE
    <3>1. 0..n \subseteq Nat /\ \A i \in 0..n : i <= n
      BY <1>1
    <3> QED BY <2>1, <3>1
  <2>2. T \in SUBSET Nat
    OBVIOUS
  <2>3. PICK i \in T : \A y \in T : i <= y
    <3> HIDE DEF T
    <3> QED BY <2>1, <2>2, MinNat
  <2>4. CASE i = 0
    <3>1. Rank(t, 0) = 0 /\ 0 + 1 = 1
      BY RankZero
    <3> QED BY <2>3, <2>4, <3>1, <1>3, <1>c
  <2>5. CASE i # 0
    <3>1. i - 1 \in Nat /\ i - 1 <= n /\ (i - 1) + 1 = i /\ i \in Nat /\ i \in 1..n /\ ~(i <= i - 1)
      BY <2>3, <2>5, <1>1
    <3>2. Rank(s, i) = Rank(t, i - 1) + c
      <4>1. i - 1 \notin T
        BY <2>3, <3>1
      <4> QED BY <4>1, <3>1
    <3>3. Rank(s, i + 1) = IF s[i + 1].kind = "chat" THEN Rank(s, i) + 1 ELSE Rank(s, i)
      BY <3>1, RankNext
    <3>4. Rank(t, i) = IF t[i].kind = "chat" THEN Rank(t, i - 1) + 1 ELSE Rank(t, i - 1)
      BY <3>1, RankNext
    <3>5. Rank(t, i - 1) \in Nat
      BY <3>1, RankType
    <3>6. Rank(s, i + 1) = Rank(t, i) + c
      <4> HIDE DEF c
      <4>1. t[i] = s[i + 1]
        BY <3>1, <1>1
      <4> QED BY <4>1, <3>2, <3>3, <3>4, <3>5, <1>c
    <3> QED BY <2>3, <3>6
  <2> QED BY <2>4, <2>5
<1>5. q \in Seq(Messages) /\ Len(q) = Rank(t, n) /\ Rank(t, n) \in Nat
  BY <1>1, <1>2, RankType DEF Lists, n
<1>6. /\ p \in Seq(Messages) /\ Len(p) = Len(q) + c
      /\ \A j \in 1..Len(q) : p[j + c] = q[j]
      /\ c = 1 => p[1] = s[1].msg
  <2>1. CASE Head(s).kind = "chat"
    <3>1. Head(s).msg \in Messages
      BY <1>1, <2>1, ChatMessage
    <3> QED BY <2>1, <3>1, <1>1, <1>5
  <2>2. CASE Head(s).kind # "chat"
    BY <2>2, <1>5
  <2> QED BY <2>1, <2>2
<1>7. Len(p) = Rank(s, Len(s))
  <2>1. Rank(s, n + 1) = Rank(t, n) + c
    BY <1>1, <1>4
  <2> QED BY <2>1, <1>1, <1>5, <1>6
<1>8. ASSUME NEW i \in 1..Len(s), s[i].kind = "chat"
      PROVE  p[Rank(s, i)] = s[i].msg
  <2>1. CASE i = 1
    BY <2>1, <1>1, <1>3, <1>6, <1>8
  <2>2. CASE i # 1
    <3>1. PICK j \in 1..n : i = j + 1
      <4>1. i - 1 \in 1..n /\ i = (i - 1) + 1
        BY <2>2, <1>1
      <4> QED BY <4>1
    <3>2. t[j] = s[i] /\ j \in Nat /\ j \in 0..n /\ j <= n /\ 0 < j
      BY <3>1, <1>1
    <3>3. q[Rank(t, j)] = s[i].msg
      BY <3>1, <3>2, <1>2, <1>8 DEF Lists, n
    <3>4. Rank(t, j) \in 1..Len(q)
      <4>1. Rank(t, 0) < Rank(t, j) /\ Rank(t, 0) = 0
        BY <3>1, <3>2, <1>8, RankStrict, RankZero
      <4>2. Rank(t, j) <= Rank(t, n)
        BY <3>2, <1>1, RankMonotone
      <4>3. Rank(t, j) \in Nat
        BY <3>2, RankType
      <4> QED BY <4>1, <4>2, <4>3, <1>5
    <3>5. Rank(s, i) = Rank(t, j) + c
      BY <3>1, <3>2, <1>4
    <3> QED BY <3>3, <3>4, <3>5, <1>6
  <2> QED BY <2>1, <2>2
<1>9. Lists(s, p)
  BY <1>6, <1>7, <1>8 DEF Lists
<1> HIDE DEF p
<1>10. p = ChatsOf(s)
  BY <1>9, ListUnique
<1> QED BY <1>10 DEF p, q, t
-----------------------------------------------------------------------------
(***************************************************************************)
(* The mailbox                                                             *)
(***************************************************************************)

(* Nothing comes from Redis once the connection is broken.                 *)
OpenInv == ~connected => subscribed = {} /\ cmds = <<>>

(* A step that leaves the inbox and the message in hand alone, and hands   *)
(* none over, is no step of the mailbox.                                   *)
LEMMA MailboxStutters ==
  ASSUME InHand' = InHand, ChatsOf(inbox)' = ChatsOf(inbox),
         UNCHANGED <<delivered, connected>>
  PROVE  [Mailbox!Next]_(Mailbox!vars)
BY DEF Mailbox!vars, Undelivered

(* Every step keeps OpenInv.                                               *)
LEMMA OpenStep == TypeOK /\ OpenInv /\ [Next]_vars => OpenInv'
<1> SUFFICES ASSUME TypeOK, OpenInv, [Next]_vars PROVE OpenInv'
  OBVIOUS
<1> USE DEF OpenInv, listenerVars, callerVars
<1>1. CASE UNCHANGED <<connected, subscribed, cmds>>
  BY <1>1
<1>2. ASSUME NEW t \in Threads, Write(t) PROVE OpenInv'
  BY <1>2 DEF Write
<1>3. CASE RedisReadsCommand
  BY <1>3 DEF RedisReadsCommand
<1>4. CASE ConnectionLost
  BY <1>4 DEF ConnectionLost
<1>5. ASSUME NEW t \in Threads, Caller(t) \/ TryTimeout(t) \/ Acquire(t) \/ RedisReadsPublish(t)
      PROVE  UNCHANGED <<connected, subscribed, cmds>>
  BY <1>5 DEF Caller, Subscribe, Unsubscribe, Stop, Begin, Publish, TryTimeout, Acquire,
     RedisReadsPublish
<1>6. ASSUME ListenerStep \/ ListenerLock \/ ListenerCallback
      PROVE  UNCHANGED <<connected, subscribed, cmds>>
  BY <1>6 DEF ListenerStep, ListenerCheck, ListenerReceive, ListenerError, ListenerHandle,
     ListenerWake, ListenerLock, ListenerCallback
<1> QED BY <1>1, <1>2, <1>3, <1>4, <1>5, <1>6 DEF Next, Redis, vars

(* Every step is a step of the mailbox, or none.                           *)
LEMMA MailboxStep ==
  ASSUME TypeOK, ControlInv, OpenInv, [Next]_vars
  PROVE  [Mailbox!Next]_(Mailbox!vars)
<1> USE DEF listenerVars, callerVars
<1>0. inbox \in Seq(Replies) /\ ChatsOf(inbox) \in Seq(Messages) /\ InHand \in Seq(Messages)
  <2>1. inbox \in Seq(Replies)
    BY DEF TypeOK
  <2>2. ChatsOf(inbox) \in Seq(Messages)
    BY <2>1, ChatsListed DEF Lists
  <2>3. (lpc \in {"handle", "callback"} /\ reply.kind = "chat") => reply.msg \in Messages
    BY ChatMessage DEF ControlInv, Chat
  <2> QED BY <2>1, <2>2, <2>3 DEF InHand
<1>1. CASE UNCHANGED <<lpc, reply, inbox, delivered, connected>>
  BY <1>1, MailboxStutters DEF InHand
<1>2. ASSUME NEW t \in Threads, Caller(t) \/ TryTimeout(t) \/ Acquire(t) \/ Write(t)
      PROVE  UNCHANGED <<lpc, reply, inbox, delivered, connected>>
  BY <1>2 DEF Caller, Subscribe, Unsubscribe, Stop, Begin, Publish, TryTimeout, Acquire, Write
<1>3. CASE ListenerCheck \/ ListenerLock \/ ListenerError \/ ListenerWake
  <2>1. /\ lpc \notin {"handle", "callback"} /\ lpc' \notin {"handle", "callback"}
        /\ UNCHANGED <<inbox, delivered, connected>>
    BY <1>3 DEF ListenerCheck, ListenerLock, ListenerError, ListenerWake
  <2> QED BY <2>1, MailboxStutters DEF InHand
<1>4. CASE ListenerReceive
  <2>1. /\ inbox # <<>> /\ inbox' = Tail(inbox) /\ reply' = Head(inbox)
        /\ lpc = "recv" /\ lpc' = "handle" /\ UNCHANGED <<delivered, connected>>
    BY <1>4 DEF ListenerReceive
  <2>2. InHand = <<>> /\ InHand' = IF Head(inbox).kind = "chat" THEN <<Head(inbox).msg>> ELSE <<>>
    BY <2>1 DEF InHand
  <2>3. ChatsOf(inbox) = IF Head(inbox).kind = "chat"
                         THEN <<Head(inbox).msg>> \o ChatsOf(inbox') ELSE ChatsOf(inbox')
    BY <2>1, <1>0, ChatsTail
  <2>4. inbox' \in Seq(Replies) /\ ChatsOf(inbox') \in Seq(Messages)
    <3>1. inbox' \in Seq(Replies)
      BY <1>0, <2>1
    <3> QED BY <3>1, ChatsListed DEF Lists
  <2>5. Undelivered = ChatsOf(inbox) /\ Undelivered' = InHand' \o ChatsOf(inbox')
    BY <1>0, <2>2, ConcatEmptySeq DEF Undelivered
  <2>6. Undelivered' = Undelivered
    BY <2>2, <2>3, <2>4, <2>5, ConcatEmptySeq
  <2> QED BY <2>1, <2>6 DEF Mailbox!vars
<1>5. CASE ListenerHandle
  <2>1. reply.kind \in {"ack", "unlock", "chat"}
    BY <1>5 DEF ListenerHandle, ControlInv, Replies, Ack, UnlockMsg, Chat
  <2>2. lpc = "handle" /\ UNCHANGED <<reply, inbox, delivered, connected>>
    BY <1>5 DEF ListenerHandle
  <2>3. CASE reply.kind = "chat"
    <3>1. lpc' = "callback"
      BY <1>5, <2>3 DEF ListenerHandle
    <3> QED BY <2>2, <3>1, MailboxStutters DEF InHand
  <2>4. CASE reply.kind # "chat"
    BY <2>2, <2>4, MailboxStutters DEF InHand
  <2> QED BY <2>3, <2>4
<1>6. CASE ListenerCallback
  <2>1. /\ lpc = "callback" /\ lpc' = "check" /\ delivered' = Append(delivered, reply.msg)
        /\ UNCHANGED <<inbox, connected>>
    BY <1>6 DEF ListenerCallback
  <2>2. reply.kind = "chat" /\ reply.msg \in Messages
    BY <2>1 DEF ControlInv, Chat
  <2>3. InHand = <<reply.msg>> /\ InHand' = <<>>
    BY <2>1, <2>2 DEF InHand
  <2> DEFINE c == ChatsOf(inbox)
  <2>4. Undelivered = <<reply.msg>> \o c /\ Undelivered' = <<>> \o c
    BY <2>1, <2>3 DEF Undelivered
  <2>5. c \in Seq(Messages)
    BY <1>0
  <2> HIDE DEF c
  <2>6. Undelivered' = c
    BY <2>4, <2>5, ConcatEmptySeq
  <2>7. Undelivered # <<>> /\ Head(Undelivered) = reply.msg /\ Tail(Undelivered) = c
    BY <2>2, <2>4, <2>5
  <2>8. Mailbox!Deliver
    BY <2>1, <2>6, <2>7 DEF Mailbox!Deliver
  <2> QED BY <2>8 DEF Mailbox!Next
<1>7. CASE RedisReadsCommand
  <2>1. inbox' = Append(inbox, Ack) /\ UNCHANGED <<lpc, reply, delivered, connected>>
    BY <1>7 DEF RedisReadsCommand
  <2>2. Ack \in Replies /\ Ack.kind # "chat"
    BY DEF Replies, Ack
  <2>3. ChatsOf(inbox)' = ChatsOf(inbox)
    BY <1>0, <2>1, <2>2, ChatsAppend
  <2> QED BY <2>1, <2>3, MailboxStutters DEF InHand
<1>8. ASSUME NEW t \in Threads, RedisReadsPublish(t) PROVE [Mailbox!Next]_(Mailbox!vars)
  <2> DEFINE p == Head(pubs[t])
  <2>1. p \in Publications /\ UNCHANGED <<lpc, reply, delivered, connected>>
    BY <1>8 DEF RedisReadsPublish, TypeOK
  <2>2. inbox' = IF p.chan \notin subscribed THEN inbox
                 ELSE Append(inbox, IF p.chan = Unlock THEN UnlockMsg ELSE Chat(p.msg))
    BY <1>8 DEF RedisReadsPublish
  <2> HIDE DEF p
  <2>3. CASE p.chan \notin subscribed
    BY <2>1, <2>2, <2>3, <1>1
  <2>4. CASE p.chan \in subscribed /\ p.chan = Unlock
    <3>1. UnlockMsg \in Replies /\ UnlockMsg.kind # "chat"
      BY DEF Replies, UnlockMsg
    <3>2. ChatsOf(inbox)' = ChatsOf(inbox)
      BY <1>0, <2>2, <2>4, <3>1, ChatsAppend
    <3> QED BY <2>1, <3>2, MailboxStutters DEF InHand
  <2>5. CASE p.chan \in subscribed /\ p.chan # Unlock
    <3>1. p.msg \in Messages
      BY <2>1, <2>5 DEF Publications
    <3>2. Chat(p.msg) \in Replies /\ Chat(p.msg).kind = "chat" /\ Chat(p.msg).msg = p.msg
      BY <3>1 DEF Replies, Chat
    <3>3. ChatsOf(inbox') = Append(ChatsOf(inbox), p.msg)
      BY <1>0, <2>2, <2>5, <3>2, ChatsAppend
    <3>4. connected
      BY <2>5 DEF OpenInv
    <3>5. InHand' = InHand
      BY <2>1 DEF InHand
    <3>6. Undelivered' = InHand \o Append(ChatsOf(inbox), p.msg)
      BY <3>3, <3>5 DEF Undelivered
    <3>7. Undelivered' = Append(Undelivered, p.msg)
      <4>1. ASSUME NEW a \in Seq(Messages), NEW b \in Seq(Messages), NEW m \in Messages
            PROVE  a \o Append(b, m) = Append(a \o b, m)
        OBVIOUS
      <4> QED BY <4>1, <3>1, <3>6, <1>0 DEF Undelivered
    <3>8. Mailbox!Accept(p.msg)
      BY <2>1, <3>4, <3>7 DEF Mailbox!Accept
    <3> QED BY <3>1, <3>8 DEF Mailbox!Next
  <2> QED BY <2>3, <2>4, <2>5
<1>9. CASE ConnectionLost
  <2>1. PICK k \in 0..Len(inbox) : inbox' = SubSeq(inbox, 1, k)
    BY <1>9 DEF ConnectionLost
  <2>2. connected /\ connected' = FALSE /\ UNCHANGED <<lpc, reply, delivered>>
    BY <1>9 DEF ConnectionLost
  <2> DEFINE n == Rank(inbox, k)
             c == ChatsOf(inbox)
  <2>3. n \in 0..Len(c) /\ ChatsOf(inbox') = SubSeq(c, 1, n)
    BY <1>0, <2>1, ChatsCut
  <2>4. c \in Seq(Messages)
    BY <1>0
  <2>5. InHand' = InHand
    BY <2>2 DEF InHand
  <2>6. Undelivered = InHand \o c /\ Undelivered' = InHand \o SubSeq(c, 1, n)
    BY <2>3, <2>5 DEF Undelivered
  <2> HIDE DEF n, c
  <2>7. \E j \in 0..Len(Undelivered) : Undelivered' = SubSeq(Undelivered, 1, j)
    <3>1. ASSUME NEW a \in Seq(Messages), NEW b \in Seq(Messages), NEW m \in 0..Len(b)
          PROVE  /\ Len(a) + m \in 0..Len(a \o b)
                 /\ a \o SubSeq(b, 1, m) = SubSeq(a \o b, 1, Len(a) + m)
      OBVIOUS
    <3> QED BY <3>1, <1>0, <2>3, <2>4, <2>6
  <2>8. Mailbox!Break
    BY <2>2, <2>7 DEF Mailbox!Break
  <2> QED BY <2>8 DEF Mailbox!Next
<1> QED
  BY <1>1, <1>2, <1>3, <1>4, <1>5, <1>6, <1>7, <1>8, <1>9 DEF Next, ListenerStep, Redis, vars

(* The object implements a mailbox, for any number of publishers, calls    *)
(* and messages: what Redis sends reaches callback_ in order and once, and *)
(* a broken connection loses the youngest messages only.                   *)
THEOREM MailboxRefinement == Spec => ImplementsMailbox
<1>1. Init => Mailbox!Init
  <2> SUFFICES ASSUME Init PROVE Mailbox!Init
    OBVIOUS
  <2>1. inbox = <<>> /\ lpc = "check" /\ delivered = <<>> /\ connected = TRUE
    BY DEF Init
  <2>2. ChatsOf(inbox) = <<>>
    <3>1. inbox \in Seq(Replies) /\ Len(inbox) = 0
      BY <2>1
    <3>2. ChatsOf(inbox) \in Seq(Messages) /\ Len(ChatsOf(inbox)) = 0
      BY <3>1, ChatsListed, RankZero DEF Lists
    <3> QED BY <3>2
  <2>3. InHand = <<>>
    BY <2>1 DEF InHand
  <2>4. Undelivered = <<>>
    BY <2>2, <2>3 DEF Undelivered
  <2> QED BY <2>1, <2>4 DEF Mailbox!Init
<1>2. Init => OpenInv
  BY DEF Init, OpenInv
<1>3. IInv /\ OpenInv /\ [Next]_vars => OpenInv' /\ [Mailbox!Next]_(Mailbox!vars)
  BY OpenStep, MailboxStep DEF IInv
<1> QED BY <1>1, <1>2, <1>3, Invariance, PTL DEF Spec, ImplementsMailbox, Mailbox!Spec
-----------------------------------------------------------------------------
(***************************************************************************)
(* The two locks of a server                                               *)
(***************************************************************************)

(* A call that was entered by a login or logout; stop() uses Unlock.       *)
Handling(t) == cpc[t] # "idle" /\ call[t].chan # Unlock

(* online_users_mutex_ is held by exactly the login or logout that is      *)
(* inside subscribe or unsubscribe, so there is at most one.               *)
MutexHeld ==
  /\ onlineMutex \in Threads \cup {Nobody}
  /\ \A t \in Threads : onlineMutex = t <=> Handling(t)

(* The order of the locks: mtx_ is waited for with the mutex held, and the *)
(* mutex is never waited for, in the callback, by a listener that has      *)
(* mtx_.  What the holder of the mutex waits for is free, or with a caller *)
(* that waits for nothing, or with a listener that does not want the mutex.*)
NoCircularWait ==
  /\ lpc = "callback" => mtx # Listener
  /\ \A t \in Threads : onlineMutex = t /\ cpc[t] = "try" =>
        \/ mtx = Nobody
        \/ mtx = Listener /\ lpc = "recv"
        \/ \E u \in Threads \ {t} : mtx = u /\ cpc[u] = "write" /\ onlineMutex # u

(* Every step of the composition is one of the object's or leaves it alone.*)
LEMMA LockingStep == [LNext]_lockVars => [Next]_vars
<1> SUFFICES ASSUME [LNext]_lockVars PROVE [Next]_vars
  OBVIOUS
<1>1. ASSUME NEW t \in Threads, NEW ch \in Channels,
             LoginSubscribes(t, ch) \/ LogoutUnsubscribes(t, ch)
      PROVE  Next
  BY <1>1 DEF LoginSubscribes, LogoutUnsubscribes, Next, Caller
<1>2. ASSUME NEW t \in Threads, HandlerReturns(t) \/ StopReturns(t) PROVE Next
  BY <1>2 DEF HandlerReturns, StopReturns, Next
<1>3. CASE OnRedisPubSubMessage
  BY <1>3 DEF OnRedisPubSubMessage, Next
<1>4. ASSUME NEW t \in Threads,
             \/ Stop(t) \/ TryTimeout(t) \/ Acquire(t)
             \/ \E ch \in Channels : Publish(t, ch)
      PROVE  Next
  BY <1>4 DEF Next, Caller
<1>5. CASE ListenerStep \/ ListenerLock \/ Redis \/ ConnectionLost
  BY <1>5 DEF Next
<1>6. CASE UNCHANGED lockVars
  BY <1>6 DEF lockVars
<1> QED BY <1>1, <1>2, <1>3, <1>4, <1>5, <1>6 DEF LNext

(* A server that takes online_users_mutex_ around its calls uses the       *)
(* object as RedisPubSub describes it: what is proved of the object holds  *)
(* in the server.                                                          *)
THEOREM LockingRefinement == LSpec => Spec
<1>1. LInit => Init
  BY DEF LInit
<1> QED BY <1>1, LockingStep, PTL DEF LSpec, Spec

(* The mutex changes hands only where a call begins or returns.            *)
LEMMA MutexStep == TypeOK /\ ControlInv /\ MutexHeld /\ [LNext]_lockVars => MutexHeld'
<1> SUFFICES ASSUME TypeOK, ControlInv, MutexHeld, [LNext]_lockVars PROVE MutexHeld'
  OBVIOUS
<1>1. /\ cpc \in [Threads -> {"idle", "try", "write"}]
      /\ call \in [Threads -> Commands \cup {NoCall}]
      /\ Nobody \notin Threads /\ Unlock \notin Channels
  BY RedisPubSubAssumption DEF TypeOK
<1>2. ASSUME NEW t \in Threads, NEW op, NEW ch, Begin(t, op, ch)
      PROVE  /\ cpc[t] = "idle" /\ cpc'[t] = "try" /\ call'[t].chan = ch
             /\ \A u \in Threads \ {t} : cpc'[u] = cpc[u] /\ call'[u] = call[u]
  BY <1>1, <1>2 DEF Begin
<1>3. ASSUME NEW t \in Threads, NEW ch \in Channels,
             LoginSubscribes(t, ch) \/ LogoutUnsubscribes(t, ch)
      PROVE  MutexHeld'
  <2>1. onlineMutex = Nobody /\ onlineMutex' = t
    BY <1>3 DEF LoginSubscribes, LogoutUnsubscribes
  <2>2. PICK op : Begin(t, op, ch)
    BY <1>3 DEF LoginSubscribes, LogoutUnsubscribes, Subscribe, Unsubscribe
  <2>3. /\ cpc'[t] = "try" /\ call'[t].chan = ch
        /\ \A u \in Threads \ {t} : cpc'[u] = cpc[u] /\ call'[u] = call[u]
    BY <1>2, <2>2
  <2>4. Handling(t)'
    BY <1>1, <2>3 DEF Handling
  <2>5. \A u \in Threads \ {t} : ~ Handling(u)'
    BY <1>1, <2>1, <2>3 DEF Handling, MutexHeld
  <2> QED BY <2>1, <2>4, <2>5 DEF MutexHeld
<1>4. ASSUME NEW t \in Threads, Write(t)
      PROVE  /\ cpc[t] # "idle" /\ cpc'[t] = "idle"
             /\ \A u \in Threads \ {t} : cpc'[u] = cpc[u] /\ call'[u] = call[u]
  BY <1>1, <1>4 DEF Write
<1>5. ASSUME NEW t \in Threads, HandlerReturns(t) PROVE MutexHeld'
  <2>1. onlineMutex = t /\ onlineMutex' = Nobody /\ Write(t)
    BY <1>5 DEF HandlerReturns
  <2>2. \A u \in Threads : ~ Handling(u)'
    BY <1>4, <2>1 DEF Handling, MutexHeld
  <2> QED BY <1>1, <2>1, <2>2 DEF MutexHeld
<1>6. ASSUME NEW t \in Threads, StopReturns(t) PROVE MutexHeld'
  <2>1. onlineMutex # t /\ onlineMutex' = onlineMutex /\ Write(t)
    BY <1>6 DEF StopReturns
  <2>2. \A u \in Threads : Handling(u)' <=> Handling(u)
    BY <1>4, <2>1 DEF Handling, MutexHeld
  <2> QED BY <2>1, <2>2 DEF MutexHeld
<1>7. ASSUME NEW t \in Threads, Stop(t), onlineMutex' = onlineMutex PROVE MutexHeld'
  <2>1. /\ cpc[t] = "idle" /\ call'[t].chan = Unlock
        /\ \A u \in Threads \ {t} : cpc'[u] = cpc[u] /\ call'[u] = call[u]
    BY <1>2, <1>7 DEF Stop
  <2>2. \A u \in Threads : Handling(u)' <=> Handling(u)
    BY <2>1 DEF Handling
  <2> QED BY <1>7, <2>2 DEF MutexHeld
<1>8. ASSUME NEW t \in Threads, Acquire(t), onlineMutex' = onlineMutex PROVE MutexHeld'
  <2>1. /\ cpc[t] = "try" /\ cpc'[t] = "write" /\ call' = call
        /\ \A u \in Threads \ {t} : cpc'[u] = cpc[u]
    BY <1>1, <1>8 DEF Acquire
  <2>2. \A u \in Threads : Handling(u)' <=> Handling(u)
    BY <2>1 DEF Handling
  <2> QED BY <1>8, <2>2 DEF MutexHeld
<1>9. ASSUME cpc' = cpc, call' = call, onlineMutex' = onlineMutex PROVE MutexHeld'
  BY <1>9 DEF MutexHeld, Handling
<1>10. ASSUME NEW t \in Threads, onlineMutex' = onlineMutex,
              TryTimeout(t) \/ \E ch \in Channels : Publish(t, ch)
       PROVE  MutexHeld'
  BY <1>9, <1>10 DEF TryTimeout, Publish, callerVars
<1>11. CASE OnRedisPubSubMessage
  BY <1>9, <1>11 DEF OnRedisPubSubMessage, ListenerCallback, callerVars
<1>12. CASE (ListenerStep \/ ListenerLock) /\ UNCHANGED onlineMutex
  BY <1>9, <1>12 DEF ListenerStep, ListenerLock, ListenerCheck, ListenerReceive,
                     ListenerError, ListenerHandle, ListenerWake, callerVars
<1>13. CASE (Redis \/ ConnectionLost) /\ UNCHANGED onlineMutex
  BY <1>9, <1>13 DEF Redis, RedisReadsCommand, RedisReadsPublish, ConnectionLost, callerVars
<1>14. CASE UNCHANGED lockVars
  BY <1>9, <1>14 DEF lockVars, vars
<1> QED BY <1>3, <1>5, <1>6, <1>7, <1>8, <1>10, <1>11, <1>12, <1>13, <1>14 DEF LNext

(* In a server, whoever touches the connection holds mtx_, the mutex is    *)
(* held by exactly the one login or logout inside subscribe or             *)
(* unsubscribe, and the two locks are never waited for in a circle.        *)
THEOREM LocksInOrder == LSpec => [](ContextExclusive /\ MutexHeld /\ NoCircularWait)
<1>1. LInit => MutexHeld
  BY RedisPubSubAssumption DEF LInit, Init, MutexHeld, Handling
<1>2. IInv /\ MutexHeld /\ [LNext]_lockVars => MutexHeld'
  BY MutexStep DEF IInv
<1>3. IInv /\ MutexHeld => ContextExclusive /\ MutexHeld /\ NoCircularWait
  <2> SUFFICES ASSUME IInv, MutexHeld PROVE ContextExclusive /\ NoCircularWait
    OBVIOUS
  <2>1. ContextExclusive /\ mtx \in Threads \cup {Listener, Nobody}
    BY DEF IInv, TypeOK
  <2>2. lpc = "callback" => mtx # Listener
    BY <2>1 DEF ContextExclusive
  <2>3. ASSUME NEW t \in Threads, onlineMutex = t, cpc[t] = "try"
        PROVE  \/ mtx = Nobody
               \/ mtx = Listener /\ lpc = "recv"
               \/ \E u \in Threads \ {t} : mtx = u /\ cpc[u] = "write" /\ onlineMutex # u
    BY <2>1, <2>3 DEF ContextExclusive
  <2> QED BY <2>1, <2>2, <2>3 DEF NoCircularWait
<1>4. LSpec => []IInv
  BY LockingRefinement, Invariance, PTL
<1> QED BY <1>1, <1>2, <1>3, <1>4, PTL DEF LSpec
=============================================================================
