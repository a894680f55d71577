----------------------------- MODULE RedisPubSub -----------------------------
(***************************************************************************)
(* One RedisPubSub object (pubsub.cc): a subscription connection shared by *)
(* the listener thread, which blocks in redisGetReply with mtx_ held, and  *)
(* by the threads that subscribe and unsubscribe, which must take mtx_     *)
(* from it.  They do so by publishing to an unlock channel the object is   *)
(* itself subscribed to; the listener then sleeps 200 ms without the lock. *)
(* publish() uses a connection of its own per thread, so Redis may read a  *)
(* PUBLISH before a SUBSCRIBE that was written earlier.                    *)
(***************************************************************************)
EXTENDS Naturals, Sequences, FiniteSets

CONSTANTS
  Threads,     \* threads that call the object
  Channels,    \* the channels they use
  Unlock,      \* __UNLOCK_CHANNEL__
  Listener,    \* the listener thread, as an owner of mtx_
  Nobody,      \* mtx_ is free
  MaxCalls,    \* bound: calls of subscribe, unsubscribe and stop
  MaxPublish,  \* bound: chat messages published
  MaxUnlocks   \* bound: unlock messages in flight

ASSUME RedisPubSubAssumption ==
  /\ Unlock \notin Channels
  /\ Listener \notin Threads
  /\ Nobody \notin Threads \cup {Listener}
  /\ MaxCalls \in Nat /\ MaxPublish \in Nat /\ MaxUnlocks \in Nat \ {0}

VARIABLES
  mtx,         \* owner of mtx_
  stop,        \* stop_
  lpc,         \* where the listener thread stands in messageListener
  reply,       \* the reply it has taken from the connection
  cpc,         \* where each caller stands in subscribe or unsubscribe
  call,        \* the command that caller is to write
  calls,       \* calls made so far (bounded by MaxCalls)
  sent,        \* chat messages published so far, which numbers them
  cmds,        \* written to the subscription connection, unread by Redis
  subscribed,  \* channels Redis has the connection subscribed to
  inbox,       \* replies of Redis not yet taken by the listener
  pubs,        \* per thread: PUBLISH commands Redis has not read
  connected,   \* the subscription connection is intact
  delivered    \* history: messages handed to callback_, in order

listenerVars == <<lpc, reply>>
callerVars   == <<cpc, call, calls>>
vars == <<mtx, stop, lpc, reply, cpc, call, calls, sent, cmds,
          subscribed, inbox, pubs, connected, delivered>>

Commands == [op : {"SUBSCRIBE", "UNSUBSCRIBE"}, chan : Channels \cup {Unlock}]
NoCall   == [op |-> "none"]
Messages == [from : Threads, num : 1..MaxPublish]

(* What Redis sends: an acknowledgement of a command, an unlock message or *)
(* a chat message.                                                         *)
NoReply   == [kind |-> "none"]
Ack       == [kind |-> "ack"]
UnlockMsg == [kind |-> "unlock"]
Chat(m)   == [kind |-> "chat", msg |-> m]
Replies   == {Ack, UnlockMsg} \cup {Chat(m) : m \in Messages}

Publications == [chan : {Unlock}] \cup [chan : Channels, msg : Messages]

(* Every variable has its type.                                            *)
TypeOK ==
  /\ mtx \in Threads \cup {Listener, Nobody}
  /\ stop \in BOOLEAN
  /\ lpc \in {"check", "lock", "recv", "handle", "sleep", "callback", "exited"}
  /\ reply \in Replies \cup {NoReply}
  /\ cpc \in [Threads -> {"idle", "try", "write"}]
  /\ call \in [Threads -> Commands \cup {NoCall}]
  /\ calls \in 0..MaxCalls
  /\ sent \in 0..MaxPublish
  /\ cmds \in Seq(Commands)
  /\ subscribed \subseteq Channels \cup {Unlock}
  /\ inbox \in Seq(Replies)
  /\ pubs \in [Threads -> Seq(Publications)]
  /\ connected \in BOOLEAN
  /\ delivered \in Seq(Messages)

(* Mutant of Init: the constructor forgets the unlock channel.             *)
InitWithoutUnlockChannel ==
  /\ mtx = Nobody /\ stop = FALSE
  /\ lpc = "check" /\ reply = NoReply
  /\ cpc = [t \in Threads |-> "idle"]
  /\ call = [t \in Threads |-> NoCall]
  /\ calls = 0 /\ sent = 0
  /\ cmds = <<>>
  /\ subscribed = {} /\ inbox = <<>> /\ connected = TRUE
  /\ pubs = [t \in Threads |-> <<>>]
  /\ delivered = <<>>

(* The constructor has written SUBSCRIBE __UNLOCK_CHANNEL__ and started    *)
(* the listener thread.                                                    *)
Init ==
  /\ mtx = Nobody /\ stop = FALSE
  /\ lpc = "check" /\ reply = NoReply
  /\ cpc = [t \in Threads |-> "idle"]
  /\ call = [t \in Threads |-> NoCall]
  /\ calls = 0 /\ sent = 0
  /\ cmds = <<[op |-> "SUBSCRIBE", chan |-> Unlock]>>
  /\ subscribed = {} /\ inbox = <<>> /\ connected = TRUE
  /\ pubs = [t \in Threads |-> <<>>]
  /\ delivered = <<>>
-----------------------------------------------------------------------------
(***************************************************************************)
(* subscribe, unsubscribe, stop and publish                                *)
(***************************************************************************)

(* Enter subscribe or unsubscribe.                                         *)
Begin(t, op, ch) ==
  /\ cpc[t] = "idle"
  /\ calls < MaxCalls
  /\ calls' = calls + 1
  /\ cpc' = [cpc EXCEPT ![t] = "try"]
  /\ call' = [call EXCEPT ![t] = [op |-> op, chan |-> ch]]
  /\ UNCHANGED <<mtx, sent, cmds, subscribed, inbox, pubs, connected>>
  /\ UNCHANGED <<listenerVars, delivered>>

Subscribe(t, ch)   == Begin(t, "SUBSCRIBE", ch) /\ UNCHANGED stop
Unsubscribe(t, ch) == Begin(t, "UNSUBSCRIBE", ch) /\ UNCHANGED stop

(* Mutant of Stop: the flag alone, without waking the listener.            *)
StopFlagOnly(t) ==
  /\ ~stop
  /\ cpc[t] = "idle"
  /\ stop' = TRUE
  /\ UNCHANGED <<mtx, sent, cmds, subscribed, inbox, pubs, connected>>
  /\ UNCHANGED <<listenerVars, callerVars, delivered>>

(* stop(), after its sleep: raise the flag, then unsubscribe the unlock    *)
(* channel, whose acknowledgement wakes the listener.                      *)
Stop(t) ==
  /\ ~stop
  /\ Begin(t, "UNSUBSCRIBE", Unlock)
  /\ stop' = TRUE

InFlight(q) == Len(SelectSeq(q, LAMBDA p : p.chan = Unlock))

RoomForUnlock(t) ==
  InFlight(pubs[t]) + Len(SelectSeq(inbox, LAMBDA r : r = UnlockMsg)) < MaxUnlocks

(* try_lock_for(200ms) gave up: publish to the unlock channel, try again.  *)
TryTimeout(t) ==
  /\ cpc[t] = "try"
  /\ RoomForUnlock(t)
  /\ pubs' = [pubs EXCEPT ![t] = Append(@, [chan |-> Unlock])]
  /\ UNCHANGED <<mtx, stop, sent, cmds, subscribed, inbox, connected>>
  /\ UNCHANGED <<listenerVars, callerVars, delivered>>

(* Mutant of Acquire: callback_ is called with mtx_ still held.            *)
AcquireOutsideCallback(t) ==
  /\ cpc[t] = "try"
  /\ mtx = Nobody
  /\ lpc # "callback"
  /\ mtx' = t
  /\ cpc' = [cpc EXCEPT ![t] = "write"]
  /\ UNCHANGED <<stop, call, calls, sent, cmds, subscribed, inbox, pubs, connected>>
  /\ UNCHANGED <<listenerVars, delivered>>

(* Mutant of Acquire: the lock is not taken.                               *)
AcquireNothing(t) ==
  /\ cpc[t] = "try"
  /\ cpc' = [cpc EXCEPT ![t] = "write"]
  /\ UNCHANGED <<mtx, stop, call, calls, sent, cmds, subscribed, inbox, pubs, connected>>
  /\ UNCHANGED <<listenerVars, delivered>>

(* try_lock_for succeeded.                                                 *)
Acquire(t) ==
  /\ cpc[t] = "try"
  /\ mtx = Nobody
  /\ mtx' = t
  /\ cpc' = [cpc EXCEPT ![t] = "write"]
  /\ UNCHANGED <<stop, call, calls, sent, cmds, subscribed, inbox, pubs, connected>>
  /\ UNCHANGED <<listenerVars, delivered>>

(* Mutant of Write: the lock is released and the command forgotten before  *)
(* the write has ended.                                                    *)
WriteUnfinished(t) ==
  /\ cpc[t] = "write"
  /\ cmds' = IF connected THEN Append(cmds, call[t]) ELSE cmds
  /\ call' = [call EXCEPT ![t] = NoCall]
  /\ mtx' = Nobody
  /\ UNCHANGED <<stop, cpc, calls, sent, subscribed, inbox, pubs, connected>>
  /\ UNCHANGED <<listenerVars, delivered>>

(* Append the command, write until done, release mtx_ and return.  On a    *)
(* broken connection redisBufferWrite fails and false is returned.         *)
Write(t) ==
  /\ cpc[t] = "write"
  /\ cmds' = IF connected THEN Append(cmds, call[t]) ELSE cmds
  /\ mtx' = Nobody
  /\ cpc' = [cpc EXCEPT ![t] = "idle"]
  /\ call' = [call EXCEPT ![t] = NoCall]
  /\ UNCHANGED <<stop, calls, sent, subscribed, inbox, pubs, connected>>
  /\ UNCHANGED <<listenerVars, delivered>>

(* Mutant of Publish: the latest message is written first.                 *)
PublishLatestFirst(t, ch) ==
  /\ cpc[t] = "idle"
  /\ sent < MaxPublish
  /\ sent' = sent + 1
  /\ pubs' = [pubs EXCEPT ![t] = <<
        [chan |-> ch, msg |-> [from |-> t, num |-> sent']]>> \o @]
  /\ UNCHANGED <<mtx, stop, cmds, subscribed, inbox, connected>>
  /\ UNCHANGED <<listenerVars, callerVars, delivered>>

(* publish(): written on the calling thread's own connection.              *)
Publish(t, ch) ==
  /\ cpc[t] = "idle"
  /\ sent < MaxPublish
  /\ sent' = sent + 1
  /\ pubs' = [pubs EXCEPT ![t] = Append(@,
        [chan |-> ch, msg |-> [from |-> t, num |-> sent']])]
  /\ UNCHANGED <<mtx, stop, cmds, subscribed, inbox, connected>>
  /\ UNCHANGED <<listenerVars, callerVars, delivered>>
-----------------------------------------------------------------------------
(***************************************************************************)
(* messageListener                                                         *)
(***************************************************************************)

(* The loop test; a new iteration has no reply.                            *)
ListenerCheck ==
  /\ lpc = "check"
  /\ lpc' = IF stop THEN "exited" ELSE "lock"
  /\ reply' = NoReply
  /\ UNCHANGED <<mtx, stop, sent, cmds, subscribed, inbox, pubs, connected>>
  /\ UNCHANGED <<callerVars, delivered>>

ListenerLock ==
  /\ lpc = "lock"
  /\ mtx = Nobody
  /\ mtx' = Listener
  /\ lpc' = "recv"
  /\ UNCHANGED <<stop, reply, sent, cmds, subscribed, inbox, pubs, connected>>
  /\ UNCHANGED <<callerVars, delivered>>

(* redisGetReply returns a reply; the lock's scope ends.                   *)
ListenerReceive ==
  /\ lpc = "recv"
  /\ inbox # <<>>
  /\ reply' = Head(inbox)
  /\ inbox' = Tail(inbox)
  /\ mtx' = Nobody
  /\ lpc' = "handle"
  /\ UNCHANGED <<stop, sent, cmds, subscribed, pubs, connected>>
  /\ UNCHANGED <<callerVars, delivered>>

(* redisGetReply fails: continue, which releases the lock too.             *)
ListenerError ==
  /\ lpc = "recv"
  /\ inbox = <<>> /\ ~connected
  /\ mtx' = Nobody
  /\ lpc' = "check"
  /\ UNCHANGED <<stop, reply, sent, cmds, subscribed, inbox, pubs, connected>>
  /\ UNCHANGED <<callerVars, delivered>>

(* Mutant of ListenerHandle: a reply taken after stop() is thrown away.    *)
HandleUnlessStopped ==
  /\ lpc = "handle"
  /\ lpc' = CASE reply.kind = "ack" \/ stop -> "check"
              [] reply.kind = "unlock" /\ ~stop -> "sleep"
              [] reply.kind = "chat" /\ ~stop   -> "callback"
  /\ UNCHANGED <<mtx, stop, reply, sent, cmds, subscribed, inbox, pubs, connected>>
  /\ UNCHANGED <<callerVars, delivered>>

(* Only messages count; one on the unlock channel is answered by a sleep.  *)
ListenerHandle ==
  /\ lpc = "handle"
  /\ lpc' = CASE reply.kind = "ack"    -> "check"
              [] reply.kind = "unlock" -> "sleep"
              [] reply.kind = "chat"   -> "callback"
  /\ UNCHANGED <<mtx, stop, reply, sent, cmds, subscribed, inbox, pubs, connected>>
  /\ UNCHANGED <<callerVars, delivered>>

ListenerWake ==
  /\ lpc = "sleep"
  /\ lpc' = "check"
  /\ UNCHANGED <<mtx, stop, reply, sent, cmds, subscribed, inbox, pubs, connected>>
  /\ UNCHANGED <<callerVars, delivered>>

(* callback_(channel, message) runs, without mtx_, and returns.            *)
ListenerCallback ==
  /\ lpc = "callback"
  /\ delivered' = Append(delivered, reply.msg)
  /\ lpc' = "check"
  /\ UNCHANGED <<mtx, stop, reply, sent, cmds, subscribed, inbox, pubs, connected>>
  /\ UNCHANGED callerVars
-----------------------------------------------------------------------------
(***************************************************************************)
(* Redis                                                                   *)
(***************************************************************************)

(* Redis reads a command of the subscription connection and acknowledges.  *)
RedisReadsCommand ==
  /\ cmds # <<>>
  /\ subscribed' = IF Head(cmds).op = "SUBSCRIBE"
                   THEN subscribed \cup {Head(cmds).chan}
                   ELSE subscribed \ {Head(cmds).chan}
  /\ inbox' = Append(inbox, Ack)
  /\ cmds' = Tail(cmds)
  /\ UNCHANGED <<mtx, stop, sent, pubs, connected>>
  /\ UNCHANGED <<listenerVars, callerVars, delivered>>

(* Redis reads a PUBLISH and passes the message to the subscriber, if it   *)
(* is one.                                                                 *)
RedisReadsPublish(t) ==
  LET p == Head(pubs[t]) IN
  /\ pubs[t] # <<>>
  /\ pubs' = [pubs EXCEPT ![t] = Tail(@)]
  /\ inbox' = IF p.chan \notin subscribed THEN inbox
              ELSE Append(inbox, IF p.chan = Unlock THEN UnlockMsg ELSE Chat(p.msg))
  /\ UNCHANGED <<mtx, stop, sent, cmds, subscribed, connected, delivered>>
  /\ UNCHANGED <<listenerVars, callerVars>>

(* The subscription connection breaks.  What has arrived can still be      *)
(* read, the rest is gone; nobody reconnects.                              *)
ConnectionLost ==
  /\ connected
  /\ connected' = FALSE
  /\ subscribed' = {}
  /\ cmds' = <<>>
  /\ \E k \in 0..Len(inbox) : inbox' = SubSeq(inbox, 1, k)
  /\ UNCHANGED <<mtx, stop, sent, pubs>>
  /\ UNCHANGED <<listenerVars, callerVars, delivered>>
-----------------------------------------------------------------------------
Caller(t) ==
  \/ \E ch \in Channels : Subscribe(t, ch) \/ Unsubscribe(t, ch) \/ Publish(t, ch)
  \/ Stop(t)

ListenerStep ==
  ListenerCheck \/ ListenerReceive \/ ListenerError \/ ListenerHandle \/ ListenerWake

Redis == RedisReadsCommand \/ \E t \in Threads : RedisReadsPublish(t)

Next ==
  \/ \E t \in Threads : Caller(t) \/ TryTimeout(t) \/ Acquire(t) \/ Write(t)
  \/ ListenerStep \/ ListenerLock \/ ListenerCallback
  \/ Redis \/ ConnectionLost

Spec == Init /\ [][Next]_vars

(* Threads run and Redis reads its sockets.  The listener gets mtx_ if the *)
(* lock is free again and again.  A caller waiting in try_lock_for gets it *)
(* if it stays free, and if the listener goes to its 200 ms sleep again    *)
(* and again; it is NOT assumed to win the lock in the instant between two *)
(* iterations of the listener.                                             *)
Fairness ==
  /\ WF_vars(ListenerStep) /\ SF_vars(ListenerLock) /\ WF_vars(ListenerCallback)
  /\ WF_vars(RedisReadsCommand)
  /\ \A t \in Threads :
       /\ WF_vars(RedisReadsPublish(t))
       /\ WF_vars(TryTimeout(t)) /\ WF_vars(Write(t))
       /\ WF_vars(Acquire(t))
       /\ SF_vars(Acquire(t) /\ lpc = "sleep")

FairSpec == Spec /\ Fairness
-----------------------------------------------------------------------------
(***************************************************************************)
(* Properties                                                              *)
(***************************************************************************)

(* redis_context_ is not thread-safe: whoever reads from it or writes to   *)
(* it holds mtx_, so the listener inside redisGetReply and the writers of  *)
(* subscribe and unsubscribe exclude each other.                           *)
ContextExclusive ==
  /\ lpc = "recv" <=> mtx = Listener
  /\ \A t \in Threads : cpc[t] = "write" <=> mtx = t

(* callback_ sees the messages of one publishing thread in the order they  *)
(* were published, each at most once.                                      *)
DeliveredInOrder ==
  \A i, j \in 1..Len(delivered) :
    (i < j /\ delivered[i].from = delivered[j].from)
      => delivered[i].num < delivered[j].num

(* Stealing the lock works: subscribe and unsubscribe return although the  *)
(* listener blocks with mtx_ held and unlock messages can be published     *)
(* before Redis has read the subscription to the unlock channel.           *)
SubscribeReturns ==
  \A t \in Threads : cpc[t] # "idle" ~> (cpc[t] = "idle" \/ ~connected)

(* stop() ends the listener thread, which the destructor joins, whatever   *)
(* the listener is doing when the flag is raised.                          *)
StopEndsListener == stop ~> lpc = "exited"

(* The chat messages among a sequence of replies, in order: the n-th is    *)
(* the one with n chat messages up to and including it.                    *)
Rank(s, i) == Cardinality({j \in 1..i : s[j].kind = "chat"})
ChatsOf(s) ==
  [n \in 1..Rank(s, Len(s)) |->
     s[CHOOSE i \in 1..Len(s) : s[i].kind = "chat" /\ Rank(s, i) = n].msg]

(* The messages Redis has sent us and callback_ has not seen, in order:    *)
(* the one the listener has taken, and those in the inbox.                 *)
InHand ==
  IF lpc \in {"handle", "callback"} /\ reply.kind = "chat" THEN <<reply.msg>> ELSE <<>>
Undelivered == InHand \o ChatsOf(inbox)

(* The object implements a mailbox: what Redis sends is handed to          *)
(* callback_ in order, exactly once, and only a broken connection loses    *)
(* anything.                                                               *)
Mailbox == INSTANCE PubSubMailbox WITH Payload <- Messages, queue <- Undelivered, open <- connected
ImplementsMailbox == Mailbox!Spec
=============================================================================
