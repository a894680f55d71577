---------------------------- MODULE ServerLocking ----------------------------
(***************************************************************************)
(* The two locks of a chat server together.  A login or logout holds       *)
(* online_users_mutex_ exclusively while it is inside subscribe or         *)
(* unsubscribe (server.cc), so it waits for mtx_ with that mutex held; the *)
(* listener's callback, onRedisPubSubMessage, wants the same mutex shared. *)
(* The module composes RedisPubSub with those two users of the mutex.  The *)
(* calling threads are the event loops; publish needs neither lock, and    *)
(* stop(), which the owner of the object calls, does not take the mutex.   *)
(***************************************************************************)
EXTENDS RedisPubSub

VARIABLE onlineMutex   \* the loop that holds online_users_mutex_ exclusively

lockVars == <<vars, onlineMutex>>

LInit == Init /\ onlineMutex = Nobody

(* addUserToOnlineUsers for a first login: lock, then call subscribe.      *)
LoginSubscribes(t, ch) ==
  /\ onlineMutex = Nobody
  /\ onlineMutex' = t
  /\ Subscribe(t, ch)

(* removeUserFromOnlineUsers for a last logout.                            *)
LogoutUnsubscribes(t, ch) ==
  /\ onlineMutex = Nobody
  /\ onlineMutex' = t
  /\ Unsubscribe(t, ch)

(* The call returns and the lock guard releases the mutex.                 *)
HandlerReturns(t) ==
  /\ onlineMutex = t
  /\ Write(t)
  /\ onlineMutex' = Nobody

(* stop() returns; it was called without the mutex.                        *)
StopReturns(t) ==
  /\ onlineMutex # t
  /\ Write(t)
  /\ UNCHANGED onlineMutex

(* onRedisPubSubMessage: the shared lock is granted when no loop holds the *)
(* mutex; the message is queued to the user's loops and the lock released. *)
OnRedisPubSubMessage ==
  /\ onlineMutex = Nobody
  /\ ListenerCallback
  /\ UNCHANGED onlineMutex

LNext ==
  \/ \E t \in Threads, ch \in Channels :
       LoginSubscribes(t, ch) \/ LogoutUnsubscribes(t, ch)
  \/ \E t \in Threads : HandlerReturns(t) \/ StopReturns(t)
  \/ OnRedisPubSubMessage
  \/ /\ \/ \E t \in Threads : \/ Stop(t) \/ TryTimeout(t) \/ Acquire(t)
                             \/ \E ch \in Channels : Publish(t, ch)
        \/ ListenerStep \/ ListenerLock \/ Redis \/ ConnectionLost
     /\ UNCHANGED onlineMutex

(* As in RedisPubSub, and the shared lock is granted in the end if it is   *)
(* free again and again.                                                   *)
LFairness ==
  /\ WF_lockVars(ListenerStep /\ UNCHANGED onlineMutex)
  /\ SF_lockVars(ListenerLock /\ UNCHANGED onlineMutex)
  /\ SF_lockVars(OnRedisPubSubMessage)
  /\ WF_lockVars(RedisReadsCommand /\ UNCHANGED onlineMutex)
  /\ \A t \in Threads :
       /\ WF_lockVars(RedisReadsPublish(t) /\ UNCHANGED onlineMutex)
       /\ WF_lockVars(TryTimeout(t) /\ UNCHANGED onlineMutex)
       /\ WF_lockVars(HandlerReturns(t) \/ StopReturns(t))
       /\ WF_lockVars(Acquire(t) /\ UNCHANGED onlineMutex)
       /\ SF_lockVars(Acquire(t) /\ lpc = "sleep" /\ UNCHANGED onlineMutex)

LSpec == LInit /\ [][LNext]_lockVars /\ LFairness

(* A login or logout holds online_users_mutex_ as long as its call of      *)
(* subscribe or unsubscribe lasts, so SubscribeReturns of RedisPubSub,     *)
(* read here, says that it gets out of the mutex again and never waits for *)
(* a listener that waits for it.                                           *)

(* The callback for a message always returns, so messages keep flowing     *)
(* while users log in and out.                                             *)
CallbackReturns == lpc = "callback" ~> (lpc # "callback" \/ ~connected)
=============================================================================
