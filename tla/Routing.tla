------------------------------ MODULE Routing ------------------------------
(***************************************************************************)
(* The way of a chat message through one server (server.cc).  A private    *)
(* message is published by the sender's event loop; a group message is     *)
(* handed to a pool of worker threads, one of which publishes it to each   *)
(* member.  publish() goes round the Redis servers, with an index per      *)
(* thread.  The listener thread of each Redis server queues a message to   *)
(* the loops its user is online at, and each loop writes it to the user's  *)
(* connections.  The Redis servers are independent of each other.          *)
(*                                                                         *)
(* Logins and logouts are one step here: Presence has their details, and   *)
(* shows that online_users_ lists the loops of a user's connections, and   *)
(* that Redis learns of a first login only later.                          *)
(***************************************************************************)
EXTENDS Naturals, Sequences, FiniteSets, Functions

CONSTANTS
  Loops,        \* event loops
  Conns,        \* connections
  LoopOf,       \* conn->getLoop()
  Senders,      \* bound: the connections that send messages
  Users,
  LogsInAs,     \* bound: the users each connection logs in as
  Offline,      \* no user is logged in on the connection
  Groups,
  MembersOf,    \* what SMEMBERS group:<g>:users answers
  Workers,      \* threads of threadPool_
  NumPubSubs,   \* redis_pubsubs_.size()
  MaxMessages,  \* bound: messages sent
  MaxOutages    \* bound: Redis servers lost

ASSUME RoutingAssumption ==
  /\ LoopOf \in [Conns -> Loops]
  /\ Senders \subseteq Conns
  /\ LogsInAs \in [Conns -> SUBSET Users]
  /\ Offline \notin Users
  /\ MembersOf \in [Groups -> SUBSET Users]
  /\ Users \cap Groups = {}
  /\ Loops \cap Workers = {}
  /\ NumPubSubs \in Nat \ {0}
  /\ MaxMessages \in Nat /\ MaxOutages \in Nat

PubSubs == 0..(NumPubSubs - 1)
Threads == Loops \cup Workers

VARIABLES
  user,       \* who is logged in on each connection
  fresh,      \* users whose SUBSCRIBE some Redis server may not have read
  messages,   \* the messages sent so far, [from, to]; a message is its index
  answers,    \* per message: the TextMessageResponse, if any yet
  jobs,       \* tasks of threadPool_, in order
  job,        \* the message each worker publishes, or 0
  rest,       \* the members it has not published to yet
  index,      \* per thread: index in publish()
  up,         \* per Redis server: is it there
  pipe,       \* per thread and Redis server: PUBLISH commands not yet read
  inbox,      \* per Redis server: messages the listener has not taken
  tasks,      \* per loop: calls of sendTextMessage queued
  delivered,  \* per connection: messages written to it, in order
  due         \* history: <<message, connection>> pairs somebody may count on

sessionVars == <<user, fresh, due>>
poolVars    == <<jobs, job, rest>>
vars == <<user, fresh, messages, answers, jobs, job, rest, index, up, pipe, inbox,
          tasks, delivered, due>>

Ids     == 1..MaxMessages
(* A PUBLISH of a message to a user, and the Redis server it went to.      *)
Posts   == [msg : Ids, user : Users, via : PubSubs]
ConnsOf(S) == {c \in Conns : user[c] \in S}
(* Connections of users in S that every message will reach.                *)
Reached(S) == ConnsOf(S \ fresh)
(* online_users_[u]                                                        *)
Online(u) == {LoopOf[c] : c \in ConnsOf({u})}

(* Every variable has its type, and no worker publishes for nobody.        *)
TypeOK ==
  /\ user \in [Conns -> Users \cup {Offline}]
  /\ fresh \subseteq Users
  /\ messages \in Seq([from : Conns, to : Users \cup Groups])
  /\ Len(messages) <= MaxMessages
  /\ answers \in [1..Len(messages) -> {"pending", "sent", "not found"}]
  /\ jobs \in Seq(Ids)
  /\ job \in [Workers -> 0..MaxMessages]
  /\ rest \in [Workers -> SUBSET Users]
  /\ \A w \in Workers : job[w] = 0 => rest[w] = {}
  /\ index \in [Threads -> PubSubs]
  /\ up \in [PubSubs -> BOOLEAN]
  /\ pipe \in [Threads -> [PubSubs -> Seq(Posts)]]
  /\ inbox \in [PubSubs -> Seq(Posts)]
  /\ tasks \in [Loops -> Seq(Posts)]
  /\ delivered \in [Conns -> Seq(Posts)]
  /\ due \subseteq Ids \X Conns

(* The server has been running for a while: anybody may be logged in.      *)
Init ==
  /\ user \in [Conns -> Users \cup {Offline}]
  /\ \A c \in Conns : user[c] \in LogsInAs[c] \cup {Offline}
  /\ fresh = {}
  /\ messages = <<>> /\ answers = <<>> /\ jobs = <<>>
  /\ job = [w \in Workers |-> 0]
  /\ rest = [w \in Workers |-> {}]
  /\ index = [t \in Threads |-> 0]
  /\ up = [p \in PubSubs |-> TRUE]
  /\ pipe = [t \in Threads |-> [p \in PubSubs |-> <<>>]]
  /\ inbox = [p \in PubSubs |-> <<>>]
  /\ tasks = [l \in Loops |-> <<>>]
  /\ delivered = [c \in Conns |-> <<>>]
  /\ due = {}
-----------------------------------------------------------------------------
(***************************************************************************)
(* publish                                                                 *)
(***************************************************************************)

(* The k-th Redis server after thread t's index.                           *)
Attempt(t, k) == (index[t] + k) % NumPubSubs

Post(m, u, p) == [msg |-> m, user |-> u, via |-> p]

(* Mutant of Publish: the message goes to every Redis server.              *)
PublishEverywhere(t, m, u, claims) ==
  /\ pipe' = [pipe EXCEPT ![t] = [p \in PubSubs |-> IF up[p] THEN Append(@[p], Post(m, u, p)) ELSE @[p]]]
  /\ index' = index
  /\ due' = claims

(* Mutant of Publish: one attempt, no second server.                       *)
PublishOnce(t, m, u, claims) ==
  /\ index' = [index EXCEPT ![t] = Attempt(t, 1)]
  /\ pipe' = IF up[index[t]] THEN [pipe EXCEPT ![t][index[t]] = Append(@, Post(m, u, index[t]))] ELSE pipe
  /\ due' = claims

(* publish(): the first server that takes the write gets the message.  A   *)
(* server that is gone refuses it, or the socket swallows the write before *)
(* it learns of the loss.  Without any server the message is lost too, and *)
(* the callers ignore that.  claims are the pairs due after the call if    *)
(* the message is on its way.                                              *)
Publish(t, m, u, claims) ==
  \/ \E k \in 0..(NumPubSubs - 1) :
       LET p == Attempt(t, k) IN
       /\ \A j \in 0..(k - 1) : ~up[Attempt(t, j)]
       /\ index' = [index EXCEPT ![t] = Attempt(t, k + 1)]
       /\ IF up[p]
          THEN /\ pipe' = [pipe EXCEPT ![t][p] = Append(@, Post(m, u, p))]
               /\ due' = claims
          ELSE /\ pipe' = pipe
               /\ due' = claims \ {<<m, c>> : c \in ConnsOf({u})}
  \/ /\ \A p \in PubSubs : ~up[p]
     /\ due' = claims \ {<<m, c>> : c \in ConnsOf({u})}
     /\ UNCHANGED <<index, pipe>>
-----------------------------------------------------------------------------
(***************************************************************************)
(* onTextMessage and the thread pool                                       *)
(***************************************************************************)

NewMessage(c, to, answer) ==
  /\ Len(messages) < MaxMessages
  /\ messages' = Append(messages, [from |-> c, to |-> to])
  /\ answers' = Append(answers, answer)

(* A private message: the target is not verified, and the answer is        *)
(* success whatever publish() returned.                                    *)
OnPrivateMessage(c, u) ==
  LET m == Len(messages) + 1 IN
  /\ NewMessage(c, u, "sent")
  /\ Publish(LoopOf[c], m, u, due \cup {<<m, d>> : d \in Reached({u})})
  /\ UNCHANGED <<user, fresh, up, inbox, tasks, delivered>> /\ UNCHANGED poolVars

(* A group message: threadPool_.run, and no answer yet.                    *)
OnGroupMessage(c, g) ==
  /\ NewMessage(c, g, "pending")
  /\ jobs' = Append(jobs, Len(messages) + 1)
  /\ UNCHANGED <<job, rest, index, up, pipe, inbox, tasks, delivered>>
  /\ UNCHANGED sessionVars

(* processGroupMessage starts with SMEMBERS; a group without members is    *)
(* not found.                                                              *)
PoolTakes(w) ==
  LET m == Head(jobs)
      members == MembersOf[messages[m].to]
  IN
  /\ job[w] = 0
  /\ jobs # <<>>
  /\ jobs' = Tail(jobs)
  /\ IF members = {}
     THEN /\ answers' = [answers EXCEPT ![m] = "not found"]
          /\ UNCHANGED <<job, rest, due>>
     ELSE /\ job' = [job EXCEPT ![w] = m]
          /\ rest' = [rest EXCEPT ![w] = members]
          /\ due' = due \cup {<<m, c>> : c \in Reached(members)}
          /\ UNCHANGED answers
  /\ UNCHANGED <<user, fresh, messages, index, up, pipe, inbox, tasks, delivered>>

(* One round of its loop over the members.                                 *)
PoolPublishes(w) ==
  /\ job[w] # 0
  /\ \E u \in rest[w] :
       /\ rest' = [rest EXCEPT ![w] = @ \ {u}]
       /\ Publish(w, job[w], u, due)
  /\ UNCHANGED <<user, fresh, messages, answers, jobs, job, up, inbox, tasks, delivered>>

(* Mutant of PoolAnswers: the worker answers and is free before the loop   *)
(* over the members has ended.                                             *)
PoolAnswersEarly(w) ==
  /\ job[w] # 0
  /\ answers' = [answers EXCEPT ![job[w]] = "sent"]
  /\ job' = [job EXCEPT ![w] = 0]
  /\ UNCHANGED <<user, fresh, messages, jobs, rest, index, up, pipe, inbox, tasks, delivered, due>>

(* All members served: answer the sender.                                  *)
PoolAnswers(w) ==
  /\ job[w] # 0
  /\ rest[w] = {}
  /\ answers' = [answers EXCEPT ![job[w]] = "sent"]
  /\ job' = [job EXCEPT ![w] = 0]
  /\ UNCHANGED <<user, fresh, messages, jobs, rest, index, up, pipe, inbox, tasks, delivered, due>>
-----------------------------------------------------------------------------
(***************************************************************************)
(* Redis, the listeners and the event loops                                *)
(***************************************************************************)

(* Redis reads a PUBLISH and sends it to the server if it is subscribed.   *)
(* It is while the user is online, unless the SUBSCRIBE is still on its    *)
(* way; after the logout, the UNSUBSCRIBE may still be on its way.         *)
RedisRelays(t, p) ==
  LET post == Head(pipe[t][p]) IN
  /\ pipe[t][p] # <<>>
  /\ pipe' = [pipe EXCEPT ![t][p] = Tail(@)]
  /\ \/ inbox' = [inbox EXCEPT ![p] = Append(@, post)]
     \/ (Online(post.user) = {} \/ post.user \in fresh) /\ UNCHANGED inbox
  /\ UNCHANGED <<messages, answers, index, up, tasks, delivered>>
  /\ UNCHANGED <<sessionVars, poolVars>>

(* A Redis server is lost, with all the messages inside it.                *)
RedisOutage(p) ==
  LET gone == Range(inbox[p]) \cup UNION {Range(pipe[t][p]) : t \in Threads} IN
  /\ up[p]
  /\ Cardinality({q \in PubSubs : ~up[q]}) < MaxOutages
  /\ up' = [up EXCEPT ![p] = FALSE]
  /\ inbox' = [inbox EXCEPT ![p] = <<>>]
  /\ pipe' = [t \in Threads |-> [pipe[t] EXCEPT ![p] = <<>>]]
  /\ due' = {d \in due : ~\E post \in gone : post.msg = d[1] /\ post.user = user[d[2]]}
  /\ UNCHANGED <<user, fresh, messages, answers, index, tasks, delivered>>
  /\ UNCHANGED poolVars

(* Mutant of OnRedisPubSubMessage: the latest message is taken first.      *)
TakeLatest(p) ==
  LET n == Len(inbox[p])
      post == inbox[p][n]
  IN
  /\ inbox[p] # <<>>
  /\ inbox' = [inbox EXCEPT ![p] = SubSeq(@, 1, n - 1)]
  /\ tasks' = [l \in Loops |-> IF l \in Online(post.user) THEN Append(tasks[l], post)
                               ELSE tasks[l]]
  /\ UNCHANGED <<messages, answers, index, up, pipe, delivered>>
  /\ UNCHANGED <<sessionVars, poolVars>>

(* onRedisPubSubMessage: queueInLoop to every loop of the user; if there   *)
(* is none the message is dropped.                                         *)
OnRedisPubSubMessage(p) ==
  LET post == Head(inbox[p]) IN
  /\ inbox[p] # <<>>
  /\ inbox' = [inbox EXCEPT ![p] = Tail(@)]
  /\ tasks' = [l \in Loops |-> IF l \in Online(post.user) THEN Append(tasks[l], post)
                               ELSE tasks[l]]
  /\ UNCHANGED <<messages, answers, index, up, pipe, delivered>>
  /\ UNCHANGED <<sessionVars, poolVars>>

(* sendTextMessage on its loop: to all the user's connections there, which *)
(* may not be the ones it had when the call was queued.                    *)
SendTextMessage(l) ==
  LET post == Head(tasks[l]) IN
  /\ tasks[l] # <<>>
  /\ tasks' = [tasks EXCEPT ![l] = Tail(@)]
  /\ delivered' = [c \in Conns |->
        IF LoopOf[c] = l /\ user[c] = post.user THEN Append(delivered[c], post)
        ELSE delivered[c]]
  /\ UNCHANGED <<messages, answers, index, up, pipe, inbox>>
  /\ UNCHANGED <<sessionVars, poolVars>>

(* A login; the first one of a user makes the server subscribe.            *)
Login(c, u) ==
  /\ user[c] = Offline
  /\ user' = [user EXCEPT ![c] = u]
  /\ fresh' = IF Online(u) = {} THEN fresh \cup {u} ELSE fresh
  /\ UNCHANGED <<messages, answers, index, up, pipe, inbox, tasks, delivered, due>>
  /\ UNCHANGED poolVars

(* A logout, or the end of the connection: nothing is owed to it any more. *)
Logout(c) ==
  /\ user[c] # Offline
  /\ user' = [user EXCEPT ![c] = Offline]
  /\ fresh' = IF ConnsOf({user[c]}) = {c} THEN fresh \ {user[c]} ELSE fresh
  /\ due' = {d \in due : d[2] # c}
  /\ UNCHANGED <<messages, answers, index, up, pipe, inbox, tasks, delivered>>
  /\ UNCHANGED poolVars

(* Every Redis server has read the SUBSCRIBE of user u.                    *)
SubscriptionSettles(u) ==
  /\ u \in fresh
  /\ fresh' = fresh \ {u}
  /\ UNCHANGED <<user, due, messages, answers, index, up, pipe, inbox, tasks, delivered>>
  /\ UNCHANGED poolVars
-----------------------------------------------------------------------------
Next ==
  \/ \E c \in Senders : \/ \E u \in Users : OnPrivateMessage(c, u)
                        \/ \E g \in Groups : OnGroupMessage(c, g)
  \/ \E c \in Conns : Logout(c) \/ \E u \in LogsInAs[c] : Login(c, u)
  \/ \E u \in Users : SubscriptionSettles(u)
  \/ \E w \in Workers : PoolTakes(w) \/ PoolPublishes(w) \/ PoolAnswers(w)
  \/ \E p \in PubSubs : \/ OnRedisPubSubMessage(p) \/ RedisOutage(p)
                        \/ \E t \in Threads : RedisRelays(t, p)
  \/ \E l \in Loops : SendTextMessage(l)

Spec == Init /\ [][Next]_vars
-----------------------------------------------------------------------------
(***************************************************************************)
(* Properties                                                              *)
(***************************************************************************)

(* No connection is sent a message twice for the same user, however many   *)
(* Redis servers there are, whatever loops and connections the user has,   *)
(* and whoever logs in or out.  (A connection that changes from one member *)
(* of a group to another in between may see a group message as each.)      *)
AtMostOnce ==
  \A c \in Conns : \A i, j \in 1..Len(delivered[c]) :
    i # j => \/ delivered[c][i].msg # delivered[c][j].msg
             \/ delivered[c][i].user # delivered[c][j].user

(* No message is under way.                                                *)
Quiet ==
  /\ jobs = <<>>
  /\ \A w \in Workers : job[w] = 0
  /\ \A p \in PubSubs : inbox[p] = <<>> /\ \A t \in Threads : pipe[t][p] = <<>>
  /\ \A l \in Loops : tasks[l] = <<>>

(* A connection whose user was logged in, and subscribed at Redis, when a  *)
(* message to the user or to a group of the user was sent out, and that    *)
(* has stayed, gets the message, unless the Redis server it was given to   *)
(* is lost.  An outage of one Redis server does not lose the messages sent *)
(* after publish() notices, and every group message is answered.           *)
SessionsGetTheirMessages ==
  Quiet => /\ \A d \in due : \E post \in Range(delivered[d[2]]) : post.msg = d[1]
           /\ \A m \in 1..Len(messages) : answers[m] # "pending"

(* The private messages of one sender that pass through the same Redis     *)
(* server reach each connection in the order they were sent, with group    *)
(* messages, logins and a lost server in between.                          *)
PrivateInOrder ==
  \A c \in Conns : \A i, j \in 1..Len(delivered[c]) :
    LET x == delivered[c][i]
        y == delivered[c][j]
    IN  (/\ i < j
         /\ x.via = y.via
         /\ messages[x.msg].to \in Users /\ messages[y.msg].to \in Users
         /\ messages[x.msg].from = messages[y.msg].from) => x.msg < y.msg
=============================================================================
