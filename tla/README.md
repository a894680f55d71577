# LuminoChat: specifications, checks and proofs

LuminoChat is a chat server and client in C++ on top of muduo (event loops, TCP
connections, thread pool), Redis (accounts, groups, publish/subscribe between
servers) and protobuf. This directory models its core logic in TLA+. TLC checks
the models on small instances; TLAPS proves all of their safety properties, and the
refinements, for every instance. `PROJECT.json` lists, for every definition, the source
lines it stands for.

## 1. The system

A chat server process runs several **event loops**, one thread each. A connection
belongs to one loop for life, and the callbacks of a loop run one after the other.
Besides them there are two threads of a **thread pool** (group messages) and one
**listener thread** per Redis server. Several server processes may share the
Redis servers.

| part | state | operations | shared with |
|---|---|---|---|
| presence (`server.cc`) | `LocalConnections` (per loop), `online_users_` (under `online_users_mutex_`), subscriptions at each Redis | login, logout, connection up/down, register, search | other loops, listener threads, Redis |
| `RedisPubSub` (`pubsub.cc`) | `mtx_`, `stop_`, one subscription connection, one publishing connection per thread | subscribe, unsubscribe, publish, stop, messageListener | its listener thread and all callers |
| groups (`server.cc`) | two families of Redis sets: `group:<g>:users`, `user:<u>:groups` | create, join, leave, query, each a series of Redis commands | other loops, other servers |
| routing (`server.cc`) | round-robin index per thread, pool queue, loop queues | publish, onTextMessage, processGroupMessage, onRedisPubSubMessage, sendTextMessage | all of the above |
| client (`client.cc`) | `username_`, `connection_` | commands, response handlers, reconnect | its main thread and its loop |
| codec and dispatcher (`codec.cc`, `dispatcher.h`) | the input buffer of a connection | onMessage, parse, dispatch, errorCallback | the peer, through TCP |
| word filter (`ACAutomaton.cc`) | trie with fail pointers | insert, build, filter | none |
| broadcast server (`simple_broadcast/server.cc`) | `users_ptr_` (copy-on-write map under `users_mutex_`), `LocalConnections` and a queue per loop, `loops_mutex_` | register, login, search, connection up/down, broadcast | its loops |
| `SSL_Helper`, `ssl_server.cpp`, `ssl_client.cpp` | OpenSSL memory BIOs, `m_Handshaked`, a receive buffer with an offset | handshake, receive, send, callbacks | the peer; OpenSSL's error queue is shared by the connections of a thread |

How they interact: a login changes `LocalConnections`, then takes
`online_users_mutex_` and, for a user's first session, calls
`RedisPubSub::subscribe` on each Redis server with that mutex held. `subscribe`
needs `mtx_`, which the listener holds while it blocks in `redisGetReply`, so it
publishes to an unlock channel the object has itself subscribed to. The listener's
callback takes `online_users_mutex_` shared and queues `sendTextMessage` to the
loops of the user. Group state is only at Redis and is changed command by command.

What is hard here, and hardly reached by a test: logins and logouts of one user on
two loops; commands written to Redis that Redis reads later; taking a lock from a
blocked thread; two locks taken in different orders by two threads; groups of Redis
commands that are not transactions, and crashes between them; a Redis server lost
under way; a connection that breaks between a request and its answer; a TCP stream
cut anywhere; a map written in place while other threads take and drop references
to it; an unsigned length that goes below zero. `PROJECT.json` lists these
as hazards, each at its line, with the properties that would notice.

What makes each part correct:

* presence: the index lists exactly the loops that serve a user, a session is
  subscribed at every Redis server still reached, nobody stays subscribed or online
  by mistake, every handler returns;
* RedisPubSub: the Redis context is used by one thread at a time, messages are
  handed over in order and once, subscribe returns, stop ends the listener;
* groups: the two sets agree as far as commands and crashes allow, the answer
  shows the request's own effect, a request alone is atomic;
* routing: no duplicate, no unexplained loss, order where the code keeps it;
* client: its idea of the session and the server's agree;
* codec: exactly the acceptable frames are dispatched, whatever the segmentation;
* filter: exactly the occurrences of the words are masked;
* broadcast server: a map is never written while a reader has it, the accounts behave
  like an atomic table, all connections hear the texts in one order and without gaps;
* SSL_Helper: nothing is stored outside the receive buffer, the handshake comes to an
  end, a request is answered.

## 2. The modules

| module | models | refines / composes |
|---|---|---|
| `Presence` | `ChatServer`'s login, logout, registration, search and connection callbacks | |
| `PresenceProofs` | proofs about `Presence` | extends `Presence` |
| `RedisPubSub`, `RedisPubSubProofs` | one `RedisPubSub` object with its listener, its callers and Redis | implements `PubSubMailbox` |
| `PubSubMailbox` | what the object promises to its callback: a queue | |
| `ServerLocking` (proofs in `RedisPubSubProofs`) | the server's use of both locks | composes `RedisPubSub` with `online_users_mutex_`, and implements it |
| `GroupStore` | `onGroupRequest`, Redis command by command, on several workers, with crashes | implements `GroupService` (a server with one loop) |
| `GroupService` | a group request as one atomic change | |
| `GroupStoreProofs` | proofs about `GroupStore` | extends `GroupStore` |
| `Routing`, `RoutingProofs` | the way of a message through the server | uses what `Presence` shows of the index |
| `ClientSession` (proofs in `ClientProofs`) | one client and its session at the server | |
| `Codec`, `CodecProofs` | framing, parsing and dispatching on one connection | |
| `ACAutomaton` (proofs in `ClientProofs`) | insert, build and filter | compared with direct definitions |
| `BroadcastServer`, `BroadcastServerProofs` | the server of `simple_broadcast/` | implements `UserTable` |
| `UserTable` | accounts as a table with atomic operations | |
| `SSLHelper`, `SSLHelperProofs` | `SSL_Helper` at both ends, with the two echo programs; OpenSSL external | |
| `MC...` | small instances of the above for TLC | |

Operators whose comment begins "Mutant of" are variants with a plausible mistake.
They are not part of any specification; putting one in the place of its original
makes the property named in `PROJECT.json` fail, which shows that the property
depends on that piece of code.

### State and actions against the code

**Presence.** `local` is `LocalConnections` of each loop, `online` is
`online_users_` (a missing key is the empty set), `mutex` its mutex. A handler runs
until it waits for the mutex or for a write to a Redis socket; `pc`, `who` and
`next` say where. `OnLoginRequest` is the handler up to `addUserToOnlineUsers`;
`AddKnownUser` / `AddFirstUser` / `Subscribe` / `SubscribeDone` are that function,
`Logout`, `RemoveLoop`, `RemoveLastLoop`, `Unsubscribe`, `UnsubscribeDone` are
`logout` and `removeUserFromOnlineUsers`. `pipe[p]` holds commands written and not
yet read by Redis server `p`, `subs[p]` the subscriptions it has made. A call of
`subscribe` or `unsubscribe` at a broken connection writes nothing, and may return
or not: it waits for `mtx_` against a listener that takes it again and again. A refused
registration or login changes nothing and is not an action.

**RedisPubSub.** `lpc` walks through `messageListener`, `cpc[t]` through
`subscribe`/`unsubscribe`. Commands and replies travel in order on the
subscription connection; each publishing thread has a connection of its own, so a
PUBLISH can overtake an earlier SUBSCRIBE. `TryTimeout` is a `try_lock_for` that
gave up; it publishes the unlock message. The sleep of 200 ms after an unlock
message is the state `"sleep"`.

**GroupStore.** Each Redis command is a step; between two of them other workers
(other loops or servers) run, or a server crashes. `loops` gives each server its event
loops, chosen at the start. A crash ends a process, so all of its loops stop at once,
each wherever it is; the history variable `torn` records the memberships that were
between their two SADD commands then. `SerialUsers` says that a user
has one request under way at a time, which the client's one connection gives.

**Routing.** A message is its number; `pipe`, `inbox` and `tasks` are the three
queues it passes (socket to Redis, subscription connection, event loop). Logins and
logouts are atomic here because `Presence` has their details; a first login leaves
its user in `fresh` until Redis has read the SUBSCRIBE. The Redis servers are
independent of each other: a message published at one is seen by the subscribers
of that one. `due` is a history variable: the pairs of message and connection that
nothing but the loss of a Redis server excuses.

**ClientSession.** Two FIFO streams between `username_` and the server's
`LocalConnections`; the connection may break at any time and is made again. The user
types at any time, as `main` lets them. `stale` has the users whose entry still holds a
connection that is closed, since `logout` takes a connection out of one entry only; the history variable `rushed` is true once a
command on the present connection has not waited for the answers to those before it.

**Codec.** A frame is its lengths and whether its checksum, type name and payload are
good; the two lengths are signed, as on the wire. `bounds` says where in the stream of
bytes the frames lie; the network hands over any number of bytes at a time. `onMessage` is a loop
of `LoopDispatches` and its error exits.

**ACAutomaton.** A node is the string on its path. `insert` is one step, and so is every
round of a loop of the other two: in `build` the outer loop (`BuildNode`), the one over
the children in any order (`RootChild`, `StartWalk`) and the inner one along the fail
pointers (`WalkUp` until `WalkFound` or `WalkEnds`); in `filter` the descent along the
fail pointers (`FilterUp`), the character read (`FilterMove`) and the loop over the words
that end there (`MatchUp`). `ptr` is `p` of the one and `temp` of the other. The names of
the module begin with AC where `ClientSession` has the same, so that one module can
extend both.

**BroadcastServer.** `maps` is the heap, `usersPtr` is `users_ptr_`, `held[l]` the
`shared_ptr` a reader on loop `l` has; the reference count of a map is the number of
loops that hold it, plus one for `users_ptr_`. A reader is `GetUsersPtr` (under the
mutex) and `ReadUsers` (without it, any time later); a registration is `RegisterLock`,
which looks at the count, `RegisterCopy` if it is not one, and `RegisterEmplace`. The
model is sequentially consistent: `shared_ptr::unique()` is a relaxed load in the
standard library and does not by itself order a reader's last read before the write.
A text is numbered when its handler gets `loops_mutex_`; `QueueInLoop` is one round of
the loop over `loops_`, `DistributeTextMessage` the functor each loop runs later.

**SSLHelper.** An end is a connection and a side. A unit on the wire is a message of
the handshake or an application record; `OnMessage` hands any number of whole units,
or part of one, to the RECV BIO, the four `Read...` actions are the outcomes of one
round of the loop in `SSLProcessingRecv`, and `Finish` is what follows the loop. `Room`
and `ReadLength` keep the unsigned subtraction and the narrowing to `int`. The server
takes any TLS client, so blocks have any length and a client may send more than one
(`SendMore`); `SSL_read` stores what there is room for and keeps the rest of the record
(`Stores`, `Rest`). The build is the default one, Debug: when there is no room the
assertion ends the process (`AssertFails`), the server with all its connections. The session
tickets of TLS 1.3 carry no data and are left out; they make `onMessage` run once more
with nothing to read, which a part of a record does as well.

## 3. Runs

| run | checks | instance |
|---|---|---|
| `Presence` | `TypeOK`, `IndexMatchesConnections`, `SessionsAreSubscribed`, `NoOrphanSubscription`, `OnlyAccountsOnline`, `HandlersReturn`, `SessionsReachRedis` | 2 loops, 3 connections, one user and the guest, 2 Redis servers, sockets of 2 commands |
| `RedisPubSub` | `TypeOK`, `ContextExclusive`, `DeliveredInOrder`, `ImplementsMailbox` | 2 callers, 2 calls, 2 messages |
| `ServerLocking` | `SubscribeReturns`, `StopEndsListener`, `CallbackReturns` | 2 callers, 2 calls, 1 message |
| `GroupStore` | `TypeOK`, `MembersSeeTheirGroups`, `CrashDamageConfined`, `AnswersShowOwnChange`, `ImplementsGroupService` | 1 or 2 servers, 1 or 2 workers in all, 2 users, 2 groups, 1 crash |
| `GroupDelete` | violates `DelOnlyEmptyGroups` | 1 server, 2 workers, 2 users, 1 group |
| `Routing` | `TypeOK`, `AtMostOnce`, `PrivateInOrder`, `SessionsGetTheirMessages` | 2 loops, 2 users, 2 Redis servers, 2 messages, 1 outage |
| `ClientSession` | `TypeOK`, `ViewsAgree`, `WaitingLeavesNothing` | 3 users, 3 broken connections |
| `ClientTwoLogins` | violates `ClosedConnectionsForgotten` | 2 users, 1 broken connection |
| `Codec` | `TypeOK`, `DispatchesAcceptable`, `OpenIffClean` | 2 frames of all kinds and lengths around each limit |
| `ACAutomaton` | `ACTypeOK`, `FailIsLongestSuffix`, `MasksExactlyTheWords` | 2 letters, up to 3 words of up to 3 letters, texts of up to 5 |
| `BroadcastServer` | `TypeOK`, `WritesUnsharedMap`, `OneOrder`, `ImplementsUserTable`, `EveryoneHears` | 2 loops, 2 connections, 2 users, 2 passwords, 3 requests |
| `SSLHelper` | `TypeOK`, `ReadsInsideBuffer`, `RequestServed` | 2 clients, TLS 1.2 or 1.3 each, a buffer of 2, blocks of 1 and 3, 1 more block, 1 partial record |

**Why the bounds are enough to be interesting.** Every race in `Presence` is between
two handlers of one user on two loops, and the third connection makes the
difference between "last connection of the loop" and "last loop"; a socket of two
commands fills up when Redis lags behind two handlers, and a second Redis server shows a handler
half way through its loop. What the run shows for this instance is proved for all.
In `RedisPubSub` two callers compete for the lock with each other and the listener;
`MaxUnlocks = 1` bounds unlock messages in flight, of which one suffices to wake
the listener and later ones only repeat it. In `Routing` two messages and two
servers include a second message that takes the same server because the other one
is gone, group fan-out that advances the worker's index, and a connection that
changes its user while messages are queued; one worker and one loop publish at the
same time. In `Codec` the length limit is scaled down to 14 bytes with frames just
below, at and above each threshold. In `ACAutomaton` two letters and length three
are enough for words that are prefixes, infixes and suffixes of one another. In
`BroadcastServer` three requests on two loops include a reader that keeps an old map
while the other loop copies it and then writes the copy in place, and two texts that
are broadcast at the same time. In `GroupStore` both workers may be
loops of one server, so that one crash cuts two requests. In `SSLHelper` the integers are
scaled down (a buffer of 2, `int` of 3 bits, `size_t` of 4) so that the buffer is smaller than the largest `int`
and the difference wraps, as with 10240, 2^32 and 2^64; the second client is there for
the error queue the connections of the server share. A block of 3 is longer than the
buffer, and one of 1 leaves a byte free.

**GroupService.** `ImplementsGroupService` is stated for behaviours in which the server
has one loop and has not crashed. With several loops no such service is implemented:
CREATE and JOIN act on an EXISTS that may be out of date, and a LEAVE may delete
members who have joined meanwhile (`GroupDelete`). What is left then is what the
invariants of the same run say.

**Deadlock.** Runs with `CHECK_DEADLOCK FALSE` have a bound on calls, messages,
connections or frames, after which nothing is left to do; a wait that never ends is
found by the liveness properties instead.

**Fairness.** `Presence!Fairness`, `RedisPubSub!Fairness` and `LFairness` assume that
threads run, that Redis reads its sockets, and that a mutex which is free again and
again is granted in the end. Nothing is assumed of clients, and connections need
not break. In `RedisPubSub` a caller is **not** assumed to win `mtx_` in the instant
between two iterations of the listener, which takes it again at once; it is
assumed to get it if the listener goes to its 200 ms sleep again and again, since
`try_lock_for(200ms)` is then waiting on a free lock. This is the guarantee the code's
lock stealing is built on. `SubscribeReturns` excuses callers whose
Redis connection has broken: nothing then wakes or ends the busy loop fairly. For the
same reason `Presence!Fairness` promises nothing to a handler in such a call
(`AtBroken`), and since that handler has `online_users_mutex_`, neither `HandlersReturn`
nor `SessionsReachRedis` speaks of a server in which one is there (`Stuck`). In
`ServerLocking` a caller inside `subscribe` is a login that holds
`online_users_mutex_`, so the property also says that the mutex is released.
`BroadcastServer!FairSpec` and `SSLHelper!FairSpec` assume only that loops run (weak
fairness of each loop, or of each end of a connection): with a bounded number of
requests a mutex is free for good in the end. With an endless stream of them a waiting
loop would also need a mutex that does not starve it.

### What the violations show

* `GroupDelete`: between SCARD = 0 and DEL another user can join; the DEL then
  removes the new member. The comment at `server.cc:545` says that the group is
  deleted if it has no members.
* `ClientTwoLogins`: the client sends the logout that the comment at `client.cc:284`
  speaks of only if `username_` is set, and that happens when the answer to a login
  comes. `main` does not wait for answers, so a second login typed before the first
  answer leaves two users on the connection, and the connection in two entries of
  `LocalConnections`. When it closes, `logout` removes it from the first entry it finds and
  stops, though the comment at `server.cc:378` describes the removal without that limit:
  the other user stays online. `WaitingLeavesNothing` says that this needs such a
  hurry.

Seen while modelling, and not given runs of their own: two concurrent CREATE requests
of one group both succeed (EXISTS and SADD are two commands); a message published
after `subscribe` returned can reach Redis before the SUBSCRIBE and is lost;
`username_` survives a reconnect, so the client sends group requests in the name of a
session that is gone. In `simple_broadcast` a login of an unknown
user with the empty password succeeds, since `storedPassword` is empty then; `UserTable`
says so. `SSL_Helper` closes a connection right after the first block it hands over,
because the next length it passes to `SSL_read` is negative. A request that arrives
together with the client's last message of the handshake, as TLS 1.3 allows, is read
and not handed over, and the client waits. If it is as long as the buffer (10240 bytes)
there is no room for the next round of the loop either, and the assertion at
`SSL_Helper.cpp:224` ends the server; `ReadsInsideBuffer` says that this is the only way
in which that assertion can fail. An error that ends one connection of the
server stays in OpenSSL's error queue and can end another one that is waiting for the
rest of a record. `RequestServed` names these two, and the server that the assertion has
ended, as its only exceptions.

## 4. Proofs

Each proof module assumes only the named assumption of its model (`PresenceAssumption`,
`GroupStoreAssumption`, ...: the shape of the constants), and its theorems hold for any
number of loops, connections, users, Redis servers, workers, groups, messages, frames, words,
requests and crashes. The proofs have one shape: an inductive invariant `IInv`, a lemma
that every action keeps each of its parts, and the stated properties as consequences.
The invariants of `Routing`, `ClientSession`, `ACAutomaton`, `Codec` and `SSLHelper`, and those
of the two locks, were also checked by
TLC, on the instances of their runs, before they were proved.

**PresenceProofs** proves `TypeCorrect`, `IndexCorrect`, `SubscriptionCorrect`,
`UnsubscriptionCorrect` and `OnlineCorrect`. `IInv`:

* `TypeOK`;
* `LockInv`: a loop that is inside subscribe or unsubscribe holds the mutex, and
  nobody else does;
* `HandlerInv`: what a handler under way has done so far (a loop about to add has
  the connection in `local`, one about to remove has none left, and so on);
* `IndexInv`: for every user that a loop's handler is not working on, index and
  `local` agree. The stated property speaks of idle loops only and is not inductive,
  because a handler that finishes must re-establish it;
* `AccountInv`: whoever is in `local` has an account with a password;
* `RedisInv`: for each Redis server still reached, a user is (or will be, once Redis
  has read its socket) subscribed exactly if it is in the index, except for the user
  the mutex holder works on, for whom it depends on `next`, the servers written to
  so far. This is what makes "no logout cancels a login" an invariant.

Lemmas about `Settled` (what appending a command to a socket, or Redis reading one,
does to the outcome) carry the last part.

**RedisPubSubProofs** proves `PubSubTypes`, `ConnectionExclusive` and `CallbackInOrder`.
Order is a property of the whole way: a message is with its publisher's connection, in
our inbox, in the hands of the listener, or delivered. `OrderInv` says that within each
place the messages of a publisher are sorted (`SortedInside`), that those further on
are older (`SortedAcross`), and that all are numbered no higher than `sent`.

`MailboxRefinement` is the refinement of `PubSubMailbox`. The queue of the mailbox is the
chat message in the listener's hands, if any, and the chat messages of the inbox,
`ChatsOf(inbox)`, the n-th of which is the one of rank n. Three lemmas say what happens to
them when a reply arrives (`ChatsAppend`), is taken (`ChatsTail`), or the inbox is cut off
(`ChatsCut`); they rest on facts about counting, and on the least element of a set of
numbers (`MinNat`) where an induction is needed. `OpenInv` adds that Redis sends nothing
on a broken connection.

`LockingRefinement` says that `ServerLocking` implements `RedisPubSub` (every step of it
is one of the object's, or leaves the object alone), which carries the invariant over to
the server. `LocksInOrder` adds what is true of the two locks together: `MutexHeld`, the
mutex is held by exactly the one login or logout inside `subscribe` or `unsubscribe`, and
`NoCircularWait`, a listener that wants the mutex does not have `mtx_`, and the `mtx_` a
holder of the mutex waits for is free, or with a listener that does not want the mutex,
or with a caller without it that is about to release `mtx_`.

**GroupStoreProofs** proves `GroupTypes`, `MembershipVisible`, `AnswersTruthful` and
`DamageConfined` from `TypeOK`, `ServesRequest` (what a worker knows about its request at
each command), `SerialInv` (with one request per user, the sets touched by a worker
between its two commands are exactly those of its user, so `user:<u>:groups` is changed
by nobody else) and `DamageInv`: a user who is in a group without seeing it is between
the two SADD commands for it, or in `torn`. A crash moves the pairs of all the loops it
ends from the one to the other, and no other step adds a pair; `torn` is empty until
the first crash, which gives `MembershipVisible`.
`DelOnlyEmptyGroups` is not an invariant, and nothing rests on it.

`ServiceRefinement` is the refinement: every step of the only worker is a step of
`GroupService` or a stutter. The first SADD or SREM of a pair is the atomic change. The
mapping takes the outcome from that command's answer (`first`) until the second has
answered; `Solo` is the invariant that the two sets agree but for the pair under way,
so that the second command must answer as the first did, and that EXISTS and SCARD = 0
are still true when they are acted upon. With a second worker `Solo` is false.

**RoutingProofs** proves `RoutingTypes`, `WrittenAtMostOnce`, `WrittenInOrder` and
`NothingForgotten`. `IInv`: a group message is queued for the pool once, or with one
worker, or answered (`JobInv`, `AnswerInv`); of two posts in the queues from the socket
to the connection the one that is ahead is never the same and, for private messages of a
sender through one Redis server, the older (`OrderInv`, over all pairs of queues);
a private message comes from the loop of its connection (`PlaceInv`); what has been
posted is not still to be published (`PostedInv`); and every pair in `due` is on its way
(`DueInv`): with a worker, in a socket, an inbox or a loop's queue, or delivered. When
the queues are empty only "delivered" is left. The steps that can break `DueInv` are the
ones where something is dropped: each drops only posts of a server that is lost, or of
users who have left, whose claims go at the same time.

**ClientProofs**, on `ClientSession`, proves `ClientTypes`, `TwoViewsMeet` and
`NothingLeftBehind`. `SessionInv`
names the four situations of a connection whose commands have waited (`~rushed`): no login
or logout under way, a logout (maybe with a login behind it)
on its way, a login on its way, the answer to a login on its way; each fixes what the
server may have in `sessions`. `ViewsAgree` is the first with empty streams; in all four
one user at most is on the connection, which is `WaitingLeavesNothing`. Of a connection whose
commands have not waited only the types are left.

**ClientProofs**, on `ACAutomaton`, proves `FilterTypes`, `FailPointers` and `FilterMasks`
for every alphabet, every set of words and every text. Suffixes are handled by index:
`Ends(v, s, k)` says that `v` is a suffix of the first `k` characters of `s`, and a dozen
lemmas compare, extend and shorten such suffixes (`SuffixEnds` ties them to the suffix
relation of the properties). The invariant `ACInv`:

* `ACTypeOK`, `TrieInv` (the trie holds every path to a word) and `PhaseInv`;
* `FailInv`: a fail pointer, once set, is the longest proper suffix in the trie;
* `QueueInv`: the search is breadth first. The queue is sorted by depth and spans two
  depths at most, and whatever has not been reached hangs below it. So every node no
  deeper than the present one has its fail pointer (lemma `SeenAbove`, by a least
  counterexample, `TrieInduction`). This is why the inner loop of `build` may rely on the
  fail pointers it follows, and why no node is left without one;
* `WalkInv`: the inner loop has passed no suffix that has a child for the character;
* `NodeInv`: `filter` is at a suffix of what it has read, and has passed only those that
  the next character does not extend; after a character it is at the longest;
* `MatchInv`: what has been collected are occurrences, and all of them but those that
  end here and are no longer than `temp`;
* `MasksExactlyTheWords` itself.

**CodecProofs** proves `CodecTypes`, `DispatchCorrect` and `OpenExactlyIfClean` for any
lengths and any segmentation. `BoundsInv`: the frames lie behind each other;
`PositionInv`: what has been retrieved ends where the last dispatched frame ends, so a
length field is never read inside a frame, and what has been dispatched is an initial
part of the stream, all of it good; `StoppedInv`: when `onMessage` has returned, the next
frame is bad or not complete; `FailedInv`: an error has been reported exactly if that frame
is complete and bad; `OpenInv`: the connection is open exactly if there was no error and
every dispatched frame was of a registered type.

**BroadcastServerProofs** proves `BroadcastTypes`, `CopyOnWrite`, `TextsInOneOrder` and the
refinement `AccountsAreATable`. `AccountInv` ties mutex, references and program counters
together; a map found unshared stays unshared, since a reader takes its reference under
the mutex the writer has. That a free address exists for a copy (lemma `FreeAddress`) is
a pigeonhole over the finite set of loops: each keeps one map alive at most and the
writer none. `OrderInv`: a loop's queue is the end of the one sequence of texts up to the
last it was given, and what a connection has heard joins it without a gap. For the
refinement the registration takes effect at `RegisterEmplace`, a login or search when it
takes its reference.

**SSLHelperProofs** proves `HelperTypes` and `StaysInBuffer`, for any buffer the `int` can
count twice over (10240 in the code) and any number of clients. The arithmetic is two
lemmas (`Remainder`, `RoomValues`): what the unsigned difference and the narrowing yield.
Nothing is assumed of the lengths or the number of the blocks. `BufferInv`: the buffer
is cleared only after something was read, so the length is negative from then on; and
a buffer that is full to the last byte belongs to a handler in the loop, before
`m_Handshaked` is set. That `SSL_read` finds records only, once the handshake is over,
rests on the handshake: at most one message of it is on its way to an end, in the three
queues together (`Way`), and then the peer is exactly one ahead (`HandshakeInv`).

**Only model-checked:**

* everything under fairness (`HandlersReturn`, `SessionsReachRedis`, `SubscribeReturns`,
  `StopEndsListener`, `CallbackReturns`, `EveryoneHears`, `RequestServed`): liveness is out
  of the prover's reach. For the two locks the absence of a circular wait is proved, but
  not that every wait ends.

## 5. Not modelled

* The client of `simple_broadcast/`: it keeps its connection and the name given in the
  last login command, which it copies into texts and the server never looks at.
  `ClientSession` models the client that has grown from it. Its codec and dispatcher
  are copies of the ones `Codec` models.
* In `SSL_Helper`: contexts and certificate, a TCP connection that breaks by itself
  (the helper does nothing then but be deleted), and
  `SSLProcessingRecvAndGetDecryptedData`, which nobody calls. The Release build, in which
  the assertion is gone and `SSL_read` gets a length of 0, is not modelled.
* In `Routing`: a payload that does not parse (`server.cc:225`), which our own servers do
  not publish, and the cut of a payload at a NUL byte by `c_str()` (`pubsub.cc:119`, `177`).
* In `BroadcastServer`: a text for a connection that `shutdown()` has closed for writing,
  which muduo drops; the model counts it as heard. The keyword of a search, here and in
  `Presence`, only narrows the answer.
* In `ACAutomaton`: words and texts that contain `*`, the mask character, for which "masked"
  and "was a star" cannot be told apart.
* A Redis command of the request/response connections that fails: the code
  dereferences a NULL reply and the process ends. An unreachable Redis at start
  ends it too.
* Redis replicating messages between servers (cluster): the servers are configured
  as independent addresses and the code treats them so.
* Serialization inside protobuf, UTF-8 conversion inside the standard library,
  logging, printing, command-line parsing, the load tests.

## 6. Plan

Done, in this order: `Presence` and its proofs (who is online is what everything else
depends on), `RedisPubSub` and its mailbox, the composition of the locks, `GroupStore`
with its abstract service and proofs, `Routing`, `ClientSession`, `Codec`, `ACAutomaton`,
`BroadcastServer` with its abstract table, `SSLHelper`; then the proofs of the remaining
safety properties and of the refinements, `ACAutomaton` last.

What remains: liveness, which only TLC checks, and the parts of section 5.
