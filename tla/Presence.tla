------------------------------ MODULE Presence ------------------------------
(***************************************************************************)
(* Who is online on one chat server (server.cc).                           *)
(*                                                                         *)
(* Every TCP connection belongs to one event loop and every loop is one    *)
(* thread, so the handlers of a loop run one at a time.  A login touches   *)
(* three pieces of state that other threads read: the thread-local         *)
(* LocalConnections of the loop, the shared index online_users_ (under     *)
(* online_users_mutex_), and the subscriptions the server holds at each    *)
(* Redis server, which change only when Redis has read the SUBSCRIBE or    *)
(* UNSUBSCRIBE from the connection's socket.  A logout takes them apart in *)
(* the opposite order.  The module keeps the points at which a handler can *)
(* be overtaken: waiting for the mutex, and each blocking write to Redis.  *)
(***************************************************************************)
EXTENDS Naturals, Sequences

CONSTANTS
  Loops,          \* event loops (I/O threads) of the server
  Conns,          \* TCP connections
  LoopOf,         \* conn->getLoop(): fixed when the connection is accepted
  Users,          \* user names, Guest among them
  Guest,          \* the reserved name "guest"
  Passwords,      \* passwords, EmptyPassword among them
  EmptyPassword,  \* the empty string
  NoAccount,      \* HGET users <name> answers nil
  Nobody,         \* online_users_mutex_ is not held
  NumPubSubs,     \* redis_pubsubs_.size()
  PipeCapacity    \* commands a Redis socket holds before a write blocks

PubSubs == 1..NumPubSubs

ASSUME PresenceAssumption ==
  /\ LoopOf \in [Conns -> Loops]
  /\ Guest \in Users
  /\ EmptyPassword \in Passwords
  /\ NoAccount \notin Passwords
  /\ Nobody \notin Loops
  /\ NumPubSubs \in Nat \ {0}      \* main() wants at least one Redis server
  /\ PipeCapacity \in Nat \ {0}

VARIABLES
  accounts,   \* the Redis hash "users": name -> password
  connState,  \* "new" before the accept, then "up", then "down"
  local,      \* LocalConnections of each loop: name -> connections
  online,     \* online_users_: name -> loops; no key is the empty set
  mutex,      \* the loop whose thread holds online_users_mutex_ exclusively
  pc,         \* where the handler of each loop's thread stands
  who,        \* the username that handler is working on
  next,       \* the next element of redis_pubsubs_ it will write to
  pipe,       \* per Redis server: commands written and not yet read by it
  subs,       \* per Redis server: users whose channel it has us subscribed to
  alive       \* per Redis server: is the subscription connection intact

accountVars == <<accounts, connState>>
threadVars  == <<mutex, pc, who, next>>
redisVars   == <<pipe, subs, alive>>
vars == <<accounts, connState, local, online, mutex, pc, who, next,
          pipe, subs, alive>>

PcValues == {"idle", "add", "subscribe", "remove", "unsubscribe"}
Commands == [op : {"SUBSCRIBE", "UNSUBSCRIBE"}, user : Users]

(* Every variable has its type, and no socket is written to beyond its     *)
(* capacity (the wait for redisBufferWrite to finish).                     *)
TypeOK ==
  /\ accounts \in [Users -> Passwords \cup {NoAccount}]
  /\ connState \in [Conns -> {"new", "up", "down"}]
  /\ local \in [Loops -> [Users -> SUBSET Conns]]
  /\ online \in [Users -> SUBSET Loops]
  /\ mutex \in Loops \cup {Nobody}
  /\ pc \in [Loops -> PcValues]
  /\ who \in [Loops -> Users]
  /\ next \in [Loops -> 1..(NumPubSubs + 1)]
  /\ pipe \in [PubSubs -> Seq(Commands)]
  /\ \A p \in PubSubs : Len(pipe[p]) <= PipeCapacity
  /\ subs \in [PubSubs -> SUBSET Users]
  /\ alive \in [PubSubs -> BOOLEAN]

(* Redis keeps accounts across restarts of the server; the model starts    *)
(* with an empty Redis and lets clients register.                          *)
Init ==
  /\ accounts = [u \in Users |-> NoAccount]
  /\ connState = [c \in Conns |-> "new"]
  /\ local = [l \in Loops |-> [u \in Users |-> {}]]
  /\ online = [u \in Users |-> {}]
  /\ mutex = Nobody
  /\ pc = [l \in Loops |-> "idle"]
  /\ who = [l \in Loops |-> Guest]
  /\ next = [l \in Loops |-> 1]
  /\ pipe = [p \in PubSubs |-> <<>>]
  /\ subs = [p \in PubSubs |-> {}]
  /\ alive = [p \in PubSubs |-> TRUE]
-----------------------------------------------------------------------------
(***************************************************************************)
(* Connections and accounts.                                               *)
(***************************************************************************)

(* A callback for c can start: c's loop is between two callbacks.          *)
Ready(c) == connState[c] = "up" /\ pc[LoopOf[c]] = "idle"

(* onConnection for an accepted connection: nothing but the state changes. *)
ConnectionUp(c) ==
  /\ connState[c] = "new"
  /\ pc[LoopOf[c]] = "idle"
  /\ connState' = [connState EXCEPT ![c] = "up"]
  /\ UNCHANGED <<accounts, local, online>> /\ UNCHANGED <<threadVars, redisVars>>

(* Mutant of OnRegisterRequest: the reserved name can be registered.       *)
RegisterAnyName(c, u, pw) ==
  /\ Ready(c)
  /\ accounts[u] = NoAccount
  /\ accounts' = [accounts EXCEPT ![u] = pw]
  /\ UNCHANGED <<connState, local, online>> /\ UNCHANGED <<threadVars, redisVars>>

(* onRegisterRequest: HSETNX adds the name only if it is not there yet; a  *)
(* refused registration changes nothing.                                   *)
OnRegisterRequest(c, u, pw) ==
  /\ Ready(c)
  /\ u # Guest
  /\ accounts[u] = NoAccount
  /\ accounts' = [accounts EXCEPT ![u] = pw]
  /\ UNCHANGED <<connState, local, online>> /\ UNCHANGED <<threadVars, redisVars>>

(* The password test of onLoginRequest; no account reads as "".            *)
Authenticates(u, pw) ==
  /\ accounts[u] \notin {NoAccount, EmptyPassword}
  /\ accounts[u] = pw

(* onLoginRequest up to the call of addUserToOnlineUsers.  A refused login *)
(* changes nothing.  Nothing stops a connection from logging in twice.     *)
OnLoginRequest(c, u, pw) ==
  /\ Ready(c)
  /\ Authenticates(u, pw)
  /\ local' = [local EXCEPT ![LoopOf[c]][u] = @ \cup {c}]
  /\ pc' = [pc EXCEPT ![LoopOf[c]] = "add"]
  /\ who' = [who EXCEPT ![LoopOf[c]] = u]
  /\ UNCHANGED <<accountVars, online, mutex, next>> /\ UNCHANGED redisVars

(* The users c is logged in as, on its loop.                               *)
UsersOf(c) == {u \in Users : c \in local[LoopOf[c]][u]}

(* Mutant of Logout: the user is taken off the index although other        *)
(* connections of the loop still serve it.                                 *)
LogoutAlwaysRemoves(c) ==
  LET l == LoopOf[c] IN
  \/ /\ UsersOf(c) = {}
     /\ UNCHANGED <<local, pc, who>>
  \/ \E u \in UsersOf(c) :
       /\ local' = [local EXCEPT ![l][u] = @ \ {c}]
       /\ pc' = [pc EXCEPT ![l] = "remove"]
       /\ who' = [who EXCEPT ![l] = u]

(* logout(conn): the first entry of the hash map that holds conn loses it, *)
(* in whatever order the map is iterated, and the loop breaks.  An entry   *)
(* left empty is erased and removeUserFromOnlineUsers is called.           *)
Logout(c) ==
  LET l == LoopOf[c] IN
  \/ /\ UsersOf(c) = {}
     /\ UNCHANGED <<local, pc, who>>
  \/ \E u \in UsersOf(c) :
       /\ local' = [local EXCEPT ![l][u] = @ \ {c}]
       /\ IF local[l][u] = {c}
          THEN /\ pc' = [pc EXCEPT ![l] = "remove"]
               /\ who' = [who EXCEPT ![l] = u]
          ELSE UNCHANGED <<pc, who>>

(* onLogoutRequest: the username in the request is not looked at.          *)
OnLogoutRequest(c) ==
  /\ Ready(c)
  /\ Logout(c)
  /\ UNCHANGED <<accountVars, online, mutex, next>> /\ UNCHANGED redisVars

(* onConnection for a closed connection.                                   *)
ConnectionDown(c) ==
  /\ Ready(c)
  /\ connState' = [connState EXCEPT ![c] = "down"]
  /\ Logout(c)
  /\ UNCHANGED <<accounts, online, mutex, next>> /\ UNCHANGED redisVars
-----------------------------------------------------------------------------
(***************************************************************************)
(* addUserToOnlineUsers, removeUserFromOnlineUsers, subscribe, unsubscribe *)
(***************************************************************************)

(* The user is online through some loop already: one critical section.     *)
AddKnownUser(l) ==
  /\ pc[l] = "add"
  /\ mutex = Nobody
  /\ online[who[l]] # {}
  /\ online' = [online EXCEPT ![who[l]] = @ \cup {l}]
  /\ pc' = [pc EXCEPT ![l] = "idle"]
  /\ UNCHANGED <<accountVars, local, mutex, who, next>> /\ UNCHANGED redisVars

(* First login on this server: subscribe, with the mutex held.             *)
AddFirstUser(l) ==
  /\ pc[l] = "add"
  /\ mutex = Nobody
  /\ online[who[l]] = {}
  /\ mutex' = l
  /\ pc' = [pc EXCEPT ![l] = "subscribe"]
  /\ next' = [next EXCEPT ![l] = 1]
  /\ UNCHANGED <<accountVars, local, online, who>> /\ UNCHANGED redisVars

(* Mutant of WriteCommand: no wait for room in the socket.                 *)
WriteWithoutWaiting(l, op) ==
  LET p == next[l] IN
  /\ p \in PubSubs
  /\ pipe' = IF alive[p]
             THEN [pipe EXCEPT ![p] = Append(@, [op |-> op, user |-> who[l]])]
             ELSE pipe
  /\ next' = [next EXCEPT ![l] = p + 1]
  /\ UNCHANGED <<accountVars, local, online, mutex, pc, who, subs, alive>>

(* RedisPubSub::subscribe or unsubscribe on one Redis server.  The write   *)
(* blocks while the socket is full.  On a broken connection it first has   *)
(* to win mtx_ from the listener, whose loop takes it again and again to   *)
(* read errors, and then fails; ChatServer::subscribe drops the result.    *)
(* Nothing says that it wins (see Fairness): the call may never return.    *)
WriteCommand(l, op) ==
  LET p == next[l] IN
  /\ p \in PubSubs
  /\ alive[p] => Len(pipe[p]) < PipeCapacity
  /\ pipe' = IF alive[p]
             THEN [pipe EXCEPT ![p] = Append(@, [op |-> op, user |-> who[l]])]
             ELSE pipe
  /\ next' = [next EXCEPT ![l] = p + 1]
  /\ UNCHANGED <<accountVars, local, online, mutex, pc, who, subs, alive>>

Subscribe(l) == pc[l] = "subscribe" /\ WriteCommand(l, "SUBSCRIBE")

(* online_users_[username].insert(loop), and the lock guard's release.     *)
SubscribeDone(l) ==
  /\ pc[l] = "subscribe"
  /\ next[l] = NumPubSubs + 1
  /\ online' = [online EXCEPT ![who[l]] = @ \cup {l}]
  /\ mutex' = Nobody
  /\ pc' = [pc EXCEPT ![l] = "idle"]
  /\ UNCHANGED <<accountVars, local, who, next>> /\ UNCHANGED redisVars

(* Other loops still serve the user: one critical section.                 *)
RemoveLoop(l) ==
  /\ pc[l] = "remove"
  /\ mutex = Nobody
  /\ online[who[l]] \ {l} # {}
  /\ online' = [online EXCEPT ![who[l]] = @ \ {l}]
  /\ pc' = [pc EXCEPT ![l] = "idle"]
  /\ UNCHANGED <<accountVars, local, mutex, who, next>> /\ UNCHANGED redisVars

(* Mutant of RemoveLastLoop: the mutex is released before the unsubscribe, *)
(* as in the commented-out threadPool_.run.                                *)
RemoveLastLoopUnlocked(l) ==
  /\ pc[l] = "remove"
  /\ mutex = Nobody
  /\ online[who[l]] \ {l} = {}
  /\ online' = [online EXCEPT ![who[l]] = {}]
  /\ pc' = [pc EXCEPT ![l] = "unsubscribe"]
  /\ next' = [next EXCEPT ![l] = 1]
  /\ UNCHANGED <<accountVars, local, who, mutex>> /\ UNCHANGED redisVars

(* Mutant of RemoveLastLoop: the channel is left subscribed.               *)
RemoveLastLoopKeepsChannel(l) ==
  /\ pc[l] = "remove"
  /\ mutex = Nobody
  /\ online[who[l]] \ {l} = {}
  /\ online' = [online EXCEPT ![who[l]] = {}]
  /\ pc' = [pc EXCEPT ![l] = "idle"]
  /\ UNCHANGED <<accountVars, local, mutex, who, next>> /\ UNCHANGED redisVars

(* The last loop leaves: the entry is erased, then unsubscribe, with the   *)
(* mutex held throughout.                                                  *)
RemoveLastLoop(l) ==
  /\ pc[l] = "remove"
  /\ mutex = Nobody
  /\ online[who[l]] \ {l} = {}
  /\ online' = [online EXCEPT ![who[l]] = {}]
  /\ mutex' = l
  /\ pc' = [pc EXCEPT ![l] = "unsubscribe"]
  /\ next' = [next EXCEPT ![l] = 1]
  /\ UNCHANGED <<accountVars, local, who>> /\ UNCHANGED redisVars

Unsubscribe(l) == pc[l] = "unsubscribe" /\ WriteCommand(l, "UNSUBSCRIBE")

(* Mutant of UnsubscribeDone: the mutex is not released.                   *)
UnsubscribeKeepsMutex(l) ==
  /\ pc[l] = "unsubscribe"
  /\ next[l] = NumPubSubs + 1
  /\ pc' = [pc EXCEPT ![l] = "idle"]
  /\ UNCHANGED <<accountVars, local, online, mutex, who, next>> /\ UNCHANGED redisVars

(* unsubscribe has written to every Redis server: release the mutex.       *)
UnsubscribeDone(l) ==
  /\ pc[l] = "unsubscribe"
  /\ next[l] = NumPubSubs + 1
  /\ mutex' = Nobody
  /\ pc' = [pc EXCEPT ![l] = "idle"]
  /\ UNCHANGED <<accountVars, local, online, who, next>> /\ UNCHANGED redisVars
-----------------------------------------------------------------------------
(***************************************************************************)
(* Redis, as far as one subscription connection can tell.                  *)
(***************************************************************************)

(* Redis reads one command from the connection and obeys it.               *)
RedisExecutes(p) ==
  /\ pipe[p] # <<>>
  /\ subs' = [subs EXCEPT ![p] =
                IF Head(pipe[p]).op = "SUBSCRIBE"
                THEN @ \cup {Head(pipe[p]).user}
                ELSE @ \ {Head(pipe[p]).user}]
  /\ pipe' = [pipe EXCEPT ![p] = Tail(@)]
  /\ UNCHANGED <<accountVars, local, online, alive>> /\ UNCHANGED threadVars

(* The connection breaks.  Redis forgets its subscriptions, and nothing in *)
(* pubsub.cc ever reconnects.                                              *)
RedisConnectionLost(p) ==
  /\ alive[p]
  /\ alive' = [alive EXCEPT ![p] = FALSE]
  /\ pipe' = [pipe EXCEPT ![p] = <<>>]
  /\ subs' = [subs EXCEPT ![p] = {}]
  /\ UNCHANGED <<accountVars, local, online>> /\ UNCHANGED threadVars
-----------------------------------------------------------------------------
(* onSearchRequest answers from online_users_ (online_only) or from the    *)
(* accounts at Redis; the keyword only narrows the answer down.            *)
SearchOnline == {u \in Users : online[u] # {}}
SearchAll    == {u \in Users : accounts[u] # NoAccount}

Callback(c) ==
  \/ ConnectionUp(c)
  \/ \E u \in Users, pw \in Passwords :
       OnRegisterRequest(c, u, pw) \/ OnLoginRequest(c, u, pw)
  \/ OnLogoutRequest(c)
  \/ ConnectionDown(c)

LockMutex(l) == AddKnownUser(l) \/ AddFirstUser(l) \/ RemoveLoop(l) \/ RemoveLastLoop(l)

Unblocked(l) == Subscribe(l) \/ SubscribeDone(l) \/ Unsubscribe(l) \/ UnsubscribeDone(l)

Next ==
  \/ \E c \in Conns : Callback(c)
  \/ \E l \in Loops : LockMutex(l) \/ Unblocked(l)
  \/ \E p \in PubSubs : RedisExecutes(p) \/ RedisConnectionLost(p)

Spec == Init /\ [][Next]_vars

(* The handler of l calls subscribe or unsubscribe of a RedisPubSub whose  *)
(* connection is broken.                                                   *)
AtBroken(l) ==
  /\ pc[l] \in {"subscribe", "unsubscribe"}
  /\ next[l] \in PubSubs /\ ~alive[next[l]]

(* Threads run, Redis serves its connections, and a thread waiting for     *)
(* online_users_mutex_ is not overtaken for ever.  A call on a broken      *)
(* connection is promised nothing.  Clients owe nothing.                   *)
Fairness ==
  /\ \A l \in Loops : SF_vars(LockMutex(l)) /\ WF_vars(~AtBroken(l) /\ Unblocked(l))
  /\ \A p \in PubSubs : WF_vars(RedisExecutes(p))

FairSpec == Spec /\ Fairness
-----------------------------------------------------------------------------
(***************************************************************************)
(* Properties                                                              *)
(***************************************************************************)

(* Is user u subscribed once Redis, now subscribed to S, has read all of   *)
(* the commands q?                                                         *)
Settled(q, S, u) ==
  \/ /\ u \in S
     /\ \A i \in 1..Len(q) : q[i].user # u
  \/ \E i \in 1..Len(q) :
       /\ q[i] = [op |-> "SUBSCRIBE", user |-> u]
       /\ \A j \in 1..Len(q) : j > i => q[j].user # u

Subscribed(p, u) == Settled(pipe[p], subs[p], u)

(* A loop that is between two callbacks is listed for a user in            *)
(* online_users_ exactly if it holds a connection of that user, whatever   *)
(* logins and logouts the other loops are in the middle of.  A message is  *)
(* queued to the listed loops only (onRedisPubSubMessage), and search-     *)
(* online answers with the listed users.                                   *)
IndexMatchesConnections ==
  \A l \in Loops, u \in Users :
    pc[l] = "idle" => (l \in online[u] <=> local[l][u] # {})

(* Once the handler of a login has returned (its LoginResponse is sent),   *)
(* and until the user's last connection on the loop has gone, the server   *)
(* is subscribed to the user's channel at every Redis server it can still  *)
(* reach, or will be when Redis has read what was written: no logout of    *)
(* the same user on another loop, running at the same time, can cancel it. *)
SessionsAreSubscribed ==
  \A l \in Loops, u \in Users, p \in PubSubs :
    (pc[l] = "idle" /\ local[l][u] # {} /\ alive[p]) => Subscribed(p, u)

(* When nobody holds the mutex, a subscription that Redis holds or will    *)
(* hold belongs to a user in online_users_: removing the last loop never   *)
(* leaves the channel behind.                                              *)
NoOrphanSubscription ==
  \A u \in Users, p \in PubSubs :
    (mutex = Nobody /\ Subscribed(p, u)) => online[u] # {}

(* search-online only ever shows users that search shows: nobody is online *)
(* without an account, the reserved name is never online, and neither is a *)
(* user registered with an empty password, which onLoginRequest refuses.   *)
OnlyAccountsOnline ==
  /\ SearchOnline \subseteq SearchAll \ {Guest}
  /\ \A u \in SearchOnline : accounts[u] # EmptyPassword

(* Some handler, which holds online_users_mutex_, is in a call on a broken *)
(* connection.                                                             *)
Stuck == \E l \in Loops : AtBroken(l)

(* Every login and logout handler returns, though it waits for the mutex   *)
(* while another loop writes to all Redis servers under it, unless it or   *)
(* the loop it waits for is held up at a broken connection.                *)
HandlersReturn ==
  \A l \in Loops : pc[l] # "idle" ~> (pc[l] = "idle" \/ Stuck)

(* A logged-in user's channel is subscribed at Redis in the end, unless    *)
(* the user leaves the loop, the connection to that Redis breaks, or the   *)
(* server is held up at the broken connection of another.                  *)
SessionsReachRedis ==
  \A l \in Loops, u \in Users, p \in PubSubs :
    local[l][u] # {} ~> (u \in subs[p] \/ local[l][u] = {} \/ ~alive[p] \/ Stuck)
=============================================================================
