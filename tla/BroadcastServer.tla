--------------------------- MODULE BroadcastServer ---------------------------
(***************************************************************************)
(* The server of simple_broadcast/server.cc.  It has no Redis: accounts    *)
(* are a map in memory, shared by the event loops copy-on-write, and a     *)
(* text goes to every connection.                                          *)
(*                                                                         *)
(* Accounts.  users_ptr_ is a shared_ptr to the map, guarded by            *)
(* users_mutex_.  A reader takes a reference under the mutex and reads the *)
(* map without it; a writer holds the mutex throughout, copies the map if  *)
(* anybody else has a reference, and writes in place if not.               *)
(*                                                                         *)
(* Texts.  Every loop keeps its connections in a thread-local set.  A text *)
(* is queued, with loops_mutex_ held, to each loop, which hands it to its  *)
(* own connections.                                                        *)
(*                                                                         *)
(* threadInit has entered every loop in loops_ before the server accepts a *)
(* connection (TcpServer::start waits for it), so loops_ is Loops.         *)
(***************************************************************************)
EXTENDS Naturals, Sequences, FiniteSets

CONSTANTS
  Loops,        \* the event loops
  Conns,        \* connections, each of which comes up and goes down once
  Users,
  Passwords,
  Empty,        \* the empty password
  Absent,       \* no account
  Nobody,       \* a mutex is free
  MaxRequests   \* bound: messages received from clients

ASSUME BroadcastServerAssumption ==
  /\ IsFiniteSet(Loops)
  /\ Empty \in Passwords
  /\ Absent \notin Passwords
  /\ Nobody \notin Loops
  /\ MaxRequests \in Nat

VARIABLES
  maps,         \* the UserMap objects on the heap, by address
  usersPtr,     \* users_ptr_
  held,         \* per loop: the reference of its handler, Null if none
  usersMutex,   \* owner of users_mutex_
  pc,           \* where each loop stands
  req,          \* the request its handler serves
  inserted,     \* result.second of the registration it has made
  answer,       \* the last LoginResponse, RegisterResponse, SearchResponse
  local,        \* LocalConnections of each loop
  fresh,        \* connections that have not come up yet
  loopsMutex,   \* owner of loops_mutex_
  todo,         \* per loop: the loops its text is still to be queued to
  text,         \* per loop: the text it queues
  queue,        \* per loop: the texts of its pending distributeTextMessage
  heard,        \* per connection: the texts sent to it, in order
  requests,     \* messages received so far
  texts         \* broadcasts begun so far, which numbers the texts

accountVars == <<maps, usersPtr, held, usersMutex, req, inserted, answer>>
textVars    == <<loopsMutex, todo, text, queue, heard, texts>>
connVars    == <<local, fresh>>
vars == <<accountVars, textVars, connVars, pc, requests>>

(* Every loop keeps one map alive at most, and users_ptr_ one more.        *)
Addresses == 1..(Cardinality(Loops) + 1)
Null == 0

Requests ==
  [op : {"LOGIN", "REGISTER"}, user : Users, password : Passwords] \cup [op : {"SEARCH"}]
Results   == [success : BOOLEAN] \cup [usernames : SUBSET Users]
NoRequest == [op |-> "none"]
NoAnswer  == [request |-> NoRequest]
Texts     == 1..MaxRequests

(* Every variable has its type.                                            *)
TypeOK ==
  /\ maps \in [Addresses -> [Users -> Passwords \cup {Absent}]]
  /\ usersPtr \in Addresses
  /\ held \in [Loops -> Addresses \cup {Null}]
  /\ usersMutex \in Loops \cup {Nobody}
  /\ pc \in [Loops -> {"idle", "get", "read", "lock", "copy", "emplace", "respond",
                       "lockLoops", "queue"}]
  /\ req \in [Loops -> Requests \cup {NoRequest}]
  /\ inserted \in [Loops -> BOOLEAN]
  /\ answer \in {NoAnswer} \cup [request : Requests, result : Results]
  /\ local \in [Loops -> SUBSET Conns]
  /\ fresh \subseteq Conns
  /\ loopsMutex \in Loops \cup {Nobody}
  /\ todo \in [Loops -> SUBSET Loops]
  /\ text \in [Loops -> Texts \cup {0}]
  /\ queue \in [Loops -> Seq(Texts)]
  /\ heard \in [Conns -> Seq(Texts)]
  /\ requests \in 0..MaxRequests
  /\ texts \in 0..requests

Init ==
  /\ maps = [a \in Addresses |-> [u \in Users |-> Absent]]
  /\ usersPtr = 1
  /\ held = [l \in Loops |-> Null]
  /\ usersMutex = Nobody
  /\ pc = [l \in Loops |-> "idle"]
  /\ req = [l \in Loops |-> NoRequest]
  /\ inserted = [l \in Loops |-> FALSE]
  /\ answer = NoAnswer
  /\ local = [l \in Loops |-> {}]
  /\ fresh = Conns
  /\ loopsMutex = Nobody
  /\ todo = [l \in Loops |-> {}]
  /\ text = [l \in Loops |-> 0]
  /\ queue = [l \in Loops |-> <<>>]
  /\ heard = [c \in Conns |-> <<>>]
  /\ requests = 0
  /\ texts = 0

Goto(l, label) == pc' = [pc EXCEPT ![l] = label]
-----------------------------------------------------------------------------
(***************************************************************************)
(* Connections                                                             *)
(***************************************************************************)

(* onConnection, UP: on the loop TcpServer has given the connection to.    *)
ConnectionUp(l, c) ==
  /\ pc[l] = "idle"
  /\ c \in fresh
  /\ fresh' = fresh \ {c}
  /\ local' = [local EXCEPT ![l] = @ \cup {c}]
  /\ UNCHANGED <<accountVars, textVars, pc, requests>>

(* onConnection, DOWN.                                                     *)
ConnectionDown(l, c) ==
  /\ pc[l] = "idle"
  /\ c \in local[l]
  /\ local' = [local EXCEPT ![l] = @ \ {c}]
  /\ UNCHANGED <<fresh, accountVars, textVars, pc, requests>>

(* A message of one of its connections makes a loop run a handler.         *)
Dispatch(l, label) ==
  /\ pc[l] = "idle"
  /\ local[l] # {}
  /\ requests < MaxRequests
  /\ requests' = requests + 1
  /\ Goto(l, label)
  /\ UNCHANGED <<connVars, textVars>>
-----------------------------------------------------------------------------
(***************************************************************************)
(* Accounts                                                                *)
(***************************************************************************)

ReceiveRequest(l) ==
  /\ \E r \in Requests :
       /\ Dispatch(l, IF r.op = "REGISTER" THEN "lock" ELSE "get")
       /\ req' = [req EXCEPT ![l] = r]
  /\ UNCHANGED <<maps, usersPtr, held, usersMutex, inserted, answer>>

(* The response is sent, and the handler returns.                          *)
Respond(l, result) ==
  /\ answer' = [request |-> req[l], result |-> result]
  /\ req' = [req EXCEPT ![l] = NoRequest]
  /\ Goto(l, "idle")

(* The reader has a reference to map a.                                    *)
Hold(l, a) ==
  /\ pc[l] = "get"
  /\ held' = [held EXCEPT ![l] = a]
  /\ Goto(l, "read")
  /\ UNCHANGED <<maps, usersMutex, req, inserted, answer, connVars, textVars, requests>>

(* Mutants of GetUsersPtr: without the mutex; and the pointer is moved out *)
(* of users_ptr_.                                                          *)
GetUsersPtrUnlocked(l) == Hold(l, usersPtr) /\ UNCHANGED usersPtr
GetUsersPtrMoves(l) == usersMutex = Nobody /\ Hold(l, usersPtr) /\ usersPtr' = Null

(* getUsersPtr: copy the pointer under the mutex, which counts as one more *)
(* reference.                                                              *)
GetUsersPtr(l) ==
  /\ usersMutex = Nobody
  /\ Hold(l, usersPtr)
  /\ UNCHANGED usersPtr

(* storedPassword: empty if the user is not found.                         *)
StoredPassword(map, u) == IF map[u] = Absent THEN Empty ELSE map[u]

(* What a reader answers from the map it holds.                            *)
ReadResult(map, r) ==
  IF r.op = "LOGIN" THEN [success |-> StoredPassword(map, r.user) = r.password]
                    ELSE [usernames |-> {u \in Users : map[u] # Absent}]

(* onLoginRequest and onSearchRequest, after getUsersPtr: read the map,    *)
(* drop the reference, answer.                                             *)
ReadUsers(l) ==
  /\ pc[l] = "read"
  /\ held' = [held EXCEPT ![l] = Null]
  /\ Respond(l, ReadResult(maps[held[l]], req[l]))
  /\ UNCHANGED <<maps, usersPtr, usersMutex, inserted, connVars, textVars, requests>>

(* users_ptr_.unique(): no handler has a reference.                        *)
Unique(a) == \A l \in Loops : held[l] # a

(* onRegisterRequest takes the mutex and looks at the reference count.     *)
RegisterLock(l) ==
  /\ pc[l] = "lock"
  /\ usersMutex = Nobody
  /\ usersMutex' = l
  /\ Goto(l, IF Unique(usersPtr) THEN "emplace" ELSE "copy")
  /\ UNCHANGED <<maps, usersPtr, held, req, inserted, answer, connVars, textVars, requests>>

(* users_ptr_.reset(new UserMap(m)): at a free address, while the readers  *)
(* keep the old map.                                                       *)
Reset(l, m) ==
  LET a == CHOOSE a \in Addresses : a # usersPtr /\ Unique(a) IN
  /\ pc[l] = "copy"
  /\ usersPtr' = a
  /\ maps' = [maps EXCEPT ![a] = m]
  /\ Goto(l, "emplace")
  /\ UNCHANGED <<held, usersMutex, req, inserted, answer, connVars, textVars, requests>>

(* Mutant of RegisterCopy: the new map is empty.                           *)
RegisterCopyEmpty(l) == Reset(l, [u \in Users |-> Absent])

(* The map is shared: a copy takes its place.                              *)
RegisterCopy(l) == Reset(l, maps[usersPtr])

(* emplace, which leaves an existing account alone; the mutex is released. *)
RegisterEmplace(l) ==
  LET r == req[l]
      new == maps[usersPtr][r.user] = Absent
  IN
  /\ pc[l] = "emplace"
  /\ maps' = IF new THEN [maps EXCEPT ![usersPtr][r.user] = r.password] ELSE maps
  /\ inserted' = [inserted EXCEPT ![l] = new]
  /\ usersMutex' = Nobody
  /\ Goto(l, "respond")
  /\ UNCHANGED <<usersPtr, held, req, answer, connVars, textVars, requests>>

RegisterRespond(l) ==
  /\ pc[l] = "respond"
  /\ Respond(l, [success |-> inserted[l]])
  /\ inserted' = [inserted EXCEPT ![l] = FALSE]
  /\ UNCHANGED <<maps, usersPtr, held, usersMutex, connVars, textVars, requests>>
-----------------------------------------------------------------------------
(***************************************************************************)
(* Texts                                                                   *)
(***************************************************************************)

OnTextMessage(l) ==
  /\ Dispatch(l, "lockLoops")
  /\ UNCHANGED accountVars

(* The walk over loops_ begins.                                            *)
StartWalk(l) ==
  /\ pc[l] = "lockLoops"
  /\ texts' = texts + 1
  /\ text' = [text EXCEPT ![l] = texts']
  /\ todo' = [todo EXCEPT ![l] = Loops]
  /\ Goto(l, "queue")
  /\ UNCHANGED <<queue, heard, accountVars, connVars, requests>>

(* Mutant of LockLoops: the loops are walked without the mutex.            *)
LockLoopsNot(l) == StartWalk(l) /\ UNCHANGED loopsMutex

(* loops_mutex_ is taken for the walk.                                     *)
LockLoops(l) ==
  /\ loopsMutex = Nobody
  /\ loopsMutex' = l
  /\ StartWalk(l)

(* loop->queueInLoop(f) for loop k, the loops in rest are still to come;   *)
(* after the last one the mutex is released and the handler returns.       *)
QueueTo(l, k, rest) ==
  /\ pc[l] = "queue"
  /\ k \in todo[l]
  /\ queue' = [queue EXCEPT ![k] = Append(@, text[l])]
  /\ todo' = [todo EXCEPT ![l] = rest]
  /\ IF rest = {}
     THEN /\ Goto(l, "idle")
          /\ text' = [text EXCEPT ![l] = 0]
          /\ loopsMutex' = Nobody
     ELSE UNCHANGED <<pc, text, loopsMutex>>
  /\ UNCHANGED <<heard, texts, accountVars, connVars, requests>>

(* Mutant of QueueInLoop: the walk ends after the first loop.              *)
QueueInFirstLoop(l, k) == QueueTo(l, k, {})

(* The loops come in the order of an unordered_set.                        *)
QueueInLoop(l, k) == QueueTo(l, k, todo[l] \ {k})

(* distributeTextMessage, run by the loop when it is not in a handler.     *)
DistributeTextMessage(l) ==
  /\ pc[l] = "idle"
  /\ queue[l] # <<>>
  /\ queue' = [queue EXCEPT ![l] = Tail(@)]
  /\ heard' = [c \in Conns |->
                 IF c \in local[l] THEN Append(heard[c], Head(queue[l])) ELSE heard[c]]
  /\ UNCHANGED <<loopsMutex, todo, text, texts, accountVars, connVars, pc, requests>>
-----------------------------------------------------------------------------
(* The loop's own next step; a mutex that is taken makes it wait.          *)
Run(l) ==
  \/ GetUsersPtr(l) \/ ReadUsers(l)
  \/ RegisterLock(l) \/ RegisterCopy(l) \/ RegisterEmplace(l) \/ RegisterRespond(l)
  \/ LockLoops(l) \/ \E k \in Loops : QueueInLoop(l, k)
  \/ DistributeTextMessage(l)

Next ==
  \E l \in Loops :
    \/ \E c \in Conns : ConnectionUp(l, c) \/ ConnectionDown(l, c)
    \/ ReceiveRequest(l) \/ OnTextMessage(l)
    \/ Run(l)

Spec == Init /\ [][Next]_vars

(* Loops run.  A mutex is granted if it stays free; it is not assumed that *)
(* a waiting loop ever wins it from one that comes later.                  *)
FairSpec == Spec /\ \A l \in Loops : WF_vars(Run(l))
-----------------------------------------------------------------------------
(***************************************************************************)
(* Properties                                                              *)
(***************************************************************************)

(* The map a registration is about to write to is nobody else's: no reader *)
(* has it, and none can get it, although readers take and drop references  *)
(* while the writer works.  This is the code's assert(users_ptr_.unique()),*)
(* and that it still holds when emplace runs.                              *)
WritesUnsharedMap ==
  \A l \in Loops : pc[l] = "emplace" => Unique(usersPtr) /\ usersMutex = l

(* A connection hears a gapless stretch of the one sequence of broadcasts: *)
(* all connections, on whatever loop, hear texts in the same order, none   *)
(* twice and none left out in between.                                     *)
OneOrder ==
  \A c \in Conns : \A i \in 1..(Len(heard[c]) - 1) : heard[c][i + 1] = heard[c][i] + 1

Up(c) == \E l \in Loops : c \in local[l]
Hears(c, t) == \E i \in 1..Len(heard[c]) : heard[c][i] = t

(* A connection that is up when a text is broadcast hears it in the end,   *)
(* unless it goes down: no handler keeps a mutex or waits for another loop *)
(* for ever, and every loop is served.                                     *)
EveryoneHears ==
  \A c \in Conns, t \in Texts :
    (Up(c) /\ \E l \in Loops : text[l] = t /\ todo[l] = Loops) ~> (Hears(c, t) \/ ~Up(c))

(* Where the request a loop serves stands, and its outcome once it is      *)
(* settled: a read takes effect in getUsersPtr, a registration in emplace. *)
Phase(l) ==
  IF pc[l] \in {"get", "lock", "copy", "emplace"} THEN "requested"
  ELSE IF pc[l] \in {"read", "respond"} THEN "done" ELSE "idle"
Outcome(l) ==
  IF pc[l] = "read" THEN ReadResult(maps[held[l]], req[l]) ELSE [success |-> inserted[l]]

(* The copy-on-write map is a table with atomic operations.                *)
Table == INSTANCE UserTable WITH
  table   <- maps[usersPtr],
  phase   <- [l \in Loops |-> Phase(l)],
  request <- req,
  result  <- [l \in Loops |-> Outcome(l)]
ImplementsUserTable == Table!Spec
=============================================================================
