--------------------------- MODULE ClientSession ---------------------------
(***************************************************************************)
(* One chat client (client.cc) and its session at the server (server.cc).  *)
(* The user types commands on the main thread; answers are handled on the  *)
(* client's event loop.  username_ is the client's idea of who is logged   *)
(* in, the server keeps its own in LocalConnections, and two FIFO streams  *)
(* lie between them.  The connection may break at any time; TcpClient      *)
(* connects again by itself (enableRetry).                                 *)
(***************************************************************************)
EXTENDS Naturals, Sequences

CONSTANTS
  Users,      \* registered users
  Guest,      \* "guest", the name of someone who has not logged in
  MaxDrops,   \* bound: connections broken
  MaxPending  \* bound: requests in flight

ASSUME ClientAssumption ==
  /\ Guest \notin Users
  /\ MaxDrops \in Nat
  /\ MaxPending \in Nat \ {0, 1}

VARIABLES
  username,    \* username_
  connection,  \* is connection_ set
  link,        \* the TCP connection itself: "none", "up" or "broken"
  toServer,    \* requests the server has not handled
  toClient,    \* answers the client has not handled
  sessions,    \* users whose entry of LocalConnections holds the connection
  drops,       \* connections broken so far
  stale,       \* users whose entry holds a connection that is closed
  rushed       \* history: on this connection, a command did not wait for
               \* the answers to the ones before it

vars == <<username, connection, link, toServer, toClient, sessions, drops, stale, rushed>>

Requests ==
  [kind : {"login"}, user : Users \cup {Guest}, password : BOOLEAN]
    \cup [kind : {"logout", "other"}]
    \cup [kind : {"group"}, user : Users]
Answers == [kind : {"login"}, user : Users \cup {Guest}, success : BOOLEAN]
             \cup [kind : {"other"}]

(* Every variable has its type; nobody sends a group request as guest.     *)
TypeOK ==
  /\ username \in Users \cup {Guest}
  /\ connection \in BOOLEAN
  /\ link \in {"none", "up", "broken"}
  /\ toServer \in Seq(Requests)
  /\ toClient \in Seq(Answers)
  /\ sessions \subseteq Users
  /\ drops \in 0..MaxDrops
  /\ stale \subseteq Users
  /\ rushed \in BOOLEAN

Init ==
  /\ username = Guest
  /\ connection = FALSE
  /\ link = "none"
  /\ toServer = <<>>
  /\ toClient = <<>>
  /\ sessions = {}
  /\ drops = 0
  /\ stale = {}
  /\ rushed = FALSE
-----------------------------------------------------------------------------
(***************************************************************************)
(* The main thread: send() and processCommand()                            *)
(***************************************************************************)

Pending == Len(toServer) + Len(toClient)

(* main() reads and executes the next line without waiting for an answer;  *)
(* send() drops a line that is typed while there is no connection.         *)
Type ==
  /\ connection
  /\ Pending + 2 <= MaxPending
  /\ rushed' = (rushed \/ Pending # 0)

(* codec_.send: what is written to a broken connection is lost.            *)
Send(requests) ==
  toServer' = IF link = "up" THEN toServer \o requests ELSE toServer

LogoutRequest == [kind |-> "logout"]
LoginRequest(u, password) == [kind |-> "login", user |-> u, password |-> password]
GroupRequest == [kind |-> "group", user |-> username]

(* Mutant of LoginCommand: no logout before a login as someone else.       *)
LoginWithoutLogout(u, password) ==
  /\ Type
  /\ u # username
  /\ Send(<<LoginRequest(u, password)>>)
  /\ username' = Guest
  /\ UNCHANGED <<connection, link, toClient, sessions, drops, stale>>

(* login: nothing to do for the user we are; someone else is logged out    *)
(* first.                                                                  *)
LoginCommand(u, password) ==
  /\ Type
  /\ u # username
  /\ IF username # Guest
     THEN Send(<<LogoutRequest, LoginRequest(u, password)>>)
     ELSE Send(<<LoginRequest(u, password)>>)
  /\ username' = Guest
  /\ UNCHANGED <<connection, link, toClient, sessions, drops, stale>>

(* Mutant of LogoutCommand: the name is kept, as onLogoutResponse keeps it *)
(* now that its assignment is commented out.                               *)
LogoutKeepsName ==
  /\ Type
  /\ username # Guest
  /\ Send(<<LogoutRequest>>)
  /\ UNCHANGED <<username, connection, link, toClient, sessions, drops, stale>>

(* logout                                                                  *)
LogoutCommand ==
  /\ Type
  /\ username # Guest
  /\ Send(<<LogoutRequest>>)
  /\ username' = Guest
  /\ UNCHANGED <<connection, link, toClient, sessions, drops, stale>>

(* Mutant of GroupCommand: the test for "guest" is missing.                *)
GroupCommandAsGuest ==
  /\ Type
  /\ Send(<<GroupRequest>>)
  /\ UNCHANGED <<username, connection, link, toClient, sessions, drops, stale>>

(* group create, join, leave or query                                      *)
GroupCommand ==
  /\ Type
  /\ username # Guest
  /\ Send(<<GroupRequest>>)
  /\ UNCHANGED <<username, connection, link, toClient, sessions, drops, stale>>

(* register, send, search and search-online neither look at the login nor  *)
(* change it.                                                              *)
OtherCommand ==
  /\ Type
  /\ Send(<<[kind |-> "other"]>>)
  /\ UNCHANGED <<username, connection, link, toClient, sessions, drops, stale>>
-----------------------------------------------------------------------------
(***************************************************************************)
(* The client's event loop                                                 *)
(***************************************************************************)

OnConnectionUp ==
  /\ link = "none"
  /\ link' = "up"
  /\ connection' = TRUE
  /\ UNCHANGED <<username, toServer, toClient, sessions, drops, stale, rushed>>

(* connection_.reset(): username_ stays as it is.  TcpClient tries again.  *)
OnConnectionDown ==
  /\ link = "broken"
  /\ link' = "none"
  /\ connection' = FALSE
  /\ toClient' = <<>>
  /\ rushed' = FALSE
  /\ UNCHANGED <<username, toServer, sessions, drops, stale>>

(* onLoginResponse takes the name over if the login succeeded; the other   *)
(* handlers, onLogoutResponse among them, only report.                     *)
OnAnswer ==
  LET a == Head(toClient) IN
  /\ toClient # <<>>
  /\ toClient' = Tail(toClient)
  /\ username' = IF a.kind = "login" /\ a.success THEN a.user ELSE username
  /\ UNCHANGED <<connection, link, toServer, sessions, drops, stale, rushed>>
-----------------------------------------------------------------------------
(***************************************************************************)
(* The server and the network                                              *)
(***************************************************************************)

(* onLoginRequest: with the right password of an account the connection is *)
(* added to the user's entry, whoever else it is logged in as.  A refusal  *)
(* names "guest".                                                          *)
ServerLogin ==
  LET r == Head(toServer)
      success == r.password /\ r.user # Guest
  IN
  /\ toServer # <<>> /\ r.kind = "login"
  /\ toServer' = Tail(toServer)
  /\ sessions' = IF success THEN sessions \cup {r.user} ELSE sessions
  /\ toClient' = Append(toClient, [kind |-> "login", success |-> success,
                                   user |-> IF success THEN r.user ELSE Guest])
  /\ UNCHANGED <<username, connection, link, drops, stale, rushed>>

(* onLogoutRequest: logout() takes the connection out of one entry, which  *)
(* need not be the one of the user named in the request.                   *)
ServerLogout ==
  /\ toServer # <<>> /\ Head(toServer).kind = "logout"
  /\ toServer' = Tail(toServer)
  /\ \/ sessions = {} /\ UNCHANGED sessions
     \/ \E u \in sessions : sessions' = sessions \ {u}
  /\ toClient' = Append(toClient, [kind |-> "other"])
  /\ UNCHANGED <<username, connection, link, drops, stale, rushed>>

(* The other handlers answer and leave the session alone.  What            *)
(* onGroupRequest does to the groups is modelled in GroupStore.            *)
ServerOther ==
  /\ toServer # <<>> /\ Head(toServer).kind \in {"group", "other"}
  /\ toServer' = Tail(toServer)
  /\ toClient' = Append(toClient, [kind |-> "other"])
  /\ UNCHANGED <<username, connection, link, sessions, drops, stale, rushed>>

(* The connection breaks.  The server calls logout(), which takes it out   *)
(* of one entry; of the answers, a prefix may have reached the client.     *)
Break ==
  /\ link = "up"
  /\ drops < MaxDrops
  /\ drops' = drops + 1
  /\ link' = "broken"
  /\ toServer' = <<>>
  /\ \E k \in 0..Len(toClient) : toClient' = SubSeq(toClient, 1, k)
  /\ sessions' = {}
  /\ \/ sessions = {} /\ UNCHANGED stale
     \/ \E u \in sessions : stale' = stale \cup (sessions \ {u})
  /\ UNCHANGED <<username, connection, rushed>>
-----------------------------------------------------------------------------
Next ==
  \/ \E u \in Users \cup {Guest}, password \in BOOLEAN : LoginCommand(u, password)
  \/ LogoutCommand \/ GroupCommand \/ OtherCommand
  \/ OnConnectionUp \/ OnConnectionDown \/ OnAnswer
  \/ ServerLogin \/ ServerLogout \/ ServerOther \/ Break

Spec == Init /\ [][Next]_vars
-----------------------------------------------------------------------------
(***************************************************************************)
(* Properties                                                              *)
(***************************************************************************)

(* All is said: a connection, and nothing in flight.                       *)
Quiet == connection /\ link = "up" /\ Pending = 0

(* As long as the commands typed on the connection have waited for the     *)
(* answers, the two ideas of who is logged in meet whenever the streams    *)
(* are empty.  After a broken connection the client may still believe in a *)
(* session, but the server never has one that the client does not know of. *)
ViewsAgree ==
  (~rushed /\ Quiet) =>
     /\ sessions \subseteq {username}
     /\ drops = 0 => sessions = {username} \ {Guest}

(* A connection whose commands have waited for their answers leaves no     *)
(* entry of LocalConnections behind when it breaks, at whatever moment and *)
(* whoever was logged in on it before: the client's logout comes before    *)
(* the next login, so the one entry that logout() removes is the only one. *)
WaitingLeavesNothing == [][~rushed => UNCHANGED stale]_vars

(* Comment in logout() (server.cc:378): find the entry whose set contains  *)
(* conn and delete conn from the set.  And comment in processCommand       *)
(* (client.cc:284): if already logged in, log out first before logging in  *)
(* as another user.  Then no entry would hold a connection that is closed. *)
ClosedConnectionsForgotten == stale = {}
=============================================================================
