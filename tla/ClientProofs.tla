---------------------------- MODULE ClientProofs ----------------------------
(***************************************************************************)
(* Proofs about the client.  ClientSession: as long as commands wait for   *)
(* the answers, the client and the server agree on who is logged in.           *)
(* ACAutomaton: build() sets the right fail pointers and filter() masks    *)
(* exactly the words.                                                      *)
(***************************************************************************)
EXTENDS ClientSession, ACAutomaton, SequenceTheorems, WellFoundedInduction, TLAPS

-----------------------------------------------------------------------------
(***************************************************************************)
(* The inductive invariant                                                 *)
(***************************************************************************)

(* Without a connection there is no session and nothing to handle for the  *)
(* server; the client's idea can be stale only after a broken connection.  *)
LinkInv ==
  /\ link # "up" => toServer = <<>> /\ sessions = {}
  /\ link = "up" => connection = TRUE
  /\ link = "none" => toClient = <<>>
  /\ drops = 0 => link # "broken" /\ (link = "none" => username = Guest)

OneRequest(kinds) == Len(toServer) = 1 /\ toServer[1].kind \in kinds
NoRequest         == Len(toServer) = 0
NoAnswer          == Len(toClient) = 0
OneReport         == Len(toClient) = 1 /\ toClient[1].kind = "other"

(* No login or logout is under way.                                        *)
Calm ==
  /\ sessions \subseteq {username}
  /\ drops = 0 => sessions = {username} \ {Guest}
  /\ \/ NoRequest /\ (NoAnswer \/ OneReport)
     \/ OneRequest({"group", "other"}) /\ NoAnswer

(* A logout, maybe with a login behind it, has not reached the server.     *)
LoggingOut ==
  /\ username = Guest
  /\ \E u \in Users : sessions \subseteq {u}
  /\ \/ OneRequest({"logout"})
     \/ Len(toServer) = 2 /\ toServer[1].kind = "logout" /\ toServer[2].kind = "login"
  /\ NoAnswer

(* A login has not reached the server.                                     *)
LoggingIn ==
  /\ username = Guest
  /\ sessions = {}
  /\ OneRequest({"login"})
  /\ NoAnswer \/ OneReport

(* The answer to a login has not reached the client.                       *)
LoggedIn ==
  LET n == Len(toClient) IN
  /\ username = Guest
  /\ NoRequest
  /\ n = 1 \/ (n = 2 /\ toClient[1].kind = "other")
  /\ toClient[n].kind = "login"
  /\ sessions = IF toClient[n].success THEN {toClient[n].user} ELSE {}

SessionInv == (~rushed /\ link = "up") => Calm \/ LoggingOut \/ LoggingIn \/ LoggedIn

IInv == TypeOK /\ LinkInv /\ SessionInv
-----------------------------------------------------------------------------
(***************************************************************************)
(* Streams                                                                 *)
(***************************************************************************)

(* What a command writes: one request, or two behind each other.           *)
LEMMA SendOne ==
  ASSUME TypeOK, NEW r \in Requests, Send(<<r>>)
  PROVE  /\ toServer' \in Seq(Requests)
         /\ link # "up" => toServer' = toServer
         /\ (link = "up" /\ NoRequest) => Len(toServer') = 1 /\ toServer'[1] = r
<1>1. toServer \in Seq(Requests)
  BY DEF TypeOK
<1>2. toServer' = IF link = "up" THEN toServer \o <<r>> ELSE toServer
  BY DEF Send
<1>3. <<r>> \in Seq(Requests) /\ Len(<<r>>) = 1 /\ <<r>>[1] = r
  OBVIOUS
<1>4. toServer \o <<r>> \in Seq(Requests)
  BY <1>1, <1>3, ConcatProperties
<1>5. Len(toServer) = 0 => toServer = <<>>
  BY <1>1
<1>6. Len(toServer) = 0 => toServer \o <<r>> = <<r>>
  BY <1>3, <1>5, ConcatEmptySeq
<1> QED BY <1>1, <1>2, <1>3, <1>4, <1>6 DEF NoRequest

LEMMA SendTwo ==
  ASSUME TypeOK, NEW q \in Requests, NEW r \in Requests, Send(<<q, r>>)
  PROVE  /\ toServer' \in Seq(Requests)
         /\ link # "up" => toServer' = toServer
         /\ (link = "up" /\ NoRequest) =>
               Len(toServer') = 2 /\ toServer'[1] = q /\ toServer'[2] = r
<1>1. toServer \in Seq(Requests)
  BY DEF TypeOK
<1>2. toServer' = IF link = "up" THEN toServer \o <<q, r>> ELSE toServer
  BY DEF Send
<1>3. <<q, r>> \in Seq(Requests) /\ Len(<<q, r>>) = 2 /\ <<q, r>>[1] = q /\ <<q, r>>[2] = r
  OBVIOUS
<1>4. toServer \o <<q, r>> \in Seq(Requests)
  BY <1>1, <1>3, ConcatProperties
<1>5. Len(toServer) = 0 => toServer = <<>>
  BY <1>1
<1>6. Len(toServer) = 0 => toServer \o <<q, r>> = <<q, r>>
  BY <1>3, <1>5, ConcatEmptySeq
<1> QED BY <1>1, <1>2, <1>3, <1>4, <1>6 DEF NoRequest

(* The first request is taken, and answered behind the other answers.      *)
LEMMA ServerStream ==
  ASSUME TypeOK, toServer # <<>>, NEW a \in Answers,
         toServer' = Tail(toServer), toClient' = Append(toClient, a)
  PROVE  /\ toServer' \in Seq(Requests) /\ toClient' \in Seq(Answers)
         /\ Len(toServer) \in Nat /\ Len(toClient) \in Nat
         /\ Len(toServer) >= 1 /\ Head(toServer) = toServer[1] /\ Head(toServer) \in Requests
         /\ Len(toServer') = Len(toServer) - 1 /\ Len(toClient') = Len(toClient) + 1
         /\ Len(toServer) = 2 => toServer'[1] = toServer[2]
         /\ Len(toClient) = 1 => toClient'[1] = toClient[1]
         /\ toClient'[Len(toClient) + 1] = a
<1>1. toServer \in Seq(Requests) /\ toClient \in Seq(Answers)
  BY DEF TypeOK
<1> QED BY <1>1

(* A command that waited is typed when nothing is in flight.               *)
LEMMA WaitedTypes ==
  ASSUME TypeOK, SessionInv, Type, ~rushed', link = "up"
  PROVE  /\ NoRequest /\ NoAnswer
         /\ sessions \subseteq {username}
         /\ drops = 0 => sessions = {username} \ {Guest}
<1>1. toServer \in Seq(Requests) /\ toClient \in Seq(Answers)
  BY DEF TypeOK
<1>2. Len(toServer) \in Nat /\ Len(toClient) \in Nat
  BY <1>1
<1>3. Len(toServer) + Len(toClient) = 0
  BY DEF Type, Pending
<1>5. ~rushed
  BY DEF Type
<1>4. Len(toServer) = 0 /\ Len(toClient) = 0
  BY <1>2, <1>3
<1> QED BY <1>4, <1>5 DEF SessionInv, Calm, LoggingOut, LoggingIn, LoggedIn, NoRequest, NoAnswer, OneRequest
-----------------------------------------------------------------------------
(***************************************************************************)
(* The steps                                                               *)
(***************************************************************************)

(* The requests of the commands have their type.                           *)
LEMMA RequestTypes ==
  /\ LogoutRequest \in Requests /\ LogoutRequest.kind = "logout"
  /\ \A u \in Users \cup {Guest}, password \in BOOLEAN :
       LoginRequest(u, password) \in Requests /\ LoginRequest(u, password).kind = "login"
  /\ TypeOK /\ username # Guest => GroupRequest \in Requests /\ GroupRequest.kind = "group"
  /\ [kind |-> "other"] \in Requests
  /\ [kind |-> "other"] \in Answers
BY DEF LogoutRequest, LoginRequest, GroupRequest, Requests, Answers, TypeOK

LEMMA LoginCommandInv ==
  ASSUME IInv, NEW u \in Users \cup {Guest}, NEW password \in BOOLEAN, LoginCommand(u, password)
  PROVE  IInv'
<1> DEFINE r == LoginRequest(u, password)
<1>0. /\ TypeOK /\ LinkInv /\ SessionInv /\ Type /\ username' = Guest
      /\ UNCHANGED <<connection, link, toClient, sessions, drops, stale>> /\ rushed' \in BOOLEAN
  BY DEF IInv, LoginCommand, Type
<1>1. r \in Requests /\ r.kind = "login" /\ LogoutRequest \in Requests /\ LogoutRequest.kind = "logout"
  BY RequestTypes
<1> HIDE DEF r
<1>2. CASE username # Guest
  <2>1. Send(<<LogoutRequest, r>>)
    BY <1>2 DEF LoginCommand, r
  <2>2. /\ toServer' \in Seq(Requests)
        /\ link # "up" => toServer' = toServer
        /\ (link = "up" /\ NoRequest) =>
              Len(toServer') = 2 /\ toServer'[1] = LogoutRequest /\ toServer'[2] = r
    BY <2>1, <1>0, <1>1, SendTwo
  <2>3. TypeOK' /\ LinkInv'
    BY <2>2, <1>0 DEF TypeOK, LinkInv
  <2>4. ASSUME ~rushed', link = "up" PROVE LoggingOut'
    <3>1. NoRequest /\ NoAnswer /\ sessions \subseteq {username}
      BY <2>4, <1>0, WaitedTypes
    <3>2. username \in Users
      BY <1>0, <1>2 DEF TypeOK
    <3> QED BY <3>1, <3>2, <2>2, <2>4, <1>0, <1>1 DEF LoggingOut, NoAnswer
  <2> QED BY <2>3, <2>4, <1>0 DEF IInv, SessionInv
<1>3. CASE username = Guest
  <2>1. Send(<<r>>)
    BY <1>3 DEF LoginCommand, r
  <2>2. /\ toServer' \in Seq(Requests)
        /\ link # "up" => toServer' = toServer
        /\ (link = "up" /\ NoRequest) => Len(toServer') = 1 /\ toServer'[1] = r
    BY <2>1, <1>0, <1>1, SendOne
  <2>3. TypeOK' /\ LinkInv'
    BY <2>2, <1>0 DEF TypeOK, LinkInv
  <2>4. ASSUME ~rushed', link = "up" PROVE LoggingIn'
    <3>1. NoRequest /\ NoAnswer /\ sessions \subseteq {username}
      BY <2>4, <1>0, WaitedTypes
    <3>2. sessions = {}
      BY <3>1, <1>0, <1>3, ClientAssumption DEF TypeOK
    <3> QED BY <3>1, <3>2, <2>2, <2>4, <1>0, <1>1 DEF LoggingIn, NoAnswer, OneRequest
  <2> QED BY <2>3, <2>4, <1>0 DEF IInv, SessionInv
<1> QED BY <1>2, <1>3

LEMMA LogoutCommandInv ==
  ASSUME IInv, LogoutCommand
  PROVE  IInv'
<1>0. /\ TypeOK /\ LinkInv /\ SessionInv /\ Type /\ username # Guest /\ username' = Guest
      /\ Send(<<LogoutRequest>>)
      /\ UNCHANGED <<connection, link, toClient, sessions, drops, stale>> /\ rushed' \in BOOLEAN
  BY DEF IInv, LogoutCommand, Type
<1>1. LogoutRequest \in Requests /\ LogoutRequest.kind = "logout"
  BY RequestTypes
<1>2. /\ toServer' \in Seq(Requests)
      /\ link # "up" => toServer' = toServer
      /\ (link = "up" /\ NoRequest) => Len(toServer') = 1 /\ toServer'[1] = LogoutRequest
  BY <1>0, <1>1, SendOne
<1>3. TypeOK' /\ LinkInv'
  BY <1>0, <1>2 DEF TypeOK, LinkInv
<1>4. ASSUME ~rushed', link = "up" PROVE LoggingOut'
  <2>1. NoRequest /\ NoAnswer /\ sessions \subseteq {username}
    BY <1>4, <1>0, WaitedTypes
  <2>2. username \in Users
    BY <1>0 DEF TypeOK
  <2> QED BY <2>1, <2>2, <1>0, <1>1, <1>2, <1>4 DEF LoggingOut, NoAnswer, OneRequest
<1> QED BY <1>0, <1>3, <1>4 DEF IInv, SessionInv

LEMMA PlainCommandInv ==
  ASSUME IInv, GroupCommand \/ OtherCommand
  PROVE  IInv'
<1>1. PICK r \in Requests : /\ r.kind \in {"group", "other"}
                            /\ Send(<<r>>)
  BY RequestTypes DEF IInv, GroupCommand, OtherCommand
<1>0. /\ TypeOK /\ LinkInv /\ SessionInv /\ Type
      /\ UNCHANGED <<username, connection, link, toClient, sessions, drops, stale>> /\ rushed' \in BOOLEAN
  BY DEF IInv, GroupCommand, OtherCommand, Type
<1>2. /\ toServer' \in Seq(Requests)
      /\ link # "up" => toServer' = toServer
      /\ (link = "up" /\ NoRequest) => Len(toServer') = 1 /\ toServer'[1] = r
  BY <1>0, <1>1, SendOne
<1>3. TypeOK' /\ LinkInv'
  BY <1>0, <1>2 DEF TypeOK, LinkInv
<1>4. ASSUME ~rushed', link = "up" PROVE Calm'
  <2>1. /\ NoRequest /\ NoAnswer /\ sessions \subseteq {username}
        /\ drops = 0 => sessions = {username} \ {Guest}
    BY <1>4, <1>0, WaitedTypes
  <2> QED BY <2>1, <1>0, <1>1, <1>2, <1>4 DEF Calm, NoAnswer, OneRequest
<1> QED BY <1>0, <1>3, <1>4 DEF IInv, SessionInv

LEMMA ConnectionInv ==
  ASSUME IInv, OnConnectionUp \/ OnConnectionDown \/ Break
  PROVE  IInv'
<1>0. TypeOK /\ LinkInv /\ SessionInv /\ toClient \in Seq(Answers)
  BY DEF IInv, TypeOK
<1>1. <<>> \in Seq(Answers) /\ <<>> \in Seq(Requests) /\ Len(<<>>) = 0
  OBVIOUS
<1>2. CASE OnConnectionUp
  <2>1. TypeOK' /\ LinkInv'
    BY <1>0, <1>2 DEF OnConnectionUp, TypeOK, LinkInv
  <2>2. toServer = <<>> /\ toClient = <<>> /\ sessions = {} /\ (drops = 0 => username = Guest)
    BY <1>0, <1>2 DEF OnConnectionUp, LinkInv
  <2>3. Calm'
    BY <2>2, <1>1, <1>2 DEF OnConnectionUp, Calm, NoRequest, NoAnswer
  <2> QED BY <2>1, <2>3 DEF IInv, SessionInv
<1>3. CASE OnConnectionDown
  <2>1. TypeOK' /\ LinkInv'
    BY <1>0, <1>1, <1>3 DEF OnConnectionDown, TypeOK, LinkInv
  <2> QED BY <2>1, <1>3 DEF IInv, SessionInv, OnConnectionDown
<1>4. CASE Break
  <2>1. toClient' \in Seq(Answers)
    <3>1. PICK k \in 0..Len(toClient) : toClient' = SubSeq(toClient, 1, k)
      BY <1>4 DEF Break
    <3>2. Len(toClient) \in Nat
      BY <1>0
    <3>3. k \in Nat /\ k <= Len(toClient)
      BY <3>2
    <3> QED BY <3>1, <3>2, <3>3, <1>0
  <2>2. drops' \in 0..MaxDrops /\ drops' # 0
    BY <1>0, <1>4, ClientAssumption DEF Break, TypeOK
  <2>3. TypeOK' /\ LinkInv'
    BY <2>1, <2>2, <1>0, <1>1, <1>4 DEF Break, TypeOK, LinkInv
  <2> QED BY <2>3, <1>4 DEF IInv, SessionInv, Break
<1> QED BY <1>2, <1>3, <1>4

LEMMA OnAnswerInv ==
  ASSUME IInv, OnAnswer
  PROVE  IInv'
<1> DEFINE a == Head(toClient)
<1>0. /\ TypeOK /\ LinkInv /\ SessionInv
      /\ toClient # <<>> /\ toClient' = Tail(toClient)
      /\ username' = IF a.kind = "login" /\ a.success THEN a.user ELSE username
      /\ UNCHANGED <<connection, link, toServer, sessions, drops, stale, rushed>>
  BY DEF IInv, OnAnswer
<1>1. toClient \in Seq(Answers)
  BY <1>0 DEF TypeOK
<1>2. /\ toClient' \in Seq(Answers) /\ Len(toClient) \in Nat /\ Len(toClient) >= 1
      /\ Len(toClient') = Len(toClient) - 1
      /\ a = toClient[1] /\ a \in Answers
      /\ Len(toClient) = 2 => toClient'[1] = toClient[2]
  BY <1>0, <1>1
<1>3. a.kind = "login" => a.user \in Users \cup {Guest} /\ a.success \in BOOLEAN
  BY <1>2 DEF Answers
<1> HIDE DEF a
<1>4. TypeOK'
  BY <1>0, <1>2, <1>3 DEF TypeOK
<1>5. link # "none"
  BY <1>0 DEF LinkInv
<1>6. LinkInv'
  BY <1>0, <1>5 DEF LinkInv
<1>7. ASSUME ~rushed, link = "up" PROVE (Calm \/ LoggingIn \/ LoggedIn)'
  <2>1. CASE Calm
    <3>1. NoRequest /\ OneReport
      BY <2>1, <1>2 DEF Calm, NoAnswer
    <3>2. Len(toClient') = 0 /\ username' = username
      BY <3>1, <1>0, <1>2 DEF OneReport
    <3>3. Calm'
      BY <2>1, <3>1, <3>2, <1>0 DEF Calm, NoRequest, NoAnswer
    <3> QED BY <3>3
  <2>2. CASE LoggingOut
    BY <2>2, <1>2 DEF LoggingOut, NoAnswer
  <2>3. CASE LoggingIn
    <3>1. OneReport
      BY <2>3, <1>2 DEF LoggingIn, NoAnswer
    <3>2. Len(toClient') = 0 /\ username' = username
      BY <3>1, <1>0, <1>2 DEF OneReport
    <3>3. LoggingIn'
      BY <2>3, <3>2, <1>0 DEF LoggingIn, NoAnswer, OneRequest
    <3> QED BY <3>3
  <2>4. CASE LoggedIn /\ Len(toClient) = 2
    <3>1. Len(toClient') = 1 /\ toClient'[1] = toClient[2] /\ a.kind = "other"
      BY <2>4, <1>2 DEF LoggedIn
    <3>2. username' = username
      BY <3>1, <1>0
    <3>3. LoggedIn'
      BY <2>4, <3>1, <3>2, <1>0 DEF LoggedIn, NoRequest
    <3> QED BY <3>3
  <2>5. CASE LoggedIn /\ Len(toClient) # 2
    <3>0. Len(toClient) = 1
      BY <2>5 DEF LoggedIn
    <3>1. /\ Len(toClient) = 1 /\ Len(toClient') = 0 /\ a.kind = "login"
          /\ username = Guest /\ NoRequest
          /\ sessions = IF a.success THEN {a.user} ELSE {}
      BY <3>0, <2>5, <1>2 DEF LoggedIn
    <3>2. sessions \subseteq Users
      BY <1>0 DEF TypeOK
    <3>3. CASE a.success
      <4>1. username' = a.user /\ sessions = {a.user} /\ a.user # Guest
        BY <3>1, <3>2, <3>3, <1>0, ClientAssumption
      <4>2. Calm'
        BY <4>1, <3>1, <1>0 DEF Calm, NoRequest, NoAnswer
      <4> QED BY <4>2
    <3>4. CASE ~a.success
      <4>1. username' = Guest /\ sessions = {}
        BY <3>1, <3>4, <1>0
      <4>2. Calm'
        BY <4>1, <3>1, <1>0 DEF Calm, NoRequest, NoAnswer
      <4> QED BY <4>2
    <3> QED BY <3>3, <3>4
  <2> QED BY <2>1, <2>2, <2>3, <2>4, <2>5, <1>0, <1>7 DEF SessionInv
<1> QED BY <1>0, <1>4, <1>6, <1>7 DEF IInv, SessionInv

LEMMA ServerLoginInv ==
  ASSUME IInv, ServerLogin
  PROVE  IInv'
<1> DEFINE r == Head(toServer)
           success == r.password /\ r.user # Guest
           a == [kind |-> "login", success |-> success, user |-> IF success THEN r.user ELSE Guest]
<1>0. /\ TypeOK /\ LinkInv /\ SessionInv
      /\ toServer # <<>> /\ r.kind = "login" /\ toServer' = Tail(toServer)
      /\ sessions' = IF success THEN sessions \cup {r.user} ELSE sessions
      /\ toClient' = Append(toClient, a)
      /\ UNCHANGED <<username, connection, link, drops, stale, rushed>>
  BY DEF IInv, ServerLogin
<1>1. toServer \in Seq(Requests)
  BY <1>0 DEF TypeOK
<1>2. r \in Requests
  BY <1>0, <1>1
<1>3. r.user \in Users \cup {Guest} /\ r.password \in BOOLEAN
  BY <1>0, <1>2 DEF Requests
<1> HIDE DEF r
<1>4. success \in BOOLEAN /\ (success => r.user \in Users)
  BY <1>3
<1>5. /\ a \in Answers /\ a.kind = "login" /\ a.success = success
      /\ a.user = IF success THEN r.user ELSE Guest
  BY <1>4 DEF Answers
<1> HIDE DEF a, success
<1>6. /\ toServer' \in Seq(Requests) /\ toClient' \in Seq(Answers)
      /\ Len(toServer) \in Nat /\ Len(toClient) \in Nat
      /\ Len(toServer) >= 1 /\ r = toServer[1]
      /\ Len(toServer') = Len(toServer) - 1 /\ Len(toClient') = Len(toClient) + 1
      /\ Len(toClient) = 1 => toClient'[1] = toClient[1]
      /\ toClient'[Len(toClient) + 1] = a
  BY <1>0, <1>5, ServerStream DEF r
<1>7. TypeOK'
  BY <1>0, <1>4, <1>6 DEF TypeOK
<1>8. link = "up"
  BY <1>0 DEF LinkInv, TypeOK
<1>9. LinkInv'
  BY <1>0, <1>8 DEF LinkInv
<1>10. ASSUME ~rushed PROVE LoggedIn'
  <2>1. LoggingIn
    BY <1>0, <1>6, <1>8, <1>10
       DEF SessionInv, Calm, LoggingOut, LoggedIn, OneRequest, NoRequest
  <2>2. Len(toServer') = 0 /\ sessions = {} /\ username' = Guest
    BY <2>1, <1>0, <1>6 DEF LoggingIn, OneRequest
  <2>3. sessions' = IF a.success THEN {a.user} ELSE {}
    BY <2>2, <1>0, <1>5
  <2>4. CASE NoAnswer
    <3>1. Len(toClient') = 1 /\ toClient'[1] = a
      BY <2>4, <1>6 DEF NoAnswer
    <3> QED BY <3>1, <2>2, <2>3, <1>5 DEF LoggedIn, NoRequest
  <2>5. CASE OneReport
    <3>1. Len(toClient') = 2 /\ toClient'[2] = a /\ toClient'[1].kind = "other"
      BY <2>5, <1>6 DEF OneReport
    <3> QED BY <3>1, <2>2, <2>3, <1>5 DEF LoggedIn, NoRequest
  <2> QED BY <2>1, <2>4, <2>5 DEF LoggingIn
<1> QED BY <1>0, <1>7, <1>9, <1>10 DEF IInv, SessionInv

LEMMA ServerLogoutInv ==
  ASSUME IInv, ServerLogout
  PROVE  IInv'
<1> DEFINE a == [kind |-> "other"]
<1>0. /\ TypeOK /\ LinkInv /\ SessionInv
      /\ toServer # <<>> /\ Head(toServer).kind = "logout" /\ toServer' = Tail(toServer)
      /\ \/ sessions = {} /\ sessions' = sessions
         \/ \E u \in sessions : sessions' = sessions \ {u}
      /\ toClient' = Append(toClient, a)
      /\ UNCHANGED <<username, connection, link, drops, stale, rushed>>
  BY DEF IInv, ServerLogout
<1>1. a \in Answers /\ a.kind = "other"
  BY RequestTypes
<1> HIDE DEF a
<1>2. /\ toServer' \in Seq(Requests) /\ toClient' \in Seq(Answers)
      /\ Len(toServer) \in Nat /\ Len(toClient) \in Nat
      /\ Len(toServer) >= 1 /\ Head(toServer) = toServer[1]
      /\ Len(toServer') = Len(toServer) - 1 /\ Len(toClient') = Len(toClient) + 1
      /\ Len(toServer) = 2 => toServer'[1] = toServer[2]
      /\ toClient'[Len(toClient) + 1] = a
  BY <1>0, <1>1, ServerStream
<1>3. TypeOK'
  BY <1>0, <1>2 DEF TypeOK
<1>4. link = "up"
  BY <1>0 DEF LinkInv, TypeOK
<1>5. LinkInv'
  BY <1>0, <1>4 DEF LinkInv
<1>6. ASSUME ~rushed PROVE (Calm \/ LoggingIn)'
  <2>1. LoggingOut
    BY <1>0, <1>2, <1>4, <1>6
       DEF SessionInv, Calm, LoggingIn, LoggedIn, OneRequest, NoRequest
  <2>2. sessions' = {} /\ username' = Guest
    BY <2>1, <1>0 DEF LoggingOut
  <2>3. OneReport'
    BY <2>1, <1>1, <1>2 DEF LoggingOut, NoAnswer, OneReport
  <2>4. CASE Len(toServer) = 1
    <3>1. Calm'
      BY <2>2, <2>3, <2>4, <1>2 DEF Calm, NoRequest
    <3> QED BY <3>1
  <2>5. CASE Len(toServer) = 2
    <3>1. LoggingIn'
      BY <2>1, <2>2, <2>3, <2>5, <1>2 DEF LoggingIn, LoggingOut, OneRequest
    <3> QED BY <3>1
  <2> QED BY <2>1, <2>4, <2>5 DEF LoggingOut, OneRequest
<1> QED BY <1>0, <1>3, <1>5, <1>6 DEF IInv, SessionInv

LEMMA ServerOtherInv ==
  ASSUME IInv, ServerOther
  PROVE  IInv'
<1> DEFINE a == [kind |-> "other"]
<1>0. /\ TypeOK /\ LinkInv /\ SessionInv
      /\ toServer # <<>> /\ Head(toServer).kind \in {"group", "other"} /\ toServer' = Tail(toServer)
      /\ toClient' = Append(toClient, a)
      /\ UNCHANGED <<username, connection, link, sessions, drops, stale, rushed>>
  BY DEF IInv, ServerOther
<1>1. a \in Answers /\ a.kind = "other"
  BY RequestTypes
<1> HIDE DEF a
<1>2. /\ toServer' \in Seq(Requests) /\ toClient' \in Seq(Answers)
      /\ Len(toServer) \in Nat /\ Len(toClient) \in Nat
      /\ Len(toServer) >= 1 /\ Head(toServer) = toServer[1]
      /\ Len(toServer') = Len(toServer) - 1 /\ Len(toClient') = Len(toClient) + 1
      /\ toClient'[Len(toClient) + 1] = a
  BY <1>0, <1>1, ServerStream
<1>3. TypeOK'
  BY <1>0, <1>2 DEF TypeOK
<1>4. link = "up"
  BY <1>0 DEF LinkInv, TypeOK
<1>5. LinkInv'
  BY <1>0, <1>4 DEF LinkInv
<1>6. ASSUME ~rushed PROVE Calm'
  <2>1. Calm /\ OneRequest({"group", "other"}) /\ NoAnswer
    BY <1>0, <1>2, <1>4, <1>6
       DEF SessionInv, Calm, LoggingOut, LoggingIn, LoggedIn, OneRequest, NoRequest
  <2>2. Len(toServer') = 0 /\ OneReport'
    BY <2>1, <1>1, <1>2 DEF OneRequest, NoAnswer, OneReport
  <2> QED BY <2>1, <2>2, <1>0 DEF Calm, NoRequest
<1> QED BY <1>0, <1>3, <1>5, <1>6 DEF IInv, SessionInv
-----------------------------------------------------------------------------
(***************************************************************************)
(* The theorems                                                            *)
(***************************************************************************)

(* The inductive invariant holds in every behaviour.                       *)
THEOREM Invariance == Spec => []IInv
<1>1. Init => IInv
  <2> SUFFICES ASSUME Init PROVE IInv
    OBVIOUS
  <2>1. <<>> \in Seq(Answers) /\ <<>> \in Seq(Requests) /\ 0 \in 0..MaxDrops
    BY ClientAssumption
  <2>2. TypeOK
    BY <2>1 DEF Init, TypeOK
  <2>3. LinkInv /\ SessionInv
    BY DEF Init, LinkInv, SessionInv
  <2> QED BY <2>2, <2>3 DEF IInv
<1>2. IInv /\ [Next]_vars => IInv'
  <2> SUFFICES ASSUME IInv, [Next]_vars PROVE IInv'
    OBVIOUS
  <2>1. CASE UNCHANGED vars
    BY <2>1 DEF vars, IInv, TypeOK, LinkInv, SessionInv, Calm, LoggingOut, LoggingIn, LoggedIn,
                OneRequest, NoRequest, NoAnswer, OneReport
  <2>2. CASE \E u \in Users \cup {Guest}, password \in BOOLEAN : LoginCommand(u, password)
    BY <2>2, LoginCommandInv
  <2>3. CASE LogoutCommand \/ GroupCommand \/ OtherCommand
    BY <2>3, LogoutCommandInv, PlainCommandInv
  <2>4. CASE OnConnectionUp \/ OnConnectionDown \/ Break
    BY <2>4, ConnectionInv
  <2>5. CASE OnAnswer
    BY <2>5, OnAnswerInv
  <2>6. CASE ServerLogin \/ ServerLogout \/ ServerOther
    BY <2>6, ServerLoginInv, ServerLogoutInv, ServerOtherInv
  <2> QED BY <2>1, <2>2, <2>3, <2>4, <2>5, <2>6 DEF Next
<1> QED BY <1>1, <1>2, PTL DEF Spec

(* Every variable has its type, however impatient the user is: no group    *)
(* request carries the name guest, and no session belongs to it.           *)
THEOREM ClientTypes == Spec => []TypeOK
<1>1. IInv => TypeOK
  BY DEF IInv
<1> QED BY <1>1, Invariance, PTL

(* Whenever the streams are empty the server has no session that the       *)
(* client does not know of, after any number of broken connections; while  *)
(* none has broken, the two agree.                                         *)
THEOREM TwoViewsMeet == Spec => []ViewsAgree
<1>1. ASSUME IInv PROVE ViewsAgree
  <2> SUFFICES ASSUME ~rushed, Quiet
               PROVE  /\ sessions \subseteq {username}
                      /\ drops = 0 => sessions = {username} \ {Guest}
    BY DEF ViewsAgree
  <2>1. toServer \in Seq(Requests) /\ toClient \in Seq(Answers)
    BY <1>1 DEF IInv, TypeOK
  <2>2. Len(toServer) \in Nat /\ Len(toClient) \in Nat
    BY <2>1
  <2>3. Len(toServer) = 0 /\ Len(toClient) = 0
    BY <2>2 DEF Quiet, Pending
  <2> QED BY <2>3, <1>1
          DEF IInv, SessionInv, Quiet, Calm, LoggingOut, LoggingIn, LoggedIn, OneRequest
<1> QED BY <1>1, Invariance, PTL

(* While commands wait for their answers, one user at most is on the       *)
(* connection, so logout() forgets all of it when it breaks.               *)
THEOREM NothingLeftBehind == Spec => WaitingLeavesNothing
<1>1. ASSUME IInv, [Next]_vars, ~rushed PROVE UNCHANGED stale
  <2>1. CASE Break
    <3>1. TypeOK /\ (Calm \/ LoggingOut \/ LoggingIn \/ LoggedIn)
      BY <1>1, <2>1 DEF IInv, SessionInv, Break
    <3>2. \E x \in Users \cup {Guest} : sessions \subseteq {x}
      BY <3>1 DEF Calm, LoggingOut, LoggingIn, LoggedIn, TypeOK
    <3>3. \A u \in sessions : sessions \ {u} = {}
      BY <3>2
    <3> QED BY <3>3, <2>1 DEF Break
  <2>2. CASE UNCHANGED vars
    BY <2>2 DEF vars
  <2> QED BY <1>1, <2>1, <2>2 DEF Next, LoginCommand, LogoutCommand, GroupCommand, OtherCommand,
             OnConnectionUp, OnConnectionDown, OnAnswer, ServerLogin, ServerLogout, ServerOther
<1>2. IInv /\ [Next]_vars => [~rushed => UNCHANGED stale]_vars
  BY <1>1
<1> QED BY <1>2, Invariance, PTL DEF Spec, WaitingLeavesNothing

-----------------------------------------------------------------------------
(***************************************************************************)
(* The word filter: strings and their suffixes                             *)
(***************************************************************************)

Strings == Seq(Alphabet)

(* v is a suffix of the first k characters of s.                           *)
Ends(v, s, k) ==
  /\ Len(v) <= k
  /\ \A i \in 1..Len(v) : v[i] = s[k - Len(v) + i]

(* Words and texts are the strings up to a length.                         *)
LEMMA WordType ==
  /\ \A w : w \in Words <=> w \in Strings /\ Len(w) <= MaxWordLen
  /\ \A w : w \in Texts <=> w \in Strings /\ Len(w) <= MaxTextLen
<1>1. ASSUME NEW n \in Nat, NEW w
      PROVE  w \in BoundedSeq(Alphabet, n) <=> w \in Strings /\ Len(w) <= n
  <2>1. ASSUME w \in BoundedSeq(Alphabet, n) PROVE w \in Strings /\ Len(w) <= n
    <3>1. PICK m \in 0..n : w \in [1..m -> Alphabet]
      BY <2>1 DEF BoundedSeq, SeqOf
    <3>2. m \in Nat /\ m <= n
      OBVIOUS
    <3>3. w \in Seq(Alphabet) /\ Len(w) = m
      BY <3>1, <3>2
    <3> QED BY <3>2, <3>3 DEF Strings
  <2>2. ASSUME w \in Strings, Len(w) <= n PROVE w \in BoundedSeq(Alphabet, n)
    <3>1. Len(w) \in 0..n /\ w \in [1..Len(w) -> Alphabet]
      BY <2>2, LenProperties DEF Strings
    <3> QED BY <3>1 DEF BoundedSeq, SeqOf
  <2> QED BY <2>1, <2>2
<1> QED BY <1>1, ACAssumption DEF Words, Texts

(* At the end of a string, Ends is the suffix relation of the property.    *)
LEMMA SuffixEnds ==
  ASSUME NEW s \in Strings, NEW t \in Strings
  PROVE  IsSuffix(s, t) <=> Ends(s, t, Len(t))
<1> DEFINE a == Reverse(s)
           b == Reverse(t)
<1>1. Len(s) \in Nat /\ Len(t) \in Nat
  BY DEF Strings
<1>2. /\ a \in Seq(Alphabet) /\ Len(a) = Len(s)
      /\ \A i \in 1..Len(s) : a[i] = s[Len(s) - i + 1]
  BY <1>1 DEF Reverse, Strings
<1>3. /\ b \in Seq(Alphabet) /\ Len(b) = Len(t)
      /\ \A i \in 1..Len(t) : b[i] = t[Len(t) - i + 1]
  BY <1>1 DEF Reverse, Strings
<1>4. IsSuffix(s, t) <=> Len(a) <= Len(b) /\ SubSeq(a, 1, Len(a)) = SubSeq(b, 1, Len(a))
  BY DEF IsSuffix, IsPrefix
<1> HIDE DEF a, b
<1>5. SubSeq(a, 1, Len(a)) = a
  BY <1>2, SubSeqFull
<1>6. ASSUME Len(a) <= Len(b)
      PROVE  SubSeq(b, 1, Len(a)) = a <=> \A i \in 1..Len(s) : a[i] = b[i]
  <2>1. \A i \in 1..Len(a) : b[i] \in Alphabet
    BY <1>1, <1>2, <1>3, <1>6
  <2>2. /\ SubSeq(b, 1, Len(a)) \in Seq(Alphabet) /\ Len(SubSeq(b, 1, Len(a))) = Len(a)
        /\ \A i \in 1..Len(a) : SubSeq(b, 1, Len(a))[i] = b[i]
    BY <1>1, <1>2, <1>3, <1>6, <2>1
  <2> QED BY <1>1, <1>2, <2>2, SeqEqual
<1>7. ASSUME Len(s) <= Len(t)
      PROVE  (\A i \in 1..Len(s) : a[i] = b[i])
                <=> \A i \in 1..Len(s) : s[i] = t[Len(t) - Len(s) + i]
  <2>1. ASSUME \A i \in 1..Len(s) : a[i] = b[i], NEW i \in 1..Len(s)
        PROVE  s[i] = t[Len(t) - Len(s) + i]
    <3> DEFINE j == Len(s) - i + 1
    <3>1. j \in 1..Len(s) /\ j \in 1..Len(t) /\ Len(s) - j + 1 = i
          /\ Len(t) - j + 1 = Len(t) - Len(s) + i
      BY <1>1, <1>7
    <3> HIDE DEF j
    <3> QED BY <1>2, <1>3, <2>1, <3>1
  <2>2. ASSUME \A i \in 1..Len(s) : s[i] = t[Len(t) - Len(s) + i], NEW i \in 1..Len(s)
        PROVE  a[i] = b[i]
    <3> DEFINE j == Len(s) - i + 1
    <3>1. j \in 1..Len(s) /\ i \in 1..Len(t) /\ Len(t) - Len(s) + j = Len(t) - i + 1
      BY <1>1, <1>7
    <3>2. a[i] = s[j] /\ b[i] = t[Len(t) - i + 1]
      BY <1>2, <1>3, <3>1
    <3> HIDE DEF j
    <3> QED BY <2>2, <3>1, <3>2
  <2> QED BY <2>1, <2>2
<1> QED BY <1>1, <1>2, <1>3, <1>4, <1>5, <1>6, <1>7 DEF Ends

(* A string is a suffix of itself.                                         *)
LEMMA EndsSelf ==
  ASSUME NEW s \in Strings
  PROVE  Ends(s, s, Len(s))
BY DEF Ends, Strings

(* The empty string is a suffix of everything.                             *)
LEMMA EndsEmpty ==
  ASSUME NEW s, NEW k \in Nat
  PROVE  Ends(<<>>, s, k)
BY DEF Ends

(* A suffix of a suffix is one.                                            *)
LEMMA EndsTrans ==
  ASSUME NEW u \in Strings, NEW v \in Strings, NEW s, NEW k \in Nat,
         Ends(u, v, Len(v)), Ends(v, s, k)
  PROVE  Ends(u, s, k)
<1>1. Len(u) \in Nat /\ Len(v) \in Nat /\ Len(u) <= Len(v) /\ Len(v) <= k
  BY DEF Ends, Strings
<1>2. ASSUME NEW i \in 1..Len(u) PROVE u[i] = s[k - Len(u) + i]
  <2> DEFINE j == Len(v) - Len(u) + i
  <2>1. j \in 1..Len(v) /\ k - Len(v) + j = k - Len(u) + i
    BY <1>1
  <2>2. u[i] = v[j]
    BY DEF Ends
  <2> HIDE DEF j
  <2> QED BY <2>1, <2>2 DEF Ends
<1> QED BY <1>1, <1>2 DEF Ends

(* Of two suffixes the shorter is a suffix of the longer.                  *)
LEMMA EndsCompare ==
  ASSUME NEW u \in Strings, NEW v \in Strings, NEW s, NEW k \in Nat,
         Ends(u, s, k), Ends(v, s, k), Len(u) <= Len(v)
  PROVE  Ends(u, v, Len(v))
<1>1. Len(u) \in Nat /\ Len(v) \in Nat /\ Len(v) <= k
  BY DEF Ends, Strings
<1>2. ASSUME NEW i \in 1..Len(u) PROVE u[i] = v[Len(v) - Len(u) + i]
  <2> DEFINE j == Len(v) - Len(u) + i
  <2>1. j \in 1..Len(v) /\ k - Len(v) + j = k - Len(u) + i
    BY <1>1
  <2>2. u[i] = s[k - Len(u) + i]
    BY DEF Ends
  <2> HIDE DEF j
  <2>3. v[j] = s[k - Len(v) + j]
    BY <2>1 DEF Ends
  <2> QED BY <2>1, <2>2, <2>3 DEF j
<1> QED BY <1>2 DEF Ends

(* Two suffixes of the same length are equal.                              *)
LEMMA EndsEqual ==
  ASSUME NEW u \in Strings, NEW v \in Strings, NEW s, NEW k \in Nat,
         Ends(u, s, k), Ends(v, s, k), Len(u) = Len(v)
  PROVE  u = v
<1>1. \A i \in 1..Len(u) : u[i] = v[i]
  BY DEF Ends
<1> QED BY <1>1, SeqEqual DEF Strings

(* A string that is not empty is its front and its last character.         *)
LEMMA FrontLast ==
  ASSUME NEW v \in Strings, v # <<>>
  PROVE  /\ Front(v) \in Strings /\ Last(v) \in Alphabet
         /\ Len(Front(v)) = Len(v) - 1 /\ Len(v) \in Nat \ {0}
         /\ v = Append(Front(v), Last(v))
         /\ \A i \in 1..Len(v) - 1 : Front(v)[i] = v[i]
<1>1. PICK s \in Seq(Alphabet), c \in Alphabet : v = Append(s, c)
  BY SequenceEmptyOrAppend DEF Strings
<1>2. /\ Len(s) \in Nat /\ Len(v) = Len(s) + 1
      /\ \A i \in 1..Len(s) : v[i] = s[i]
      /\ v[Len(s) + 1] = c
  BY <1>1, AppendProperties
<1>3. Front(v) = s
  <2>1. Len(v) - 1 = Len(s)
    BY <1>2
  <2>2. \A i \in 1..Len(s) : v[i] \in Alphabet
    BY <1>2
  <2>3. /\ SubSeq(v, 1, Len(s)) \in Seq(Alphabet) /\ Len(SubSeq(v, 1, Len(s))) = Len(s)
        /\ \A i \in 1..Len(s) : SubSeq(v, 1, Len(s))[i] = v[i]
    BY <1>2, <2>2
  <2> QED BY <1>2, <2>1, <2>3, SeqEqual DEF Front
<1>4. Last(v) = c
  BY <1>2 DEF Last
<1> QED BY <1>1, <1>2, <1>3, <1>4 DEF Strings

(* Append, taken apart again.                                              *)
LEMMA AppendFront ==
  ASSUME NEW s \in Strings, NEW c \in Alphabet
  PROVE  /\ Append(s, c) \in Strings /\ Append(s, c) # <<>>
         /\ Len(Append(s, c)) = Len(s) + 1 /\ Len(s) \in Nat
         /\ Front(Append(s, c)) = s /\ Last(Append(s, c)) = c
<1>1. /\ Append(s, c) \in Strings /\ Append(s, c) # <<>>
      /\ Len(Append(s, c)) = Len(s) + 1 /\ Len(s) \in Nat
  BY AppendProperties DEF Strings
<1>2. /\ Front(Append(s, c)) \in Strings /\ Last(Append(s, c)) \in Alphabet
      /\ Append(s, c) = Append(Front(Append(s, c)), Last(Append(s, c)))
  BY <1>1, FrontLast
<1> QED BY <1>1, <1>2, AppendInjective DEF Strings

(* A suffix, extended by the next character, is a suffix of one character  *)
(* more.                                                                   *)
LEMMA EndsAppend ==
  ASSUME NEW v \in Strings, NEW s, NEW k \in Nat, s[k + 1] \in Alphabet,
         Ends(v, s, k)
  PROVE  Ends(Append(v, s[k + 1]), s, k + 1)
<1> DEFINE w == Append(v, s[k + 1])
<1>1. /\ Len(v) \in Nat /\ Len(w) = Len(v) + 1 /\ Len(v) <= k
      /\ \A i \in 1..Len(v) : w[i] = v[i]
      /\ w[Len(v) + 1] = s[k + 1]
  BY AppendProperties DEF Ends, Strings
<1> HIDE DEF w
<1>2. ASSUME NEW i \in 1..Len(w) PROVE w[i] = s[k + 1 - Len(w) + i]
  <2>1. CASE i \in 1..Len(v)
    <3>1. k - Len(v) + i = k + 1 - Len(w) + i
      BY <1>1
    <3> QED BY <1>1, <2>1, <3>1 DEF Ends
  <2>2. CASE i = Len(v) + 1
    <3>1. k + 1 - Len(w) + i = k + 1
      BY <1>1, <2>2
    <3> QED BY <1>1, <2>2, <3>1
  <2> QED BY <1>1, <2>1, <2>2
<1>3. Len(w) <= k + 1
  BY <1>1
<1> QED BY <1>2, <1>3 DEF Ends, w

(* The front of a suffix is a suffix of one character less.                *)
LEMMA EndsFront ==
  ASSUME NEW v \in Strings, NEW s, NEW k \in Nat, v # <<>>, Ends(v, s, k + 1)
  PROVE  /\ Ends(Front(v), s, k)
         /\ Last(v) = s[k + 1]
<1>1. /\ Len(v) \in Nat \ {0} /\ Len(Front(v)) = Len(v) - 1
      /\ \A i \in 1..Len(v) - 1 : Front(v)[i] = v[i]
  BY FrontLast
<1>2. Last(v) = s[k + 1]
  <2>1. Len(v) \in 1..Len(v) /\ k + 1 - Len(v) + Len(v) = k + 1
    BY <1>1
  <2> QED BY <2>1 DEF Ends, Last
<1>3. ASSUME NEW i \in 1..Len(Front(v)) PROVE Front(v)[i] = s[k - Len(Front(v)) + i]
  <2>1. i \in 1..Len(v) /\ i \in 1..Len(v) - 1
        /\ k - Len(Front(v)) + i = k + 1 - Len(v) + i
    BY <1>1
  <2> QED BY <1>1, <2>1 DEF Ends
<1>4. Len(Front(v)) <= k
  BY <1>1 DEF Ends
<1> QED BY <1>2, <1>3, <1>4 DEF Ends

(* Up to the length of s, the character after s does not matter.           *)
LEMMA EndsPrefix ==
  ASSUME NEW v \in Strings, NEW s \in Strings, NEW c \in Alphabet
  PROVE  Ends(v, Append(s, c), Len(s)) <=> Ends(v, s, Len(s))
<1>1. /\ Len(v) \in Nat /\ Len(s) \in Nat
      /\ \A i \in 1..Len(s) : Append(s, c)[i] = s[i]
  BY AppendProperties DEF Strings
<1>2. ASSUME Len(v) <= Len(s), NEW i \in 1..Len(v)
      PROVE  Append(s, c)[Len(s) - Len(v) + i] = s[Len(s) - Len(v) + i]
  <2>1. Len(s) - Len(v) + i \in 1..Len(s)
    BY <1>1, <1>2
  <2> QED BY <1>1, <2>1
<1> QED BY <1>2 DEF Ends

(* A stretch of s that ends at b is a suffix of its first b characters,    *)
LEMMA SubSeqEnds ==
  ASSUME NEW s \in Strings, NEW a \in 1..Len(s), NEW b \in a..Len(s)
  PROVE  /\ SubSeq(s, a, b) \in Strings
         /\ Len(SubSeq(s, a, b)) = b - a + 1
         /\ Ends(SubSeq(s, a, b), s, b)
<1>1. Len(s) \in Nat /\ a \in Nat /\ b \in Nat /\ 1 <= a /\ a <= b /\ b <= Len(s)
  BY DEF Strings
<1>2. \A i \in a..b : s[i] \in Alphabet
  BY <1>1 DEF Strings
<1>3. /\ SubSeq(s, a, b) \in Seq(Alphabet)
      /\ Len(SubSeq(s, a, b)) = b - a + 1
      /\ \A i \in 1..b - a + 1 : SubSeq(s, a, b)[i] = s[a + i - 1]
  BY <1>1, <1>2, SubSeqProperties
<1>4. ASSUME NEW i \in 1..Len(SubSeq(s, a, b))
      PROVE  SubSeq(s, a, b)[i] = s[b - Len(SubSeq(s, a, b)) + i]
  <2>1. b - Len(SubSeq(s, a, b)) + i = a + i - 1
    BY <1>1, <1>3
  <2> QED BY <1>3, <2>1
<1> QED BY <1>1, <1>3, <1>4 DEF Ends, Strings

(* and such a suffix is the stretch that its length says.                  *)
LEMMA EndsSubSeq ==
  ASSUME NEW s \in Strings, NEW v \in Strings, v # <<>>,
         NEW b \in 0..Len(s), Ends(v, s, b)
  PROVE  /\ b - Len(v) + 1 \in 1..b
         /\ v = SubSeq(s, b - Len(v) + 1, b)
<1>1. Len(s) \in Nat /\ Len(v) \in Nat \ {0} /\ Len(v) <= b
  BY FrontLast DEF Ends, Strings
<1> DEFINE a == b - Len(v) + 1
<1>2. a \in 1..Len(s) /\ b \in a..Len(s) /\ a \in 1..b /\ b - a + 1 = Len(v) /\ b \in Nat
  BY <1>1
<1> HIDE DEF a
<1>3. /\ SubSeq(s, a, b) \in Strings
      /\ Len(SubSeq(s, a, b)) = Len(v)
      /\ Ends(SubSeq(s, a, b), s, b)
  BY <1>2, SubSeqEnds
<1>4. v = SubSeq(s, a, b)
  BY <1>2, <1>3, EndsEqual
<1> QED BY <1>2, <1>4 DEF a

-----------------------------------------------------------------------------
(***************************************************************************)
(* The word filter: the inductive invariant                                *)
(***************************************************************************)

(* A proper suffix.                                                        *)
Proper(v, s) == Len(v) < Len(s) /\ Ends(v, s, Len(s))

(* The trie holds the paths to the words, and their lengths.               *)
TrieInv ==
  /\ words \subseteq nodes \ {Root}
  /\ \A n \in nodes \ {Root} : Front(n) \in nodes
  /\ \A n \in nodes : length[n] = IF n \in words THEN Len(n) ELSE 0

(* A fail pointer, once set, is the longest proper suffix in the trie.     *)
FailInv ==
  \A n \in nodes : fail[n] # Null =>
     /\ Proper(fail[n], n)
     /\ \A v \in nodes : Proper(v, n) => Len(v) <= Len(fail[n])

(* build() has reached n.                                                  *)
Seen(n) == n = Root \/ fail[n] # Null

Queued(n) == \E i \in 1..Len(queue) : queue[i] = n

(* Before build() nothing is set; filter() comes after it, and it has      *)
(* reached every node.                                                     *)
PhaseInv ==
  /\ phase = "insert" => /\ \A n \in nodes : fail[n] = Null
                         /\ todo = {} /\ node = Root
  /\ phase \in {"insert", "build", "walk"} => text = <<>> /\ result = <<>>
  /\ phase = "ready" => ptr = Root
  /\ phase \in {"ready", "filter"} => \A n \in nodes : Seen(n)

(* build() is breadth first: the queue is sorted by depth and never holds  *)
(* more than two depths.  What it has not reached hangs below the queue or *)
(* is a child that is still to do.                                         *)
QueueInv ==
  phase \in {"build", "walk"} =>
    /\ Seen(node)
    /\ todo \subseteq Children(node)
    /\ \A i \in 1..Len(queue) : /\ Seen(queue[i])
                                /\ Len(node) <= Len(queue[i])
                                /\ Len(queue[i]) <= Len(node) + 1
    /\ \A i, j \in 1..Len(queue) : i <= j => Len(queue[i]) <= Len(queue[j])
    /\ \A n \in nodes \ {Root} :
          Seen(Front(n)) => Seen(n) \/ Queued(Front(n)) \/ n \in todo

(* The inner loop of build() has passed no suffix of node that has a child *)
(* for the character.                                                      *)
WalkInv ==
  phase = "walk" =>
    /\ node # Root /\ child \in todo
    /\ ptr # Null => Proper(ptr, node)
    /\ \A v \in nodes : Proper(v, node) /\ Append(v, Last(child)) \in nodes
                           => ptr # Null /\ Len(v) <= Len(ptr)

(* filter() stands at a suffix of what it has read, and has passed only    *)
(* those that the next character cannot extend.                            *)
NodeInv ==
  phase = "filter" =>
    /\ Ends(node, text, pos) /\ Ends(ptr, text, pos)
    /\ \A v \in nodes : Ends(v, text, pos) =>
          \/ Len(v) <= Len(node)
          \/ ptr = Root /\ pos < Len(text) /\ Append(v, text[pos + 1]) \notin nodes

(* What it has collected are occurrences of words, and all of them but the *)
(* ones that end here and that temp has not come to.                       *)
MatchInv ==
  phase = "filter" =>
    /\ \A m \in matches : m[1] <= m[2] /\ m[2] <= pos /\ SubSeq(text, m[1], m[2]) \in words
    /\ \A b \in 1..pos : \A a \in 1..b :
          SubSeq(text, a, b) \in words =>
             <<a, b>> \in matches \/ (b = pos /\ b - a + 1 <= Len(ptr))

ACInv ==
  /\ ACTypeOK /\ TrieInv /\ FailInv /\ PhaseInv /\ QueueInv /\ WalkInv
  /\ NodeInv /\ MatchInv /\ MasksExactlyTheWords

(* A set of natural numbers has a least element.                           *)
LEMMA MinNat ==
  ASSUME NEW T \in SUBSET Nat, T # {}
  PROVE  \E x \in T : \A y \in T : x <= y
<1>1. IsWellFoundedOn(OpToRel(<, Nat), Nat)
  BY NatLessThanWellFounded
<1>2. PICK x \in T : \A y \in T : ~ (<<y, x>> \in OpToRel(<, Nat))
  BY <1>1, WFMin
<1>3. ASSUME NEW y \in T, y < x PROVE FALSE
  <2>1. <<y, x>> \in OpToRel(<, Nat)
    BY <1>3 DEF OpToRel
  <2> QED BY <1>2, <2>1
<1> QED BY <1>3

(* What the types say of a node.                                           *)
LEMMA NodeType ==
  ASSUME ACTypeOK
  PROVE  /\ Root \in nodes
         /\ \A n \in nodes : /\ n \in Strings /\ n \in Words
                             /\ Len(n) \in Nat /\ Len(n) <= MaxWordLen
                             /\ n # Null
                             /\ Len(n) = 0 <=> n = Root
         /\ \A n \in nodes : fail[n] # Null => fail[n] \in nodes
         /\ text \in Strings /\ Len(text) \in Nat /\ pos \in Nat /\ pos <= Len(text)
<1>1. ASSUME NEW n \in nodes
      PROVE  /\ n \in Strings /\ n \in Words
             /\ Len(n) \in Nat /\ Len(n) <= MaxWordLen
             /\ n # Null
             /\ Len(n) = 0 <=> n = Root
  <2>1. n \in Words
    BY DEF ACTypeOK
  <2>2. n \in Strings /\ Len(n) <= MaxWordLen
    BY <2>1, WordType
  <2>3. Len(n) = 0 <=> n = Root
    BY <2>2, EmptySeq DEF Root, Strings
  <2> QED BY <2>1, <2>2, <2>3, ACAssumption DEF Strings
<1>2. text \in Strings /\ Len(text) \in Nat
  BY WordType DEF ACTypeOK, Strings
<1>3. pos \in 0..Len(text)
  BY DEF ACTypeOK
<1>4. Root \in nodes /\ fail \in [nodes -> nodes \cup {Null}]
  BY DEF ACTypeOK
<1> QED BY <1>1, <1>2, <1>3, <1>4

(* A proper suffix of a proper suffix is one.                              *)
LEMMA ProperTrans ==
  ASSUME NEW u \in Strings, NEW v \in Strings, NEW s \in Strings,
         Proper(u, v), Proper(v, s)
  PROVE  Proper(u, s)
<1>1. Len(u) \in Nat /\ Len(v) \in Nat /\ Len(s) \in Nat
  BY DEF Strings
<1>2. Ends(u, s, Len(s))
  BY <1>1, EndsTrans DEF Proper
<1> QED BY <1>1, <1>2 DEF Proper

(* Of two different suffixes the shorter is a proper suffix of the longer. *)
LEMMA ProperCompare ==
  ASSUME NEW u \in Strings, NEW v \in Strings, NEW s, NEW k \in Nat,
         Ends(u, s, k), Ends(v, s, k), Len(u) <= Len(v), u # v
  PROVE  Proper(u, v)
<1>1. Len(u) \in Nat /\ Len(v) \in Nat
  BY DEF Strings
<1>2. Len(u) # Len(v)
  BY EndsEqual
<1>3. Ends(u, v, Len(v))
  BY EndsCompare
<1> QED BY <1>1, <1>2, <1>3 DEF Proper

-----------------------------------------------------------------------------
(***************************************************************************)
(* The word filter: every step keeps the invariant                         *)
(***************************************************************************)

(* insert(): the prefixes of a word are words, the word and the root are   *)
(* among them, and so is the prefix before each.                           *)
LEMMA PrefixFacts ==
  ASSUME NEW w \in Words
  PROVE  /\ Prefixes(w) \subseteq Words
         /\ w \in Prefixes(w)
         /\ \A n \in Prefixes(w) : n # Root => Front(n) \in Prefixes(w)
<1>1. w \in Strings /\ Len(w) \in Nat /\ Len(w) <= MaxWordLen /\ MaxWordLen \in Nat
  BY WordType, ACAssumption DEF Strings
<1>2. ASSUME NEW l \in 0..Len(w)
      PROVE  /\ SubSeq(w, 1, l) \in Strings /\ Len(SubSeq(w, 1, l)) = l
             /\ \A i \in 1..l : SubSeq(w, 1, l)[i] = w[i]
  <2>1. l \in Nat /\ \A i \in 1..l : w[i] \in Alphabet
    BY <1>1 DEF Strings
  <2> QED BY <1>1, <2>1 DEF Strings
<1>3. Prefixes(w) \subseteq Words
  <2> SUFFICES ASSUME NEW l \in 0..Len(w) PROVE SubSeq(w, 1, l) \in Words
    BY DEF Prefixes
  <2>1. l <= MaxWordLen
    BY <1>1
  <2> QED BY <1>2, <2>1, WordType
<1>4. w \in Prefixes(w)
  <2>1. SubSeq(w, 1, Len(w)) = w
    BY <1>1, SubSeqFull DEF Strings
  <2>2. Len(w) \in 0..Len(w)
    BY <1>1
  <2> QED BY <2>1, <2>2 DEF Prefixes
<1>5. ASSUME NEW n \in Prefixes(w), n # Root PROVE Front(n) \in Prefixes(w)
  <2>1. PICK l \in 0..Len(w) : n = SubSeq(w, 1, l)
    BY DEF Prefixes
  <2>2. /\ n \in Strings /\ Len(n) = l
        /\ \A i \in 1..l : n[i] = w[i]
    BY <1>2, <2>1
  <2>3. /\ Front(n) \in Strings /\ Len(Front(n)) = l - 1
        /\ \A i \in 1..l - 1 : Front(n)[i] = n[i]
        /\ l \in Nat \ {0}
    BY <1>5, <2>2, FrontLast DEF Root
  <2>4. l - 1 \in 0..Len(w)
    BY <1>1, <2>3
  <2> DEFINE p == SubSeq(w, 1, l - 1)
  <2>5. /\ p \in Strings /\ Len(p) = l - 1
        /\ \A i \in 1..l - 1 : p[i] = w[i]
    BY <1>2, <2>4
  <2> HIDE DEF p
  <2>6. \A i \in 1..Len(p) : Front(n)[i] = p[i]
    <3> SUFFICES ASSUME NEW i \in 1..Len(p) PROVE Front(n)[i] = p[i]
      OBVIOUS
    <3>1. i \in 1..l - 1 /\ i \in 1..l
      BY <2>3, <2>5
    <3> QED BY <2>2, <2>3, <2>5, <3>1
  <2>7. Front(n) = p
    BY <2>3, <2>5, <2>6, SeqEqual DEF Strings
  <2> QED BY <2>4, <2>7 DEF Prefixes, p
<1> QED BY <1>3, <1>4, <1>5

(* insert() grows the trie by the path of a word; no fail pointer is set   *)
(* yet.                                                                    *)
LEMMA InsertInv ==
  ASSUME ACInv, NEW w \in Words, Insert(w)
  PROVE  ACInv'
<1> USE DEF ACInv
<1>1. /\ Prefixes(w) \subseteq Words /\ w \in Prefixes(w)
      /\ \A n \in Prefixes(w) : n # Root => Front(n) \in Prefixes(w)
  BY PrefixFacts
<1>2. /\ phase = "insert" /\ w # Root
      /\ words' = words \cup {w} /\ nodes' = nodes \cup Prefixes(w)
      /\ length' = [n \in nodes' |-> IF n = w THEN Len(w)
                                     ELSE IF n \in nodes THEN length[n] ELSE 0]
      /\ fail' = [n \in nodes' |-> IF n \in nodes THEN fail[n] ELSE Null]
      /\ phase' = phase /\ queue' = queue /\ todo' = todo /\ child' = child
      /\ node' = node /\ ptr' = ptr /\ text' = text /\ pos' = pos
      /\ matches' = matches /\ result' = result
  BY DEF Insert, buildVars, filterVars, Root
<1>3. \A n \in nodes : fail[n] = Null
  BY <1>2 DEF PhaseInv
<1>4. \A n \in nodes' : fail'[n] = Null
  BY <1>2, <1>3
<1>5. Len(w) \in 0..MaxWordLen
  BY WordType, ACAssumption DEF Strings
<1>6. ACTypeOK'
  <2>1. words' \subseteq Words /\ Root \in nodes' /\ nodes' \subseteq Words
    BY <1>1, <1>2 DEF ACTypeOK
  <2>2. length' \in [nodes' -> 0..MaxWordLen]
    <3>1. length \in [nodes -> 0..MaxWordLen] /\ 0 \in 0..MaxWordLen
      BY ACAssumption DEF ACTypeOK
    <3>2. ASSUME NEW n \in nodes'
          PROVE  (IF n = w THEN Len(w) ELSE IF n \in nodes THEN length[n] ELSE 0) \in 0..MaxWordLen
      BY <1>5, <3>1
    <3> QED BY <1>2, <3>2
  <2>3. fail' \in [nodes' -> nodes' \cup {Null}]
    BY <1>2, <1>3
  <2>4. queue' \in Seq(nodes')
    <3>1. queue \in Seq(nodes) /\ nodes \subseteq nodes'
      BY <1>2 DEF ACTypeOK
    <3> QED BY <1>2, <3>1, SeqMonotonic
  <2>5. /\ phase' \in {"insert", "build", "walk", "ready", "filter"}
        /\ todo' \subseteq nodes' /\ child' \in nodes' /\ node' \in nodes'
        /\ ptr' \in nodes' \cup {Null} /\ (phase' = "filter" => ptr' # Null)
    BY <1>2 DEF ACTypeOK
  <2>6. /\ text' \in Texts /\ pos' \in 0..Len(text')
        /\ matches' \subseteq (1..Len(text')) \X (1..Len(text'))
        /\ result' \in Seq(Alphabet \cup {Star})
    BY <1>2 DEF ACTypeOK
  <2> QED BY <2>1, <2>2, <2>3, <2>4, <2>5, <2>6 DEF ACTypeOK
<1>7. TrieInv'
  <2>1. words' \subseteq nodes' \ {Root}
    BY <1>1, <1>2 DEF TrieInv
  <2>2. \A n \in nodes' \ {Root} : Front(n) \in nodes'
    BY <1>1, <1>2 DEF TrieInv
  <2>3. ASSUME NEW n \in nodes'
        PROVE  length'[n] = IF n \in words' THEN Len(n) ELSE 0
    <3>1. CASE n = w
      BY <1>2, <3>1
    <3>2. CASE n # w /\ n \in nodes
      BY <1>2, <3>2 DEF TrieInv
    <3>3. CASE n # w /\ n \notin nodes
      BY <1>2, <3>3 DEF TrieInv
    <3> QED BY <3>1, <3>2, <3>3
  <2> QED BY <2>1, <2>2, <2>3 DEF TrieInv
<1>8. FailInv'
  BY <1>4 DEF FailInv
<1>9. PhaseInv'
  BY <1>2, <1>4 DEF PhaseInv
<1>10. QueueInv' /\ WalkInv' /\ NodeInv' /\ MatchInv' /\ MasksExactlyTheWords'
  BY <1>2 DEF QueueInv, WalkInv, NodeInv, MatchInv, MasksExactlyTheWords
<1> QED BY <1>6, <1>7, <1>8, <1>9, <1>10

(* A set of nodes that holds the root and, with the parent, every node of  *)
(* length up to l, holds all the nodes of length up to l.                  *)
LEMMA TrieInduction ==
  ASSUME ACTypeOK, TrieInv, NEW l \in Nat, NEW P \in SUBSET nodes, Root \in P,
         \A n \in nodes \ {Root} : Len(n) <= l /\ Front(n) \in P => n \in P
  PROVE  \A n \in nodes : Len(n) <= l => n \in P
<1> SUFFICES ASSUME NEW n \in nodes, Len(n) <= l, n \notin P PROVE FALSE
  OBVIOUS
<1> DEFINE B == {m \in nodes : Len(m) <= l /\ m \notin P}
           T == {k \in Nat : \E m \in B : Len(m) = k}
<1>1. Len(n) \in T
  BY NodeType
<1>2. PICK k \in T : \A y \in T : k <= y
  BY <1>1, MinNat
<1>3. PICK m \in B : Len(m) = k
  BY <1>2
<1>4. m \in nodes /\ m # Root /\ Len(m) <= l /\ m \notin P
  BY <1>3
<1>5. /\ m \in Strings /\ Len(Front(m)) = Len(m) - 1 /\ Len(m) \in Nat \ {0}
      /\ Front(m) \in nodes
  BY <1>4, NodeType, FrontLast DEF Root, TrieInv
<1>6. Front(m) \notin P
  BY <1>4
<1>7. Len(Front(m)) \in Nat /\ Len(Front(m)) < Len(m) /\ Len(Front(m)) <= l
  BY <1>4, <1>5
<1>8. Front(m) \in B
  BY <1>5, <1>6, <1>7
<1>9. Len(Front(m)) \in T
  BY <1>7, <1>8
<1> HIDE DEF T, B
<1>10. Len(m) <= Len(Front(m))
  BY <1>2, <1>3, <1>9
<1> QED BY <1>5, <1>7, <1>10

(* build() has reached every node that is not deeper than the one it is    *)
(* at; and every node, when nothing is left to do.                         *)
LEMMA SeenAbove ==
  ASSUME ACInv, phase \in {"build", "walk"}
  PROVE  /\ \A n \in nodes : Len(n) <= Len(node) => Seen(n)
         /\ todo = {} /\ queue = <<>> => \A n \in nodes : Seen(n)
<1> USE DEF ACInv
<1> DEFINE P == {n \in nodes : Seen(n)}
<1>1. P \in SUBSET nodes /\ Root \in P
  BY NodeType DEF Seen
<1>2. node \in nodes /\ Len(node) \in Nat
  BY NodeType DEF ACTypeOK
<1>3. ASSUME NEW n \in nodes \ {Root}, Len(n) <= Len(node), Front(n) \in P
      PROVE  n \in P
  <2>1. Seen(n) \/ Queued(Front(n)) \/ n \in todo
    BY <1>3 DEF QueueInv
  <2>2. Len(Front(n)) = Len(n) - 1 /\ Len(n) \in Nat
    BY NodeType, FrontLast DEF Root
  <2>3. ~ Queued(Front(n))
    <3> SUFFICES ASSUME NEW i \in 1..Len(queue), queue[i] = Front(n) PROVE FALSE
      BY DEF Queued
    <3>1. Len(node) <= Len(Front(n))
      BY DEF QueueInv
    <3> QED BY <1>2, <1>3, <2>2, <3>1
  <2>4. n \notin todo
    <3> SUFFICES ASSUME n \in todo PROVE FALSE
      OBVIOUS
    <3>1. Front(n) = node
      BY DEF QueueInv, Children
    <3> QED BY <1>2, <1>3, <2>2, <3>1
  <2> QED BY <2>1, <2>3, <2>4
<1>4. \A n \in nodes : Len(n) <= Len(node) => n \in P
  <2> HIDE DEF P
  <2> QED BY <1>1, <1>2, <1>3, TrieInduction
<1>5. ASSUME todo = {}, queue = <<>>, NEW n \in nodes PROVE n \in P
  <2>1. ASSUME NEW m \in nodes \ {Root}, Front(m) \in P PROVE m \in P
    <3>1. Seen(m) \/ Queued(Front(m)) \/ m \in todo
      BY <2>1 DEF QueueInv
    <3>2. ~ Queued(Front(m))
      BY <1>5 DEF Queued
    <3> QED BY <1>5, <3>1, <3>2
  <2>2. Len(n) \in Nat
    BY NodeType
  <2> HIDE DEF P
  <2>3. \A m \in nodes : Len(m) <= Len(n) => m \in P
    BY <1>1, <2>1, <2>2, TrieInduction
  <2> QED BY <2>2, <2>3
<1> QED BY <1>4, <1>5

(* build() starts with the root in its queue.                              *)
LEMMA StartBuildInv ==
  ASSUME ACInv, StartBuild
  PROVE  ACInv'
<1> USE DEF ACInv
<1>1. /\ phase = "insert" /\ phase' = "build"
      /\ fail' = [fail EXCEPT ![Root] = Null] /\ queue' = <<Root>>
      /\ words' = words /\ nodes' = nodes /\ length' = length
      /\ todo' = todo /\ child' = child /\ node' = node /\ ptr' = ptr
      /\ text' = text /\ pos' = pos /\ matches' = matches /\ result' = result
  BY DEF StartBuild, trieVars, filterVars
<1>2. /\ \A n \in nodes : fail[n] = Null
      /\ todo = {} /\ node = Root
  BY <1>1 DEF PhaseInv
<1>3. fail' = fail
  BY <1>1, <1>2, NodeType DEF ACTypeOK
<1>4. /\ queue' \in Seq(nodes) /\ Len(queue') = 1 /\ queue'[1] = Root
  BY <1>1, NodeType
<1>5. ACTypeOK'
  <2>1. words' \subseteq Words /\ Root \in nodes' /\ nodes' \subseteq Words
    BY <1>1 DEF ACTypeOK
  <2>2. length' \in [nodes' -> 0..MaxWordLen] /\ fail' \in [nodes' -> nodes' \cup {Null}]
    BY <1>1, <1>3 DEF ACTypeOK
  <2>3. /\ phase' \in {"insert", "build", "walk", "ready", "filter"}
        /\ queue' \in Seq(nodes')
        /\ todo' \subseteq nodes' /\ child' \in nodes' /\ node' \in nodes'
        /\ ptr' \in nodes' \cup {Null} /\ (phase' = "filter" => ptr' # Null)
    BY <1>1, <1>4 DEF ACTypeOK
  <2>4. /\ text' \in Texts /\ pos' \in 0..Len(text')
        /\ matches' \subseteq (1..Len(text')) \X (1..Len(text'))
        /\ result' \in Seq(Alphabet \cup {Star})
    BY <1>1 DEF ACTypeOK
  <2> QED BY <2>1, <2>2, <2>3, <2>4 DEF ACTypeOK
<1>6. TrieInv'
  BY <1>1 DEF TrieInv
<1>7. FailInv'
  BY <1>1, <1>2, <1>3 DEF FailInv
<1>8. PhaseInv'
  BY <1>1 DEF PhaseInv
<1>9. QueueInv'
  <2>1. Seen(node)' /\ todo' \subseteq Children(node)'
    BY <1>1, <1>2 DEF Seen
  <2>2. Len(Root) = 0 /\ 1..Len(queue') = {1}
    BY <1>4 DEF Root
  <2>3. ASSUME NEW i \in 1..Len(queue')
        PROVE  /\ Seen(queue[i])'
               /\ Len(node') <= Len(queue'[i])
               /\ Len(queue'[i]) <= Len(node') + 1
    <3>1. queue'[i] = Root
      BY <1>4, <2>2
    <3> QED BY <1>1, <1>2, <2>2, <3>1 DEF Seen
  <2>4. \A i, j \in 1..Len(queue') : i <= j => Len(queue'[i]) <= Len(queue'[j])
    BY <1>4, <2>2
  <2>5. ASSUME NEW n \in nodes' \ {Root}, Seen(Front(n))'
        PROVE  Queued(Front(n))'
    <3>1. Front(n) \in nodes
      BY <1>1 DEF TrieInv
    <3>2. Front(n) = Root
      BY <1>2, <1>3, <2>5, <3>1 DEF Seen
    <3> QED BY <1>4, <2>2, <3>2 DEF Queued
  <2> QED BY <2>1, <2>3, <2>4, <2>5 DEF QueueInv
<1>10. WalkInv' /\ NodeInv' /\ MatchInv' /\ MasksExactlyTheWords'
  BY <1>1 DEF WalkInv, NodeInv, MatchInv, MasksExactlyTheWords
<1> QED BY <1>5, <1>6, <1>7, <1>8, <1>9, <1>10

(* The next node is at least as deep, and what was queued before stays in  *)
(* order.                                                                  *)
LEMMA BuildNodeInv ==
  ASSUME ACInv, BuildNode
  PROVE  ACInv'
<1> USE DEF ACInv
<1>1. /\ phase = "build" /\ phase' = "build"
      /\ todo = {} /\ queue # <<>>
      /\ node' = Head(queue) /\ queue' = Tail(queue) /\ todo' = Children(Head(queue))
      /\ words' = words /\ nodes' = nodes /\ length' = length /\ fail' = fail
      /\ child' = child /\ ptr' = ptr
      /\ text' = text /\ pos' = pos /\ matches' = matches /\ result' = result
  BY DEF BuildNode, trieVars, filterVars
<1>2. queue \in Seq(nodes)
  BY DEF ACTypeOK
<1>3. /\ queue' \in Seq(nodes) /\ Len(queue) \in Nat \ {0} /\ Len(queue') = Len(queue) - 1
      /\ \A i \in 1..Len(queue') : queue'[i] = queue[i + 1]
      /\ node' = queue[1] /\ node' \in nodes
  BY <1>1, <1>2, HeadTailProperties, EmptySeq
<1>4. 1 \in 1..Len(queue) /\ \A i \in 1..Len(queue') : i + 1 \in 1..Len(queue)
  BY <1>3
<1>5. ACTypeOK'
  <2>1. words' \subseteq Words /\ Root \in nodes' /\ nodes' \subseteq Words
    BY <1>1 DEF ACTypeOK
  <2>2. length' \in [nodes' -> 0..MaxWordLen] /\ fail' \in [nodes' -> nodes' \cup {Null}]
    BY <1>1 DEF ACTypeOK
  <2>3. /\ phase' \in {"insert", "build", "walk", "ready", "filter"}
        /\ queue' \in Seq(nodes')
        /\ todo' \subseteq nodes' /\ child' \in nodes' /\ node' \in nodes'
        /\ ptr' \in nodes' \cup {Null} /\ (phase' = "filter" => ptr' # Null)
    BY <1>1, <1>3 DEF ACTypeOK, Children
  <2>4. /\ text' \in Texts /\ pos' \in 0..Len(text')
        /\ matches' \subseteq (1..Len(text')) \X (1..Len(text'))
        /\ result' \in Seq(Alphabet \cup {Star})
    BY <1>1 DEF ACTypeOK
  <2> QED BY <2>1, <2>2, <2>3, <2>4 DEF ACTypeOK
<1>6. TrieInv' /\ FailInv' /\ PhaseInv'
  BY <1>1 DEF TrieInv, FailInv, PhaseInv
<1>7. QueueInv'
  <2>1. \A n : Seen(n)' <=> Seen(n)
    BY <1>1 DEF Seen
  <2>2. /\ \A i \in 1..Len(queue) : /\ Seen(queue[i])
                                    /\ Len(node) <= Len(queue[i])
                                    /\ Len(queue[i]) <= Len(node) + 1
        /\ \A i, j \in 1..Len(queue) : i <= j => Len(queue[i]) <= Len(queue[j])
    BY <1>1 DEF QueueInv
  <2>3. Seen(node)' /\ todo' \subseteq Children(node)'
    BY <1>1, <1>3, <1>4, <2>1, <2>2 DEF Children
  <2>4. ASSUME NEW i \in 1..Len(queue')
        PROVE  /\ Seen(queue[i])'
               /\ Len(node') <= Len(queue'[i])
               /\ Len(queue'[i]) <= Len(node') + 1
    <3>1. i + 1 \in 1..Len(queue) /\ 1 <= i + 1 /\ queue'[i] = queue[i + 1]
      BY <1>3, <1>4
    <3>2. /\ Seen(queue[i + 1])
          /\ Len(queue[1]) <= Len(queue[i + 1])
          /\ Len(node) <= Len(queue[1])
          /\ Len(queue[i + 1]) <= Len(node) + 1
      BY <1>4, <2>2, <3>1
    <3>3. Len(queue[1]) \in Nat /\ Len(node) \in Nat /\ Len(queue[i + 1]) \in Nat
      BY <1>2, <1>3, <3>1, NodeType, ElementOfSeq DEF ACTypeOK
    <3>4. Len(queue[i + 1]) <= Len(queue[1]) + 1
      BY <3>2, <3>3
    <3> QED BY <1>3, <2>1, <3>1, <3>2, <3>4
  <2>5. ASSUME NEW i \in 1..Len(queue'), NEW j \in 1..Len(queue'), i <= j
        PROVE  Len(queue'[i]) <= Len(queue'[j])
    <3>1. /\ i + 1 \in 1..Len(queue) /\ j + 1 \in 1..Len(queue) /\ i + 1 <= j + 1
          /\ queue'[i] = queue[i + 1] /\ queue'[j] = queue[j + 1]
      BY <1>3, <1>4, <2>5
    <3> QED BY <2>2, <3>1
  <2>6. ASSUME NEW n \in nodes' \ {Root}, Seen(Front(n))'
        PROVE  Seen(n)' \/ Queued(Front(n))' \/ n \in todo'
    <3>1. Seen(n) \/ Queued(Front(n))
      BY <1>1, <2>1, <2>6 DEF QueueInv
    <3>2. ASSUME NEW i \in 1..Len(queue), queue[i] = Front(n)
          PROVE  Queued(Front(n))' \/ n \in todo'
      <4>1. CASE i = 1
        BY <1>1, <1>3, <3>2, <4>1 DEF Children
      <4>2. CASE i # 1
        <5>1. i - 1 \in 1..Len(queue') /\ (i - 1) + 1 = i
          BY <1>3, <4>2
        <5>2. queue'[i - 1] = Front(n)
          BY <1>3, <3>2, <5>1
        <5> QED BY <5>1, <5>2 DEF Queued
      <4> QED BY <4>1, <4>2
    <3> QED BY <2>1, <3>1, <3>2 DEF Queued
  <2> QED BY <2>3, <2>4, <2>5, <2>6 DEF QueueInv
<1>8. WalkInv' /\ NodeInv' /\ MatchInv' /\ MasksExactlyTheWords'
  BY <1>1 DEF WalkInv, NodeInv, MatchInv, MasksExactlyTheWords
<1> QED BY <1>5, <1>6, <1>7, <1>8

(* A child gets the right fail pointer.                                    *)
LEMMA SetFailInv ==
  ASSUME ACInv, phase \in {"build", "walk"},
         NEW c \in todo, NEW f \in nodes, Proper(f, c),
         \A v \in nodes : Proper(v, c) => Len(v) <= Len(f),
         SetFail(c, f)
  PROVE  ACInv'
<1> USE DEF ACInv
<1>1. /\ phase' = "build"
      /\ fail' = [fail EXCEPT ![c] = f]
      /\ queue' = Append(queue, c) /\ todo' = todo \ {c}
      /\ words' = words /\ nodes' = nodes /\ length' = length
      /\ child' = child /\ node' = node /\ ptr' = ptr
      /\ text' = text /\ pos' = pos /\ matches' = matches /\ result' = result
  BY DEF SetFail, trieVars, filterVars
<1>2. /\ queue \in Seq(nodes) /\ fail \in [nodes -> nodes \cup {Null}]
      /\ node \in nodes /\ todo \subseteq nodes
  BY DEF ACTypeOK
<1>3. c \in nodes /\ c # Root /\ Front(c) = node
  BY DEF QueueInv, Children
<1>4. /\ queue' \in Seq(nodes) /\ Len(queue) \in Nat /\ Len(queue') = Len(queue) + 1
      /\ \A i \in 1..Len(queue) : queue'[i] = queue[i]
      /\ queue'[Len(queue) + 1] = c
  BY <1>1, <1>2, <1>3, AppendProperties
<1>5. /\ fail' \in [nodes -> nodes \cup {Null}] /\ fail'[c] = f /\ f # Null
      /\ \A n \in nodes \ {c} : fail'[n] = fail[n]
  BY <1>1, <1>2, <1>3, NodeType
<1>6. ACTypeOK'
  <2>1. words' \subseteq Words /\ Root \in nodes' /\ nodes' \subseteq Words
    BY <1>1 DEF ACTypeOK
  <2>2. length' \in [nodes' -> 0..MaxWordLen] /\ fail' \in [nodes' -> nodes' \cup {Null}]
    BY <1>1, <1>5 DEF ACTypeOK
  <2>3. /\ phase' \in {"insert", "build", "walk", "ready", "filter"}
        /\ queue' \in Seq(nodes')
        /\ todo' \subseteq nodes' /\ child' \in nodes' /\ node' \in nodes'
        /\ ptr' \in nodes' \cup {Null} /\ (phase' = "filter" => ptr' # Null)
    BY <1>1, <1>4 DEF ACTypeOK
  <2>4. /\ text' \in Texts /\ pos' \in 0..Len(text')
        /\ matches' \subseteq (1..Len(text')) \X (1..Len(text'))
        /\ result' \in Seq(Alphabet \cup {Star})
    BY <1>1 DEF ACTypeOK
  <2> QED BY <2>1, <2>2, <2>3, <2>4 DEF ACTypeOK
<1>7. TrieInv'
  BY <1>1 DEF TrieInv
<1>8. FailInv'
  <2> SUFFICES ASSUME NEW n \in nodes, fail'[n] # Null
               PROVE  /\ Proper(fail'[n], n)
                      /\ \A v \in nodes : Proper(v, n) => Len(v) <= Len(fail'[n])
    BY <1>1 DEF FailInv, Proper, Ends
  <2>1. CASE n = c
    BY <1>5, <2>1
  <2>2. CASE n # c
    BY <1>5, <2>2 DEF FailInv
  <2> QED BY <2>1, <2>2
<1>9. PhaseInv'
  BY <1>1 DEF PhaseInv
<1>10. QueueInv'
  <2>1. \A n \in nodes : Seen(n)' <=> Seen(n) \/ n = c
    BY <1>5 DEF Seen
  <2>2. /\ \A i \in 1..Len(queue) : /\ Seen(queue[i])
                                    /\ Len(node) <= Len(queue[i])
                                    /\ Len(queue[i]) <= Len(node) + 1
        /\ \A i, j \in 1..Len(queue) : i <= j => Len(queue[i]) <= Len(queue[j])
    BY DEF QueueInv
  <2>3. Len(node) \in Nat /\ Len(c) = Len(node) + 1
    BY <1>2, <1>3, NodeType, FrontLast DEF Root
  <2>4. Seen(node)' /\ todo' \subseteq Children(node)'
    BY <1>1, <1>2, <2>1 DEF Children, QueueInv, Seen
  <2>5. ASSUME NEW i \in 1..Len(queue')
        PROVE  /\ Seen(queue[i])'
               /\ Len(node') <= Len(queue'[i])
               /\ Len(queue'[i]) <= Len(node') + 1
               /\ queue'[i] \in nodes
    <3>1. CASE i \in 1..Len(queue)
      <4>1. queue'[i] = queue[i] /\ queue[i] \in nodes
        BY <1>2, <1>4, <3>1, ElementOfSeq
      <4>2. Seen(queue[i])'
        BY <2>1, <2>2, <3>1, <4>1 DEF Seen
      <4> QED BY <1>1, <2>2, <3>1, <4>1, <4>2
    <3>2. CASE i = Len(queue) + 1
      <4>1. queue'[i] = c
        BY <1>4, <3>2
      <4>2. Seen(queue[i])'
        BY <1>5, <4>1 DEF Seen
      <4> QED BY <1>1, <1>3, <2>3, <4>1, <4>2
    <3> QED BY <1>4, <3>1, <3>2
  <2>6. ASSUME NEW i \in 1..Len(queue'), NEW j \in 1..Len(queue'), i <= j
        PROVE  Len(queue'[i]) <= Len(queue'[j])
    <3>1. CASE j \in 1..Len(queue)
      <4>1. i \in 1..Len(queue)
        BY <2>6, <3>1
      <4> QED BY <1>4, <2>2, <2>6, <3>1, <4>1
    <3>2. CASE j = Len(queue) + 1
      BY <1>1, <1>4, <2>3, <2>5, <3>2
    <3> QED BY <1>4, <3>1, <3>2
  <2>7. ASSUME NEW n \in nodes' \ {Root}, Seen(Front(n))'
        PROVE  Seen(n)' \/ Queued(Front(n))' \/ n \in todo'
    <3>1. n \in nodes \ {Root} /\ Front(n) \in nodes
      BY <1>1 DEF TrieInv
    <3>2. CASE Front(n) = c
      <4>1. Len(queue) + 1 \in 1..Len(queue') /\ queue'[Len(queue) + 1] = Front(n)
        BY <1>4, <3>2
      <4> QED BY <4>1 DEF Queued
    <3>3. CASE n = c
      BY <2>1, <3>1, <3>3
    <3>4. CASE Front(n) # c /\ n # c
      <4>1. Seen(n) \/ Queued(Front(n)) \/ n \in todo
        BY <2>1, <2>7, <3>1, <3>4 DEF QueueInv
      <4>2. ASSUME NEW i \in 1..Len(queue), queue[i] = Front(n)
            PROVE  Queued(Front(n))'
        <5>1. i \in 1..Len(queue') /\ queue'[i] = Front(n)
          BY <1>4, <4>2
        <5> QED BY <5>1 DEF Queued
      <4> QED BY <1>1, <2>1, <3>1, <3>4, <4>1, <4>2 DEF Queued
    <3> QED BY <3>2, <3>3, <3>4
  <2> QED BY <2>4, <2>5, <2>6, <2>7 DEF QueueInv
<1>11. WalkInv' /\ NodeInv' /\ MatchInv' /\ MasksExactlyTheWords'
  BY <1>1 DEF WalkInv, NodeInv, MatchInv, MasksExactlyTheWords
<1> QED BY <1>6, <1>7, <1>8, <1>9, <1>10, <1>11

(* The empty path is a proper suffix of every other.                       *)
LEMMA RootProper ==
  ASSUME ACTypeOK, NEW n \in nodes, n # Root
  PROVE  Proper(Root, n)
<1>1. Len(n) \in Nat /\ Len(n) # 0 /\ Len(Root) = 0
  BY NodeType DEF Root
<1>2. Ends(Root, n, Len(n))
  BY <1>1, EndsEmpty DEF Root
<1> QED BY <1>1, <1>2 DEF Proper

(* A child's proper suffixes are the root and the extensions of its        *)
(* parent's.                                                               *)
LEMMA ChildSuffix ==
  ASSUME ACTypeOK, TrieInv, NEW c \in nodes, c # Root, NEW v \in nodes, v # Root,
         Proper(v, c)
  PROVE  /\ Front(v) \in nodes /\ Proper(Front(v), Front(c))
         /\ v = Append(Front(v), Last(c)) /\ Len(v) = Len(Front(v)) + 1
<1>1. /\ v \in Strings /\ c \in Strings /\ v # <<>> /\ c # <<>>
      /\ Front(v) \in nodes
  BY NodeType DEF TrieInv, Root
<1>2. /\ Front(v) \in Strings /\ Len(v) \in Nat \ {0} /\ Len(Front(v)) = Len(v) - 1
      /\ v = Append(Front(v), Last(v))
  BY <1>1, FrontLast
<1>3. /\ Front(c) \in Strings /\ Last(c) \in Alphabet
      /\ Len(c) \in Nat \ {0} /\ Len(Front(c)) = Len(c) - 1
      /\ c = Append(Front(c), Last(c))
  BY <1>1, FrontLast
<1> DEFINE k == Len(c) - 1
<1>4. k \in Nat /\ k + 1 = Len(c)
  BY <1>3
<1>5. Ends(v, c, k + 1)
  BY <1>4 DEF Proper
<1> HIDE DEF k
<1>6. Ends(Front(v), c, k) /\ Last(v) = c[k + 1]
  BY <1>1, <1>4, <1>5, EndsFront
<1>7. Last(v) = Last(c)
  BY <1>4, <1>6 DEF Last
<1>8. Ends(Front(v), Front(c), Len(Front(c)))
  <2>1. Ends(Front(v), Append(Front(c), Last(c)), Len(Front(c)))
    BY <1>3, <1>6 DEF k
  <2> QED BY <1>2, <1>3, <2>1, EndsPrefix
<1>9. Len(Front(v)) < Len(Front(c))
  BY <1>2, <1>3 DEF Proper
<1> QED BY <1>1, <1>2, <1>7, <1>8, <1>9 DEF Proper

(* A child of the root has no proper suffix but the root.                  *)
LEMMA RootChildInv ==
  ASSUME ACInv, NEW c \in nodes, RootChild(c)
  PROVE  ACInv'
<1> USE DEF ACInv
<1>1. phase = "build" /\ c \in todo /\ node = Root /\ SetFail(c, Root)
  BY DEF RootChild
<1>2. c # Root /\ Front(c) = Root
  BY <1>1 DEF QueueInv, Children
<1>3. Root \in nodes /\ Proper(Root, c)
  BY <1>2, NodeType, RootProper
<1>4. ASSUME NEW v \in nodes, Proper(v, c) PROVE Len(v) <= Len(Root)
  <2>1. c \in Strings /\ c # <<>> /\ Len(Root) = 0
    BY <1>2, NodeType DEF Root
  <2>2. Len(Front(c)) = Len(c) - 1 /\ Len(c) \in Nat
    BY <2>1, FrontLast
  <2>3. Len(c) = 1
    BY <1>2, <2>1, <2>2
  <2>4. Len(v) \in Nat /\ Len(v) < Len(c)
    BY <1>4, NodeType DEF Proper
  <2> QED BY <2>1, <2>3, <2>4
<1> QED BY <1>1, <1>3, <1>4, SetFailInv

(* The first child found on the way of the fail pointers is the longest    *)
(* suffix: a longer one would be the child of a node that the loop has     *)
(* passed.                                                                 *)
LEMMA WalkFoundInv ==
  ASSUME ACInv, WalkFound
  PROVE  ACInv'
<1> USE DEF ACInv
<1> DEFINE f == Append(ptr, Last(child))
<1>1. phase = "walk" /\ ptr # Null /\ f \in nodes /\ SetFail(child, f)
  BY DEF WalkFound
<1>2. /\ child \in todo /\ child \in nodes /\ child # Root /\ Front(child) = node
      /\ ptr \in nodes /\ Proper(ptr, node)
      /\ \A v \in nodes : Proper(v, node) /\ Append(v, Last(child)) \in nodes
                            => Len(v) <= Len(ptr)
  BY <1>1 DEF WalkInv, QueueInv, Children, ACTypeOK
<1>3. /\ child \in Strings /\ ptr \in Strings /\ node \in Strings /\ child # <<>>
      /\ Len(ptr) \in Nat
  BY <1>2, NodeType DEF ACTypeOK, Root
<1>4. /\ Last(child) \in Alphabet /\ child = Append(node, Last(child))
      /\ Len(child) = Len(node) + 1 /\ Len(node) \in Nat
      /\ child[Len(node) + 1] = Last(child)
  <2>1. /\ Last(child) \in Alphabet /\ child = Append(node, Last(child))
        /\ Len(child) \in Nat /\ Len(node) = Len(child) - 1 /\ Len(node) \in Nat
    BY <1>2, <1>3, FrontLast DEF Strings
  <2> QED BY <2>1 DEF Last
<1>5. f \in Strings /\ Len(f) = Len(ptr) + 1
  BY <1>3, <1>4, AppendFront
<1>6. Proper(f, child)
  <2>1. Ends(ptr, child, Len(node))
    BY <1>2, <1>3, <1>4, EndsPrefix DEF Proper
  <2>2. Ends(f, child, Len(node) + 1)
    BY <1>3, <1>4, <2>1, EndsAppend
  <2> QED BY <1>2, <1>3, <1>4, <1>5, <2>2 DEF Proper
<1>7. ASSUME NEW v \in nodes, Proper(v, child) PROVE Len(v) <= Len(f)
  <2>1. CASE v = Root
    BY <1>3, <1>5, <2>1 DEF Root
  <2>2. CASE v # Root
    <3>1. /\ Front(v) \in nodes /\ Proper(Front(v), node)
          /\ v = Append(Front(v), Last(child)) /\ Len(v) = Len(Front(v)) + 1
      BY <1>2, <1>7, <2>2, ChildSuffix
    <3>2. Len(Front(v)) <= Len(ptr) /\ Len(Front(v)) \in Nat
      BY <1>2, <1>7, <3>1, NodeType
    <3> QED BY <1>3, <1>5, <3>1, <3>2
  <2> QED BY <2>1, <2>2
<1> HIDE DEF f
<1> QED BY <1>1, <1>2, <1>6, <1>7, SetFailInv

(* When the way ends, no proper suffix but the root is in the trie.        *)
LEMMA WalkEndsInv ==
  ASSUME ACInv, WalkEnds
  PROVE  ACInv'
<1> USE DEF ACInv
<1>1. phase = "walk" /\ ptr = Null /\ SetFail(child, Root)
  BY DEF WalkEnds
<1>2. /\ child \in todo /\ child \in nodes /\ child # Root /\ Front(child) = node
      /\ \A v \in nodes : ~ (Proper(v, node) /\ Append(v, Last(child)) \in nodes)
  BY <1>1 DEF WalkInv, QueueInv, Children, ACTypeOK
<1>3. Root \in nodes /\ Proper(Root, child)
  BY <1>2, NodeType, RootProper
<1>4. ASSUME NEW v \in nodes, Proper(v, child) PROVE v = Root
  <2> SUFFICES ASSUME v # Root PROVE FALSE
    OBVIOUS
  <2>1. /\ Front(v) \in nodes /\ Proper(Front(v), node)
        /\ v = Append(Front(v), Last(child))
    BY <1>2, <1>4, ChildSuffix
  <2> QED BY <1>2, <2>1
<1>5. \A v \in nodes : Proper(v, child) => Len(v) <= Len(Root)
  BY <1>4 DEF Root
<1> QED BY <1>1, <1>2, <1>3, <1>5, SetFailInv

(* The inner loop starts at, and climbs, fail pointers.                    *)
LEMMA WalkStepInv ==
  ASSUME ACInv, phase \in {"build", "walk"}, phase' = "walk",
         node # Root, child' \in todo,
         ptr' # Null => ptr' \in nodes /\ Proper(ptr', node),
         \A v \in nodes : Proper(v, node) /\ Append(v, Last(child')) \in nodes
                            => ptr' # Null /\ Len(v) <= Len(ptr'),
         UNCHANGED <<trieVars, fail, queue, todo, node, filterVars>>
  PROVE  ACInv'
<1> USE DEF ACInv
<1>1. /\ words' = words /\ nodes' = nodes /\ length' = length /\ fail' = fail
      /\ queue' = queue /\ todo' = todo /\ node' = node
      /\ text' = text /\ pos' = pos /\ matches' = matches /\ result' = result
  BY DEF trieVars, filterVars
<1>2. ACTypeOK'
  <2>1. words' \subseteq Words /\ Root \in nodes' /\ nodes' \subseteq Words
    BY <1>1 DEF ACTypeOK
  <2>2. length' \in [nodes' -> 0..MaxWordLen] /\ fail' \in [nodes' -> nodes' \cup {Null}]
    BY <1>1 DEF ACTypeOK
  <2>3. /\ phase' \in {"insert", "build", "walk", "ready", "filter"}
        /\ queue' \in Seq(nodes')
        /\ todo' \subseteq nodes' /\ child' \in nodes' /\ node' \in nodes'
        /\ ptr' \in nodes' \cup {Null} /\ (phase' = "filter" => ptr' # Null)
    BY <1>1 DEF ACTypeOK
  <2>4. /\ text' \in Texts /\ pos' \in 0..Len(text')
        /\ matches' \subseteq (1..Len(text')) \X (1..Len(text'))
        /\ result' \in Seq(Alphabet \cup {Star})
    BY <1>1 DEF ACTypeOK
  <2> QED BY <2>1, <2>2, <2>3, <2>4 DEF ACTypeOK
<1>3. TrieInv' /\ FailInv' /\ PhaseInv'
  BY <1>1 DEF TrieInv, FailInv, PhaseInv
<1>4. QueueInv'
  BY <1>1 DEF QueueInv, Seen, Queued, Children
<1>5. WalkInv'
  BY <1>1 DEF WalkInv
<1>6. NodeInv' /\ MatchInv' /\ MasksExactlyTheWords'
  BY DEF NodeInv, MatchInv, MasksExactlyTheWords
<1> QED BY <1>2, <1>3, <1>4, <1>5, <1>6

(* node has a fail pointer, because it was queued after it got one.        *)
LEMMA StartWalkInv ==
  ASSUME ACInv, NEW c \in nodes, StartWalk(c)
  PROVE  ACInv'
<1> USE DEF ACInv
<1>1. /\ phase = "build" /\ phase' = "walk" /\ c \in todo /\ node # Root
      /\ child' = c /\ ptr' = fail[node]
      /\ UNCHANGED <<trieVars, fail, queue, todo, node, filterVars>>
  BY DEF StartWalk
<1>2. node \in nodes /\ fail[node] # Null
  BY <1>1 DEF QueueInv, Seen, ACTypeOK
<1>3. /\ ptr' \in nodes /\ Proper(ptr', node)
      /\ \A v \in nodes : Proper(v, node) => Len(v) <= Len(ptr')
  BY <1>1, <1>2, NodeType DEF FailInv
<1> QED BY <1>1, <1>2, <1>3, WalkStepInv

(* p is less deep than node, so build() has set its fail pointer already.  *)
LEMMA WalkUpInv ==
  ASSUME ACInv, WalkUp
  PROVE  ACInv'
<1> USE DEF ACInv
<1>1. /\ phase = "walk" /\ phase' = "walk" /\ ptr # Null
      /\ Append(ptr, Last(child)) \notin nodes
      /\ ptr' = fail[ptr] /\ child' = child
      /\ UNCHANGED <<trieVars, fail, queue, todo, node, filterVars>>
  BY DEF WalkUp, buildVars
<1>2. /\ node # Root /\ child \in todo /\ ptr \in nodes /\ node \in nodes
      /\ Proper(ptr, node)
      /\ \A v \in nodes : Proper(v, node) /\ Append(v, Last(child)) \in nodes
                            => Len(v) <= Len(ptr)
  BY <1>1 DEF WalkInv, ACTypeOK
<1>3. ptr \in Strings /\ node \in Strings /\ Len(ptr) \in Nat /\ Len(node) \in Nat
  BY <1>2, NodeType
<1>4. ASSUME ptr' # Null PROVE ptr' \in nodes /\ Proper(ptr', node)
  <2>1. ptr' \in nodes /\ Proper(ptr', ptr)
    BY <1>1, <1>2, <1>4, NodeType DEF FailInv
  <2>2. ptr' \in Strings
    BY <2>1, NodeType
  <2> QED BY <1>2, <1>3, <2>1, <2>2, ProperTrans
<1>5. ASSUME NEW v \in nodes, Proper(v, node), Append(v, Last(child)) \in nodes
      PROVE  ptr' # Null /\ Len(v) <= Len(ptr')
  <2>1. v \in Strings /\ Len(v) \in Nat /\ Len(v) <= Len(ptr) /\ v # ptr
    BY <1>1, <1>2, <1>5, NodeType
  <2>2. Proper(v, ptr)
    BY <1>2, <1>3, <1>5, <2>1, ProperCompare DEF Proper
  <2>3. ptr # Root
    BY <2>1, <2>2 DEF Proper, Root
  <2>4. Len(ptr) <= Len(node)
    BY <1>2, <1>3 DEF Proper
  <2>5. fail[ptr] # Null
    BY <1>1, <1>2, <2>3, <2>4, SeenAbove DEF Seen
  <2> QED BY <1>1, <1>2, <2>2, <2>5 DEF FailInv
<1> QED BY <1>1, <1>2, <1>4, <1>5, WalkStepInv

(* With the queue empty every node has been reached.                       *)
LEMMA BuildDoneInv ==
  ASSUME ACInv, BuildDone
  PROVE  ACInv'
<1> USE DEF ACInv
<1>1. /\ phase = "build" /\ phase' = "ready"
      /\ todo = {} /\ queue = <<>>
      /\ child' = Root /\ node' = Root /\ ptr' = Root
      /\ words' = words /\ nodes' = nodes /\ length' = length /\ fail' = fail
      /\ queue' = queue /\ todo' = todo
      /\ text' = text /\ pos' = pos /\ matches' = matches /\ result' = result
  BY DEF BuildDone, trieVars, filterVars
<1>2. ACTypeOK'
  <2>1. words' \subseteq Words /\ Root \in nodes' /\ nodes' \subseteq Words
    BY <1>1 DEF ACTypeOK
  <2>2. length' \in [nodes' -> 0..MaxWordLen] /\ fail' \in [nodes' -> nodes' \cup {Null}]
    BY <1>1 DEF ACTypeOK
  <2>3. /\ phase' \in {"insert", "build", "walk", "ready", "filter"}
        /\ queue' \in Seq(nodes')
        /\ todo' \subseteq nodes' /\ child' \in nodes' /\ node' \in nodes'
        /\ ptr' \in nodes' \cup {Null} /\ (phase' = "filter" => ptr' # Null)
    BY <1>1 DEF ACTypeOK
  <2>4. /\ text' \in Texts /\ pos' \in 0..Len(text')
        /\ matches' \subseteq (1..Len(text')) \X (1..Len(text'))
        /\ result' \in Seq(Alphabet \cup {Star})
    BY <1>1 DEF ACTypeOK
  <2> QED BY <2>1, <2>2, <2>3, <2>4 DEF ACTypeOK
<1>3. TrieInv' /\ FailInv'
  BY <1>1 DEF TrieInv, FailInv
<1>4. PhaseInv'
  <2>1. \A n \in nodes : Seen(n)
    BY <1>1, SeenAbove
  <2> QED BY <1>1, <2>1 DEF PhaseInv, Seen
<1>5. MasksExactlyTheWords'
  <2>1. text' = <<>> /\ result' = <<>>
    BY <1>1 DEF PhaseInv
  <2>2. result' = [i \in 1..Len(text') |->
                     IF Covered(text', words', i) THEN Star ELSE text'[i]]
    BY <2>1
  <2> QED BY <2>2 DEF MasksExactlyTheWords
<1>6. QueueInv' /\ WalkInv' /\ NodeInv' /\ MatchInv'
  BY <1>1 DEF QueueInv, WalkInv, NodeInv, MatchInv
<1> QED BY <1>2, <1>3, <1>4, <1>5, <1>6

(* filter() changes neither the trie nor the fail pointers.                *)
LEMMA FilterFrame ==
  ASSUME ACInv, UNCHANGED <<trieVars, fail, buildVars>>,
         phase \in {"ready", "filter"}, phase' \in {"ready", "filter"},
         phase' = "ready" => ptr' = Root
  PROVE  /\ TrieInv' /\ FailInv' /\ PhaseInv' /\ QueueInv' /\ WalkInv'
         /\ words' \subseteq Words /\ Root \in nodes' /\ nodes' \subseteq Words
         /\ length' \in [nodes' -> 0..MaxWordLen]
         /\ fail' \in [nodes' -> nodes' \cup {Null}]
         /\ queue' \in Seq(nodes') /\ todo' \subseteq nodes' /\ child' \in nodes'
         /\ words' = words /\ nodes' = nodes /\ length' = length
<1> USE DEF ACInv
<1>1. /\ words' = words /\ nodes' = nodes /\ length' = length /\ fail' = fail
      /\ queue' = queue /\ todo' = todo /\ child' = child
  BY DEF trieVars, buildVars
<1>2. TrieInv' /\ FailInv'
  BY <1>1 DEF TrieInv, FailInv
<1>3. PhaseInv'
  BY <1>1 DEF PhaseInv, Seen
<1>4. QueueInv' /\ WalkInv'
  BY DEF QueueInv, WalkInv
<1>5. /\ words' \subseteq Words /\ Root \in nodes' /\ nodes' \subseteq Words
      /\ length' \in [nodes' -> 0..MaxWordLen]
      /\ fail' \in [nodes' -> nodes' \cup {Null}]
      /\ queue' \in Seq(nodes') /\ todo' \subseteq nodes' /\ child' \in nodes'
  BY <1>1 DEF ACTypeOK
<1> QED BY <1>1, <1>2, <1>3, <1>4, <1>5

(* filter() starts at the root with nothing read.                          *)
LEMMA StartFilterInv ==
  ASSUME ACInv, NEW t \in Texts, StartFilter(t)
  PROVE  ACInv'
<1> USE DEF ACInv
<1>1. /\ phase = "ready" /\ phase' = "filter"
      /\ text' = t /\ pos' = 0 /\ node' = Root /\ matches' = {} /\ result' = <<>>
      /\ ptr' = ptr
      /\ UNCHANGED <<trieVars, fail, buildVars>>
  BY DEF StartFilter
<1>2. ptr' = Root
  BY <1>1 DEF PhaseInv
<1>3. /\ TrieInv' /\ FailInv' /\ PhaseInv' /\ QueueInv' /\ WalkInv'
      /\ words' \subseteq Words /\ Root \in nodes' /\ nodes' \subseteq Words
      /\ length' \in [nodes' -> 0..MaxWordLen]
      /\ fail' \in [nodes' -> nodes' \cup {Null}]
      /\ queue' \in Seq(nodes') /\ todo' \subseteq nodes' /\ child' \in nodes'
      /\ words' = words /\ nodes' = nodes /\ length' = length
  BY <1>1, FilterFrame
<1>4. t \in Strings /\ Len(t) \in Nat
  BY WordType DEF Strings
<1>5. ACTypeOK'
  <2>1. Root # Null
    BY NodeType
  <2>2. result' \in Seq(Alphabet \cup {Star})
    BY <1>1
  <2>3. /\ text' \in Texts /\ pos' \in 0..Len(text')
        /\ matches' \subseteq (1..Len(text')) \X (1..Len(text'))
    BY <1>1, <1>4
  <2> QED BY <1>1, <1>2, <1>3, <2>1, <2>2, <2>3 DEF ACTypeOK
<1>6. NodeInv'
  <2>1. Ends(node, text, pos)' /\ Ends(ptr, text, pos)'
    BY <1>1, <1>2, EndsEmpty DEF Root
  <2>2. ASSUME NEW v \in nodes', Ends(v, text', pos') PROVE Len(v) <= Len(node')
    BY <1>1, <2>2 DEF Ends, Root
  <2> QED BY <2>1, <2>2 DEF NodeInv
<1>7. MatchInv'
  BY <1>1 DEF MatchInv
<1>8. MasksExactlyTheWords'
  BY <1>1 DEF MasksExactlyTheWords
<1> QED BY <1>3, <1>5, <1>6, <1>7, <1>8

(* What filter() knows of a node that is not the root.                     *)
LEMMA FilterFail ==
  ASSUME ACInv, phase = "filter", NEW n \in nodes, n # Root, Ends(n, text, pos)
  PROVE  /\ fail[n] \in nodes /\ fail[n] # Null
         /\ Proper(fail[n], n) /\ Ends(fail[n], text, pos)
         /\ \A v \in nodes : Proper(v, n) => Len(v) <= Len(fail[n])
<1> USE DEF ACInv
<1>1. fail[n] # Null
  BY DEF PhaseInv, Seen
<1>2. /\ fail[n] \in nodes /\ Proper(fail[n], n)
      /\ \A v \in nodes : Proper(v, n) => Len(v) <= Len(fail[n])
  BY <1>1, NodeType DEF FailInv
<1>3. n \in Strings /\ fail[n] \in Strings /\ pos \in Nat
  BY <1>2, NodeType
<1>4. Ends(fail[n], text, pos)
  BY <1>2, <1>3, EndsTrans DEF Proper
<1> QED BY <1>1, <1>2, <1>4

(* A node that the character does not extend is left for the next shorter  *)
(* suffix.                                                                 *)
LEMMA FilterUpInv ==
  ASSUME ACInv, FilterUp
  PROVE  ACInv'
<1> USE DEF ACInv
<1>1. /\ phase = "filter" /\ phase' = "filter" /\ ptr = Root /\ pos < Len(text)
      /\ Append(node, text[pos + 1]) \notin nodes /\ node # Root
      /\ node' = fail[node] /\ ptr' = ptr
      /\ text' = text /\ pos' = pos /\ matches' = matches /\ result' = result
      /\ UNCHANGED <<trieVars, fail, buildVars>>
  BY DEF FilterUp, Reading, Target, filterVars
<1>2. node \in nodes /\ node \in Strings /\ Len(node) \in Nat /\ pos \in Nat
  BY NodeType DEF ACTypeOK
<1>3. Ends(node, text, pos)
  BY <1>1 DEF NodeInv
<1>4. /\ node' \in nodes /\ Ends(node', text, pos)
      /\ \A v \in nodes : Proper(v, node) => Len(v) <= Len(node')
  BY <1>1, <1>2, <1>3, FilterFail
<1>5. /\ TrieInv' /\ FailInv' /\ PhaseInv' /\ QueueInv' /\ WalkInv'
      /\ words' \subseteq Words /\ Root \in nodes' /\ nodes' \subseteq Words
      /\ length' \in [nodes' -> 0..MaxWordLen]
      /\ fail' \in [nodes' -> nodes' \cup {Null}]
      /\ queue' \in Seq(nodes') /\ todo' \subseteq nodes' /\ child' \in nodes'
      /\ words' = words /\ nodes' = nodes /\ length' = length
  BY <1>1, FilterFrame
<1>6. ACTypeOK'
  <2>1. /\ text' \in Texts /\ pos' \in 0..Len(text')
        /\ matches' \subseteq (1..Len(text')) \X (1..Len(text'))
        /\ result' \in Seq(Alphabet \cup {Star})
        /\ ptr' \in nodes' \cup {Null} /\ ptr' # Null
    BY <1>1, <1>5 DEF ACTypeOK
  <2> QED BY <1>1, <1>4, <1>5, <2>1 DEF ACTypeOK
<1>7. NodeInv'
  <2>1. Ends(node, text, pos)' /\ Ends(ptr, text, pos)'
    BY <1>1, <1>4 DEF NodeInv
  <2>2. ASSUME NEW v \in nodes, Ends(v, text, pos), Append(v, text[pos + 1]) \in nodes
        PROVE  Len(v) <= Len(node')
    <3>1. v \in Strings /\ Len(v) <= Len(node) /\ v # node
      BY <1>1, <2>2, NodeType DEF NodeInv
    <3>2. Proper(v, node)
      BY <1>2, <1>3, <2>2, <3>1, ProperCompare
    <3> QED BY <1>4, <3>2
  <2> QED BY <1>1, <1>5, <2>1, <2>2 DEF NodeInv
<1>8. MatchInv'
  BY <1>1, <1>5 DEF MatchInv
<1>9. MasksExactlyTheWords'
  BY <1>1 DEF MasksExactlyTheWords
<1> QED BY <1>5, <1>6, <1>7, <1>8, <1>9

(* The character is read: node is now the longest suffix in the trie, so   *)
(* no word that ends here is longer.                                       *)
LEMMA FilterMoveInv ==
  ASSUME ACInv, FilterMove
  PROVE  ACInv'
<1> USE DEF ACInv
<1> DEFINE x == text[pos + 1]
<1>1. /\ phase = "filter" /\ phase' = "filter" /\ ptr = Root /\ pos < Len(text)
      /\ Append(node, x) \in nodes \/ node = Root
      /\ node' = IF Append(node, x) \in nodes THEN Append(node, x) ELSE Root
      /\ ptr' = node' /\ pos' = pos + 1
      /\ text' = text /\ matches' = matches /\ result' = result
      /\ UNCHANGED <<trieVars, fail, buildVars>>
  BY DEF FilterMove, Reading, Target
<1>2. /\ node \in nodes /\ node \in Strings /\ Len(node) \in Nat /\ pos \in Nat
      /\ text \in Strings /\ Len(text) \in Nat /\ Root \in nodes
  BY NodeType DEF ACTypeOK
<1>3. Ends(node, text, pos) /\ x \in Alphabet
  <2>1. pos + 1 \in 1..Len(text)
    BY <1>1, <1>2
  <2> QED BY <1>1, <1>2, <2>1, ElementOfSeq DEF NodeInv, Strings
<1>4. /\ TrieInv' /\ FailInv' /\ PhaseInv' /\ QueueInv' /\ WalkInv'
      /\ words' \subseteq Words /\ Root \in nodes' /\ nodes' \subseteq Words
      /\ length' \in [nodes' -> 0..MaxWordLen]
      /\ fail' \in [nodes' -> nodes' \cup {Null}]
      /\ queue' \in Seq(nodes') /\ todo' \subseteq nodes' /\ child' \in nodes'
      /\ words' = words /\ nodes' = nodes /\ length' = length
  BY <1>1, FilterFrame
<1>5. node' \in nodes
  BY <1>1, <1>2
<1>6. ACTypeOK'
  <2>1. /\ text' \in Texts
        /\ matches' \subseteq (1..Len(text')) \X (1..Len(text'))
        /\ result' \in Seq(Alphabet \cup {Star})
    BY <1>1 DEF ACTypeOK
  <2>2. pos' \in 0..Len(text')
    BY <1>1, <1>2
  <2>3. ptr' \in nodes' \cup {Null} /\ ptr' # Null /\ node' \in nodes'
    BY <1>1, <1>4, <1>5, NodeType
  <2> QED BY <1>1, <1>4, <2>1, <2>2, <2>3 DEF ACTypeOK
<1>7. Ends(node', text, pos + 1)
  <2>1. CASE Append(node, x) \in nodes
    BY <1>1, <1>2, <1>3, <2>1, EndsAppend
  <2>2. CASE Append(node, x) \notin nodes
    <3>1. node' = <<>> /\ pos + 1 \in Nat
      BY <1>1, <1>2, <2>2 DEF Root
    <3> QED BY <3>1, EndsEmpty
  <2> QED BY <2>1, <2>2
<1>8. ASSUME NEW v \in nodes, Ends(v, text, pos + 1) PROVE Len(v) <= Len(node')
  <2>1. CASE v = Root
    <3>1. Len(node') \in Nat /\ Len(Root) = 0
      BY <1>5, NodeType DEF Root
    <3> QED BY <2>1, <3>1
  <2>2. CASE v # Root
    <3>1. v \in Strings /\ v # <<>> /\ Front(v) \in nodes
      BY <2>2, NodeType DEF Root, TrieInv
    <3>2. Ends(Front(v), text, pos) /\ Last(v) = x
      BY <1>2, <1>8, <3>1, EndsFront
    <3>3. v = Append(Front(v), x) /\ Len(Front(v)) = Len(v) - 1 /\ Len(v) \in Nat
      BY <3>1, <3>2, FrontLast
    <3>4. Len(Front(v)) <= Len(node) /\ Len(Front(v)) \in Nat
      BY <1>1, <3>1, <3>2, <3>3, NodeType DEF NodeInv
    <3>5. CASE Append(node, x) \in nodes
      <4>1. Len(node') = Len(node) + 1
        BY <1>1, <1>2, <1>3, <3>5, AppendFront
      <4> QED BY <1>2, <3>3, <3>4, <4>1
    <3>6. CASE Append(node, x) \notin nodes
      <4>1. node = Root /\ Len(Root) = 0
        BY <1>1, <3>6 DEF Root
      <4>2. Len(Front(v)) = 0
        BY <3>4, <4>1
      <4>3. Front(v) = node
        BY <3>1, <4>1, <4>2, NodeType
      <4> QED BY <3>3, <3>6, <4>3
    <3> QED BY <3>5, <3>6
  <2> QED BY <2>1, <2>2
<1>9. NodeInv'
  BY <1>1, <1>4, <1>7, <1>8 DEF NodeInv
<1>10. MatchInv'
  <2>1. ASSUME NEW m \in matches
        PROVE  m[1] <= m[2] /\ m[2] <= pos + 1 /\ SubSeq(text, m[1], m[2]) \in words
    <3>1. m[1] <= m[2] /\ m[2] <= pos /\ SubSeq(text, m[1], m[2]) \in words
      BY <1>1 DEF MatchInv
    <3>2. m[2] \in Nat
      BY <1>2 DEF ACTypeOK
    <3>3. m[2] <= pos + 1
      BY <1>2, <3>1, <3>2
    <3> QED BY <3>1, <3>3
  <2>2. ASSUME NEW b \in 1..(pos + 1), NEW a \in 1..b, SubSeq(text, a, b) \in words
        PROVE  <<a, b>> \in matches \/ (b = pos + 1 /\ b - a + 1 <= Len(node'))
    <3>1. CASE b \in 1..pos
      <4>1. <<a, b>> \in matches \/ (b = pos /\ b - a + 1 <= Len(ptr))
        BY <1>1, <2>2, <3>1 DEF MatchInv
      <4>2. ~ (b - a + 1 <= Len(ptr))
        BY <1>1, <1>2 DEF Root
      <4> QED BY <4>1, <4>2
    <3>2. CASE b = pos + 1
      <4>1. a \in 1..Len(text) /\ b \in a..Len(text)
        BY <1>1, <1>2, <3>2
      <4>2. Len(SubSeq(text, a, b)) = b - a + 1 /\ Ends(SubSeq(text, a, b), text, b)
        BY <1>2, <4>1, SubSeqEnds
      <4>3. SubSeq(text, a, b) \in nodes
        BY <2>2 DEF TrieInv
      <4> QED BY <1>8, <3>2, <4>2, <4>3
    <3> QED BY <1>2, <3>1, <3>2
  <2> QED BY <1>1, <1>4, <2>1, <2>2 DEF MatchInv
<1>11. MasksExactlyTheWords'
  BY <1>1 DEF MasksExactlyTheWords
<1> QED BY <1>4, <1>6, <1>9, <1>10, <1>11

(* The word at temp is collected; the shorter ones that end here are       *)
(* suffixes of its fail pointer.                                           *)
LEMMA MatchUpInv ==
  ASSUME ACInv, MatchUp
  PROVE  ACInv'
<1> USE DEF ACInv
<1>1. /\ phase = "filter" /\ phase' = "filter" /\ ptr # Root
      /\ matches' = matches \cup Match /\ ptr' = fail[ptr]
      /\ node' = node /\ text' = text /\ pos' = pos /\ result' = result
      /\ UNCHANGED <<trieVars, fail, buildVars>>
  BY DEF MatchUp
<1>2. /\ ptr \in nodes /\ ptr \in Strings /\ Len(ptr) \in Nat /\ ptr # <<>>
      /\ text \in Strings /\ Len(text) \in Nat /\ pos \in Nat /\ pos \in 0..Len(text)
  BY <1>1, NodeType DEF ACTypeOK, Root
<1>3. Ends(ptr, text, pos)
  BY <1>1 DEF NodeInv
<1>4. /\ ptr' \in nodes /\ ptr' # Null /\ Ends(ptr', text, pos)
      /\ \A v \in nodes : Proper(v, ptr) => Len(v) <= Len(ptr')
  BY <1>1, <1>2, <1>3, FilterFail
<1>5. /\ TrieInv' /\ FailInv' /\ PhaseInv' /\ QueueInv' /\ WalkInv'
      /\ words' \subseteq Words /\ Root \in nodes' /\ nodes' \subseteq Words
      /\ length' \in [nodes' -> 0..MaxWordLen]
      /\ fail' \in [nodes' -> nodes' \cup {Null}]
      /\ queue' \in Seq(nodes') /\ todo' \subseteq nodes' /\ child' \in nodes'
      /\ words' = words /\ nodes' = nodes /\ length' = length
  BY <1>1, FilterFrame
<1> DEFINE a0 == pos - Len(ptr) + 1
<1>6. a0 \in 1..pos /\ ptr = SubSeq(text, a0, pos)
  BY <1>2, <1>3, EndsSubSeq
<1>7. Match = IF ptr \in words THEN {<<a0, pos>>} ELSE {}
  <2>1. length[ptr] = IF ptr \in words THEN Len(ptr) ELSE 0
    BY <1>2 DEF TrieInv
  <2>2. Len(ptr) # 0
    BY <1>1, <1>2, NodeType
  <2> QED BY <2>1, <2>2 DEF Match
<1> HIDE DEF a0
<1>8. ACTypeOK'
  <2>1. /\ text' \in Texts /\ pos' \in 0..Len(text')
        /\ result' \in Seq(Alphabet \cup {Star}) /\ node' \in nodes'
    BY <1>1, <1>5 DEF ACTypeOK
  <2>2. matches' \subseteq (1..Len(text')) \X (1..Len(text'))
    <3>1. matches \subseteq (1..Len(text)) \X (1..Len(text))
      BY DEF ACTypeOK
    <3>2. a0 \in 1..Len(text) /\ pos \in 1..Len(text)
      BY <1>2, <1>6
    <3>3. Match \subseteq (1..Len(text)) \X (1..Len(text))
      BY <1>7, <3>2
    <3> QED BY <1>1, <3>1, <3>3
  <2> QED BY <1>1, <1>4, <1>5, <2>1, <2>2 DEF ACTypeOK
<1>9. NodeInv'
  <2>1. \A v \in nodes : Ends(v, text, pos) => Len(v) <= Len(node)
    BY <1>1 DEF NodeInv
  <2>2. Ends(node, text, pos)
    BY <1>1 DEF NodeInv
  <2> QED BY <1>1, <1>4, <1>5, <2>1, <2>2 DEF NodeInv
<1>10. MatchInv'
  <2>1. ASSUME NEW m \in matches'
        PROVE  m[1] <= m[2] /\ m[2] <= pos /\ SubSeq(text, m[1], m[2]) \in words
    <3>1. CASE m \in matches
      BY <1>1, <3>1 DEF MatchInv
    <3>2. CASE m \in Match
      <4>1. m = <<a0, pos>> /\ ptr \in words
        BY <1>7, <3>2
      <4>2. m[1] = a0 /\ m[2] = pos
        BY <4>1
      <4> QED BY <1>2, <1>6, <4>1, <4>2
    <3> QED BY <1>1, <3>1, <3>2
  <2>2. ASSUME NEW b \in 1..pos, NEW a \in 1..b, SubSeq(text, a, b) \in words
        PROVE  <<a, b>> \in matches' \/ (b = pos /\ b - a + 1 <= Len(ptr'))
    <3>1. CASE <<a, b>> \in matches
      BY <1>1, <3>1
    <3>2. CASE b = pos /\ b - a + 1 <= Len(ptr)
      <4> DEFINE w == SubSeq(text, a, b)
      <4>1. a \in 1..Len(text) /\ b \in a..Len(text)
        BY <1>2, <3>2
      <4>2. w \in Strings /\ Len(w) = b - a + 1 /\ Ends(w, text, pos)
        BY <1>2, <3>2, <4>1, SubSeqEnds
      <4>3. w \in words /\ w \in nodes
        BY <2>2 DEF TrieInv
      <4> HIDE DEF w
      <4>4. CASE w = ptr
        <5>1. a0 = a
          BY <1>2, <3>2, <4>1, <4>2, <4>4 DEF a0
        <5> QED BY <1>1, <1>7, <3>2, <4>3, <4>4, <5>1
      <4>5. CASE w # ptr
        <5>1. Proper(w, ptr)
          BY <1>2, <1>3, <3>2, <4>2, <4>5, ProperCompare
        <5> QED BY <1>4, <3>2, <4>2, <4>3, <5>1
      <4> QED BY <4>4, <4>5
    <3> QED BY <1>1, <2>2, <3>1, <3>2 DEF MatchInv
  <2> QED BY <1>1, <1>5, <2>1, <2>2 DEF MatchInv
<1>11. MasksExactlyTheWords'
  BY <1>1 DEF MasksExactlyTheWords
<1> QED BY <1>5, <1>8, <1>9, <1>10, <1>11

(* At the end of the text every occurrence has been collected.             *)
LEMMA FilterDoneInv ==
  ASSUME ACInv, FilterDone
  PROVE  ACInv'
<1> USE DEF ACInv
<1> DEFINE Starred(i) == \E m \in matches : m[1] <= i /\ i <= m[2]
<1>1. /\ phase = "filter" /\ phase' = "ready" /\ ptr = Root /\ pos = Len(text)
      /\ result' = [i \in 1..Len(text) |-> IF Starred(i) THEN Star ELSE text[i]]
      /\ pos' = 0 /\ node' = Root /\ matches' = {}
      /\ ptr' = ptr /\ text' = text
      /\ UNCHANGED <<trieVars, fail, buildVars>>
  BY DEF FilterDone
<1>2. text \in Strings /\ Len(text) \in Nat /\ Root \in nodes /\ Root # Null
  BY NodeType
<1>3. /\ TrieInv' /\ FailInv' /\ PhaseInv' /\ QueueInv' /\ WalkInv'
      /\ words' \subseteq Words /\ Root \in nodes' /\ nodes' \subseteq Words
      /\ length' \in [nodes' -> 0..MaxWordLen]
      /\ fail' \in [nodes' -> nodes' \cup {Null}]
      /\ queue' \in Seq(nodes') /\ todo' \subseteq nodes' /\ child' \in nodes'
      /\ words' = words /\ nodes' = nodes /\ length' = length
  BY <1>1, FilterFrame
<1>4. ACTypeOK'
  <2>1. result' \in Seq(Alphabet \cup {Star})
    <3>1. \A i \in 1..Len(text) : text[i] \in Alphabet
      BY <1>2, ElementOfSeq DEF Strings
    <3>2. \A i \in 1..Len(text) :
             (IF Starred(i) THEN Star ELSE text[i]) \in Alphabet \cup {Star}
      BY <3>1
    <3> HIDE DEF Starred
    <3>3. result' \in [1..Len(text) -> Alphabet \cup {Star}]
      BY <1>1, <3>2
    <3> QED BY <1>2, <3>3
  <2>2. text' \in Texts
    BY <1>1 DEF ACTypeOK
  <2>3. /\ pos' \in 0..Len(text')
        /\ matches' \subseteq (1..Len(text')) \X (1..Len(text'))
    BY <1>1, <1>2
  <2> QED BY <1>1, <1>2, <1>3, <2>1, <2>2, <2>3 DEF ACTypeOK
<1>5. ASSUME NEW i \in 1..Len(text)
      PROVE  Starred(i) <=> Covered(text, words, i)
  <2>1. ASSUME NEW m \in matches, m[1] <= i, i <= m[2]
        PROVE  Covered(text, words, i)
    <3>1. m[1] \in 1..Len(text) /\ m[2] \in 1..Len(text)
      BY DEF ACTypeOK
    <3>2. m[1] \in 1..i /\ m[2] \in i..Len(text)
      BY <1>2, <2>1, <3>1
    <3>3. SubSeq(text, m[1], m[2]) \in words
      BY <1>1 DEF MatchInv
    <3> QED BY <3>2, <3>3 DEF Covered
  <2>2. ASSUME NEW a \in 1..i, NEW b \in i..Len(text), SubSeq(text, a, b) \in words
        PROVE  Starred(i)
    <3>1. b \in 1..pos /\ a \in 1..b /\ a <= i /\ i <= b
      BY <1>1, <1>2
    <3>2. <<a, b>> \in matches
      <4>1. <<a, b>> \in matches \/ b - a + 1 <= Len(ptr)
        BY <1>1, <2>2, <3>1 DEF MatchInv
      <4>2. ~ (b - a + 1 <= Len(ptr))
        BY <1>1, <1>2, <3>1 DEF Root
      <4> QED BY <4>1, <4>2
    <3>3. <<a, b>>[1] <= i /\ i <= <<a, b>>[2]
      BY <3>1
    <3> QED BY <3>2, <3>3
  <2> QED BY <2>1, <2>2 DEF Covered
<1>6. MasksExactlyTheWords'
  <2> HIDE DEF Starred
  <2>1. result' = [i \in 1..Len(text) |->
                     IF Covered(text, words, i) THEN Star ELSE text[i]]
    BY <1>1, <1>5
  <2> QED BY <1>1, <1>3, <2>1 DEF MasksExactlyTheWords
<1>7. NodeInv' /\ MatchInv'
  BY <1>1 DEF NodeInv, MatchInv
<1> QED BY <1>3, <1>4, <1>6, <1>7

(* The constructor establishes the invariant.                              *)
LEMMA ACInitInv ==
  ASSUME ACInit
  PROVE  ACInv
<1>1. Root \in Words /\ Len(Root) = 0
  <2>1. Root \in Strings
    BY DEF Root, Strings
  <2>2. Len(Root) = 0
    BY DEF Root
  <2> QED BY <2>1, <2>2, WordType, ACAssumption
<1>2. <<>> \in Texts /\ Len(<<>>) = 0
  <2>1. <<>> \in Strings
    BY DEF Strings
  <2> QED BY <2>1, WordType, ACAssumption
<1>3. ACTypeOK
  <2>1. length \in [nodes -> 0..MaxWordLen] /\ fail \in [nodes -> nodes \cup {Null}]
    BY ACAssumption DEF ACInit
  <2>2. queue \in Seq(nodes) /\ result \in Seq(Alphabet \cup {Star})
    BY DEF ACInit
  <2>3. /\ text \in Texts /\ pos \in 0..Len(text)
        /\ matches \subseteq (1..Len(text)) \X (1..Len(text))
    BY <1>2 DEF ACInit
  <2> QED BY <1>1, <2>1, <2>2, <2>3 DEF ACInit, ACTypeOK
<1>4. TrieInv
  BY <1>1 DEF ACInit, TrieInv
<1>5. FailInv /\ PhaseInv
  BY DEF ACInit, FailInv, PhaseInv
<1>6. QueueInv /\ WalkInv /\ NodeInv /\ MatchInv /\ MasksExactlyTheWords
  BY DEF ACInit, QueueInv, WalkInv, NodeInv, MatchInv, MasksExactlyTheWords
<1> QED BY <1>3, <1>4, <1>5, <1>6 DEF ACInv

(* A step that changes nothing keeps it.                                   *)
LEMMA ACStutter ==
  ASSUME ACInv, UNCHANGED acVars
  PROVE  ACInv'
BY DEF ACInv, acVars, ACTypeOK, TrieInv, FailInv, PhaseInv, QueueInv, WalkInv, NodeInv,
       MatchInv, MasksExactlyTheWords, Seen, Queued, Children

-----------------------------------------------------------------------------
(***************************************************************************)
(* The word filter: the theorems                                           *)
(***************************************************************************)

(* The inductive invariant holds of every state of the filter.             *)
THEOREM ACInvariance == ACSpec => []ACInv
<1>1. ACInit => ACInv
  BY ACInitInv
<1>2. ACInv /\ [ACNext]_acVars => ACInv'
  <2> SUFFICES ASSUME ACInv, [ACNext]_acVars PROVE ACInv'
    OBVIOUS
  <2>1. CASE UNCHANGED acVars
    BY <2>1, ACStutter
  <2>2. ASSUME NEW w \in Words, Insert(w) PROVE ACInv'
    BY <2>2, InsertInv
  <2>3. CASE StartBuild
    BY <2>3, StartBuildInv
  <2>4. CASE BuildNode
    BY <2>4, BuildNodeInv
  <2>5. ASSUME NEW c \in nodes, RootChild(c) PROVE ACInv'
    BY <2>5, RootChildInv
  <2>6. ASSUME NEW c \in nodes, StartWalk(c) PROVE ACInv'
    BY <2>6, StartWalkInv
  <2>7. CASE WalkUp
    BY <2>7, WalkUpInv
  <2>8. CASE WalkFound
    BY <2>8, WalkFoundInv
  <2>9. CASE WalkEnds
    BY <2>9, WalkEndsInv
  <2>10. CASE BuildDone
    BY <2>10, BuildDoneInv
  <2>11. ASSUME NEW t \in Texts, StartFilter(t) PROVE ACInv'
    BY <2>11, StartFilterInv
  <2>12. CASE FilterUp
    BY <2>12, FilterUpInv
  <2>13. CASE FilterMove
    BY <2>13, FilterMoveInv
  <2>14. CASE MatchUp
    BY <2>14, MatchUpInv
  <2>15. CASE FilterDone
    BY <2>15, FilterDoneInv
  <2> QED BY <2>1, <2>2, <2>3, <2>4, <2>5, <2>6, <2>7, <2>8, <2>9, <2>10, <2>11,
             <2>12, <2>13, <2>14, <2>15 DEF ACNext
<1> QED BY <1>1, <1>2, PTL DEF ACSpec

(* Every variable of the filter keeps its type: in particular filter() is  *)
(* always at a node and never follows a null fail pointer.                 *)
THEOREM FilterTypes == ACSpec => []ACTypeOK
<1>1. ACInv => ACTypeOK
  BY DEF ACInv
<1> QED BY <1>1, ACInvariance, PTL

(* The suffix that FailInv speaks of is the one that the property chooses. *)
LEMMA LongestUnique ==
  ASSUME ACTypeOK, FailInv, NEW n \in nodes, fail[n] # Null
  PROVE  fail[n] = LongestSuffixIn(n, nodes \ {n})
<1> DEFINE S == nodes \ {n}
           Good(t) == IsSuffix(t, n) /\ \A u \in S : IsSuffix(u, n) => Len(u) <= Len(t)
<1>1. n \in Strings /\ Len(n) \in Nat /\ fail[n] \in nodes
  BY NodeType
<1>2. ASSUME NEW t \in S
      PROVE  /\ t \in Strings /\ Len(t) \in Nat /\ t \in nodes
             /\ IsSuffix(t, n) <=> Ends(t, n, Len(n))
             /\ IsSuffix(t, n) <=> Proper(t, n)
  <2>1. t \in Strings /\ Len(t) \in Nat /\ t \in nodes /\ t # n
    BY NodeType
  <2>2. IsSuffix(t, n) <=> Ends(t, n, Len(n))
    BY <1>1, <2>1, SuffixEnds
  <2>3. ASSUME Ends(t, n, Len(n)) PROVE Proper(t, n)
    <3>1. Ends(n, n, Len(n)) /\ Len(t) <= Len(n)
      BY <1>1, <2>3, EndsSelf DEF Ends
    <3> QED BY <1>1, <2>1, <2>3, <3>1, ProperCompare
  <2>4. Proper(t, n) => Ends(t, n, Len(n))
    BY DEF Proper
  <2> QED BY <2>1, <2>2, <2>3, <2>4
<1>3. Proper(fail[n], n) /\ \A v \in nodes : Proper(v, n) => Len(v) <= Len(fail[n])
  BY DEF FailInv
<1>4. fail[n] \in S
  BY <1>1, <1>3 DEF Proper
<1>5. Good(fail[n])
  BY <1>2, <1>3, <1>4
<1>6. ASSUME NEW t \in S, Good(t) PROVE t = fail[n]
  <2>1. Len(t) <= Len(fail[n]) /\ Len(fail[n]) <= Len(t)
    BY <1>4, <1>5, <1>6
  <2>2. Len(t) \in Nat /\ Len(fail[n]) \in Nat /\ t \in Strings /\ fail[n] \in Strings
    BY <1>2, <1>4
  <2>3. Ends(t, n, Len(n)) /\ Ends(fail[n], n, Len(n))
    BY <1>2, <1>4, <1>5, <1>6
  <2>4. Len(t) = Len(fail[n])
    BY <2>1, <2>2
  <2> QED BY <1>1, <2>2, <2>3, <2>4, EndsEqual
<1>7. LongestSuffixIn(n, S) = CHOOSE t \in S : Good(t)
  BY DEF LongestSuffixIn
<1> HIDE DEF Good, S
<1>8. LongestSuffixIn(n, S) \in S /\ Good(LongestSuffixIn(n, S))
  BY <1>4, <1>5, <1>7
<1> QED BY <1>6, <1>8 DEF S

(* build() computes the fail pointers of Aho and Corasick for every set of *)
(* words, in whatever order the hash maps yield the children: each is the  *)
(* longest proper suffix in the trie, and no node goes without.            *)
THEOREM FailPointers == ACSpec => []FailIsLongestSuffix
<1>1. ACInv => FailIsLongestSuffix
  <2> SUFFICES ASSUME ACInv PROVE FailIsLongestSuffix
    OBVIOUS
  <2>1. \A n \in nodes : fail[n] # Null => fail[n] = LongestSuffixIn(n, nodes \ {n})
    BY LongestUnique DEF ACInv
  <2>2. phase \in {"ready", "filter"} => \A n \in nodes \ {Root} : fail[n] # Null
    BY DEF ACInv, PhaseInv, Seen
  <2> QED BY <2>1, <2>2 DEF FailIsLongestSuffix
<1> QED BY <1>1, ACInvariance, PTL

(* filter() stars out exactly the occurrences of the inserted words, for   *)
(* every set of words and every text.                                      *)
THEOREM FilterMasks == ACSpec => []MasksExactlyTheWords
<1>1. ACInv => MasksExactlyTheWords
  BY DEF ACInv
<1> QED BY <1>1, ACInvariance, PTL
=============================================================================
