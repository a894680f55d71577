------------------------------ MODULE SSLHelper ------------------------------
(***************************************************************************)
(* SSL_Helper (SSL_Helper.cpp) at both ends of a TCP connection, as the    *)
(* programs ssl_server and ssl_client use it: the client sends a request   *)
(* when it is connected, the server answers every block of data it is      *)
(* handed.  The server runs all its connections on one event loop, and     *)
(* takes any TLS client: nothing bounds the blocks a client sends, and it  *)
(* may send more of them than ssl_client does.                             *)
(*                                                                         *)
(* The SSL object of OpenSSL is external.  A handshake is Flights messages *)
(* (3 with TLS 1.3, 4 with TLS 1.2) that the two sides send in turn;       *)
(* SSL_read consumes those that have come, produces the next one, and goes *)
(* on to application data once the handshake is finished.  A negative      *)
(* length is an error.  Errors stay in a queue of the thread until a step  *)
(* of some handshake clears it, and SSL_get_error takes an error that is   *)
(* queued for the reason of any read that returned nothing.                *)
(***************************************************************************)
EXTENDS Integers, Sequences

CONSTANTS
  Conns,         \* connections, one client process each
  Capacity,      \* initial size of m_DecryptedRecvData (10240)
  Lengths,       \* lengths of a client's blocks, longer than the buffer or not
  AnswerLength,  \* length of the server's answer, always the same text
  SizeModulus,   \* 2^64: size() and m_CurrRecived are unsigned
  IntModulus,    \* 2^32: SSL_read takes an int
  MaxParts,      \* bound: calls of onMessage with no complete record
  MaxMore        \* bound: blocks that clients send after their request

ASSUME SSLHelperAssumption ==
  /\ Capacity \in Nat \ {0}
  /\ Lengths \subseteq Nat \ {0} /\ AnswerLength \in Nat \ {0}
  /\ SizeModulus \in Nat \ {0} /\ IntModulus \in Nat \ {0}
  /\ SizeModulus % IntModulus = 0
  /\ IntModulus % 2 = 0 /\ 2 * Capacity < IntModulus
  /\ MaxParts \in Nat /\ MaxMore \in Nat

Sides     == {"client", "server"}
Ends      == Conns \X Sides
Peer(e)   == <<e[1], IF e[2] = "client" THEN "server" ELSE "client">>
Server(c) == <<c, "server">>
Client(c) == <<c, "client">>

(* The ends that live in the process of e: every client is one of its own. *)
Process(e) == IF e[2] = "server" THEN Conns \X {"server"} ELSE {e}

VARIABLES
  flights,     \* per connection: messages of a handshake
  state,       \* per end: the TcpConnection
  pc,          \* per end: where its handler stands
  stage,       \* last message of the handshake the SSL object knows of
  rbio,        \* m_Bio[RECV]
  sbio,        \* m_Bio[SEND]
  wire,        \* per end: sent to it, not yet received
  handshaked,  \* m_Handshaked
  size,        \* m_DecryptedRecvData.size()
  curr,        \* m_CurrRecived
  handed,      \* history: blocks handed to m_SSL_receive_callback
  errors,      \* the server's thread has an error in its queue
  parts,       \* calls of onMessage with no complete record so far
  more         \* blocks that clients have sent after their request

vars == <<flights, state, pc, stage, rbio, sbio, wire, handshaked, size, curr,
          handed, errors, parts, more>>

Flight(i) == [flight |-> i]
Record(n) == [length |-> n]
Units     == [flight : 1..4] \cup [length : Nat \ {0}]

(* Every variable has its type.                                            *)
TypeOK ==
  /\ flights \in [Conns -> {3, 4}]
  /\ state \in [Ends -> {"new", "up", "closing", "down"}]
  /\ pc \in [Ends -> {"idle", "read", "finish", "aborted"}]
  /\ stage \in [Ends -> 0..4]
  /\ rbio \in [Ends -> Seq(Units)]
  /\ sbio \in [Ends -> Seq(Units)]
  /\ wire \in [Ends -> Seq(Units)]
  /\ handshaked \in [Ends -> BOOLEAN]
  /\ size \in [Ends -> {0, Capacity}]
  /\ curr \in [Ends -> 0..Capacity]
  /\ handed \in [Ends -> Nat]
  /\ errors \in BOOLEAN
  /\ parts \in 0..MaxParts
  /\ more \in 0..MaxMore

Init ==
  /\ flights \in [Conns -> {3, 4}]
  /\ state = [e \in Ends |-> "new"]
  /\ pc = [e \in Ends |-> "idle"]
  /\ stage = [e \in Ends |-> 0]
  /\ rbio = [e \in Ends |-> <<>>]
  /\ sbio = [e \in Ends |-> <<>>]
  /\ wire = [e \in Ends |-> <<>>]
  /\ handshaked = [e \in Ends |-> FALSE]
  /\ size = [e \in Ends |-> Capacity]
  /\ curr = [e \in Ends |-> 0]
  /\ handed = [e \in Ends |-> 0]
  /\ errors = FALSE
  /\ parts = 0
  /\ more = 0

(* One event loop serves all connections of a process.                     *)
LoopFree(e) == \A x \in Process(e) : pc[x] = "idle"

(* SSLProcessingSend: all that is in the SEND BIO goes to the connection,  *)
(* which ignores it after forceClose; a peer that is gone gets nothing.    *)
SSLProcessingSend(e, out) ==
  /\ sbio' = [sbio EXCEPT ![e] = <<>>]
  /\ wire' = IF state[e] = "up" /\ state[Peer(e)] # "down"
             THEN [wire EXCEPT ![Peer(e)] = @ \o out] ELSE wire

(* SSLSendData: encrypt a block and send it, with all that is waiting.     *)
SSLSendData(e, n) == SSLProcessingSend(e, sbio[e] \o <<Record(n)>>)

(* close_session: forceClose, which takes effect after the handler.        *)
CloseSession(e) == state' = [state EXCEPT ![e] = "closing"]
-----------------------------------------------------------------------------
(***************************************************************************)
(* Connections                                                             *)
(***************************************************************************)

(* onConnection, UP: a new SSL_Helper.  SSLProcessingConnect's SSL_read    *)
(* begins the handshake with the first message; SSLProcessingAccept's      *)
(* finds nothing to read.                                                  *)
OnConnectionUp(e) ==
  LET out == IF e[2] = "client" THEN <<Flight(1)>> ELSE <<>> IN
  /\ LoopFree(e)
  /\ state[e] = "new"
  /\ state' = [state EXCEPT ![e] = "up"]
  /\ stage' = [stage EXCEPT ![e] = Len(out)]
  /\ wire' = [wire EXCEPT ![Peer(e)] = @ \o out]
  /\ errors' = (errors /\ e[2] = "client")
  /\ UNCHANGED <<flights, pc, rbio, sbio, handshaked, size, curr, handed, parts, more>>

(* onConnection, DOWN: after forceClose, or when the peer is gone and all  *)
(* it has sent is read.  The helper has no more use for its BIO.           *)
OnConnectionDown(e) ==
  /\ LoopFree(e)
  /\ \/ state[e] = "closing"
     \/ state[e] = "up" /\ state[Peer(e)] = "down" /\ wire[e] = <<>>
  /\ state' = [state EXCEPT ![e] = "down"]
  /\ wire' = [wire EXCEPT ![e] = <<>>]
  /\ rbio' = [rbio EXCEPT ![e] = <<>>]
  /\ UNCHANGED <<flights, pc, stage, sbio, handshaked, size, curr, handed,
                 errors, parts, more>>

(* onMessage, and SSLProcessingRecv up to its loop: what TCP has brought   *)
(* goes to the RECV BIO, some whole records or only a part of one.         *)
OnMessage(e) ==
  /\ LoopFree(e)
  /\ state[e] = "up"
  /\ wire[e] # <<>>
  /\ \E k \in 0..Len(wire[e]) :
       /\ k = 0 => parts < MaxParts
       /\ parts' = IF k = 0 THEN parts + 1 ELSE parts
       /\ rbio' = [rbio EXCEPT ![e] = @ \o SubSeq(wire[e], 1, k)]
       /\ wire' = [wire EXCEPT ![e] = SubSeq(@, k + 1, Len(@))]
  /\ pc' = [pc EXCEPT ![e] = "read"]
  /\ UNCHANGED <<flights, state, stage, sbio, handshaked, size, curr, handed, errors,
                 more>>

(* A client's application calls SSLSendData once more.                     *)
SendMore(e) ==
  /\ e[2] = "client" /\ LoopFree(e)
  /\ state[e] = "up" /\ handshaked[e]
  /\ more < MaxMore
  /\ more' = more + 1
  /\ \E n \in Lengths : SSLSendData(e, n)
  /\ UNCHANGED <<flights, state, pc, stage, rbio, handshaked, size, curr, handed,
                 errors, parts>>
-----------------------------------------------------------------------------
(***************************************************************************)
(* The loop of SSLProcessingRecv                                           *)
(***************************************************************************)

(* m_DecryptedRecvData.size() - m_CurrRecived                              *)
Room(e) == (size[e] - curr[e]) % SizeModulus

(* Mutant of ReadLength: the length is passed on as it is.                 *)
ReadLengthUnsigned(e) == Room(e)

(* The same as an int.                                                     *)
ReadLength(e) ==
  LET low == Room(e) % IntModulus
  IN  IF 2 * low < IntModulus THEN low ELSE low - IntModulus

(* SSL_is_init_finished once the SSL object is at message n.               *)
InitFinished(e, n) == n = flights[e[1]]

(* SSL_read consumes a message of the handshake that has come and makes    *)
(* the next one.                                                           *)
HasFlight(e) == rbio[e] # <<>> /\ "flight" \in DOMAIN Head(rbio[e])
NextStage(e) ==
  IF ~HasFlight(e) THEN stage[e]
  ELSE IF stage[e] + 2 <= flights[e[1]] THEN stage[e] + 2 ELSE stage[e] + 1
Produced(e) == IF NextStage(e) = stage[e] + 2 THEN <<Flight(NextStage(e))>> ELSE <<>>
Unread(e)   == IF HasFlight(e) THEN Tail(rbio[e]) ELSE rbio[e]

(* SSL_read finds application data.                                        *)
HasData(e) == InitFinished(e, NextStage(e)) /\ Unread(e) # <<>>

(* The error queue of the thread after a step of a handshake, which clears *)
(* the one of the server.                                                  *)
Cleared(e) == errors /\ ~(e[2] = "server" /\ ~InitFinished(e, stage[e]))

(* The assertion is about the unsigned value.                              *)
MayRead(e) == pc[e] = "read" /\ Room(e) > 0

(* When there is no room the assertion ends the process and with it every  *)
(* connection the process has.                                             *)
AssertFails(e) ==
  /\ pc[e] = "read" /\ Room(e) = 0
  /\ state' = [x \in Ends |-> IF x \in Process(e) THEN "down" ELSE state[x]]
  /\ pc' = [x \in Ends |-> IF x \in Process(e) THEN "aborted" ELSE pc[x]]
  /\ wire' = [x \in Ends |-> IF x \in Process(e) THEN <<>> ELSE wire[x]]
  /\ rbio' = [x \in Ends |-> IF x \in Process(e) THEN <<>> ELSE rbio[x]]
  /\ UNCHANGED <<flights, stage, sbio, handshaked, size, curr, handed, errors,
                 parts, more>>

(* SSL_read refuses a negative length, and the session is closed.          *)
ReadRefused(e) ==
  /\ MayRead(e)
  /\ ReadLength(e) < 0
  /\ errors' = (errors \/ e[2] = "server")
  /\ CloseSession(e)
  /\ pc' = [pc EXCEPT ![e] = "finish"]
  /\ UNCHANGED <<flights, stage, rbio, sbio, wire, handshaked, size, curr, handed, parts, more>>

(* handledata: the server answers, the client only prints.                 *)
HandleData(e) ==
  IF e[2] = "server" THEN SSLSendData(e, AnswerLength) ELSE UNCHANGED <<sbio, wire>>

(* SSLReceiveData hands the whole buffer to the callback and clears it;    *)
(* the offset stays.                                                       *)
SSLReceiveData(e) ==
  /\ handed' = [handed EXCEPT ![e] = @ + 1]
  /\ HandleData(e)
  /\ size' = [size EXCEPT ![e] = 0]

(* SSL_read stores at most ReadLength bytes of one record, behind what the *)
(* buffer holds; the rest of the record waits for the next call.           *)
Stores(e) ==
  LET n == Head(Unread(e)).length
  IN  IF n <= ReadLength(e) THEN n ELSE ReadLength(e)
Rest(e) ==
  LET n == Head(Unread(e)).length IN
  (IF Stores(e) = n THEN <<>> ELSE <<Record(n - Stores(e))>>) \o Tail(Unread(e))

Stored(e) ==
  /\ MayRead(e)
  /\ ReadLength(e) >= 0
  /\ HasData(e)
  /\ curr' = [curr EXCEPT ![e] = @ + Stores(e)]
  /\ rbio' = [rbio EXCEPT ![e] = Rest(e)]
  /\ stage' = [stage EXCEPT ![e] = NextStage(e)]
  /\ errors' = Cleared(e)
  /\ UNCHANGED <<flights, state, pc, handshaked, parts, more>>

(* Before the handshake is known to be over, the data stays there.         *)
ReadEarly(e) ==
  /\ Stored(e)
  /\ ~handshaked[e]
  /\ sbio' = [sbio EXCEPT ![e] = @ \o Produced(e)]
  /\ UNCHANGED <<wire, size, handed>>

(* Mutant of ReadData: the buffer grows by each block.                     *)
ReadDataGrows(e) ==
  /\ Stored(e)
  /\ handshaked[e]
  /\ size' = [size EXCEPT ![e] = @ + Head(rbio[e]).length]
  /\ HandleData(e)
  /\ handed' = [handed EXCEPT ![e] = @ + 1]

(* Afterwards it is handed over.                                           *)
ReadData(e) ==
  /\ Stored(e)
  /\ handshaked[e]
  /\ SSLReceiveData(e)

(* SSL_get_error of a read that returned nothing is an error.              *)
IsSSLError(e) == e[2] = "server" /\ errors'

(* SSL_read has nothing for us; a queued error passes for the reason, and  *)
(* the session is closed.                                                  *)
ReadNothing(e) ==
  /\ MayRead(e)
  /\ ReadLength(e) >= 0
  /\ ~HasData(e)
  /\ stage' = [stage EXCEPT ![e] = NextStage(e)]
  /\ sbio' = [sbio EXCEPT ![e] = @ \o Produced(e)]
  /\ rbio' = [rbio EXCEPT ![e] = Unread(e)]
  /\ errors' = Cleared(e)
  /\ IF IsSSLError(e) THEN CloseSession(e) ELSE UNCHANGED state
  /\ pc' = [pc EXCEPT ![e] = "finish"]
  /\ UNCHANGED <<flights, wire, handshaked, size, curr, handed, parts, more>>

(* SSLConnected: the client sends its request, the server has no callback. *)
SSLConnected(e) ==
  IF e[2] = "client" THEN \E n \in Lengths : SSLSendData(e, n)
  ELSE SSLProcessingSend(e, sbio[e])

(* The handshake is finished and nobody has noticed.                       *)
JustFinished(e) == ~handshaked[e] /\ InitFinished(e, stage[e])

NoticeHandshake(e) ==
  /\ pc[e] = "finish"
  /\ handshaked' = [handshaked EXCEPT ![e] = @ \/ JustFinished(e)]
  /\ pc' = [pc EXCEPT ![e] = "idle"]
  /\ UNCHANGED <<flights, state, stage, rbio, size, curr, handed, errors, parts, more>>

(* Mutant of Finish: the SEND BIO is drained only when there is data.      *)
FinishWithoutSend(e) ==
  /\ NoticeHandshake(e)
  /\ IF JustFinished(e) THEN SSLConnected(e) ELSE UNCHANGED <<sbio, wire>>

(* The end of SSLProcessingRecv: notice that the handshake is finished,    *)
(* call SSLConnected, and drain the SEND BIO in any case.                  *)
Finish(e) ==
  /\ NoticeHandshake(e)
  /\ IF JustFinished(e) THEN SSLConnected(e) ELSE SSLProcessingSend(e, sbio[e])
-----------------------------------------------------------------------------
End(e) ==
  \/ OnConnectionUp(e) \/ OnConnectionDown(e) \/ OnMessage(e)
  \/ AssertFails(e) \/ ReadRefused(e)
  \/ ReadEarly(e) \/ ReadData(e) \/ ReadNothing(e) \/ Finish(e)

Next == \E e \in Ends : End(e) \/ SendMore(e)

Spec == Init /\ [][Next]_vars

(* The loops of the clients run, the one of the server serves every        *)
(* connection, and TCP brings what was sent.  No client has to send more.  *)
FairSpec == Spec /\ \A e \in Ends : WF_vars(End(e))
-----------------------------------------------------------------------------
(***************************************************************************)
(* Properties                                                              *)
(***************************************************************************)

(* SSL_read never stores a byte outside the buffer, although the buffer    *)
(* shrinks to nothing under an offset that stays, and the room left is     *)
(* computed below zero in unsigned arithmetic: what SSL_read gets is then  *)
(* negative.  The assertion before SSL_read does not hold as it stands,    *)
(* but it can fail in one way only: data that is read before SSL_Helper    *)
(* notices the end of the handshake, which nobody takes out of the buffer, *)
(* fills it to the end.                                                    *)
ReadsInsideBuffer ==
  \A e \in Ends : pc[e] = "read" =>
    /\ ReadLength(e) > 0 => curr[e] + ReadLength(e) <= size[e]
    /\ Room(e) = 0 => ~handshaked[e]

(* The server has read data of c in the call that ended the handshake, and *)
(* keeps it until more comes.                                              *)
HeldBack(c) == handshaked[Server(c)] /\ curr[Server(c)] > 0 /\ size[Server(c)] = Capacity

(* Every client gets an answer to its request, with three exceptions.      *)
(* With TLS 1.3 the request follows the client's last message of the       *)
(* handshake at once, and the server holds it back if it reads both        *)
(* together; if what it holds back fills the buffer, the assertion ends    *)
(* the server.  And an error left over from a connection that was served   *)
(* before can close another one.  So nobody waits for a message of the     *)
(* handshake that the other side keeps in its BIO.                         *)
RequestServed ==
  \A c \in Conns :
    state[Client(c)] = "up" ~>
      \/ handed[Client(c)] > 0
      \/ HeldBack(c) /\ flights[c] = 3
      \/ /\ pc[Server(c)] = "aborted"
         /\ \E d \in Conns : flights[d] = 3 /\ curr[Server(d)] = Capacity
      \/ /\ state[Server(c)] = "down" /\ handed[Server(c)] = 0
         /\ \E d \in Conns \ {c} : handed[Server(d)] > 0
=============================================================================
