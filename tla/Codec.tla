------------------------------- MODULE Codec -------------------------------
(***************************************************************************)
(* The receiving side of a connection (codec.cc, dispatcher.h).  The peer  *)
(* writes frames of kHeaderLen + len bytes; TCP cuts the stream into       *)
(* chunks anywhere.  After every chunk onMessage takes the complete frames *)
(* off the buffer one by one.  The buffer is the part of the stream from   *)
(* byte `consumed` to byte `received`; of the bytes of a frame only the    *)
(* fields are kept that onMessage and parse look at.                       *)
(***************************************************************************)
EXTENDS Integers, Sequences

CONSTANTS
  MaxMessageLen,  \* kMaxMessageLen, scaled down
  NameLens,       \* values of the nameLen field in the frames
  DataLens,       \* sizes of serialized messages
  StrayLens,      \* out-of-range values of the len field
  MaxFrames       \* bound: frames the peer writes

HeaderLen     == 4
MinMessageLen == 2 * HeaderLen + 2

ASSUME CodecAssumption ==
  /\ MaxMessageLen \in Nat /\ MaxMessageLen >= MinMessageLen
  /\ NameLens \subseteq Int /\ DataLens \subseteq Nat
  /\ StrayLens \subseteq Int \ (MinMessageLen..MaxMessageLen)
  /\ MaxFrames \in Nat

VARIABLES
  stream,    \* the frames the peer has written
  bounds,    \* where they lie: frame i from byte bounds[i] to bounds[i + 1]
  received,  \* bytes of the stream that have arrived
  consumed,  \* bytes retrieved from the buffer
  inLoop,    \* onMessage is running
  open,      \* conn->connected(): we have not shut it down
  handled,   \* history: frames given to a registered callback or the default
  failed     \* history: errorCallback_ has been called

vars == <<stream, bounds, received, consumed, inLoop, open, handled, failed>>

(* A frame: its length field, whether the checksum is right, the length of *)
(* the type name, what the type is to the receiver, and whether the data   *)
(* parses.  Both lengths are signed on the wire.                           *)
Types  == {"registered", "unregistered", "unknown"}
Frames == [len : Int, sum : BOOLEAN, nameLen : Int, type : Types, data : BOOLEAN]

(* Bytes a frame takes on the wire.  Nobody asks where a frame with a      *)
(* stray length ends; the peer goes on after the smallest frame.           *)
Size(f) ==
  HeaderLen + IF f.len \in MinMessageLen..MaxMessageLen THEN f.len ELSE MinMessageLen

(* Bytes the peer has written.                                             *)
Written == bounds[Len(bounds)]

(* Every variable has its type; nothing is retrieved that has not arrived. *)
TypeOK ==
  /\ stream \in Seq(Frames)
  /\ bounds \in Seq(Nat) /\ Len(bounds) = Len(stream) + 1
  /\ received \in 0..Written
  /\ consumed \in 0..received
  /\ inLoop \in BOOLEAN
  /\ open \in BOOLEAN
  /\ handled \in Seq(Frames)
  /\ failed \in BOOLEAN

Init ==
  /\ stream = <<>> /\ bounds = <<0>>
  /\ received = 0 /\ consumed = 0
  /\ inLoop = FALSE /\ open = TRUE
  /\ handled = <<>> /\ failed = FALSE
-----------------------------------------------------------------------------
(***************************************************************************)
(* The peer                                                                *)
(***************************************************************************)

(* fillEmptyBuffer: the frame of a message with a type name of nameLen - 1 *)
(* characters that serializes to dataLen bytes.  The size is not checked   *)
(* against kMaxMessageLen.                                                 *)
FillEmptyBuffer(nameLen, dataLen, type) ==
  [len |-> HeaderLen + nameLen + dataLen + HeaderLen, sum |-> TRUE,
   nameLen |-> nameLen, type |-> type, data |-> TRUE]

(* A frame goes out behind the others.                                     *)
Write(f) ==
  /\ Len(stream) < MaxFrames
  /\ stream' = Append(stream, f)
  /\ bounds' = Append(bounds, Written + Size(f))
  /\ UNCHANGED <<received, consumed, inLoop, open, handled, failed>>

(* A peer that uses the codec; the receiver may not know the type.         *)
PeerSends(nameLen, dataLen, type) ==
  /\ nameLen >= 2
  /\ Write(FillEmptyBuffer(nameLen, dataLen, type))

(* A peer that does not: one field is off.                                 *)
PeerStrays(len, sum, nameLen, data) ==
  Write([len |-> len, sum |-> sum, nameLen |-> nameLen, type |-> "registered",
         data |-> data])

(* Bytes arrive, any number of them, and onMessage is called.  A shutdown  *)
(* closes the other direction only, so this goes on after one.             *)
Arrive(n) ==
  /\ ~inLoop
  /\ received < n
  /\ received' = n
  /\ inLoop' = TRUE
  /\ UNCHANGED <<stream, bounds, consumed, open, handled, failed>>
-----------------------------------------------------------------------------
(***************************************************************************)
(* onMessage and parse                                                     *)
(***************************************************************************)

Readable == received - consumed

(* The frame that starts at byte n of the stream.                          *)
StartsAt(n) == {i \in 1..Len(stream) : bounds[i] = n}
FrameAt(n)  == stream[CHOOSE i \in StartsAt(n) : TRUE]

(* parse(): the error code of a complete frame.                            *)
Parse(f) ==
  CASE ~f.sum                                         -> "CheckSumError"
    [] f.sum /\ f.nameLen \notin 2..(f.len - 2 * HeaderLen) -> "InvalidNameLen"
    [] OTHER -> IF f.type = "unknown" THEN "UnknownMessageType"
                ELSE IF ~f.data THEN "ParseError" ELSE "NoError"

(* Mutant of MoreToDo: a frame of the smallest size is left in the buffer. *)
MoreToDoStrictly == Readable > MinMessageLen + HeaderLen

(* The loop's test, which also covers peekInt32.                           *)
MoreToDo == Readable >= MinMessageLen + HeaderLen

InvalidLength(f) == f.len > MaxMessageLen \/ f.len < MinMessageLen
Complete(f)      == Readable >= f.len + HeaderLen

(* The loop ends: too few bytes for a frame, or for the one that is next.  *)
LoopEnds ==
  /\ inLoop
  /\ MoreToDo => /\ ~InvalidLength(FrameAt(consumed))
                 /\ ~Complete(FrameAt(consumed))
  /\ inLoop' = FALSE
  /\ UNCHANGED <<stream, bounds, received, consumed, open, handled, failed>>

(* errorCallback_ and break: the connection is shut down; the frame stays  *)
(* in the buffer.                                                          *)
LoopFails ==
  LET f == FrameAt(consumed) IN
  /\ inLoop /\ MoreToDo
  /\ InvalidLength(f) \/ (Complete(f) /\ Parse(f) # "NoError")
  /\ inLoop' = FALSE
  /\ open' = FALSE
  /\ failed' = TRUE
  /\ UNCHANGED <<stream, bounds, received, consumed, handled>>

(* Mutant of OnProtobufMessage: an unregistered type does not end the      *)
(* connection.                                                             *)
DispatchAnything(f) == handled' = Append(handled, f) /\ UNCHANGED open

(* onProtobufMessage: a type without a callback goes to                    *)
(* onUnknownMessageType, which shuts the connection down.                  *)
OnProtobufMessage(f) ==
  /\ handled' = Append(handled, f)
  /\ open' = (open /\ f.type = "registered")

(* Mutant of LoopDispatches: the test for a complete frame is missing.     *)
LoopDispatchesEarly ==
  LET f == FrameAt(consumed) IN
  /\ inLoop /\ MoreToDo
  /\ ~InvalidLength(f) /\ Parse(f) = "NoError"
  /\ OnProtobufMessage(f)
  /\ consumed' = consumed + HeaderLen + f.len
  /\ UNCHANGED <<stream, bounds, received, inLoop, failed>>

(* messageCallback_, then retrieve, then the next round, also after a      *)
(* shutdown.                                                               *)
LoopDispatches ==
  LET f == FrameAt(consumed) IN
  /\ inLoop /\ MoreToDo
  /\ ~InvalidLength(f) /\ Complete(f) /\ Parse(f) = "NoError"
  /\ OnProtobufMessage(f)
  /\ consumed' = consumed + HeaderLen + f.len
  /\ UNCHANGED <<stream, bounds, received, inLoop, failed>>
-----------------------------------------------------------------------------
Peer ==
  \/ \E nameLen \in NameLens, dataLen \in DataLens, type \in Types :
       PeerSends(nameLen, dataLen, type)
  \/ \E nameLen \in NameLens, len \in {MinMessageLen} \cup StrayLens, sum, data \in BOOLEAN :
       PeerStrays(len, sum, nameLen, data)

Next ==
  \/ Peer
  \/ \E n \in 1..Written : Arrive(n)
  \/ LoopEnds \/ LoopFails \/ LoopDispatches

Spec == Init /\ [][Next]_vars
-----------------------------------------------------------------------------
(***************************************************************************)
(* Properties                                                              *)
(***************************************************************************)

(* A frame that this codec could have written: its fields fit together, it *)
(* is not too long, and its type exists here.                              *)
Good(f) ==
  /\ f.len <= MaxMessageLen
  /\ f.nameLen >= 2 /\ f.type # "unknown"
  /\ \E dataLen \in 0..f.len : f = FillEmptyBuffer(f.nameLen, dataLen, f.type)

(* The frames a reader of the whole stream would accept: those before the  *)
(* first bad one, as far as they have arrived.                             *)
Acceptable ==
  LET ok == {k \in 0..Len(stream) :
               /\ bounds[k + 1] <= received
               /\ \A i \in 1..k : Good(stream[i])}
  IN  SubSeq(stream, 1, CHOOSE k \in ok : \A j \in ok : j <= k)

(* When onMessage returns, exactly the acceptable frames have been         *)
(* dispatched, in order and once, however TCP cut the stream: a complete   *)
(* frame never waits for more bytes, and nothing behind a bad frame is     *)
(* ever dispatched, though bytes keep arriving after the shutdown.         *)
DispatchesAcceptable == ~inLoop => handled = Acceptable

(* When onMessage returns, the connection is open exactly if every frame   *)
(* whose bytes have arrived is good and of a registered type: a bad        *)
(* checksum, name length, name or payload, an unregistered type, and a     *)
(* stray length (once a smallest frame would fit) each shut it down,       *)
(* wherever TCP cut the stream, and nothing else does.                     *)
OpenIffClean ==
  ~inLoop =>
    (open <=> \A i \in 1..Len(stream) :
                bounds[i + 1] <= received =>
                  Good(stream[i]) /\ stream[i].type = "registered")
=============================================================================
