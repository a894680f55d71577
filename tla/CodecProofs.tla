----------------------------- MODULE CodecProofs -----------------------------
(***************************************************************************)
(* The codec for any number of frames of any length and any way TCP cuts   *)
(* the stream: what onMessage dispatches is what a reader of the whole     *)
(* stream would accept.                                                    *)
(*                                                                         *)
(* The invariant says where onMessage stands.  The bytes retrieved from    *)
(* the buffer end where the last dispatched frame ends, so the next length *)
(* field is read at the start of a frame, never inside one; what has been  *)
(* dispatched is an initial part of the stream, all of it good; and when   *)
(* onMessage has returned the next frame is bad or not complete.           *)
(***************************************************************************)
EXTENDS Codec, SequenceTheorems, TLAPS

(* The frames lie behind each other.                                       *)
BoundsInv ==
  /\ bounds[1] = 0
  /\ \A i \in 1..Len(stream) : bounds[i + 1] = bounds[i] + Size(stream[i])
  /\ \A i, j \in 1..Len(bounds) : i < j => bounds[i] < bounds[j]

(* The frame that is next, and the place where it starts.                  *)
Position == Len(handled) + 1

(* onMessage has dispatched the first frames of the stream, good ones, and *)
(* retrieved their bytes.                                                  *)
PositionInv ==
  /\ Len(handled) <= Len(stream)
  /\ \A i \in 1..Len(handled) : handled[i] = stream[i] /\ Good(stream[i])
  /\ consumed = bounds[Position]

(* When it has returned, the next frame is bad or not complete.            *)
StoppedInv ==
  ~inLoop /\ Position <= Len(stream) =>
    ~Good(stream[Position]) \/ received < bounds[Position + 1]

(* An error has been reported only if the next frame is there and bad, and *)
(* then it has been when onMessage has returned.                           *)
FailedInv ==
  /\ failed => /\ Position <= Len(stream) /\ ~Good(stream[Position])
               /\ bounds[Position + 1] <= received
  /\ ~inLoop /\ ~failed /\ Position <= Len(stream) => received < bounds[Position + 1]

(* The connection is open until something goes wrong.                      *)
OpenInv ==
  open <=> ~failed /\ \A i \in 1..Len(handled) : handled[i].type = "registered"

IInv == TypeOK /\ BoundsInv /\ PositionInv /\ StoppedInv /\ FailedInv /\ OpenInv
-----------------------------------------------------------------------------
(***************************************************************************)
(* Frames                                                                  *)
(***************************************************************************)

(* A frame takes at least the bytes the loop waits for.                    *)
LEMMA SizeOfFrame ==
  ASSUME NEW f \in Frames
  PROVE  /\ Size(f) \in Nat /\ Size(f) >= MinMessageLen + HeaderLen
         /\ MinMessageLen + HeaderLen > 0
         /\ ~InvalidLength(f) => Size(f) = f.len + HeaderLen
<1>1. f.len \in Int /\ MaxMessageLen \in Nat
  BY CodecAssumption DEF Frames
<1> QED  BY <1>1 DEF Size, InvalidLength, MinMessageLen, HeaderLen

(* The good frames are those whose length and parse() find no fault with.  *)
LEMMA GoodFrame ==
  ASSUME NEW f \in Frames
  PROVE  Good(f) <=> ~InvalidLength(f) /\ Parse(f) = "NoError"
<1>1. /\ f.len \in Int /\ f.nameLen \in Int /\ f.sum \in BOOLEAN /\ f.data \in BOOLEAN
      /\ f.type \in Types /\ MaxMessageLen \in Nat
      /\ f = [len |-> f.len, sum |-> f.sum, nameLen |-> f.nameLen, type |-> f.type, data |-> f.data]
  BY CodecAssumption DEF Frames
<1>2. ASSUME Good(f) PROVE ~InvalidLength(f) /\ Parse(f) = "NoError"
  <2>1. PICK dataLen \in 0..f.len : f = FillEmptyBuffer(f.nameLen, dataLen, f.type)
    BY <1>2 DEF Good
  <2>2. /\ f.len = HeaderLen + f.nameLen + dataLen + HeaderLen
        /\ f.sum = TRUE /\ f.data = TRUE
    BY <2>1 DEF FillEmptyBuffer
  <2>3. f.len <= MaxMessageLen /\ f.nameLen >= 2 /\ f.type # "unknown" /\ dataLen \in Nat
    BY <1>1, <1>2 DEF Good
  <2>4. f.nameLen \in 2..(f.len - 2 * HeaderLen)
    BY <1>1, <2>2, <2>3 DEF HeaderLen
  <2>5. ~InvalidLength(f)
    BY <1>1, <2>2, <2>3 DEF InvalidLength, MinMessageLen, HeaderLen
  <2> QED  BY <2>2, <2>3, <2>4, <2>5 DEF Parse
<1>3. ASSUME ~InvalidLength(f), Parse(f) = "NoError" PROVE Good(f)
  <2>1. /\ f.sum = TRUE /\ f.nameLen \in 2..(f.len - 2 * HeaderLen)
        /\ f.type # "unknown" /\ f.data = TRUE
    BY <1>1, <1>3 DEF Parse
  <2>2. f.len <= MaxMessageLen
    BY <1>1, <1>3 DEF InvalidLength
  <2> DEFINE dataLen == f.len - 2 * HeaderLen - f.nameLen
  <2>3. dataLen \in 0..f.len /\ f.len = HeaderLen + f.nameLen + dataLen + HeaderLen
    BY <1>1, <2>1 DEF HeaderLen
  <2> HIDE DEF dataLen
  <2>4. f = FillEmptyBuffer(f.nameLen, dataLen, f.type)
    BY <1>1, <2>1, <2>3 DEF FillEmptyBuffer
  <2>5. f.nameLen >= 2
    BY <1>1, <2>1
  <2> QED  BY <2>2, <2>1, <2>3, <2>4, <2>5 DEF Good
<1> QED  BY <1>2, <1>3

(* Where onMessage stands: with enough bytes in the buffer there is a next *)
(* frame, and its length field is what peekInt32 reads.                    *)
LEMMA NextFrame ==
  ASSUME IInv
  PROVE  /\ Position \in 1..Len(bounds) /\ Len(bounds) = Len(stream) + 1
         /\ Readable \in Nat
         /\ Position > Len(stream) => Readable = 0
         /\ Position <= Len(stream) =>
              /\ Position \in 1..Len(stream) /\ Position + 1 \in 1..Len(bounds)
              /\ stream[Position] \in Frames
              /\ FrameAt(consumed) = stream[Position]
              /\ bounds[Position + 1] = consumed + Size(stream[Position])
<1>1. /\ stream \in Seq(Frames) /\ bounds \in Seq(Nat) /\ Len(bounds) = Len(stream) + 1
      /\ handled \in Seq(Frames)
  BY DEF IInv, TypeOK
<1>2. Len(handled) \in Nat /\ Len(handled) <= Len(stream) /\ consumed = bounds[Position]
  BY <1>1 DEF IInv, PositionInv
<1>3. Len(stream) \in Nat /\ Position \in 1..Len(bounds)
  BY <1>1, <1>2 DEF Position
<1>4. Written \in Nat
  BY <1>1, <1>3 DEF Written
<1>5. received \in Nat /\ consumed \in Nat /\ consumed <= received /\ received <= Written
  BY <1>4 DEF IInv, TypeOK
<1>6. Readable \in Nat
  BY <1>5 DEF Readable
<1>7. ASSUME Position > Len(stream) PROVE Readable = 0
  <2>1. Position = Len(bounds)
    BY <1>1, <1>3, <1>7
  <2>2. consumed = Written
    BY <2>1, <1>2 DEF Written
  <2> QED  BY <2>2, <1>5 DEF Readable
<1>8. ASSUME Position <= Len(stream)
      PROVE  /\ Position \in 1..Len(stream) /\ Position + 1 \in 1..Len(bounds)
             /\ stream[Position] \in Frames
             /\ FrameAt(consumed) = stream[Position]
             /\ bounds[Position + 1] = consumed + Size(stream[Position])
  <2>1. Position \in 1..Len(stream) /\ Position + 1 \in 1..Len(bounds)
    BY <1>1, <1>3, <1>8
  <2>2. stream[Position] \in Frames
    BY <1>1, <2>1
  <2>3. \A i \in 1..Len(stream) : bounds[i] = consumed => i = Position
    <3> SUFFICES ASSUME NEW i \in 1..Len(stream), bounds[i] = bounds[Position]
        PROVE  i = Position
      BY <1>2
    <3>1. i \in 1..Len(bounds) /\ i \in Int /\ Position \in Int
      BY <1>1, <1>3
    <3>2. ~(i < Position) /\ ~(Position < i)
      <4>1. bounds[i] \in Int /\ bounds[Position] \in Int
        BY <3>1, <1>1, <1>3
      <4> QED  BY <3>1, <4>1, <1>3 DEF IInv, BoundsInv
    <3> QED  BY <3>1, <3>2
  <2>4. StartsAt(consumed) = {Position}
    BY <2>1, <2>3, <1>2 DEF StartsAt
  <2>5. FrameAt(consumed) = stream[Position]
    BY <2>4 DEF FrameAt
  <2>6. bounds[Position + 1] = bounds[Position] + Size(stream[Position])
    BY <2>1 DEF IInv, BoundsInv
  <2> QED  BY <2>1, <2>2, <2>5, <2>6, <1>2
<1> QED  BY <1>1, <1>3, <1>6, <1>7, <1>8
-----------------------------------------------------------------------------
(***************************************************************************)
(* The actions                                                             *)
(***************************************************************************)

(* Everything holds at first.                                              *)
LEMMA InitInv == Init => IInv
<1> SUFFICES ASSUME Init PROVE IInv
  OBVIOUS
<1>1. /\ stream = <<>> /\ bounds = <<0>> /\ received = 0 /\ consumed = 0
      /\ inLoop = FALSE /\ open = TRUE /\ handled = <<>> /\ failed = FALSE
  BY DEF Init
<1>2. /\ stream \in Seq(Frames) /\ handled \in Seq(Frames) /\ bounds \in Seq(Nat)
      /\ Len(stream) = 0 /\ Len(handled) = 0 /\ Len(bounds) = 1 /\ bounds[1] = 0
  BY <1>1
<1>3. Written = 0 /\ Position = 1
  BY <1>2 DEF Written, Position
<1>4. TypeOK
  <2>1. inLoop \in BOOLEAN /\ open \in BOOLEAN /\ failed \in BOOLEAN
    BY <1>1
  <2>2. received \in 0..Written /\ consumed \in 0..received /\ Len(bounds) = Len(stream) + 1
    BY <1>1, <1>2, <1>3
  <2> QED  BY <1>2, <2>1, <2>2 DEF TypeOK
<1>5. BoundsInv /\ PositionInv
  BY <1>1, <1>2, <1>3 DEF BoundsInv, PositionInv
<1>6. StoppedInv /\ FailedInv /\ OpenInv
  BY <1>1, <1>2, <1>3 DEF StoppedInv, FailedInv, OpenInv
<1> QED  BY <1>4, <1>5, <1>6 DEF IInv

(* The peer writes a frame: it lies behind everything that has arrived.    *)
LEMMA WriteInv ==
  ASSUME IInv, NEW f \in Frames, Write(f)
  PROVE  IInv'
<1> DEFINE n == Len(stream)
<1>1. /\ stream \in Seq(Frames) /\ bounds \in Seq(Nat) /\ Len(bounds) = n + 1
      /\ handled \in Seq(Frames) /\ n \in Nat /\ Len(handled) \in Nat
  BY DEF IInv, TypeOK
<1>2. /\ stream' = Append(stream, f) /\ bounds' = Append(bounds, Written + Size(f))
      /\ UNCHANGED <<received, consumed, inLoop, open, handled, failed>>
  BY DEF Write
<1>3. Size(f) \in Nat /\ Size(f) > 0
  <2>1. MinMessageLen + HeaderLen \in Nat
    BY DEF MinMessageLen, HeaderLen
  <2> QED  BY <2>1, SizeOfFrame
<1>4. Written = bounds[n + 1] /\ Written \in Nat
  BY <1>1 DEF Written
<1> HIDE DEF n
<1>5. /\ stream' \in Seq(Frames) /\ Len(stream') = n + 1 /\ stream'[n + 1] = f
      /\ \A i \in 1..n : stream'[i] = stream[i]
  BY <1>1, <1>2 DEF n
<1>6. /\ bounds' \in Seq(Nat) /\ Len(bounds') = n + 2 /\ bounds'[n + 2] = Written + Size(f)
      /\ \A i \in 1..(n + 1) : bounds'[i] = bounds[i]
  <2> DEFINE w == Written + Size(f)
  <2>1. w \in Nat /\ bounds' = Append(bounds, w)
    BY <1>2, <1>3, <1>4
  <2> HIDE DEF w
  <2>2. /\ bounds' \in Seq(Nat) /\ Len(bounds') = n + 2 /\ bounds'[n + 2] = w
        /\ \A i \in 1..(n + 1) : bounds'[i] = bounds[i]
    BY <1>1, <2>1
  <2> QED  BY <2>2 DEF w
<1>7. Written' = Written + Size(f)
  BY <1>6 DEF Written
<1>8. TypeOK'
  <2>1. received' \in 0..Written'
    BY <1>2, <1>3, <1>4, <1>7 DEF IInv, TypeOK
  <2> QED  BY <2>1, <1>1, <1>2, <1>5, <1>6 DEF IInv, TypeOK
<1>9. BoundsInv'
  <2>1. bounds'[1] = 0
    BY <1>1, <1>6 DEF IInv, BoundsInv
  <2>2. ASSUME NEW i \in 1..(n + 1) PROVE bounds'[i + 1] = bounds'[i] + Size(stream'[i])
    <3>1. CASE i \in 1..n
      <4>1. bounds[i + 1] = bounds[i] + Size(stream[i])
        BY <3>1 DEF IInv, BoundsInv, n
      <4>2. i + 1 \in 1..(n + 1)
        BY <3>1, <1>1
      <4> QED  BY <3>1, <4>1, <4>2, <1>5, <1>6
    <3>2. CASE i = n + 1
      <4>1. i + 1 = n + 2
        BY <3>2, <1>1
      <4> QED  BY <3>2, <4>1, <1>4, <1>5, <1>6
    <3> QED  BY <3>1, <3>2, <1>1
  <2>3. ASSUME NEW i \in 1..(n + 2), NEW j \in 1..(n + 2), i < j
        PROVE  bounds'[i] < bounds'[j]
    <3>1. CASE j \in 1..(n + 1)
      <4>1. i \in 1..(n + 1)
        BY <3>1, <2>3, <1>1
      <4>2. bounds[i] < bounds[j]
        BY <3>1, <4>1, <2>3, <1>1 DEF IInv, BoundsInv
      <4> QED  BY <3>1, <4>1, <4>2, <1>6
    <3>2. CASE j = n + 2
      <4>1. i \in 1..(n + 1)
        BY <3>2, <2>3, <1>1
      <4>2. bounds[i] \in Nat /\ bounds[i] <= bounds[n + 1]
        <5>1. CASE i = n + 1
          BY <5>1, <1>4
        <5>2. CASE i < n + 1
          <6>1. bounds[i] < bounds[n + 1]
            BY <5>2, <4>1, <1>1 DEF IInv, BoundsInv
          <6>2. bounds[i] \in Nat
            BY <4>1, <1>1
          <6> QED  BY <6>1, <6>2, <1>4
        <5> QED  BY <4>1, <5>1, <5>2, <1>1
      <4> QED  BY <3>2, <4>1, <4>2, <1>3, <1>4, <1>6
    <3> QED  BY <3>1, <3>2, <1>1
  <2> QED  BY <2>1, <2>2, <2>3, <1>5, <1>6 DEF BoundsInv
<1>10. /\ Len(handled) <= n /\ consumed = bounds[Position]
       /\ \A i \in 1..Len(handled) : handled[i] = stream[i] /\ Good(stream[i])
  BY DEF IInv, PositionInv, n
<1>11. Position' = Position /\ Position = Len(handled) + 1
  BY <1>2 DEF Position
<1>12. PositionInv'
  <2>1. \A i \in 1..Len(handled) : i \in 1..n
    BY <1>1, <1>10
  <2>2. bounds'[Position] = bounds[Position]
    BY <1>1, <1>6, <1>10, <1>11
  <2>3. Len(handled) <= n + 1
    BY <1>1, <1>10
  <2> QED  BY <2>1, <2>2, <2>3, <1>2, <1>5, <1>10, <1>11 DEF PositionInv
<1>13. \/ Position \in 1..n /\ stream'[Position] = stream[Position]
          /\ bounds'[Position + 1] = bounds[Position + 1]
       \/ Position = n + 1 /\ Readable = 0 /\ received < bounds'[Position + 1]
  <2>1. CASE Position <= n
    <3>1. Position \in 1..n /\ Position + 1 \in 1..(n + 1)
      BY <2>1, <1>1, <1>11
    <3> QED  BY <3>1, <1>5, <1>6
  <2>2. CASE Position > n
    <3>1. Position = n + 1 /\ Position + 1 = n + 2
      BY <2>2, <1>1, <1>10, <1>11
    <3>2. Readable = 0
      BY <2>2, NextFrame DEF n
    <3>3. received \in 0..Written
      BY DEF IInv, TypeOK
    <3> QED  BY <3>1, <3>2, <3>3, <1>3, <1>4, <1>6
  <2> QED  BY <2>1, <2>2, <1>1, <1>11
<1>14. StoppedInv'
  <2>1. StoppedInv
    BY DEF IInv
  <2>2. CASE Position \in 1..n /\ stream'[Position] = stream[Position]
             /\ bounds'[Position + 1] = bounds[Position + 1]
    BY <2>1, <2>2, <1>1, <1>2, <1>11 DEF StoppedInv, n
  <2>3. CASE received < bounds'[Position + 1]
    BY <2>3, <1>2, <1>11 DEF StoppedInv
  <2> QED  BY <2>2, <2>3, <1>13
<1>15. FailedInv'
  <2>1. FailedInv
    BY DEF IInv
  <2>2. CASE Position \in 1..n /\ stream'[Position] = stream[Position]
             /\ bounds'[Position + 1] = bounds[Position + 1]
    <3>1. Position <= Len(stream) /\ Position <= Len(stream')
      BY <2>2, <1>1, <1>5 DEF n
    <3> QED  BY <2>1, <2>2, <3>1, <1>2, <1>11 DEF FailedInv, Good
  <2>3. CASE Position = n + 1 /\ received < bounds'[Position + 1]
    <3>1. ~failed
      <4>1. ~(Position <= Len(stream))
        BY <2>3, <1>1 DEF n
      <4> QED  BY <2>1, <4>1 DEF FailedInv
    <3> QED  BY <2>3, <3>1, <1>2, <1>11 DEF FailedInv
  <2> QED  BY <2>2, <2>3, <1>13
<1>16. OpenInv'
  BY <1>2 DEF IInv, OpenInv
<1> QED  BY <1>8, <1>9, <1>12, <1>14, <1>15, <1>16 DEF IInv

(* Bytes arrive.                                                           *)
LEMMA ArriveInv ==
  ASSUME IInv, NEW n \in 1..Written, Arrive(n)
  PROVE  IInv'
<1>1. /\ received < n /\ received' = n /\ inLoop' = TRUE
      /\ UNCHANGED <<stream, bounds, consumed, open, handled, failed>>
  BY DEF Arrive
<1>2. Written' = Written /\ Position' = Position
  BY <1>1 DEF Written, Position
<1>3. Written \in Nat
  <2>1. bounds \in Seq(Nat) /\ Len(bounds) \in 1..Len(bounds)
    BY NextFrame DEF IInv, TypeOK
  <2> QED  BY <2>1 DEF Written
<1>4. TypeOK'
  <2>1. received' \in 0..Written' /\ consumed' \in 0..received'
    BY <1>1, <1>2, <1>3 DEF IInv, TypeOK
  <2> QED  BY <2>1, <1>1 DEF IInv, TypeOK
<1>5. BoundsInv' /\ PositionInv'
  BY <1>1, <1>2 DEF IInv, BoundsInv, PositionInv
<1>6. StoppedInv' /\ OpenInv'
  BY <1>1, <1>2 DEF IInv, StoppedInv, OpenInv
<1>7. FailedInv'
  <2>1. ASSUME failed PROVE bounds[Position + 1] <= n
    <3>1. Position <= Len(stream) /\ bounds[Position + 1] <= received
      BY <2>1 DEF IInv, FailedInv
    <3>2. bounds[Position + 1] \in Nat
      <4>1. bounds \in Seq(Nat) /\ Position + 1 \in 1..Len(bounds)
        BY <3>1, NextFrame DEF IInv, TypeOK
      <4> QED  BY <4>1
    <3>3. received \in Nat /\ n \in Nat
      BY <1>3 DEF IInv, TypeOK
    <3> QED  BY <3>1, <3>2, <3>3, <1>1
  <2> QED  BY <2>1, <1>1, <1>2 DEF IInv, FailedInv, Good
<1> QED  BY <1>4, <1>5, <1>6, <1>7 DEF IInv

(* The loop ends.                                                          *)
LEMMA LoopEndsInv ==
  ASSUME IInv, LoopEnds
  PROVE  IInv'
<1>1. /\ MoreToDo => ~InvalidLength(FrameAt(consumed)) /\ ~Complete(FrameAt(consumed))
      /\ inLoop' = FALSE
      /\ UNCHANGED <<stream, bounds, received, consumed, open, handled, failed>>
  BY DEF LoopEnds
<1>2. Written' = Written /\ Position' = Position /\ Readable' = Readable
  BY <1>1 DEF Written, Position, Readable
<1>3. TypeOK'
  BY <1>1, <1>2 DEF IInv, TypeOK
<1>4. BoundsInv' /\ PositionInv'
  BY <1>1, <1>2 DEF IInv, BoundsInv, PositionInv
<1>5. ASSUME Position <= Len(stream)
      PROVE  received < bounds[Position + 1]
  <2> DEFINE f == stream[Position]
  <2>1. f \in Frames /\ FrameAt(consumed) = f /\ bounds[Position + 1] = consumed + Size(f)
    BY <1>5, NextFrame
  <2> HIDE DEF f
  <2>2. consumed \in Nat /\ received \in Nat /\ Readable = received - consumed
    <3>1. Written \in Nat
      <4>1. bounds \in Seq(Nat) /\ Len(bounds) \in 1..Len(bounds)
        BY NextFrame DEF IInv, TypeOK
      <4> QED  BY <4>1 DEF Written
    <3> QED  BY <3>1 DEF IInv, TypeOK, Readable
  <2>3. Size(f) \in Nat /\ Size(f) >= MinMessageLen + HeaderLen
    BY <2>1, SizeOfFrame
  <2>4. CASE MoreToDo
    <3>1. ~InvalidLength(f) /\ ~(Readable >= f.len + HeaderLen)
      BY <2>4, <2>1, <1>1 DEF Complete
    <3>2. Size(f) = f.len + HeaderLen
      BY <3>1, <2>1, SizeOfFrame
    <3> QED  BY <3>1, <3>2, <2>1, <2>2, <2>3 DEF f
  <2>5. CASE ~MoreToDo
    <3>1. ~(Readable >= MinMessageLen + HeaderLen)
      BY <2>5 DEF MoreToDo
    <3> QED  BY <3>1, <2>1, <2>2, <2>3 DEF MinMessageLen, HeaderLen
  <2> QED  BY <2>4, <2>5
<1>6. StoppedInv'
  BY <1>1, <1>2, <1>5 DEF StoppedInv
<1>7. FailedInv' /\ OpenInv'
  BY <1>1, <1>2, <1>5 DEF IInv, FailedInv, OpenInv, Good
<1> QED  BY <1>3, <1>4, <1>6, <1>7 DEF IInv

(* The loop ends with an error.                                            *)
LEMMA LoopFailsInv ==
  ASSUME IInv, LoopFails
  PROVE  IInv'
<1> DEFINE f == FrameAt(consumed)
<1>1. /\ MoreToDo /\ (InvalidLength(f) \/ (Complete(f) /\ Parse(f) # "NoError"))
      /\ inLoop' = FALSE /\ open' = FALSE /\ failed' = TRUE
      /\ UNCHANGED <<stream, bounds, received, consumed, handled>>
  BY DEF LoopFails
<1> HIDE DEF f
<1>2. Written' = Written /\ Position' = Position
  BY <1>1 DEF Written, Position
<1>3. TypeOK'
  BY <1>1, <1>2 DEF IInv, TypeOK
<1>4. BoundsInv' /\ PositionInv'
  BY <1>1, <1>2 DEF IInv, BoundsInv, PositionInv
<1>5. Position <= Len(stream) => ~Good(stream[Position])
  BY <1>1, NextFrame, GoodFrame DEF f
<1>6. StoppedInv' /\ OpenInv'
  BY <1>1, <1>2, <1>5 DEF StoppedInv, OpenInv
<1>7. Readable >= MinMessageLen + HeaderLen /\ Readable # 0
  <2>1. Readable >= MinMessageLen + HeaderLen /\ MinMessageLen + HeaderLen = 14
    BY <1>1 DEF MoreToDo, MinMessageLen, HeaderLen
  <2> QED  BY <2>1
<1>8. Position <= Len(stream)
  <2>1. Position \in Nat /\ Len(stream) \in Nat
    BY NextFrame DEF IInv, TypeOK
  <2> QED  BY <2>1, <1>7, NextFrame
<1>9. bounds[Position + 1] <= received
  <2>1. f \in Frames /\ bounds[Position + 1] = consumed + Size(f)
    BY <1>8, NextFrame DEF f
  <2>2. consumed \in Nat /\ received \in Nat /\ Readable = received - consumed
    <3>1. Written \in Nat
      <4>1. bounds \in Seq(Nat) /\ Len(bounds) \in 1..Len(bounds)
        BY NextFrame DEF IInv, TypeOK
      <4> QED  BY <4>1 DEF Written
    <3> QED  BY <3>1 DEF IInv, TypeOK, Readable
  <2>3. Readable >= Size(f)
    <3>1. CASE InvalidLength(f)
      <4>1. f.len \in Int /\ MaxMessageLen \in Nat
        BY <2>1, CodecAssumption DEF Frames
      <4>2. Size(f) = MinMessageLen + HeaderLen
        BY <4>1, <3>1 DEF Size, InvalidLength, MinMessageLen, HeaderLen
      <4> QED  BY <4>2, <1>7
    <3>2. CASE ~InvalidLength(f)
      BY <3>2, <2>1, <1>1, SizeOfFrame DEF Complete
    <3> QED  BY <3>1, <3>2
  <2>4. Size(f) \in Nat
    BY <2>1, SizeOfFrame
  <2> QED  BY <2>1, <2>2, <2>3, <2>4
<1>10. FailedInv'
  BY <1>1, <1>2, <1>5, <1>8, <1>9 DEF FailedInv, Good
<1> QED  BY <1>3, <1>4, <1>6, <1>10 DEF IInv

(* A frame is dispatched.                                                  *)
LEMMA LoopDispatchesInv ==
  ASSUME IInv, LoopDispatches
  PROVE  IInv'
<1> DEFINE f == FrameAt(consumed)
<1>1. /\ inLoop /\ MoreToDo /\ ~InvalidLength(f) /\ Complete(f) /\ Parse(f) = "NoError"
      /\ handled' = Append(handled, f)
      /\ open' = (open /\ f.type = "registered")
      /\ consumed' = consumed + HeaderLen + f.len
      /\ UNCHANGED <<stream, bounds, received, inLoop, failed>>
  BY DEF LoopDispatches, OnProtobufMessage
<1> HIDE DEF f
<1>2. Position <= Len(stream)
  <2>1. Readable >= MinMessageLen + HeaderLen /\ MinMessageLen + HeaderLen = 14
    BY <1>1 DEF MoreToDo, MinMessageLen, HeaderLen
  <2>2. Readable # 0
    BY <2>1
  <2>3. Position \in Nat /\ Len(stream) \in Nat
    BY NextFrame DEF IInv, TypeOK
  <2> QED  BY <2>2, <2>3, NextFrame
<1>3. /\ Position \in 1..Len(stream) /\ Position + 1 \in 1..Len(bounds)
      /\ f = stream[Position] /\ f \in Frames
      /\ bounds[Position + 1] = consumed + Size(f)
  BY <1>2, NextFrame DEF f
<1>4. Size(f) = f.len + HeaderLen /\ Good(f) /\ f.len \in Int /\ HeaderLen \in Int
  <2>1. f.len \in Int
    BY <1>3 DEF Frames
  <2> QED  BY <2>1, <1>1, <1>3, SizeOfFrame, GoodFrame DEF HeaderLen
<1>5. /\ handled \in Seq(Frames) /\ Len(handled) \in Nat /\ Position = Len(handled) + 1
      /\ stream \in Seq(Frames) /\ Len(stream) \in Nat
      /\ bounds \in Seq(Nat) /\ Len(bounds) = Len(stream) + 1
  BY DEF IInv, TypeOK, Position
<1>6. /\ handled' \in Seq(Frames) /\ Len(handled') = Len(handled) + 1 /\ handled'[Position] = f
      /\ \A i \in 1..Len(handled) : handled'[i] = handled[i]
  BY <1>1, <1>3, <1>5
<1>7. Position' = Position + 1 /\ Written' = Written
  BY <1>1, <1>5, <1>6 DEF Position, Written
<1>8. consumed \in Nat /\ received \in Nat /\ received \in 0..Written
  <2>1. Written \in Nat
    BY <1>5 DEF Written
  <2> QED  BY <2>1 DEF IInv, TypeOK
<1>9. consumed' = bounds[Position + 1] /\ consumed' \in 0..received
  <2>1. consumed' = bounds[Position + 1]
    BY <1>1, <1>3, <1>4, <1>8
  <2>2. bounds[Position + 1] \in Nat
    BY <1>3, <1>5
  <2>3. received - consumed >= f.len + HeaderLen
    BY <1>1 DEF Complete, Readable
  <2>4. consumed' <= received
    BY <2>3, <1>1, <1>4, <1>8
  <2> QED  BY <2>1, <2>2, <2>4, <1>8
<1>10. TypeOK'
  <2>1. open' \in BOOLEAN
    BY <1>1
  <2>2. inLoop' \in BOOLEAN /\ failed' \in BOOLEAN
    BY <1>1 DEF IInv, TypeOK
  <2> QED  BY <2>1, <2>2, <1>1, <1>5, <1>6, <1>7, <1>8, <1>9 DEF TypeOK
<1>11. BoundsInv'
  BY <1>1 DEF IInv, BoundsInv
<1>12. \A i \in 1..Len(handled') : i \in 1..Len(handled) \/ i = Position
  BY <1>5, <1>6
<1>13. PositionInv'
  <2>1. \A i \in 1..Len(handled) : handled[i] = stream[i] /\ Good(stream[i])
    BY DEF IInv, PositionInv
  <2>2. \A i \in 1..Len(handled') : handled'[i] = stream[i] /\ Good(stream[i])
    BY <2>1, <1>3, <1>4, <1>6, <1>12
  <2>3. Len(handled') <= Len(stream)
    BY <1>2, <1>5, <1>6
  <2> QED  BY <2>2, <2>3, <1>1, <1>7, <1>9 DEF PositionInv
<1>14. StoppedInv'
  BY <1>1 DEF StoppedInv
<1>15. ~failed /\ ~failed' /\ inLoop'
  BY <1>1, <1>3, <1>4 DEF IInv, FailedInv
<1>16. FailedInv'
  BY <1>15 DEF FailedInv
<1>17. OpenInv'
  <2>1. open <=> \A i \in 1..Len(handled) : handled[i].type = "registered"
    BY <1>15 DEF IInv, OpenInv
  <2>2. (\A i \in 1..Len(handled') : handled'[i].type = "registered") <=>
          open /\ f.type = "registered"
    <3>1. Position \in 1..Len(handled') /\ \A i \in 1..Len(handled) : i \in 1..Len(handled')
      BY <1>5, <1>6
    <3> QED  BY <3>1, <2>1, <1>6, <1>12
  <2> QED  BY <2>2, <1>1, <1>15 DEF OpenInv
<1> QED  BY <1>10, <1>11, <1>13, <1>14, <1>16, <1>17 DEF IInv
-----------------------------------------------------------------------------
(***************************************************************************)
(* The theorems                                                            *)
(***************************************************************************)

(* The inductive invariant: onMessage always stands at the start of a      *)
(* frame, behind good ones only.                                           *)
THEOREM Invariance == Spec => []IInv
<1>1. ASSUME IInv, [Next]_vars PROVE IInv'
  <2>1. CASE UNCHANGED vars
    <3>1. Written' = Written /\ Position' = Position /\ Readable' = Readable
      BY <2>1 DEF vars, Written, Position, Readable
    <3>2. TypeOK'
      BY <1>1, <2>1, <3>1 DEF IInv, TypeOK, vars
    <3>3. BoundsInv' /\ PositionInv' /\ StoppedInv' /\ FailedInv' /\ OpenInv'
      BY <1>1, <2>1, <3>1 DEF IInv, BoundsInv, PositionInv, StoppedInv, FailedInv, OpenInv, vars
    <3> QED  BY <3>2, <3>3 DEF IInv
  <2>2. ASSUME NEW nameLen \in NameLens, NEW dataLen \in DataLens, NEW type \in Types,
               PeerSends(nameLen, dataLen, type)
        PROVE  IInv'
    <3> DEFINE f == FillEmptyBuffer(nameLen, dataLen, type)
    <3>1. f \in Frames /\ Write(f)
      <4>1. HeaderLen + nameLen + dataLen + HeaderLen \in Int /\ nameLen \in Int
        BY CodecAssumption DEF HeaderLen
      <4> QED  BY <4>1, <2>2 DEF FillEmptyBuffer, Frames, PeerSends
    <3> HIDE DEF f
    <3> QED  BY <1>1, <3>1, WriteInv
  <2>3. ASSUME NEW nameLen \in NameLens, NEW len \in {MinMessageLen} \cup StrayLens,
               NEW sum \in BOOLEAN, NEW data \in BOOLEAN, PeerStrays(len, sum, nameLen, data)
        PROVE  IInv'
    <3> DEFINE f == [len |-> len, sum |-> sum, nameLen |-> nameLen, type |-> "registered",
                     data |-> data]
    <3>1. f \in Frames /\ Write(f)
      <4>1. len \in Int /\ nameLen \in Int
        BY CodecAssumption DEF HeaderLen, MinMessageLen
      <4> QED  BY <4>1, <2>3 DEF Frames, Types, PeerStrays
    <3> HIDE DEF f
    <3> QED  BY <1>1, <3>1, WriteInv
  <2>4. ASSUME NEW n \in 1..Written, Arrive(n) PROVE IInv'
    BY <1>1, <2>4, ArriveInv
  <2> QED  BY <1>1, <2>1, <2>2, <2>3, <2>4, LoopEndsInv, LoopFailsInv, LoopDispatchesInv
           DEF Next, Peer
<1> QED  BY InitInv, <1>1, PTL DEF Spec

(* onMessage never retrieves bytes that have not arrived, and every other  *)
(* variable has its type.                                                  *)
THEOREM CodecTypes == Spec => []TypeOK
<1>1. IInv => TypeOK
  BY DEF IInv
<1> QED  BY Invariance, <1>1, PTL

(* However TCP cuts the stream, onMessage dispatches exactly the frames    *)
(* before the first bad one, as soon as they are complete.                 *)
THEOREM DispatchCorrect == Spec => []DispatchesAcceptable
<1>1. IInv => DispatchesAcceptable
  <2> SUFFICES ASSUME IInv, ~inLoop PROVE handled = Acceptable
    BY DEF DispatchesAcceptable
  <2> DEFINE n == Len(handled)
             ok == {k \in 0..Len(stream) :
                      /\ bounds[k + 1] <= received
                      /\ \A i \in 1..k : Good(stream[i])}
  <2>1. /\ stream \in Seq(Frames) /\ handled \in Seq(Frames) /\ bounds \in Seq(Nat)
        /\ Len(stream) \in Nat /\ n \in Nat /\ n <= Len(stream)
        /\ Len(bounds) = Len(stream) + 1
    BY DEF IInv, TypeOK, PositionInv
  <2>2. /\ Position = n + 1 /\ consumed = bounds[n + 1]
        /\ \A i \in 1..n : handled[i] = stream[i] /\ Good(stream[i])
    BY DEF IInv, PositionInv, Position
  <2>3. Written \in Nat
    BY <2>1 DEF Written
  <2>4. consumed \in Nat /\ received \in Nat /\ consumed <= received
    BY <2>3 DEF IInv, TypeOK
  <2> HIDE DEF n
  <2>5. n \in ok
    BY <2>1, <2>2, <2>4
  <2>6. \A j \in ok : j <= n
    <3> SUFFICES ASSUME NEW j \in 0..Len(stream), bounds[j + 1] <= received,
                        \A i \in 1..j : Good(stream[i]), n < j
        PROVE FALSE
      BY <2>1
    <3>1. n + 1 \in 1..j /\ Position <= Len(stream)
      BY <2>1, <2>2
    <3>2. received < bounds[n + 2]
      <4>1. n + 2 = Position + 1
        BY <2>1, <2>2
      <4> QED  BY <3>1, <4>1, <2>2 DEF IInv, StoppedInv
    <3>3. n + 2 \in 1..Len(bounds) /\ j + 1 \in 1..Len(bounds) /\ n + 2 <= j + 1
      BY <2>1
    <3>4. bounds[n + 2] \in Nat /\ bounds[j + 1] \in Nat
      BY <3>3, <2>1
    <3>5. bounds[n + 2] <= bounds[j + 1]
      <4>1. CASE n + 2 = j + 1
        BY <4>1, <3>4
      <4>2. CASE n + 2 < j + 1
        <5>1. bounds[n + 2] < bounds[j + 1]
          BY <4>2, <3>3 DEF IInv, BoundsInv
        <5> QED  BY <5>1, <3>4
      <4> QED  BY <4>1, <4>2, <3>3, <2>1
    <3> QED  BY <3>2, <3>4, <3>5, <2>4
  <2>7. (CHOOSE k \in ok : \A j \in ok : j <= k) = n
    <3>1. \A k \in ok : k \in Nat
      BY <2>1
    <3> HIDE DEF ok
    <3>2. \A k \in ok : (\A j \in ok : j <= k) => k = n
      BY <3>1, <2>1, <2>5, <2>6
    <3> QED  BY <3>2, <2>5, <2>6
  <2>8. Acceptable = SubSeq(stream, 1, n)
    BY <2>7 DEF Acceptable
  <2>9. SubSeq(stream, 1, n) = handled
    <3> DEFINE q == SubSeq(stream, 1, n)
    <3>1. q \in Seq(Frames) /\ Len(q) = n /\ \A i \in 1..n : q[i] = stream[i]
      BY <2>1
    <3> HIDE DEF q
    <3>2. Len(q) = Len(handled) /\ \A i \in 1..Len(q) : q[i] = handled[i]
      BY <3>1, <2>2 DEF n
    <3>3. q = handled
      BY <3>1, <3>2, <2>1, SeqEqual
    <3> QED  BY <3>3 DEF q
  <2> QED  BY <2>8, <2>9
<1> QED  BY Invariance, <1>1, PTL

(* The connection is shut down exactly when a frame has arrived that the   *)
(* codec or the dispatcher does not accept, for whatever reason.           *)
THEOREM OpenExactlyIfClean == Spec => []OpenIffClean
<1>1. IInv => OpenIffClean
  <2> DEFINE Clean(i) == bounds[i + 1] <= received =>
                           Good(stream[i]) /\ stream[i].type = "registered"
  <2> SUFFICES ASSUME IInv, ~inLoop
      PROVE  open <=> \A i \in 1..Len(stream) : Clean(i)
    BY DEF OpenIffClean
  <2>1. /\ stream \in Seq(Frames) /\ bounds \in Seq(Nat) /\ handled \in Seq(Frames)
        /\ Len(bounds) = Len(stream) + 1 /\ Len(stream) \in Nat /\ Len(handled) \in Nat
        /\ Len(handled) <= Len(stream) /\ Position = Len(handled) + 1
        /\ consumed = bounds[Position]
        /\ \A i \in 1..Len(handled) : handled[i] = stream[i] /\ Good(stream[i])
    BY DEF IInv, TypeOK, PositionInv, Position
  <2>2. /\ \A i \in 1..Len(bounds) : bounds[i] \in Nat
        /\ \A i, j \in 1..Len(bounds) : i < j => bounds[i] < bounds[j]
    BY <2>1 DEF IInv, BoundsInv
  <2>3. consumed \in Nat /\ received \in Nat /\ consumed <= received
    <3>1. Written \in Nat
      BY <2>1, <2>2 DEF Written
    <3> QED  BY <3>1 DEF IInv, TypeOK
  <2>4. ASSUME NEW i \in 1..Len(handled) PROVE i \in 1..Len(stream) /\ bounds[i + 1] <= received
    <3>1. i \in 1..Len(stream) /\ i + 1 \in 1..Len(bounds) /\ Position \in 1..Len(bounds)
          /\ (i + 1 = Position \/ i + 1 < Position)
      BY <2>1
    <3>2. bounds[i + 1] \in Nat /\ bounds[i + 1] <= bounds[Position]
      BY <3>1, <2>2
    <3> QED  BY <3>1, <3>2, <2>1, <2>3
  <2>5. ASSUME open, NEW i \in 1..Len(stream), bounds[i + 1] <= received
        PROVE  Good(stream[i]) /\ stream[i].type = "registered"
    <3>1. ~failed /\ \A k \in 1..Len(handled) : handled[k].type = "registered"
      BY <2>5 DEF IInv, OpenInv
    <3>2. CASE i \in 1..Len(handled)
      BY <3>1, <3>2, <2>1
    <3>3. CASE i \notin 1..Len(handled)
      <4>1. /\ Position <= Len(stream) /\ Position + 1 \in 1..Len(bounds)
            /\ i + 1 \in 1..Len(bounds) /\ (i = Position \/ Position + 1 < i + 1)
        BY <3>3, <2>1
      <4>2. received < bounds[Position + 1]
        BY <3>1, <4>1 DEF IInv, FailedInv
      <4>3. /\ bounds[Position + 1] <= bounds[i + 1]
            /\ bounds[Position + 1] \in Nat /\ bounds[i + 1] \in Nat
        BY <4>1, <2>2
      <4> QED  BY <4>2, <4>3, <2>3, <2>5
    <3> QED  BY <3>2, <3>3
  <2>6. ASSUME ~open PROVE \E i \in 1..Len(stream) : ~Clean(i)
    <3>1. CASE failed
      <4>1. /\ Position <= Len(stream) /\ ~Good(stream[Position])
            /\ bounds[Position + 1] <= received
        BY <3>1 DEF IInv, FailedInv
      <4>2. Position \in 1..Len(stream)
        BY <4>1, <2>1
      <4> QED  BY <4>1, <4>2
    <3>2. CASE ~failed
      <4>1. PICK i \in 1..Len(handled) : handled[i].type # "registered"
        BY <3>2, <2>6 DEF IInv, OpenInv
      <4>2. i \in 1..Len(stream) /\ bounds[i + 1] <= received /\ handled[i] = stream[i]
        BY <2>1, <2>4
      <4> QED  BY <4>1, <4>2
    <3> QED  BY <3>1, <3>2
  <2>7. open \in BOOLEAN
    BY DEF IInv, TypeOK
  <2> QED  BY <2>5, <2>6, <2>7
<1> QED  BY Invariance, <1>1, PTL
=============================================================================
