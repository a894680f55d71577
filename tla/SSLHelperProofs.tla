--------------------------- MODULE SSLHelperProofs ---------------------------
(***************************************************************************)
(* SSL_Helper for any number of connections, any size of the buffer and    *)
(* whatever the clients send: SSL_read stores nothing outside the buffer,  *)
(* and the assertion in SSLProcessingRecv can fail only before the end of  *)
(* the handshake is noticed.                                               *)
(*                                                                         *)
(* Both rest on two facts about the buffer: when it is cleared the offset  *)
(* is not 0, so that the length given to SSL_read is negative from then    *)
(* on; and a buffer that is full to the last byte belongs to a handler     *)
(* that is in the loop before the handshake is known to be over.  That     *)
(* SSL_read finds records and no messages of the handshake once it is      *)
(* finished rests on the handshake itself: at most one message of it is on *)
(* its way to an end (in the SEND BIO of the peer, on the wire, in its own *)
(* RECV BIO), and then the peer is exactly one message ahead.              *)
(***************************************************************************)
EXTENDS SSLHelper, SequenceTheorems, TLAPS

(* A queue holds a message of the handshake, or no two of them.            *)
IsFlight(u) == "flight" \in DOMAIN u
Flies(q)    == \E i \in 1..Len(q) : IsFlight(q[i])
Once(q)     == \A i, j \in 1..Len(q) : IsFlight(q[i]) /\ IsFlight(q[j]) => i = j

(* The three queues on the way to an end hold at most one between them.    *)
Way(r, w, s) ==
  /\ Once(r) /\ Once(w) /\ Once(s)
  /\ ~(Flies(r) /\ Flies(w)) /\ ~(Flies(r) /\ Flies(s)) /\ ~(Flies(w) /\ Flies(s))
Carry(r, w, s) == Flies(r) \/ Flies(w) \/ Flies(s)
Carried(x)     == Carry(rbio[x], wire[x], sbio[Peer(x)])

(* The handshake: a message on its way to x is the one x waits for.        *)
HandshakeInv(x) ==
  /\ stage[x] <= flights[x[1]]
  /\ Carried(x) => stage[Peer(x)] = stage[x] + 1
  /\ handshaked[x] => stage[x] = flights[x[1]]
  /\ state[x] = "new" => stage[x] = 0
  /\ x[2] = "client" /\ stage[x] = 0 => stage[Peer(x)] = 0
  /\ pc[x] = "read" => state[x] # "new"

(* The buffer: cleared only after something was read, and full only in the *)
(* loop, before the handshake is known to be over.                         *)
BufferInv(x) ==
  /\ size[x] = 0 => curr[x] > 0
  /\ size[x] = Capacity /\ curr[x] = Capacity =>
       pc[x] \in {"read", "aborted"} /\ ~handshaked[x]

EndInv(x) == Way(rbio[x], wire[x], sbio[Peer(x)]) /\ HandshakeInv(x) /\ BufferInv(x)

IInv == TypeOK /\ \A x \in Ends : EndInv(x)
-----------------------------------------------------------------------------
(***************************************************************************)
(* Queues                                                                  *)
(***************************************************************************)

(* Nothing is in an empty queue.                                           *)
LEMMA EmptyQueue == Once(<<>>) /\ ~Flies(<<>>)
BY DEF Once, Flies

(* Two queues that are joined hold what either of them holds.              *)
LEMMA JoinedFlies ==
  ASSUME NEW S, NEW a \in Seq(S), NEW b \in Seq(S)
  PROVE  Flies(a \o b) <=> Flies(a) \/ Flies(b)
<1> DEFINE q == a \o b
<1>1. /\ q \in Seq(S) /\ Len(q) = Len(a) + Len(b)
      /\ \A i \in 1..Len(a) : q[i] = a[i]
      /\ \A i \in 1..Len(b) : q[Len(a) + i] = b[i]
  BY ConcatProperties
<1>2. Len(a) \in Nat /\ Len(b) \in Nat
  OBVIOUS
<1> HIDE DEF q
<1>3. ASSUME Flies(q) PROVE Flies(a) \/ Flies(b)
  <2>1. PICK i \in 1..Len(q) : IsFlight(q[i])
    BY <1>3 DEF Flies
  <2>2. CASE i \in 1..Len(a)
    BY <2>1, <2>2, <1>1 DEF Flies
  <2>3. CASE i \notin 1..Len(a)
    <3>1. i - Len(a) \in 1..Len(b) /\ Len(a) + (i - Len(a)) = i
      BY <1>1, <1>2, <2>3
    <3>2. IsFlight(b[i - Len(a)])
      BY <3>1, <2>1, <1>1
    <3> QED  BY <3>1, <3>2 DEF Flies
  <2> QED  BY <2>2, <2>3
<1>4. ASSUME Flies(a) PROVE Flies(q)
  <2>1. PICK i \in 1..Len(a) : IsFlight(a[i])
    BY <1>4 DEF Flies
  <2>2. i \in 1..Len(q) /\ q[i] = a[i]
    BY <1>1, <1>2
  <2> QED  BY <2>1, <2>2 DEF Flies
<1>5. ASSUME Flies(b) PROVE Flies(q)
  <2>1. PICK i \in 1..Len(b) : IsFlight(b[i])
    BY <1>5 DEF Flies
  <2>2. Len(a) + i \in 1..Len(q) /\ q[Len(a) + i] = b[i]
    BY <1>1, <1>2
  <2> QED  BY <2>1, <2>2 DEF Flies
<1> QED  BY <1>3, <1>4, <1>5 DEF q

(* Two queues of which one at most holds a message are joined to one that  *)
(* does not hold two.                                                      *)
LEMMA JoinedOnce ==
  ASSUME NEW S, NEW a \in Seq(S), NEW b \in Seq(S),
         Once(a), Once(b), ~(Flies(a) /\ Flies(b))
  PROVE  Once(a \o b)
<1> DEFINE q == a \o b
<1>1. /\ q \in Seq(S) /\ Len(q) = Len(a) + Len(b)
      /\ \A i \in 1..Len(a) : q[i] = a[i]
      /\ \A i \in 1..Len(b) : q[Len(a) + i] = b[i]
  BY ConcatProperties
<1>2. Len(a) \in Nat /\ Len(b) \in Nat
  OBVIOUS
<1> HIDE DEF q
<1>3. \A i \in 1..Len(q) : i \in 1..Len(a) \/ (i - Len(a) \in 1..Len(b) /\ q[i] = b[i - Len(a)])
  <2> TAKE i \in 1..Len(q)
  <2> SUFFICES ASSUME i \notin 1..Len(a)
      PROVE i - Len(a) \in 1..Len(b) /\ q[i] = b[i - Len(a)]
    OBVIOUS
  <2>1. i - Len(a) \in 1..Len(b) /\ Len(a) + (i - Len(a)) = i
    BY <1>1, <1>2
  <2> QED  BY <2>1, <1>1
<1>4. \A i \in 1..Len(a), j \in 1..Len(b) : ~(IsFlight(a[i]) /\ IsFlight(b[j]))
  BY DEF Flies
<1>5. SUFFICES ASSUME NEW i \in 1..Len(q), NEW j \in 1..Len(q), IsFlight(q[i]), IsFlight(q[j])
      PROVE  i = j
  BY DEF Once, q
<1>6. CASE i \in 1..Len(a) /\ j \in 1..Len(a)
  BY <1>1, <1>5, <1>6 DEF Once
<1>7. CASE i \in 1..Len(a) /\ j \notin 1..Len(a)
  BY <1>1, <1>3, <1>4, <1>5, <1>7
<1>8. CASE i \notin 1..Len(a) /\ j \in 1..Len(a)
  BY <1>1, <1>3, <1>4, <1>5, <1>8
<1>9. CASE i \notin 1..Len(a) /\ j \notin 1..Len(a)
  <2>1. i - Len(a) = j - Len(a)
    BY <1>3, <1>5, <1>9 DEF Once
  <2> QED  BY <2>1, <1>1, <1>2
<1> QED  BY <1>6, <1>7, <1>8, <1>9

(* A queue that is cut in two.                                             *)
LEMMA CutQueue ==
  ASSUME NEW S, NEW q \in Seq(S), Once(q), NEW k \in 0..Len(q)
  PROVE  LET a == SubSeq(q, 1, k)
             b == SubSeq(q, k + 1, Len(q))
         IN  /\ a \in Seq(S) /\ b \in Seq(S)
             /\ Once(a) /\ Once(b)
             /\ Flies(a) \/ Flies(b) => Flies(q)
             /\ ~(Flies(a) /\ Flies(b))
<1> DEFINE a == SubSeq(q, 1, k)
           b == SubSeq(q, k + 1, Len(q))
<1>1. k \in Nat /\ Len(q) \in Nat /\ k <= Len(q)
  OBVIOUS
<1>2. a \in Seq(S) /\ Len(a) = k /\ \A i \in 1..k : i \in 1..Len(q) /\ a[i] = q[i]
  BY <1>1
<1>3. /\ b \in Seq(S) /\ Len(b) = Len(q) - k
      /\ \A i \in 1..(Len(q) - k) : k + i \in 1..Len(q) /\ b[i] = q[k + i]
  BY <1>1
<1> HIDE DEF a, b
<1>4. Once(a)
  BY <1>1, <1>2 DEF Once
<1>5. Once(b)
  <2>1. SUFFICES ASSUME NEW i \in 1..Len(b), NEW j \in 1..Len(b), IsFlight(b[i]), IsFlight(b[j])
        PROVE  i = j
    BY DEF Once
  <2>2. k + i = k + j
    BY <1>3, <2>1 DEF Once
  <2> QED  BY <1>1, <1>3, <2>2
<1>6. Flies(a) => Flies(q)
  BY <1>2 DEF Flies
<1>7. Flies(b) => Flies(q)
  BY <1>3 DEF Flies
<1>8. ~(Flies(a) /\ Flies(b))
  <2>1. SUFFICES ASSUME NEW i \in 1..Len(a), NEW j \in 1..Len(b), IsFlight(a[i]), IsFlight(b[j])
        PROVE  FALSE
    BY DEF Flies
  <2>2. i = k + j
    BY <1>2, <1>3, <2>1 DEF Once
  <2> QED  BY <1>1, <1>2, <1>3, <2>2
<1> QED  BY <1>2, <1>3, <1>4, <1>5, <1>6, <1>7, <1>8 DEF a, b

(* A queue without its head.                                               *)
LEMMA TailQueue ==
  ASSUME NEW S, NEW q \in Seq(S), q # <<>>, Once(q)
  PROVE  /\ Tail(q) \in Seq(S) /\ Head(q) \in S
         /\ Once(Tail(q))
         /\ Flies(Tail(q)) => Flies(q)
         /\ IsFlight(Head(q)) => Flies(q) /\ ~Flies(Tail(q))
<1> DEFINE t == Tail(q)
<1>1. /\ t \in Seq(S) /\ Len(t) = Len(q) - 1 /\ Len(q) \in Nat \ {0}
      /\ \A i \in 1..Len(t) : i + 1 \in 1..Len(q) /\ t[i] = q[i + 1]
      /\ 1 \in 1..Len(q) /\ Head(q) = q[1] /\ Head(q) \in S
  OBVIOUS
<1> HIDE DEF t
<1>2. Once(t)
  <2>1. SUFFICES ASSUME NEW i \in 1..Len(t), NEW j \in 1..Len(t), IsFlight(t[i]), IsFlight(t[j])
        PROVE  i = j
    BY DEF Once
  <2>2. i + 1 = j + 1
    BY <1>1, <2>1 DEF Once
  <2> QED  BY <1>1, <2>2
<1>3. Flies(t) => Flies(q)
  BY <1>1 DEF Flies
<1>4. IsFlight(Head(q)) => Flies(q)
  BY <1>1 DEF Flies
<1>5. IsFlight(Head(q)) => ~Flies(t)
  <2>1. SUFFICES ASSUME NEW j \in 1..Len(t), IsFlight(t[j]), IsFlight(q[1])
        PROVE  FALSE
    BY <1>1 DEF Flies
  <2>2. 1 = j + 1
    BY <1>1, <2>1 DEF Once
  <2> QED  BY <1>1, <2>2
<1> QED  BY <1>1, <1>2, <1>3, <1>4, <1>5 DEF t

(* A queue of one.                                                         *)
LEMMA OneQueue ==
  ASSUME NEW S, NEW u \in S
  PROVE  <<u>> \in Seq(S) /\ Once(<<u>>) /\ (Flies(<<u>>) <=> IsFlight(u))
<1> DEFINE q == <<u>>
<1>1. q \in Seq(S) /\ Len(q) = 1 /\ q[1] = u
  OBVIOUS
<1> HIDE DEF q
<1>2. Once(q)
  BY <1>1 DEF Once
<1>3. Flies(q) <=> IsFlight(u)
  BY <1>1 DEF Flies
<1> QED  BY <1>1, <1>2, <1>3 DEF q
-----------------------------------------------------------------------------
(***************************************************************************)
(* The way to an end                                                       *)
(***************************************************************************)

(* onMessage takes the first of the wire to the RECV BIO.                  *)
LEMMA WayTake ==
  ASSUME NEW S, NEW r \in Seq(S), NEW w \in Seq(S), NEW s \in Seq(S),
         Way(r, w, s), NEW k \in 0..Len(w)
  PROVE  LET r2 == r \o SubSeq(w, 1, k)
             w2 == SubSeq(w, k + 1, Len(w))
         IN  /\ r2 \in Seq(S) /\ w2 \in Seq(S)
             /\ Way(r2, w2, s) /\ (Carry(r2, w2, s) => Carry(r, w, s))
<1> DEFINE a == SubSeq(w, 1, k)
           w2 == SubSeq(w, k + 1, Len(w))
<1>1. Once(r) /\ Once(w)
  BY DEF Way
<1>2. /\ a \in Seq(S) /\ w2 \in Seq(S) /\ Once(a) /\ Once(w2)
      /\ Flies(a) \/ Flies(w2) => Flies(w)
      /\ ~(Flies(a) /\ Flies(w2))
  BY <1>1, CutQueue
<1> HIDE DEF a, w2
<1>3. Flies(r \o a) <=> Flies(r) \/ Flies(a)
  BY <1>2, JoinedFlies
<1>4. ~(Flies(r) /\ Flies(a))
  BY <1>2 DEF Way
<1>5. Once(r \o a)
  BY <1>1, <1>2, <1>4, JoinedOnce
<1>6. r \o a \in Seq(S)
  BY <1>2
<1>7. Way(r \o a, w2, s) /\ (Carry(r \o a, w2, s) => Carry(r, w, s))
  BY <1>2, <1>3, <1>5 DEF Way, Carry
<1> QED  BY <1>2, <1>6, <1>7 DEF a, w2

(* SSLProcessingSend drains the SEND BIO of the peer.                      *)
LEMMA WaySend ==
  ASSUME NEW S, NEW r \in Seq(S), NEW w \in Seq(S), NEW s \in Seq(S), Way(r, w, s)
  PROVE  /\ w \o s \in Seq(S)
         /\ Way(r, w \o s, <<>>) /\ (Carry(r, w \o s, <<>>) => Carry(r, w, s))
         /\ Way(r, w, <<>>) /\ (Carry(r, w, <<>>) => Carry(r, w, s))
<1>1. Flies(w \o s) <=> Flies(w) \/ Flies(s)
  BY JoinedFlies
<1>2. Once(w \o s)
  BY JoinedOnce DEF Way
<1>3. Way(r, w \o s, <<>>) /\ (Carry(r, w \o s, <<>>) => Carry(r, w, s))
  BY <1>1, <1>2, EmptyQueue DEF Way, Carry
<1>4. Way(r, w, <<>>) /\ (Carry(r, w, <<>>) => Carry(r, w, s))
  BY EmptyQueue DEF Way, Carry
<1>5. w \o s \in Seq(S)
  OBVIOUS
<1> QED  BY <1>3, <1>4, <1>5

(* A unit is put behind the SEND BIO: a record, or the only message of the *)
(* handshake.                                                              *)
LEMMA WayAdd ==
  ASSUME NEW S, NEW r \in Seq(S), NEW w \in Seq(S), NEW s \in Seq(S), Way(r, w, s),
         NEW u \in S, ~(IsFlight(u) /\ Carry(r, w, s))
  PROVE  /\ s \o <<u>> \in Seq(S)
         /\ Way(r, w, s \o <<u>>)
         /\ Carry(r, w, s \o <<u>>) <=> Carry(r, w, s) \/ IsFlight(u)
<1> DEFINE q == <<u>>
<1>1. q \in Seq(S) /\ Once(q) /\ (Flies(q) <=> IsFlight(u))
  BY OneQueue
<1> HIDE DEF q
<1>2. Flies(s \o q) <=> Flies(s) \/ IsFlight(u)
  BY <1>1, JoinedFlies
<1>3. Once(s) /\ ~(Flies(s) /\ Flies(q))
  BY <1>1 DEF Way, Carry
<1>4. Once(s \o q)
  BY <1>1, <1>3, JoinedOnce
<1>5. s \o q \in Seq(S)
  BY <1>1
<1>6. Way(r, w, s \o q) /\ (Carry(r, w, s \o q) <=> Carry(r, w, s) \/ IsFlight(u))
  BY <1>2, <1>4 DEF Way, Carry
<1> QED  BY <1>5, <1>6 DEF q

(* SSL_read takes the head of the RECV BIO.                                *)
LEMMA WayRead ==
  ASSUME NEW S, NEW r \in Seq(S), NEW w, NEW s, Way(r, w, s), r # <<>>
  PROVE  /\ Tail(r) \in Seq(S) /\ Head(r) \in S
         /\ Way(Tail(r), w, s)
         /\ Carry(Tail(r), w, s) => Carry(r, w, s)
         /\ IsFlight(Head(r)) => Carry(r, w, s) /\ ~Carry(Tail(r), w, s)
<1>1. Once(r)
  BY DEF Way
<1>2. /\ Tail(r) \in Seq(S) /\ Head(r) \in S /\ Once(Tail(r))
      /\ Flies(Tail(r)) => Flies(r)
      /\ IsFlight(Head(r)) => Flies(r) /\ ~Flies(Tail(r))
  BY <1>1, TailQueue
<1> QED  BY <1>2 DEF Way, Carry

(* The rest of a record is put back in front.                              *)
LEMMA WayPutBack ==
  ASSUME NEW S, NEW r \in Seq(S), NEW w, NEW s, Way(r, w, s), NEW u \in S, ~IsFlight(u)
  PROVE  /\ <<u>> \o r \in Seq(S)
         /\ Way(<<u>> \o r, w, s)
         /\ Carry(<<u>> \o r, w, s) => Carry(r, w, s)
<1> DEFINE q == <<u>>
<1>1. q \in Seq(S) /\ Once(q) /\ ~Flies(q)
  BY OneQueue
<1> HIDE DEF q
<1>2. Flies(q \o r) <=> Flies(r)
  BY <1>1, JoinedFlies
<1>3. Once(q \o r)
  <2>1. Once(r)
    BY DEF Way
  <2> QED  BY <1>1, <2>1, JoinedOnce
<1>4. q \o r \in Seq(S)
  BY <1>1
<1>5. Way(q \o r, w, s) /\ (Carry(q \o r, w, s) => Carry(r, w, s))
  BY <1>2, <1>3 DEF Way, Carry
<1> QED  BY <1>4, <1>5 DEF q

(* What is on the wire and in the RECV BIO is lost.                        *)
LEMMA WayLose ==
  ASSUME NEW r, NEW w, NEW s, Way(r, w, s)
  PROVE  Way(<<>>, <<>>, s) /\ (Carry(<<>>, <<>>, s) => Carry(r, w, s))
BY EmptyQueue DEF Way, Carry
-----------------------------------------------------------------------------
(***************************************************************************)
(* Unsigned arithmetic                                                     *)
(***************************************************************************)

(* A number is determined by its remainder and its quotient.               *)
LEMMA Remainder ==
  ASSUME NEW n \in Nat \ {0}, NEW k \in Int, NEW x \in 0..(n - 1)
  PROVE  (n * k + x) % n = x
<1> DEFINE y == n * k + x
           d == y \div n
           r == y % n
<1>1. y \in Int
  OBVIOUS
<1>2. d \in Int /\ r \in 0..(n - 1) /\ y = n * d + r
  BY <1>1
<1> HIDE DEF d, r
<1>3. n * k + x = n * d + r
  BY <1>2
<1> HIDE DEF y
<1>4. n * (k - d) = r - x
  BY <1>2, <1>3
<1>5. ASSUME k - d >= 1 PROVE FALSE
  <2>1. n * (k - d) >= n
    BY <1>2, <1>5
  <2> QED  BY <2>1, <1>2, <1>4
<1>6. ASSUME k - d <= -1 PROVE FALSE
  <2>1. n * (k - d) <= -n
    BY <1>2, <1>6
  <2> QED  BY <2>1, <1>2, <1>4
<1>7. k = d
  BY <1>2, <1>5, <1>6
<1>8. r = x
  BY <1>2, <1>3, <1>7
<1> QED  BY <1>8 DEF r, y

(* Before the buffer is cleared the room is what is left of it; afterwards *)
(* it is a huge number whose low half reads as a negative length.          *)
LEMMA RoomValues ==
  ASSUME NEW e \in Ends, curr[e] \in 0..Capacity
  PROVE  /\ size[e] = Capacity =>
              Room(e) = Capacity - curr[e] /\ ReadLength(e) = Capacity - curr[e]
         /\ size[e] = 0 /\ curr[e] > 0 => Room(e) > 0 /\ ReadLength(e) < 0
<1> DEFINE n == curr[e]
<1>1. /\ Capacity \in Nat \ {0} /\ SizeModulus \in Nat \ {0} /\ IntModulus \in Nat \ {0}
      /\ SizeModulus % IntModulus = 0 /\ 2 * Capacity < IntModulus
      /\ n \in 0..Capacity
  BY SSLHelperAssumption
<1> HIDE DEF n
<1> DEFINE k == SizeModulus \div IntModulus
<1>2. k \in Int /\ SizeModulus = IntModulus * k
  BY <1>1
<1> HIDE DEF k
<1>3. k >= 1
  <2>1. ASSUME k <= 0 PROVE FALSE
    <3>1. IntModulus * k <= 0
      BY <1>1, <1>2, <2>1
    <3> QED  BY <3>1, <1>1, <1>2
  <2> QED  BY <2>1, <1>2
<1>4. SizeModulus >= IntModulus
  <2>1. IntModulus * k >= IntModulus
    BY <1>1, <1>2, <1>3
  <2> QED  BY <2>1, <1>2
<1>5. ASSUME size[e] = Capacity
      PROVE  Room(e) = Capacity - n /\ ReadLength(e) = Capacity - n
  <2> DEFINE m == Capacity - n
  <2>1. m \in 0..Capacity
    BY <1>1
  <2> HIDE DEF m
  <2>2. m % SizeModulus = m
    BY <1>1, <1>4, <2>1
  <2>3. Room(e) = m
    BY <2>2, <1>5 DEF Room, m, n
  <2>4. m % IntModulus = m
    BY <1>1, <2>1
  <2>5. ReadLength(e) = m
    BY <2>1, <2>3, <2>4, <1>1 DEF ReadLength
  <2> QED  BY <2>3, <2>5 DEF m
<1>6. ASSUME size[e] = 0, n > 0
      PROVE  Room(e) > 0 /\ ReadLength(e) < 0
  <2>1. (0 - n) % SizeModulus = SizeModulus - n
    BY <1>1, <1>4, <1>6
  <2>2. Room(e) = SizeModulus - n
    BY <2>1, <1>6 DEF Room, n
  <2>3. SizeModulus - n = IntModulus * (k - 1) + (IntModulus - n)
    BY <1>1, <1>2
  <2>4. IntModulus - n \in 0..(IntModulus - 1) /\ k - 1 \in Int
    BY <1>1, <1>2, <1>6
  <2>5. (IntModulus * (k - 1) + (IntModulus - n)) % IntModulus = IntModulus - n
    BY <1>1, <2>4, Remainder
  <2>6. Room(e) % IntModulus = IntModulus - n
    BY <2>2, <2>3, <2>5
  <2>7. ~(2 * (IntModulus - n) < IntModulus)
    BY <1>1
  <2>8. ReadLength(e) = (IntModulus - n) - IntModulus
    BY <2>6, <2>7 DEF ReadLength
  <2>9. ReadLength(e) < 0
    BY <2>8, <1>1, <1>6
  <2> QED  BY <2>2, <2>9, <1>1, <1>4
<1> QED  BY <1>5, <1>6 DEF n
(* The room and the length are integers.                                   *)
LEMMA LengthIsInt ==
  ASSUME NEW e \in Ends, curr[e] \in 0..Capacity, size[e] \in {0, Capacity}
  PROVE  Room(e) \in Int /\ ReadLength(e) \in Int
<1>1. /\ size[e] - curr[e] \in Int /\ SizeModulus \in Nat \ {0}
      /\ IntModulus \in Nat \ {0}
  BY SSLHelperAssumption
<1>2. Room(e) \in Int
  BY <1>1 DEF Room
<1> QED  BY <1>1, <1>2 DEF ReadLength
-----------------------------------------------------------------------------
(***************************************************************************)
(* Ends and units                                                          *)
(***************************************************************************)

(* A connection has two ends.                                              *)
LEMMA TwoEnds ==
  ASSUME NEW x \in Ends
  PROVE  /\ Peer(x) \in Ends /\ Peer(x) # x /\ Peer(Peer(x)) = x
         /\ Peer(x)[1] = x[1] /\ x[1] \in Conns
         /\ \/ x[2] = "client" /\ Peer(x)[2] = "server"
            \/ x[2] = "server" /\ Peer(x)[2] = "client"
<1>1. PICK c \in Conns, s \in Sides : x = <<c, s>>
  BY DEF Ends
<1>2. x[1] = c /\ x[2] = s
  BY <1>1
<1>3. CASE s = "client"
  <2>1. Peer(x) = <<c, "server">>
    BY <1>2, <1>3 DEF Peer
  <2>2. Peer(Peer(x)) = <<c, "client">>
    BY <2>1 DEF Peer
  <2> QED  BY <1>1, <1>2, <1>3, <2>1, <2>2 DEF Ends, Sides
<1>4. CASE s = "server"
  <2>1. Peer(x) = <<c, "client">>
    BY <1>2, <1>4 DEF Peer
  <2>2. Peer(Peer(x)) = <<c, "server">>
    BY <2>1 DEF Peer
  <2> QED  BY <1>1, <1>2, <1>4, <2>1, <2>2 DEF Ends, Sides
<1> QED  BY <1>3, <1>4 DEF Sides

(* The two kinds of units.                                                 *)
LEMMA UnitKinds ==
  /\ \A i \in 1..4 : Flight(i) \in Units /\ IsFlight(Flight(i))
  /\ \A n \in Nat \ {0} : Record(n) \in Units /\ ~IsFlight(Record(n))
  /\ \A u \in Units : ~IsFlight(u) => u.length \in Nat \ {0}
BY DEF Flight, Record, Units, IsFlight

(* An action at one end does not touch another connection.                 *)
LEMMA OtherEnds ==
  ASSUME IInv, NEW e \in Ends, flights' = flights,
         \A x \in Ends \ {e, Peer(e)} :
           /\ state'[x] = state[x] /\ pc'[x] = pc[x] /\ stage'[x] = stage[x]
           /\ rbio'[x] = rbio[x] /\ sbio'[x] = sbio[x] /\ wire'[x] = wire[x]
           /\ handshaked'[x] = handshaked[x] /\ size'[x] = size[x] /\ curr'[x] = curr[x]
  PROVE  \A x \in Ends \ {e, Peer(e)} : EndInv(x)'
<1> SUFFICES ASSUME NEW x \in Ends \ {e, Peer(e)}
    PROVE EndInv(x)'
  OBVIOUS
<1>1. Peer(x) \in Ends \ {e, Peer(e)}
  BY TwoEnds
<1>2. EndInv(x)
  BY DEF IInv
<1>3. Carried(x)' = Carried(x)
  BY <1>1 DEF Carried
<1>4. HandshakeInv(x)'
  BY <1>1, <1>2, <1>3 DEF EndInv, HandshakeInv
<1>5. BufferInv(x)'
  BY <1>2 DEF EndInv, BufferInv
<1> QED  BY <1>1, <1>2, <1>4, <1>5 DEF EndInv

(* SSLProcessingSend at an end changes the way to its peer only.           *)
LEMMA SendStep ==
  ASSUME TypeOK, NEW e \in Ends, NEW out \in Seq(Units),
         Way(rbio[Peer(e)], wire[Peer(e)], out),
         SSLProcessingSend(e, out)
  PROVE  /\ wire' \in [Ends -> Seq(Units)] /\ sbio' \in [Ends -> Seq(Units)]
         /\ Way(rbio[Peer(e)], wire'[Peer(e)], sbio'[e])
         /\ Carry(rbio[Peer(e)], wire'[Peer(e)], sbio'[e])
              => Carry(rbio[Peer(e)], wire[Peer(e)], out)
         /\ \A x \in Ends \ {Peer(e)} : wire'[x] = wire[x]
         /\ \A x \in Ends \ {e} : sbio'[x] = sbio[x]
<1> DEFINE f == Peer(e)
<1>1. f \in Ends /\ f # e
  BY TwoEnds
<1> HIDE DEF f
<1>2. /\ wire \in [Ends -> Seq(Units)] /\ sbio \in [Ends -> Seq(Units)]
      /\ rbio \in [Ends -> Seq(Units)]
  BY DEF TypeOK
<1>3. <<>> \in Seq(Units)
  OBVIOUS
<1>4. sbio' = [sbio EXCEPT ![e] = <<>>]
  BY DEF SSLProcessingSend
<1>5. /\ wire[f] \o out \in Seq(Units)
      /\ Way(rbio[f], wire[f] \o out, <<>>)
      /\ Carry(rbio[f], wire[f] \o out, <<>>) => Carry(rbio[f], wire[f], out)
      /\ Way(rbio[f], wire[f], <<>>)
      /\ Carry(rbio[f], wire[f], <<>>) => Carry(rbio[f], wire[f], out)
  <2>1. rbio[f] \in Seq(Units) /\ wire[f] \in Seq(Units) /\ Way(rbio[f], wire[f], out)
    BY <1>1, <1>2 DEF f
  <2> QED  BY <2>1, WaySend
<1>6. sbio' \in [Ends -> Seq(Units)] /\ sbio'[e] = <<>> /\ \A x \in Ends \ {e} : sbio'[x] = sbio[x]
  BY <1>2, <1>3, <1>4
<1>7. CASE state[e] = "up" /\ state[f] # "down"
  <2>1. wire' = [wire EXCEPT ![f] = wire[f] \o out]
    BY <1>7 DEF SSLProcessingSend, f
  <2>2. /\ wire' \in [Ends -> Seq(Units)] /\ wire'[f] = wire[f] \o out
        /\ \A x \in Ends \ {f} : wire'[x] = wire[x]
    BY <2>1, <1>1, <1>2, <1>5
  <2> QED  BY <2>2, <1>5, <1>6 DEF f
<1>8. CASE ~(state[e] = "up" /\ state[f] # "down")
  <2>1. wire' = wire
    BY <1>8 DEF SSLProcessingSend, f
  <2> QED  BY <2>1, <1>2, <1>5, <1>6 DEF f
<1> QED  BY <1>7, <1>8

(* SSLSendData: the same with a record, which is no part of the handshake. *)
LEMMA SendDataStep ==
  ASSUME TypeOK, NEW e \in Ends, NEW n \in Nat \ {0},
         Way(rbio[Peer(e)], wire[Peer(e)], sbio[e]),
         SSLSendData(e, n)
  PROVE  /\ wire' \in [Ends -> Seq(Units)] /\ sbio' \in [Ends -> Seq(Units)]
         /\ Way(rbio[Peer(e)], wire'[Peer(e)], sbio'[e])
         /\ Carry(rbio[Peer(e)], wire'[Peer(e)], sbio'[e])
              => Carry(rbio[Peer(e)], wire[Peer(e)], sbio[e])
         /\ \A x \in Ends \ {Peer(e)} : wire'[x] = wire[x]
         /\ \A x \in Ends \ {e} : sbio'[x] = sbio[x]
<1>1. SSLProcessingSend(e, sbio[e] \o <<Record(n)>>)
  BY DEF SSLSendData
<1>2. Record(n) \in Units /\ ~IsFlight(Record(n))
  BY UnitKinds
<1>3. rbio[Peer(e)] \in Seq(Units) /\ wire[Peer(e)] \in Seq(Units) /\ sbio[e] \in Seq(Units)
  BY TwoEnds DEF TypeOK
<1> DEFINE out == sbio[e] \o <<Record(n)>>
<1>4. /\ out \in Seq(Units)
      /\ Way(rbio[Peer(e)], wire[Peer(e)], out)
      /\ Carry(rbio[Peer(e)], wire[Peer(e)], out)
           => Carry(rbio[Peer(e)], wire[Peer(e)], sbio[e])
  BY <1>2, <1>3, WayAdd
<1>5. SSLProcessingSend(e, out)
  BY <1>1
<1> HIDE DEF out
<1> QED  BY <1>4, <1>5, SendStep

(* An action that at most takes a message off the way to some ends, and    *)
(* leaves the stages of the handshake as they were.                        *)
LEMMA LessOnTheWay ==
  ASSUME IInv, UNCHANGED <<flights, stage>>,
         \A x \in Ends : state'[x] = "new" => state[x] = "new",
         \A x \in Ends : pc'[x] = "read" => state'[x] # "new",
         \A x \in Ends : handshaked'[x] => stage[x] = flights[x[1]],
         \A x \in Ends : Way(rbio'[x], wire'[x], sbio'[Peer(x)]),
         \A x \in Ends : Carry(rbio'[x], wire'[x], sbio'[Peer(x)]) => Carried(x),
         \A x \in Ends : BufferInv(x)'
  PROVE  \A x \in Ends : EndInv(x)'
<1> SUFFICES ASSUME NEW x \in Ends PROVE EndInv(x)'
  OBVIOUS
<1>1. EndInv(x)
  BY DEF IInv
<1>2. Way(rbio[x], wire[x], sbio[Peer(x)])'
  OBVIOUS
<1>3. Carried(x)' => Carried(x)
  BY DEF Carried
<1>4. HandshakeInv(x)'
  BY <1>1, <1>3 DEF EndInv, HandshakeInv
<1> QED  BY <1>2, <1>4 DEF EndInv
-----------------------------------------------------------------------------
(***************************************************************************)
(* SSL_read                                                                *)
(***************************************************************************)

(* What SSL_read leaves on the way to its end, and what it puts on the way *)
(* to the peer: the handshake goes on by at most one message.              *)
LEMMA ReadHandshake ==
  ASSUME IInv, NEW e \in Ends
  PROVE  /\ Unread(e) \in Seq(Units)
         /\ Way(Unread(e), wire[e], sbio[Peer(e)])
         /\ sbio[e] \o Produced(e) \in Seq(Units)
         /\ Way(rbio[Peer(e)], wire[Peer(e)], sbio[e] \o Produced(e))
         /\ NextStage(e) \in 0..4 /\ NextStage(e) <= flights[e[1]]
         /\ Carry(Unread(e), wire[e], sbio[Peer(e)]) => stage[Peer(e)] = NextStage(e) + 1
         /\ Carry(rbio[Peer(e)], wire[Peer(e)], sbio[e] \o Produced(e))
              => NextStage(e) = stage[Peer(e)] + 1
         /\ handshaked[e] => NextStage(e) = flights[e[1]] /\ ~HasFlight(e)
         /\ e[2] = "client" /\ NextStage(e) = 0 => stage[Peer(e)] = 0
         /\ e[2] = "server" /\ stage[Peer(e)] = 0 => NextStage(e) = 0
         /\ HasFlight(e) => ~Carry(Unread(e), wire[e], sbio[Peer(e)])
         /\ ~HasFlight(e) => Unread(e) = rbio[e] /\ NextStage(e) = stage[e]
<1> DEFINE f == Peer(e)
<1>1. /\ f \in Ends /\ f # e /\ Peer(f) = e /\ f[1] = e[1] /\ e[1] \in Conns
      /\ \/ e[2] = "client" /\ f[2] = "server"
         \/ e[2] = "server" /\ f[2] = "client"
  BY TwoEnds
<1> HIDE DEF f
<1>2. EndInv(e) /\ EndInv(f) /\ TypeOK
  BY <1>1 DEF IInv
<1>3. /\ rbio[e] \in Seq(Units) /\ wire[e] \in Seq(Units) /\ sbio[e] \in Seq(Units)
      /\ rbio[f] \in Seq(Units) /\ wire[f] \in Seq(Units) /\ sbio[f] \in Seq(Units)
  BY <1>1, <1>2 DEF TypeOK
<1>4. stage[e] \in 0..4 /\ stage[f] \in 0..4 /\ flights[e[1]] \in {3, 4}
  BY <1>1, <1>2 DEF TypeOK
<1>5. /\ Way(rbio[e], wire[e], sbio[f]) /\ Carried(e) = Carry(rbio[e], wire[e], sbio[f])
      /\ Way(rbio[f], wire[f], sbio[e]) /\ Carried(f) = Carry(rbio[f], wire[f], sbio[e])
  BY <1>1, <1>2 DEF EndInv, Carried, f
<1>6. /\ stage[e] <= flights[e[1]] /\ stage[f] <= flights[e[1]]
      /\ Carried(e) => stage[f] = stage[e] + 1
      /\ Carried(f) => stage[e] = stage[f] + 1
      /\ handshaked[e] => stage[e] = flights[e[1]]
      /\ e[2] = "client" /\ stage[e] = 0 => stage[f] = 0
      /\ f[2] = "client" /\ stage[f] = 0 => stage[e] = 0
  BY <1>1, <1>2 DEF EndInv, HandshakeInv, f
<1>8. CASE ~HasFlight(e)
  <2>1. Unread(e) = rbio[e] /\ NextStage(e) = stage[e]
    BY <1>8 DEF Unread, NextStage
  <2>2. Produced(e) = <<>>
    BY <2>1, <1>4 DEF Produced
  <2>3. sbio[e] \o Produced(e) = sbio[e]
    BY <2>2, <1>3, ConcatEmptySeq
  <2> QED  BY <2>1, <2>3, <1>8, <1>1, <1>3, <1>4, <1>5, <1>6 DEF f
<1>9. CASE HasFlight(e)
  <2>1. rbio[e] # <<>> /\ IsFlight(Head(rbio[e])) /\ Unread(e) = Tail(rbio[e])
    BY <1>9 DEF HasFlight, IsFlight, Unread
  <2>2. /\ Tail(rbio[e]) \in Seq(Units)
        /\ Way(Tail(rbio[e]), wire[e], sbio[f])
        /\ Carried(e) /\ ~Carry(Tail(rbio[e]), wire[e], sbio[f])
    BY <2>1, <1>3, <1>5, WayRead
  <2>3. stage[f] = stage[e] + 1 /\ ~Carried(f)
    BY <2>2, <1>4, <1>6
  <2>4. /\ NextStage(e) = stage[f] + 1 \/ NextStage(e) = stage[f]
        /\ NextStage(e) <= flights[e[1]] /\ NextStage(e) \in 1..4
    BY <1>4, <1>6, <1>9, <2>3 DEF NextStage
  <2>5. ~handshaked[e]
    BY <2>3, <1>4, <1>6
  <2>6. /\ sbio[e] \o Produced(e) \in Seq(Units)
        /\ Way(rbio[f], wire[f], sbio[e] \o Produced(e))
        /\ Carry(rbio[f], wire[f], sbio[e] \o Produced(e)) => NextStage(e) = stage[f] + 1
    <3>1. CASE NextStage(e) = stage[f] + 1
      <4> DEFINE u == Flight(NextStage(e))
      <4>1. u \in Units
        BY <2>4, UnitKinds
      <4>2. Produced(e) = <<u>>
        BY <3>1, <2>3, <1>4 DEF Produced
      <4> HIDE DEF u
      <4>3. /\ sbio[e] \o <<u>> \in Seq(Units)
            /\ Way(rbio[f], wire[f], sbio[e] \o <<u>>)
        BY <4>1, <1>3, <1>5, <2>3, WayAdd
      <4> QED  BY <4>2, <4>3, <3>1
    <3>2. CASE NextStage(e) = stage[f]
      <4>1. Produced(e) = <<>>
        BY <3>2, <2>3, <1>4 DEF Produced
      <4>2. sbio[e] \o Produced(e) = sbio[e]
        BY <4>1, <1>3, ConcatEmptySeq
      <4> QED  BY <4>2, <1>3, <1>5, <2>3
    <3> QED  BY <3>1, <3>2, <2>4
  <2>7. ~(e[2] = "client" /\ NextStage(e) = 0) /\ stage[f] # 0 /\ NextStage(e) \in 0..4
    BY <2>3, <2>4, <1>4
  <2> QED  BY <2>1, <2>2, <2>4, <2>5, <2>6, <2>7, <1>9 DEF f
<1> QED  BY <1>8, <1>9

(* What SSL_read finds once the handshake is over is a record.             *)
LEMMA ReadRecord ==
  ASSUME IInv, NEW e \in Ends, HasData(e)
  PROVE  /\ Head(Unread(e)).length \in Nat \ {0}
         /\ Tail(Unread(e)) \in Seq(Units)
         /\ Way(Tail(Unread(e)), wire[e], sbio[Peer(e)])
         /\ Carry(Tail(Unread(e)), wire[e], sbio[Peer(e)])
              => Carry(Unread(e), wire[e], sbio[Peer(e)])
<1> DEFINE r == Unread(e)
           w == wire[e]
           s == sbio[Peer(e)]
<1>1. r # <<>>
  BY DEF HasData
<1>2. /\ r \in Seq(Units) /\ Way(r, w, s)
      /\ HasFlight(e) => ~Carry(r, w, s)
      /\ ~HasFlight(e) => r = rbio[e]
  BY ReadHandshake
<1> HIDE DEF r, w, s
<1>4. /\ Tail(r) \in Seq(Units) /\ Head(r) \in Units
      /\ Way(Tail(r), w, s)
      /\ Carry(Tail(r), w, s) => Carry(r, w, s)
      /\ IsFlight(Head(r)) => Carry(r, w, s)
  BY <1>1, <1>2, WayRead
<1>5. ~IsFlight(Head(r))
  <2>1. CASE HasFlight(e)
    BY <2>1, <1>2, <1>4
  <2>2. CASE ~HasFlight(e)
    BY <2>2, <1>1, <1>2 DEF HasFlight, IsFlight
  <2> QED  BY <2>1, <2>2
<1>6. Head(r).length \in Nat \ {0}
  BY <1>4, <1>5, UnitKinds
<1> QED  BY <1>4, <1>6 DEF r, w, s

(* SSL_read stores a part of the record that fits, and the rest of it goes *)
(* back in front.                                                          *)
LEMMA ReadPart ==
  ASSUME IInv, NEW e \in Ends, HasData(e), NEW m \in Nat \ {0}, ReadLength(e) = m
  PROVE  /\ Stores(e) \in 1..m
         /\ Rest(e) \in Seq(Units)
         /\ Way(Rest(e), wire[e], sbio[Peer(e)])
         /\ Carry(Rest(e), wire[e], sbio[Peer(e)])
              => Carry(Unread(e), wire[e], sbio[Peer(e)])
<1> DEFINE t == Tail(Unread(e))
           n == Head(Unread(e)).length
<1>1. /\ n \in Nat \ {0} /\ t \in Seq(Units)
      /\ Way(t, wire[e], sbio[Peer(e)])
      /\ Carry(t, wire[e], sbio[Peer(e)]) => Carry(Unread(e), wire[e], sbio[Peer(e)])
  BY ReadRecord
<1>2. Stores(e) = IF n <= m THEN n ELSE m
  BY DEF Stores
<1>3. Rest(e) = (IF Stores(e) = n THEN <<>> ELSE <<Record(n - Stores(e))>>) \o t
  BY DEF Rest
<1> HIDE DEF t, n
<1>4. Stores(e) \in 1..m
  BY <1>1, <1>2
<1>5. CASE Stores(e) = n
  <2>1. <<>> \o t = t
    BY <1>1, ConcatEmptySeq
  <2>2. Rest(e) = t
    BY <2>1, <1>3, <1>5
  <2> QED  BY <2>2, <1>1, <1>4
<1>6. CASE Stores(e) # n
  <2> DEFINE u == Record(n - Stores(e))
  <2>1. n - Stores(e) \in Nat \ {0}
    BY <1>1, <1>2, <1>6
  <2>2. u \in Units /\ ~IsFlight(u)
    BY <2>1, UnitKinds
  <2>3. Rest(e) = <<u>> \o t
    BY <1>3, <1>6
  <2> HIDE DEF u
  <2>4. /\ <<u>> \o t \in Seq(Units)
        /\ Way(<<u>> \o t, wire[e], sbio[Peer(e)])
        /\ Carry(<<u>> \o t, wire[e], sbio[Peer(e)]) => Carry(t, wire[e], sbio[Peer(e)])
    BY <2>2, <1>1, WayPutBack
  <2> QED  BY <2>3, <2>4, <1>1, <1>4
<1> QED  BY <1>5, <1>6
-----------------------------------------------------------------------------
(***************************************************************************)
(* The actions                                                             *)
(***************************************************************************)

(* Everything holds at first.                                              *)
LEMMA InitInv == Init => IInv
<1> SUFFICES ASSUME Init PROVE IInv
  OBVIOUS
<1>1. <<>> \in Seq(Units) /\ Capacity \in Nat \ {0} /\ MaxParts \in Nat /\ MaxMore \in Nat
  BY SSLHelperAssumption
<1>2. TypeOK
  <2>1. flights \in [Conns -> {3, 4}] /\ errors \in BOOLEAN
    BY DEF Init
  <2>2. handshaked \in [Ends -> BOOLEAN]
    BY DEF Init
  <2>3. parts \in 0..MaxParts /\ more \in 0..MaxMore
    BY <1>1 DEF Init
  <2>4. size \in [Ends -> {0, Capacity}] /\ curr \in [Ends -> 0..Capacity]
    BY <1>1 DEF Init
  <2> QED  BY <1>1, <2>1, <2>2, <2>3, <2>4 DEF Init, TypeOK
<1>3. ASSUME NEW x \in Ends PROVE EndInv(x)
  <2>1. Peer(x) \in Ends /\ x[1] \in Conns
    BY TwoEnds
  <2>2. /\ rbio[x] = <<>> /\ wire[x] = <<>> /\ sbio[Peer(x)] = <<>> /\ sbio[x] = <<>>
        /\ stage[x] = 0 /\ stage[Peer(x)] = 0 /\ flights[x[1]] \in {3, 4}
        /\ handshaked[x] = FALSE /\ pc[x] = "idle" /\ curr[x] = 0 /\ size[x] = Capacity
    BY <2>1 DEF Init
  <2>3. Way(<<>>, <<>>, <<>>) /\ ~Carry(<<>>, <<>>, <<>>)
    BY EmptyQueue DEF Way, Carry
  <2>4. ~Carried(x)
    BY <2>2, <2>3 DEF Carried
  <2>5. HandshakeInv(x)
    BY <2>2, <2>4 DEF HandshakeInv
  <2>6. BufferInv(x)
    BY <2>2, <1>1 DEF BufferInv
  <2> QED  BY <2>2, <2>3, <2>5, <2>6 DEF EndInv
<1> QED  BY <1>2, <1>3 DEF IInv

(* onConnection, UP.                                                       *)
LEMMA OnConnectionUpInv ==
  ASSUME IInv, NEW e \in Ends, OnConnectionUp(e)
  PROVE  IInv'
<1> DEFINE f == Peer(e)
           out == IF e[2] = "client" THEN <<Flight(1)>> ELSE <<>>
<1>1. /\ f \in Ends /\ f # e /\ Peer(f) = e /\ f[1] = e[1] /\ e[1] \in Conns
      /\ \/ e[2] = "client" /\ f[2] = "server"
         \/ e[2] = "server" /\ f[2] = "client"
  BY TwoEnds
<1>2. EndInv(e) /\ EndInv(f) /\ TypeOK
  BY <1>1 DEF IInv
<1>3. /\ state[e] = "new" /\ state' = [state EXCEPT ![e] = "up"]
      /\ stage' = [stage EXCEPT ![e] = Len(out)]
      /\ wire' = [wire EXCEPT ![f] = wire[f] \o out]
      /\ errors' = (errors /\ e[2] = "client")
      /\ UNCHANGED <<flights, pc, rbio, sbio, handshaked, size, curr, handed, parts, more>>
  BY DEF OnConnectionUp
<1>4. Way(rbio[e], wire[e], sbio[f]) /\ Way(rbio[f], wire[f], sbio[e])
  BY <1>1, <1>2 DEF EndInv, f
<1>5. /\ stage[e] = 0
      /\ ~Carried(f)
      /\ e[2] = "client" => stage[f] = 0 /\ ~Carried(e)
  <2>1. stage[e] = 0
    BY <1>2, <1>3 DEF EndInv, HandshakeInv
  <2>2. stage[f] \in 0..4
    BY <1>1, <1>2 DEF TypeOK
  <2>3. /\ Carried(e) => stage[f] = stage[e] + 1
        /\ Carried(f) => stage[e] = stage[f] + 1
        /\ e[2] = "client" /\ stage[e] = 0 => stage[f] = 0
    BY <1>1, <1>2 DEF EndInv, HandshakeInv, f
  <2> QED  BY <2>1, <2>2, <2>3
<1>6. /\ out \in Seq(Units) /\ Len(out) \in {0, 1} /\ wire[f] \o out \in Seq(Units)
      /\ Way(rbio[f], wire[f] \o out, sbio[e])
      /\ e[2] = "client" => Len(out) = 1
      /\ e[2] = "server" => Len(out) = 0 /\ wire[f] \o out = wire[f]
  <2>1. /\ wire[f] \in Seq(Units) /\ rbio[f] \in Seq(Units) /\ sbio[e] \in Seq(Units)
        /\ Carried(f) = Carry(rbio[f], wire[f], sbio[e])
    BY <1>1, <1>2 DEF TypeOK, Carried
  <2>2. CASE e[2] = "client"
    <3>1. Flight(1) \in Units /\ IsFlight(Flight(1))
      BY UnitKinds
    <3> DEFINE u == Flight(1)
    <3> HIDE DEF u
    <3>2. out = <<u>> /\ <<u>> \in Seq(Units) /\ Once(<<u>>)
      BY <2>2, <3>1, OneQueue DEF u
    <3> HIDE DEF out
    <3>3. Len(out) = 1 /\ out \in Seq(Units) /\ Once(out)
      BY <3>2
    <3>4. wire[f] \o out \in Seq(Units)
      BY <2>1, <3>3
    <3>6. ~Flies(wire[f]) /\ ~Flies(rbio[f]) /\ ~Flies(sbio[e]) /\ Once(wire[f])
      BY <1>4, <1>5, <2>1 DEF Carry, Way
    <3>7. Once(wire[f] \o out)
      BY <2>1, <3>3, <3>6, JoinedOnce
    <3>8. Way(rbio[f], wire[f] \o out, sbio[e])
      BY <1>4, <3>6, <3>7 DEF Way
    <3> QED  BY <2>2, <3>3, <3>4, <3>8
  <2>3. CASE e[2] = "server"
    <3>1. out = <<>>
      BY <2>3
    <3>2. wire[f] \o <<>> = wire[f]
      BY <2>1, ConcatEmptySeq
    <3>3. <<>> \in Seq(Units) /\ Len(<<>>) = 0
      OBVIOUS
    <3> HIDE DEF out
    <3> QED  BY <2>1, <2>3, <3>1, <3>2, <3>3, <1>4
  <2> QED  BY <1>1, <2>2, <2>3
<1> HIDE DEF f, out
<1>7. /\ state'[e] = "up" /\ state'[f] = state[f] /\ stage'[e] = Len(out) /\ stage'[f] = stage[f]
      /\ wire'[e] = wire[e] /\ wire'[f] = wire[f] \o out
  BY <1>1, <1>2, <1>3 DEF TypeOK
<1>8. TypeOK'
  <2>1. wire' \in [Ends -> Seq(Units)]
    BY <1>1, <1>2, <1>3, <1>6 DEF TypeOK
  <2>2. stage' \in [Ends -> 0..4] /\ state' \in [Ends -> {"new", "up", "closing", "down"}]
    BY <1>2, <1>3, <1>6 DEF TypeOK
  <2>3. errors' \in BOOLEAN
    BY <1>3
  <2> QED  BY <1>2, <1>3, <2>1, <2>2, <2>3 DEF TypeOK
<1>9. /\ Carried(e)' = Carried(e)
      /\ e[2] = "server" => Carried(f)' = Carried(f)
  BY <1>1, <1>3, <1>6, <1>7 DEF Carried, f
<1>10. EndInv(e)'
  <2>1. Way(rbio[e], wire[e], sbio[f])'
    BY <1>3, <1>4, <1>7
  <2>2. HandshakeInv(e)'
    <3>1. flights[e[1]] \in {3, 4} /\ stage[f] \in 0..4
      BY <1>1, <1>2 DEF TypeOK
    <3>2. /\ handshaked[e] => stage[e] = flights[e[1]]
          /\ Carried(e) => stage[f] = stage[e] + 1
      BY <1>2 DEF EndInv, HandshakeInv, f
    <3> QED  BY <3>1, <3>2, <1>1, <1>3, <1>5, <1>6, <1>7, <1>9 DEF HandshakeInv, f
  <2>3. BufferInv(e)'
    BY <1>2, <1>3 DEF EndInv, BufferInv
  <2> QED  BY <2>1, <2>2, <2>3 DEF EndInv, f
<1>11. EndInv(f)'
  <2>1. Way(rbio[f], wire[f], sbio[e])'
    BY <1>3, <1>6, <1>7
  <2>2. HandshakeInv(f)'
    <3>1. stage[f] \in 0..4
      BY <1>1, <1>2 DEF TypeOK
    <3>2. HandshakeInv(f)
      BY <1>2 DEF EndInv
    <3>3. CASE e[2] = "client"
      <4>1. stage'[e] = stage[f] + 1
        BY <3>3, <1>5, <1>6, <1>7
      <4>2. ~(f[2] = "client")
        BY <3>3, <1>1
      <4> QED  BY <3>2, <4>1, <4>2, <1>1, <1>3, <1>7 DEF HandshakeInv
    <3>4. CASE e[2] = "server"
      BY <3>1, <3>2, <3>4, <1>1, <1>3, <1>5, <1>6, <1>7, <1>9 DEF HandshakeInv
    <3> QED  BY <3>3, <3>4, <1>1
  <2>3. BufferInv(f)'
    BY <1>2, <1>3 DEF EndInv, BufferInv
  <2> QED  BY <1>1, <2>1, <2>2, <2>3 DEF EndInv
<1>12. \A x \in Ends \ {e, f} : EndInv(x)'
  <2>1. \A x \in Ends \ {e, f} :
           state'[x] = state[x] /\ stage'[x] = stage[x] /\ wire'[x] = wire[x]
    BY <1>2, <1>3 DEF TypeOK
  <2> QED  BY <2>1, <1>3, OtherEnds DEF f
<1> QED  BY <1>8, <1>10, <1>11, <1>12 DEF IInv

(* onConnection, DOWN.                                                     *)
LEMMA OnConnectionDownInv ==
  ASSUME IInv, NEW e \in Ends, OnConnectionDown(e)
  PROVE  IInv'
<1>1. /\ state' = [state EXCEPT ![e] = "down"] /\ wire' = [wire EXCEPT ![e] = <<>>]
      /\ rbio' = [rbio EXCEPT ![e] = <<>>]
      /\ UNCHANGED <<flights, pc, stage, sbio, handshaked, size, curr, handed, errors, parts, more>>
  BY DEF OnConnectionDown
<1>2. TypeOK /\ <<>> \in Seq(Units)
  BY DEF IInv
<1>3. TypeOK'
  BY <1>1, <1>2 DEF TypeOK
<1>4. /\ \A x \in Ends \ {e} : wire'[x] = wire[x] /\ rbio'[x] = rbio[x] /\ state'[x] = state[x]
      /\ wire'[e] = <<>> /\ rbio'[e] = <<>> /\ state'[e] = "down"
  BY <1>1, <1>2 DEF TypeOK
<1>5. ASSUME NEW x \in Ends
      PROVE  /\ state'[x] = "new" => state[x] = "new"
             /\ pc'[x] = "read" => state'[x] # "new"
             /\ handshaked'[x] => stage[x] = flights[x[1]]
             /\ Way(rbio'[x], wire'[x], sbio'[Peer(x)])
             /\ Carry(rbio'[x], wire'[x], sbio'[Peer(x)]) => Carried(x)
             /\ BufferInv(x)'
  <2>1. EndInv(x)
    BY DEF IInv
  <2>2. /\ state'[x] = "new" => state[x] = "new"
        /\ pc'[x] = "read" => state'[x] # "new"
        /\ handshaked'[x] => stage[x] = flights[x[1]]
    BY <2>1, <1>1, <1>4 DEF EndInv, HandshakeInv
  <2>3. /\ Way(rbio'[x], wire'[x], sbio[Peer(x)])
        /\ Carry(rbio'[x], wire'[x], sbio[Peer(x)]) => Carried(x)
    BY <2>1, <1>4, WayLose DEF EndInv, Carried
  <2>4. BufferInv(x)'
    BY <2>1, <1>1 DEF EndInv, BufferInv
  <2> QED  BY <2>2, <2>3, <2>4, <1>1
<1>6. \A x \in Ends : EndInv(x)'
  BY <1>1, <1>5, LessOnTheWay
<1> QED  BY <1>3, <1>6 DEF IInv

(* The assertion ends the process.                                         *)
LEMMA AssertFailsInv ==
  ASSUME IInv, NEW e \in Ends, AssertFails(e)
  PROVE  IInv'
<1> DEFINE P == Process(e)
<1>1. /\ state' = [x \in Ends |-> IF x \in P THEN "down" ELSE state[x]]
      /\ pc' = [x \in Ends |-> IF x \in P THEN "aborted" ELSE pc[x]]
      /\ wire' = [x \in Ends |-> IF x \in P THEN <<>> ELSE wire[x]]
      /\ rbio' = [x \in Ends |-> IF x \in P THEN <<>> ELSE rbio[x]]
      /\ UNCHANGED <<flights, stage, sbio, handshaked, size, curr, handed, errors, parts, more>>
  BY DEF AssertFails
<1> HIDE DEF P
<1>2. TypeOK /\ <<>> \in Seq(Units)
  BY DEF IInv
<1>3. TypeOK'
  <2>1. state' \in [Ends -> {"new", "up", "closing", "down"}]
    BY <1>1, <1>2 DEF TypeOK
  <2>2. pc' \in [Ends -> {"idle", "read", "finish", "aborted"}]
    BY <1>1, <1>2 DEF TypeOK
  <2>3. wire' \in [Ends -> Seq(Units)] /\ rbio' \in [Ends -> Seq(Units)]
    BY <1>1, <1>2 DEF TypeOK
  <2> QED  BY <1>1, <1>2, <2>1, <2>2, <2>3 DEF TypeOK
<1>5. ASSUME NEW x \in Ends
      PROVE  /\ state'[x] = "new" => state[x] = "new"
             /\ pc'[x] = "read" => state'[x] # "new"
             /\ handshaked'[x] => stage[x] = flights[x[1]]
             /\ Way(rbio'[x], wire'[x], sbio'[Peer(x)])
             /\ Carry(rbio'[x], wire'[x], sbio'[Peer(x)]) => Carried(x)
             /\ BufferInv(x)'
  <2>1. EndInv(x)
    BY DEF IInv
  <2>2. /\ x \in P => state'[x] = "down" /\ pc'[x] = "aborted" /\ wire'[x] = <<>> /\ rbio'[x] = <<>>
        /\ x \notin P => /\ state'[x] = state[x] /\ pc'[x] = pc[x]
                         /\ wire'[x] = wire[x] /\ rbio'[x] = rbio[x]
    BY <1>1
  <2>3. /\ state'[x] = "new" => state[x] = "new"
        /\ pc'[x] = "read" => state'[x] # "new"
        /\ handshaked'[x] => stage[x] = flights[x[1]]
    BY <2>1, <2>2, <1>1 DEF EndInv, HandshakeInv
  <2>4. /\ Way(rbio'[x], wire'[x], sbio[Peer(x)])
        /\ Carry(rbio'[x], wire'[x], sbio[Peer(x)]) => Carried(x)
    BY <2>1, <2>2, WayLose DEF EndInv, Carried
  <2>5. BufferInv(x)'
    BY <2>1, <2>2, <1>1 DEF EndInv, BufferInv
  <2> QED  BY <2>3, <2>4, <2>5, <1>1
<1>6. \A x \in Ends : EndInv(x)'
  BY <1>1, <1>5, LessOnTheWay
<1> QED  BY <1>3, <1>6 DEF IInv

(* onMessage.                                                              *)
LEMMA OnMessageInv ==
  ASSUME IInv, NEW e \in Ends, OnMessage(e)
  PROVE  IInv'
<1>1. PICK k \in 0..Len(wire[e]) :
        /\ k = 0 => parts < MaxParts
        /\ parts' = IF k = 0 THEN parts + 1 ELSE parts
        /\ rbio' = [rbio EXCEPT ![e] = @ \o SubSeq(wire[e], 1, k)]
        /\ wire' = [wire EXCEPT ![e] = SubSeq(@, k + 1, Len(@))]
  BY DEF OnMessage
<1>2. /\ state[e] = "up" /\ pc' = [pc EXCEPT ![e] = "read"] /\ pc[e] = "idle"
      /\ UNCHANGED <<flights, state, stage, sbio, handshaked, size, curr, handed, errors, more>>
  BY DEF OnMessage, LoopFree, Process, Ends, Sides
<1>3. TypeOK /\ EndInv(e)
  BY DEF IInv
<1>4. rbio[e] \in Seq(Units) /\ wire[e] \in Seq(Units) /\ sbio[Peer(e)] \in Seq(Units)
  BY <1>3, TwoEnds DEF TypeOK
<1> DEFINE r2 == rbio[e] \o SubSeq(wire[e], 1, k)
           w2 == SubSeq(wire[e], k + 1, Len(wire[e]))
<1>5. /\ r2 \in Seq(Units) /\ w2 \in Seq(Units)
      /\ Way(r2, w2, sbio[Peer(e)]) /\ (Carry(r2, w2, sbio[Peer(e)]) => Carried(e))
  BY <1>3, <1>4, WayTake DEF EndInv, Carried
<1>6. rbio' = [rbio EXCEPT ![e] = r2] /\ wire' = [wire EXCEPT ![e] = w2]
  BY <1>1
<1> HIDE DEF r2, w2
<1>7. TypeOK'
  <2>1. parts' \in 0..MaxParts
    BY <1>1, <1>3, SSLHelperAssumption DEF TypeOK
  <2>2. rbio' \in [Ends -> Seq(Units)] /\ wire' \in [Ends -> Seq(Units)]
    BY <1>3, <1>5, <1>6 DEF TypeOK
  <2>3. pc' \in [Ends -> {"idle", "read", "finish", "aborted"}]
    BY <1>2, <1>3 DEF TypeOK
  <2> QED  BY <1>2, <1>3, <2>1, <2>2, <2>3 DEF TypeOK
<1>8. /\ rbio'[e] = r2 /\ wire'[e] = w2 /\ pc'[e] = "read"
      /\ \A x \in Ends \ {e} : rbio'[x] = rbio[x] /\ wire'[x] = wire[x] /\ pc'[x] = pc[x]
  BY <1>2, <1>3, <1>6 DEF TypeOK
<1>9. ASSUME NEW x \in Ends
      PROVE  /\ state'[x] = "new" => state[x] = "new"
             /\ pc'[x] = "read" => state'[x] # "new"
             /\ handshaked'[x] => stage[x] = flights[x[1]]
             /\ Way(rbio'[x], wire'[x], sbio'[Peer(x)])
             /\ Carry(rbio'[x], wire'[x], sbio'[Peer(x)]) => Carried(x)
             /\ BufferInv(x)'
  <2>1. EndInv(x)
    BY DEF IInv
  <2>2. /\ state'[x] = "new" => state[x] = "new"
        /\ pc'[x] = "read" => state'[x] # "new"
        /\ handshaked'[x] => stage[x] = flights[x[1]]
    BY <2>1, <1>2, <1>8 DEF EndInv, HandshakeInv
  <2>3. /\ Way(rbio'[x], wire'[x], sbio[Peer(x)])
        /\ Carry(rbio'[x], wire'[x], sbio[Peer(x)]) => Carried(x)
    BY <2>1, <1>5, <1>8 DEF EndInv, Carried
  <2>4. BufferInv(x)'
    BY <2>1, <1>2, <1>8 DEF EndInv, BufferInv
  <2> QED  BY <2>2, <2>3, <2>4, <1>2
<1>10. \A x \in Ends : EndInv(x)'
  BY <1>2, <1>9, LessOnTheWay
<1> QED  BY <1>7, <1>10 DEF IInv

(* A client sends one more block.                                          *)
LEMMA SendMoreInv ==
  ASSUME IInv, NEW e \in Ends, SendMore(e)
  PROVE  IInv'
<1> DEFINE f == Peer(e)
<1>1. /\ more < MaxMore /\ more' = more + 1
      /\ UNCHANGED <<flights, state, pc, stage, rbio, handshaked, size, curr, handed, errors, parts>>
  BY DEF SendMore
<1>2. PICK n \in Lengths : SSLSendData(e, n)
  BY DEF SendMore
<1>3. TypeOK /\ EndInv(f) /\ f \in Ends /\ Peer(f) = e /\ f # e
  BY TwoEnds DEF IInv
<1>4. n \in Nat \ {0} /\ MaxMore \in Nat
  BY SSLHelperAssumption
<1>5. Way(rbio[f], wire[f], sbio[e]) /\ Carried(f) = Carry(rbio[f], wire[f], sbio[e])
  BY <1>3 DEF EndInv, Carried
<1>6. /\ wire' \in [Ends -> Seq(Units)] /\ sbio' \in [Ends -> Seq(Units)]
      /\ Way(rbio[f], wire'[f], sbio'[e])
      /\ Carry(rbio[f], wire'[f], sbio'[e]) => Carried(f)
      /\ \A x \in Ends \ {f} : wire'[x] = wire[x]
      /\ \A x \in Ends \ {e} : sbio'[x] = sbio[x]
  BY <1>2, <1>3, <1>4, <1>5, SendDataStep
<1> HIDE DEF f
<1>7. TypeOK'
  <2>1. more' \in 0..MaxMore
    BY <1>1, <1>3, <1>4 DEF TypeOK
  <2> QED  BY <1>1, <1>3, <1>6, <2>1 DEF TypeOK
<1>8. ASSUME NEW x \in Ends
      PROVE  /\ state'[x] = "new" => state[x] = "new"
             /\ pc'[x] = "read" => state'[x] # "new"
             /\ handshaked'[x] => stage[x] = flights[x[1]]
             /\ Way(rbio'[x], wire'[x], sbio'[Peer(x)])
             /\ Carry(rbio'[x], wire'[x], sbio'[Peer(x)]) => Carried(x)
             /\ BufferInv(x)'
  <2>1. EndInv(x)
    BY DEF IInv
  <2>2. /\ state'[x] = "new" => state[x] = "new"
        /\ pc'[x] = "read" => state'[x] # "new"
        /\ handshaked'[x] => stage[x] = flights[x[1]]
    BY <2>1, <1>1 DEF EndInv, HandshakeInv
  <2>3. BufferInv(x)'
    BY <2>1, <1>1 DEF EndInv, BufferInv
  <2>4. CASE x = f
    BY <2>2, <2>3, <2>4, <1>1, <1>3, <1>6
  <2>5. CASE x # f
    <3>1. Peer(x) \in Ends \ {e}
      BY <2>5, TwoEnds DEF f
    <3>2. wire'[x] = wire[x] /\ sbio'[Peer(x)] = sbio[Peer(x)] /\ rbio'[x] = rbio[x]
      BY <3>1, <2>5, <1>1, <1>6
    <3> QED  BY <3>2, <2>1, <2>2, <2>3 DEF EndInv, Carried
  <2> QED  BY <2>4, <2>5
<1>9. \A x \in Ends : EndInv(x)'
  BY <1>1, <1>8, LessOnTheWay
<1> QED  BY <1>7, <1>9 DEF IInv

(* Where there is room the buffer is not full.                             *)
LEMMA RoomLeft ==
  ASSUME IInv, NEW e \in Ends, Room(e) > 0
  PROVE  ~(size[e] = Capacity /\ curr[e] = Capacity)
<1>1. SUFFICES ASSUME size[e] = Capacity, curr[e] = Capacity PROVE FALSE
  OBVIOUS
<1>2. curr[e] \in 0..Capacity
  BY DEF IInv, TypeOK
<1>3. Room(e) = Capacity - curr[e] /\ Capacity \in Nat
  BY <1>1, <1>2, RoomValues, SSLHelperAssumption
<1> QED  BY <1>1, <1>3

(* SSL_read refuses the length.                                            *)
LEMMA ReadRefusedInv ==
  ASSUME IInv, NEW e \in Ends, ReadRefused(e)
  PROVE  IInv'
<1>1. /\ errors' = (errors \/ e[2] = "server") /\ Room(e) > 0
      /\ state' = [state EXCEPT ![e] = "closing"] /\ pc' = [pc EXCEPT ![e] = "finish"]
      /\ UNCHANGED <<flights, stage, rbio, sbio, wire, handshaked, size, curr, handed, parts, more>>
  BY DEF ReadRefused, CloseSession, MayRead
<1>2. TypeOK
  BY DEF IInv
<1>3. TypeOK'
  <2>1. errors' \in BOOLEAN
    BY <1>1
  <2> QED  BY <1>1, <1>2, <2>1 DEF TypeOK
<1>4. /\ \A x \in Ends \ {e} : state'[x] = state[x] /\ pc'[x] = pc[x]
      /\ pc'[e] = "finish" /\ state'[e] = "closing"
      /\ ~(size[e] = Capacity /\ curr[e] = Capacity)
  BY <1>1, <1>2, RoomLeft DEF TypeOK
<1>5. ASSUME NEW x \in Ends
      PROVE  /\ state'[x] = "new" => state[x] = "new"
             /\ pc'[x] = "read" => state'[x] # "new"
             /\ handshaked'[x] => stage[x] = flights[x[1]]
             /\ Way(rbio'[x], wire'[x], sbio'[Peer(x)])
             /\ Carry(rbio'[x], wire'[x], sbio'[Peer(x)]) => Carried(x)
             /\ BufferInv(x)'
  <2>1. EndInv(x)
    BY DEF IInv
  <2>2. /\ state'[x] = "new" => state[x] = "new"
        /\ pc'[x] = "read" => state'[x] # "new"
        /\ handshaked'[x] => stage[x] = flights[x[1]]
    BY <2>1, <1>1, <1>4 DEF EndInv, HandshakeInv
  <2>3. /\ Way(rbio'[x], wire'[x], sbio'[Peer(x)])
        /\ Carry(rbio'[x], wire'[x], sbio'[Peer(x)]) => Carried(x)
    BY <2>1, <1>1 DEF EndInv, Carried
  <2>4. BufferInv(x)'
    BY <2>1, <1>1, <1>4 DEF EndInv, BufferInv
  <2> QED  BY <2>2, <2>3, <2>4
<1>6. \A x \in Ends : EndInv(x)'
  BY <1>1, <1>5, LessOnTheWay
<1> QED  BY <1>3, <1>6 DEF IInv

(* SSL_read finds nothing for us.                                          *)
LEMMA ReadNothingInv ==
  ASSUME IInv, NEW e \in Ends, ReadNothing(e)
  PROVE  IInv'
<1> DEFINE f == Peer(e)
           s2 == sbio[e] \o Produced(e)
<1>1. /\ f \in Ends /\ f # e /\ Peer(f) = e /\ f[1] = e[1] /\ e[1] \in Conns
      /\ \/ e[2] = "client" /\ f[2] = "server"
         \/ e[2] = "server" /\ f[2] = "client"
  BY TwoEnds
<1>2. EndInv(e) /\ EndInv(f) /\ TypeOK
  BY <1>1 DEF IInv
<1>3. /\ pc[e] = "read" /\ Room(e) > 0
      /\ stage' = [stage EXCEPT ![e] = NextStage(e)]
      /\ sbio' = [sbio EXCEPT ![e] = s2]
      /\ rbio' = [rbio EXCEPT ![e] = Unread(e)]
      /\ errors' = Cleared(e)
      /\ state' = [state EXCEPT ![e] = "closing"] \/ state' = state
      /\ pc' = [pc EXCEPT ![e] = "finish"]
      /\ UNCHANGED <<flights, wire, handshaked, size, curr, handed, parts, more>>
  BY DEF ReadNothing, MayRead, CloseSession
<1>4. /\ Unread(e) \in Seq(Units) /\ s2 \in Seq(Units)
      /\ Way(Unread(e), wire[e], sbio[f]) /\ Way(rbio[f], wire[f], s2)
  BY ReadHandshake
<1>5. /\ NextStage(e) \in 0..4 /\ NextStage(e) <= flights[e[1]]
      /\ Carry(Unread(e), wire[e], sbio[f]) => stage[f] = NextStage(e) + 1
      /\ Carry(rbio[f], wire[f], s2) => NextStage(e) = stage[f] + 1
      /\ handshaked[e] => NextStage(e) = flights[e[1]]
      /\ e[2] = "client" /\ NextStage(e) = 0 => stage[f] = 0
      /\ e[2] = "server" /\ stage[f] = 0 => NextStage(e) = 0
  BY ReadHandshake
<1> HIDE DEF f, s2
<1>6. /\ stage'[e] = NextStage(e) /\ stage'[f] = stage[f]
      /\ sbio'[e] = s2 /\ sbio'[f] = sbio[f] /\ rbio'[e] = Unread(e) /\ rbio'[f] = rbio[f]
      /\ state[e] # "new" /\ state'[e] # "new" /\ state'[f] = state[f]
      /\ pc'[e] = "finish" /\ pc'[f] = pc[f]
  <2>1. state[e] # "new"
    BY <1>2, <1>3 DEF EndInv, HandshakeInv
  <2> QED  BY <2>1, <1>1, <1>2, <1>3 DEF TypeOK
<1>7. TypeOK'
  <2>1. rbio' \in [Ends -> Seq(Units)] /\ sbio' \in [Ends -> Seq(Units)]
    BY <1>2, <1>3, <1>4 DEF TypeOK
  <2>2. stage' \in [Ends -> 0..4]
    BY <1>2, <1>3, <1>5 DEF TypeOK
  <2>3. state' \in [Ends -> {"new", "up", "closing", "down"}] /\ pc' \in [Ends -> {"idle", "read", "finish", "aborted"}]
    BY <1>2, <1>3 DEF TypeOK
  <2>4. errors' \in BOOLEAN
    BY <1>3 DEF Cleared
  <2> QED  BY <1>2, <1>3, <2>1, <2>2, <2>3, <2>4 DEF TypeOK
<1>8. /\ Carried(e)' = Carry(Unread(e), wire[e], sbio[f])
      /\ Carried(f)' = Carry(rbio[f], wire[f], s2)
  BY <1>1, <1>3, <1>6 DEF Carried, f
<1>9. EndInv(e)'
  <2>1. Way(rbio[e], wire[e], sbio[f])'
    BY <1>3, <1>4, <1>6
  <2>2. HandshakeInv(e)'
    BY <1>3, <1>5, <1>6, <1>8 DEF HandshakeInv, f
  <2>3. BufferInv(e)'
    <3>1. ~(size[e] = Capacity /\ curr[e] = Capacity)
      BY <1>3, RoomLeft
    <3> QED  BY <3>1, <1>2, <1>3 DEF EndInv, BufferInv
  <2> QED  BY <2>1, <2>2, <2>3 DEF EndInv, f
<1>10. EndInv(f)'
  <2>1. Way(rbio[f], wire[f], sbio[e])'
    BY <1>3, <1>4, <1>6
  <2>2. HandshakeInv(f)'
    <3>1. HandshakeInv(f)
      BY <1>2 DEF EndInv
    <3> QED  BY <3>1, <1>1, <1>3, <1>5, <1>6, <1>8 DEF HandshakeInv
  <2>3. BufferInv(f)'
    BY <1>2, <1>3, <1>6 DEF EndInv, BufferInv
  <2> QED  BY <1>1, <2>1, <2>2, <2>3 DEF EndInv
<1>11. \A x \in Ends \ {e, f} : EndInv(x)'
  <2>1. \A x \in Ends \ {e, f} :
           /\ state'[x] = state[x] /\ stage'[x] = stage[x] /\ pc'[x] = pc[x]
           /\ rbio'[x] = rbio[x] /\ sbio'[x] = sbio[x]
    BY <1>2, <1>3 DEF TypeOK
  <2> QED  BY <2>1, <1>3, OtherEnds DEF f
<1> QED  BY <1>7, <1>9, <1>10, <1>11 DEF IInv

(* SSL_read stores what fits of a record: the buffer is as large as it was *)
(* made, and is not full.                                                  *)
LEMMA StoredData ==
  ASSUME IInv, NEW e \in Ends, Stored(e)
  PROVE  /\ curr' \in [Ends -> 0..Capacity] /\ rbio' \in [Ends -> Seq(Units)]
         /\ stage' \in [Ends -> 0..4] /\ errors' \in BOOLEAN
         /\ curr'[e] \in 1..Capacity /\ size[e] = Capacity
         /\ pc[e] = "read" /\ state[e] # "new"
         /\ Way(rbio'[e], wire[e], sbio[Peer(e)])
         /\ Carry(rbio'[e], wire[e], sbio[Peer(e)])
              => Carry(Unread(e), wire[e], sbio[Peer(e)])
         /\ stage'[e] = NextStage(e)
         /\ \A x \in Ends \ {e} : curr'[x] = curr[x] /\ rbio'[x] = rbio[x] /\ stage'[x] = stage[x]
         /\ UNCHANGED <<flights, state, pc, handshaked, parts, more>>
<1>1. /\ pc[e] = "read" /\ Room(e) > 0 /\ HasData(e) /\ ReadLength(e) >= 0
      /\ curr' = [curr EXCEPT ![e] = curr[e] + Stores(e)]
      /\ rbio' = [rbio EXCEPT ![e] = Rest(e)]
      /\ stage' = [stage EXCEPT ![e] = NextStage(e)]
      /\ errors' = Cleared(e)
      /\ UNCHANGED <<flights, state, pc, handshaked, parts, more>>
  BY DEF Stored, MayRead
<1>2. TypeOK /\ EndInv(e)
  BY DEF IInv
<1>3. Capacity \in Nat \ {0} /\ curr[e] \in 0..Capacity /\ size[e] \in {0, Capacity}
  BY <1>2, SSLHelperAssumption DEF TypeOK
<1>4. size[e] = Capacity
  <2>1. SUFFICES ASSUME size[e] = 0 PROVE FALSE
    BY <1>3
  <2>2. curr[e] > 0
    BY <2>1, <1>2 DEF EndInv, BufferInv
  <2>3. ReadLength(e) < 0 /\ ReadLength(e) \in Int
    BY <2>1, <2>2, <1>3, RoomValues, LengthIsInt
  <2> QED  BY <2>3, <1>1
<1> DEFINE m == Capacity - curr[e]
<1>5. m \in Nat \ {0} /\ ReadLength(e) = m
  <2>1. Room(e) = m /\ ReadLength(e) = m
    BY <1>3, <1>4, RoomValues
  <2> QED  BY <2>1, <1>1, <1>3
<1>6. /\ Stores(e) \in 1..m /\ Rest(e) \in Seq(Units)
      /\ Way(Rest(e), wire[e], sbio[Peer(e)])
      /\ Carry(Rest(e), wire[e], sbio[Peer(e)])
           => Carry(Unread(e), wire[e], sbio[Peer(e)])
  <2> HIDE DEF m
  <2> QED  BY <1>1, <1>5, ReadPart
<1>7. curr[e] + Stores(e) \in 1..Capacity
  BY <1>3, <1>6
<1>8. curr' \in [Ends -> 0..Capacity] /\ curr'[e] \in 1..Capacity
  <2>1. curr[e] + Stores(e) \in 0..Capacity
    BY <1>3, <1>7
  <2> QED  BY <1>1, <1>2, <1>7, <2>1 DEF TypeOK
<1>9. NextStage(e) \in 0..4
  BY ReadHandshake
<1>10. state[e] # "new"
  BY <1>1, <1>2 DEF EndInv, HandshakeInv
<1>11. errors' \in BOOLEAN
  BY <1>1 DEF Cleared
<1>12. /\ rbio' \in [Ends -> Seq(Units)] /\ stage' \in [Ends -> 0..4]
       /\ rbio'[e] = Rest(e) /\ stage'[e] = NextStage(e)
       /\ \A x \in Ends \ {e} : curr'[x] = curr[x] /\ rbio'[x] = rbio[x] /\ stage'[x] = stage[x]
  BY <1>1, <1>2, <1>6, <1>9 DEF TypeOK
<1> QED  BY <1>1, <1>4, <1>6, <1>8, <1>10, <1>11, <1>12

(* The data comes before the handshake is known to be over.                *)
LEMMA ReadEarlyInv ==
  ASSUME IInv, NEW e \in Ends, ReadEarly(e)
  PROVE  IInv'
<1> DEFINE f == Peer(e)
           s2 == sbio[e] \o Produced(e)
<1>1. /\ f \in Ends /\ f # e /\ Peer(f) = e /\ f[1] = e[1] /\ e[1] \in Conns
      /\ \/ e[2] = "client" /\ f[2] = "server"
         \/ e[2] = "server" /\ f[2] = "client"
  BY TwoEnds
<1>2. EndInv(e) /\ EndInv(f) /\ TypeOK
  BY <1>1 DEF IInv
<1>3. /\ Stored(e) /\ ~handshaked[e]
      /\ sbio' = [sbio EXCEPT ![e] = s2]
      /\ UNCHANGED <<wire, size, handed>>
  BY DEF ReadEarly
<1>4. /\ curr' \in [Ends -> 0..Capacity] /\ rbio' \in [Ends -> Seq(Units)]
      /\ stage' \in [Ends -> 0..4] /\ errors' \in BOOLEAN
      /\ curr'[e] \in 1..Capacity /\ size[e] = Capacity
      /\ pc[e] = "read" /\ state[e] # "new"
      /\ Way(rbio'[e], wire[e], sbio[f])
      /\ Carry(rbio'[e], wire[e], sbio[f]) => Carry(Unread(e), wire[e], sbio[f])
      /\ stage'[e] = NextStage(e)
      /\ \A x \in Ends \ {e} : curr'[x] = curr[x] /\ rbio'[x] = rbio[x] /\ stage'[x] = stage[x]
      /\ UNCHANGED <<flights, state, pc, handshaked, parts, more>>
  BY <1>3, StoredData
<1>5. s2 \in Seq(Units) /\ Way(rbio[f], wire[f], s2)
  BY ReadHandshake
<1>6. /\ NextStage(e) <= flights[e[1]]
      /\ Carry(Unread(e), wire[e], sbio[f]) => stage[f] = NextStage(e) + 1
      /\ Carry(rbio[f], wire[f], s2) => NextStage(e) = stage[f] + 1
      /\ e[2] = "client" /\ NextStage(e) = 0 => stage[f] = 0
      /\ e[2] = "server" /\ stage[f] = 0 => NextStage(e) = 0
  BY ReadHandshake
<1> HIDE DEF f, s2
<1>8. /\ sbio' \in [Ends -> Seq(Units)] /\ sbio'[e] = s2
      /\ \A x \in Ends \ {e} : sbio'[x] = sbio[x]
  BY <1>2, <1>3, <1>5 DEF TypeOK
<1>9. TypeOK'
  BY <1>2, <1>3, <1>4, <1>8 DEF TypeOK
<1>10. /\ Carried(e)' = Carry(rbio'[e], wire[e], sbio[f])
       /\ Carried(f)' = Carry(rbio[f], wire[f], s2)
  BY <1>1, <1>3, <1>4, <1>8 DEF Carried, f
<1>11. EndInv(e)'
  <2>1. Way(rbio[e], wire[e], sbio[f])'
    BY <1>1, <1>3, <1>4, <1>8
  <2>2. HandshakeInv(e)'
    <3>1. Carried(e)' => stage[f] = NextStage(e) + 1
      BY <1>4, <1>6, <1>10
    <3> QED  BY <3>1, <1>1, <1>3, <1>4, <1>6 DEF HandshakeInv, f
  <2>3. BufferInv(e)'
    <3>1. curr'[e] > 0 /\ size'[e] = Capacity /\ pc'[e] = "read" /\ ~handshaked'[e]
      BY <1>3, <1>4, SSLHelperAssumption
    <3> QED  BY <3>1 DEF BufferInv
  <2> QED  BY <2>1, <2>2, <2>3 DEF EndInv, f
<1>12. EndInv(f)'
  <2>1. Way(rbio[f], wire[f], sbio[e])'
    BY <1>1, <1>3, <1>4, <1>5, <1>8
  <2>2. HandshakeInv(f)'
    <3>1. HandshakeInv(f)
      BY <1>2 DEF EndInv
    <3>2. stage'[f] = stage[f]
      BY <1>1, <1>4
    <3> QED  BY <3>1, <3>2, <1>1, <1>4, <1>6, <1>10 DEF HandshakeInv
  <2>3. BufferInv(f)'
    BY <1>1, <1>2, <1>3, <1>4 DEF EndInv, BufferInv
  <2> QED  BY <1>1, <2>1, <2>2, <2>3 DEF EndInv
<1>13. \A x \in Ends \ {e, f} : EndInv(x)'
  BY <1>3, <1>4, <1>8, OtherEnds DEF f
<1> QED  BY <1>9, <1>11, <1>12, <1>13 DEF IInv

(* The data is handed over, and the server answers.                        *)
LEMMA ReadDataInv ==
  ASSUME IInv, NEW e \in Ends, ReadData(e)
  PROVE  IInv'
<1> DEFINE f == Peer(e)
<1>1. /\ f \in Ends /\ f # e /\ Peer(f) = e /\ f[1] = e[1] /\ e[1] \in Conns
      /\ \/ e[2] = "client" /\ f[2] = "server"
         \/ e[2] = "server" /\ f[2] = "client"
  BY TwoEnds
<1>2. EndInv(e) /\ EndInv(f) /\ TypeOK
  BY <1>1 DEF IInv
<1>3. /\ Stored(e) /\ handshaked[e]
      /\ handed' = [handed EXCEPT ![e] = handed[e] + 1]
      /\ HandleData(e)
      /\ size' = [size EXCEPT ![e] = 0]
  BY DEF ReadData, SSLReceiveData
<1>4. /\ curr' \in [Ends -> 0..Capacity] /\ rbio' \in [Ends -> Seq(Units)]
      /\ stage' \in [Ends -> 0..4] /\ errors' \in BOOLEAN
      /\ curr'[e] \in 1..Capacity /\ state[e] # "new"
      /\ Way(rbio'[e], wire[e], sbio[f])
      /\ Carry(rbio'[e], wire[e], sbio[f]) => Carry(Unread(e), wire[e], sbio[f])
      /\ stage'[e] = NextStage(e)
      /\ \A x \in Ends \ {e} : curr'[x] = curr[x] /\ rbio'[x] = rbio[x] /\ stage'[x] = stage[x]
      /\ UNCHANGED <<flights, state, pc, handshaked, parts, more>>
  BY <1>3, StoredData
<1>5. NextStage(e) = stage[e] /\ Unread(e) = rbio[e]
  BY <1>3, ReadHandshake
<1>6. Capacity \in Nat \ {0} /\ AnswerLength \in Nat \ {0}
  BY SSLHelperAssumption
<1>7. /\ Way(rbio[f], wire[f], sbio[e]) /\ Carried(f) = Carry(rbio[f], wire[f], sbio[e])
      /\ Carried(e) = Carry(rbio[e], wire[e], sbio[f])
  BY <1>1, <1>2 DEF EndInv, Carried
<1>8. /\ wire' \in [Ends -> Seq(Units)] /\ sbio' \in [Ends -> Seq(Units)]
      /\ Way(rbio[f], wire'[f], sbio'[e])
      /\ Carry(rbio[f], wire'[f], sbio'[e]) => Carried(f)
      /\ \A x \in Ends \ {f} : wire'[x] = wire[x]
      /\ \A x \in Ends \ {e} : sbio'[x] = sbio[x]
  <2>1. CASE e[2] = "server"
    <3>1. SSLSendData(e, AnswerLength)
      BY <2>1, <1>3 DEF HandleData
    <3> QED  BY <3>1, <1>2, <1>6, <1>7, SendDataStep
  <2>2. CASE e[2] = "client"
    <3>1. UNCHANGED <<sbio, wire>>
      BY <2>2, <1>3 DEF HandleData
    <3> QED  BY <3>1, <1>2, <1>7 DEF TypeOK
  <2> QED  BY <2>1, <2>2, <1>1
<1> HIDE DEF f
<1>10. /\ size' \in [Ends -> {0, Capacity}] /\ size'[e] = 0
       /\ \A x \in Ends \ {e} : size'[x] = size[x]
       /\ handed' \in [Ends -> Nat]
  BY <1>2, <1>3 DEF TypeOK
<1>11. TypeOK'
  BY <1>2, <1>4, <1>8, <1>10 DEF TypeOK
<1>12. /\ Carried(e)' = Carry(rbio'[e], wire[e], sbio[f])
       /\ Carried(f)' = Carry(rbio[f], wire'[f], sbio'[e])
  BY <1>1, <1>4, <1>8 DEF Carried, f
<1>13. EndInv(e)'
  <2>1. Way(rbio[e], wire[e], sbio[f])'
    BY <1>1, <1>4, <1>8
  <2>2. HandshakeInv(e)'
    <3>1. HandshakeInv(e)
      BY <1>2 DEF EndInv
    <3>2. Carried(e)' => Carried(e)
      BY <1>4, <1>5, <1>7, <1>12
    <3>3. stage'[e] = stage[e] /\ stage'[f] = stage[f]
      BY <1>1, <1>4, <1>5
    <3> QED  BY <3>1, <3>2, <3>3, <1>4 DEF HandshakeInv, f
  <2>3. BufferInv(e)'
    <3>1. curr'[e] > 0 /\ size'[e] # Capacity
      BY <1>4, <1>6, <1>10
    <3> QED  BY <3>1 DEF BufferInv
  <2> QED  BY <2>1, <2>2, <2>3 DEF EndInv, f
<1>14. EndInv(f)'
  <2>1. Way(rbio[f], wire[f], sbio[e])'
    BY <1>1, <1>4, <1>8
  <2>2. HandshakeInv(f)'
    <3>1. HandshakeInv(f)
      BY <1>2 DEF EndInv
    <3>2. stage'[f] = stage[f] /\ stage'[e] = stage[e]
      BY <1>1, <1>4, <1>5
    <3>3. Carried(f)' => Carried(f)
      BY <1>8, <1>12
    <3> QED  BY <3>1, <3>2, <3>3, <1>1, <1>4 DEF HandshakeInv
  <2>3. BufferInv(f)'
    BY <1>1, <1>2, <1>4, <1>10 DEF EndInv, BufferInv
  <2> QED  BY <1>1, <2>1, <2>2, <2>3 DEF EndInv
<1>15. \A x \in Ends \ {e, f} : EndInv(x)'
  BY <1>4, <1>8, <1>10, OtherEnds DEF f
<1> QED  BY <1>11, <1>13, <1>14, <1>15 DEF IInv

(* The end of SSLProcessingRecv.                                           *)
LEMMA FinishInv ==
  ASSUME IInv, NEW e \in Ends, Finish(e)
  PROVE  IInv'
<1> DEFINE f == Peer(e)
           b == handshaked[e] \/ JustFinished(e)
<1>1. f \in Ends /\ f # e /\ Peer(f) = e /\ (e[2] = "client" \/ e[2] = "server")
  BY TwoEnds
<1>2. EndInv(e) /\ EndInv(f) /\ TypeOK
  BY <1>1 DEF IInv
<1>3. /\ pc[e] = "finish" /\ handshaked' = [handshaked EXCEPT ![e] = b]
      /\ pc' = [pc EXCEPT ![e] = "idle"]
      /\ UNCHANGED <<flights, state, stage, rbio, size, curr, handed, errors, parts, more>>
  BY DEF Finish, NoticeHandshake
<1>4. Way(rbio[f], wire[f], sbio[e]) /\ Carried(f) = Carry(rbio[f], wire[f], sbio[e])
  BY <1>1, <1>2 DEF EndInv, Carried
<1>5. b \in BOOLEAN /\ (b => stage[e] = flights[e[1]])
  BY <1>2 DEF EndInv, HandshakeInv, JustFinished, InitFinished
<1> HIDE DEF b
<1>6. /\ handshaked' \in [Ends -> BOOLEAN] /\ pc' \in [Ends -> {"idle", "read", "finish", "aborted"}]
      /\ pc'[e] = "idle" /\ handshaked'[e] = b
      /\ \A x \in Ends \ {e} : pc'[x] = pc[x] /\ handshaked'[x] = handshaked[x]
  <2>1. /\ handshaked \in [Ends -> BOOLEAN]
        /\ pc \in [Ends -> {"idle", "read", "finish", "aborted"}]
    BY <1>2 DEF TypeOK
  <2>2. /\ handshaked' \in [Ends -> BOOLEAN] /\ handshaked'[e] = b
        /\ \A x \in Ends \ {e} : handshaked'[x] = handshaked[x]
    BY <1>3, <1>5, <2>1
  <2>3. /\ pc' \in [Ends -> {"idle", "read", "finish", "aborted"}] /\ pc'[e] = "idle"
        /\ \A x \in Ends \ {e} : pc'[x] = pc[x]
    BY <1>3, <2>1
  <2> QED  BY <2>2, <2>3
<1>7. /\ wire' \in [Ends -> Seq(Units)] /\ sbio' \in [Ends -> Seq(Units)]
      /\ Way(rbio[f], wire'[f], sbio'[e])
      /\ Carry(rbio[f], wire'[f], sbio'[e]) => Carried(f)
      /\ \A x \in Ends \ {f} : wire'[x] = wire[x]
      /\ \A x \in Ends \ {e} : sbio'[x] = sbio[x]
  <2>1. CASE JustFinished(e) /\ e[2] = "client"
    <3>1. PICK n \in Lengths : SSLSendData(e, n)
      BY <2>1 DEF Finish, SSLConnected
    <3>2. n \in Nat \ {0}
      BY SSLHelperAssumption
    <3> QED  BY <3>1, <3>2, <1>2, <1>4, SendDataStep
  <2>2. CASE ~(JustFinished(e) /\ e[2] = "client")
    <3>1. SSLProcessingSend(e, sbio[e])
      BY <2>2, <1>1 DEF Finish, SSLConnected
    <3>2. sbio[e] \in Seq(Units)
      BY <1>2 DEF TypeOK
    <3> QED  BY <3>1, <3>2, <1>2, <1>4, SendStep
  <2> QED  BY <2>1, <2>2
<1> HIDE DEF f
<1>8. TypeOK'
  BY <1>2, <1>3, <1>6, <1>7 DEF TypeOK
<1>9. ASSUME NEW x \in Ends
      PROVE  /\ state'[x] = "new" => state[x] = "new"
             /\ pc'[x] = "read" => state'[x] # "new"
             /\ handshaked'[x] => stage[x] = flights[x[1]]
             /\ Way(rbio'[x], wire'[x], sbio'[Peer(x)])
             /\ Carry(rbio'[x], wire'[x], sbio'[Peer(x)]) => Carried(x)
             /\ BufferInv(x)'
  <2>1. EndInv(x)
    BY DEF IInv
  <2>2. /\ state'[x] = "new" => state[x] = "new"
        /\ pc'[x] = "read" => state'[x] # "new"
    BY <2>1, <1>3, <1>6 DEF EndInv, HandshakeInv
  <2>3. handshaked'[x] => stage[x] = flights[x[1]]
    BY <2>1, <1>5, <1>6 DEF EndInv, HandshakeInv
  <2>4. BufferInv(x)'
    BY <2>1, <1>3, <1>6 DEF EndInv, BufferInv
  <2>5. CASE x = f
    BY <2>2, <2>3, <2>4, <2>5, <1>1, <1>3, <1>7
  <2>6. CASE x # f
    <3>1. Peer(x) \in Ends \ {e}
      BY <2>6, TwoEnds DEF f
    <3>2. wire'[x] = wire[x] /\ sbio'[Peer(x)] = sbio[Peer(x)] /\ rbio'[x] = rbio[x]
      BY <3>1, <2>6, <1>3, <1>7
    <3> QED  BY <3>2, <2>1, <2>2, <2>3, <2>4 DEF EndInv, Carried
  <2> QED  BY <2>5, <2>6
<1>10. \A x \in Ends : EndInv(x)'
  BY <1>3, <1>9, LessOnTheWay
<1> QED  BY <1>8, <1>10 DEF IInv
-----------------------------------------------------------------------------
(***************************************************************************)
(* The theorems                                                            *)
(***************************************************************************)

(* The inductive invariant: what is on its way between two SSL_Helpers is  *)
(* at most one message of the handshake, the next one, and any number of   *)
(* records; a cleared buffer has an offset, a full one a handler in the    *)
(* loop.                                                                   *)
THEOREM Invariance == Spec => []IInv
<1>1. ASSUME IInv, [Next]_vars PROVE IInv'
  <2>1. CASE UNCHANGED vars
    <3>1. ASSUME NEW x \in Ends PROVE EndInv(x)'
      <4>1. EndInv(x)
        BY <1>1 DEF IInv
      <4>2. Carried(x)' = Carried(x)
        BY <2>1 DEF Carried, vars
      <4> QED  BY <2>1, <4>1, <4>2 DEF EndInv, HandshakeInv, BufferInv, vars
    <3>2. TypeOK'
      BY <1>1, <2>1 DEF IInv, TypeOK, vars
    <3> QED  BY <3>1, <3>2 DEF IInv
  <2>2. ASSUME NEW e \in Ends, End(e) \/ SendMore(e) PROVE IInv'
    BY <1>1, <2>2, OnConnectionUpInv, OnConnectionDownInv, OnMessageInv, SendMoreInv,
       AssertFailsInv, ReadRefusedInv, ReadEarlyInv, ReadDataInv, ReadNothingInv, FinishInv
       DEF End
  <2> QED  BY <1>1, <2>1, <2>2 DEF Next
<1> QED  BY InitInv, <1>1, PTL DEF Spec

(* m_CurrRecived never passes the end of the buffer SSL_Helper allocates,  *)
(* and every other variable has its type.                                  *)
THEOREM HelperTypes == Spec => []TypeOK
<1>1. IInv => TypeOK
  BY DEF IInv
<1> QED  BY Invariance, <1>1, PTL

(* SSL_read stores nothing outside m_DecryptedRecvData whatever the peer   *)
(* sends, although the buffer is cleared and the offset is not; and the    *)
(* assertion of SSLProcessingRecv can only fail for data that is read      *)
(* before m_Handshaked is set.                                             *)
THEOREM StaysInBuffer == Spec => []ReadsInsideBuffer
<1>1. IInv => ReadsInsideBuffer
  <2> SUFFICES ASSUME IInv, NEW e \in Ends
      PROVE  /\ ReadLength(e) > 0 => curr[e] + ReadLength(e) <= size[e]
             /\ Room(e) = 0 => ~handshaked[e]
    BY DEF ReadsInsideBuffer
  <2>1. Capacity \in Nat \ {0} /\ curr[e] \in 0..Capacity /\ size[e] \in {0, Capacity}
    BY SSLHelperAssumption DEF IInv, TypeOK
  <2>2. BufferInv(e)
    BY DEF IInv, EndInv
  <2>3. CASE size[e] = Capacity
    <3>1. Room(e) = Capacity - curr[e] /\ ReadLength(e) = Capacity - curr[e]
      BY <2>1, <2>3, RoomValues
    <3>2. Room(e) = 0 => curr[e] = Capacity
      BY <3>1, <2>1
    <3>3. Room(e) = 0 => ~handshaked[e]
      BY <3>2, <2>2, <2>3 DEF BufferInv
    <3>4. curr[e] + ReadLength(e) <= size[e]
      BY <3>1, <2>1, <2>3
    <3> QED  BY <3>3, <3>4
  <2>4. CASE size[e] = 0
    <3>1. Room(e) > 0 /\ ReadLength(e) < 0
      BY <2>1, <2>2, <2>4, RoomValues DEF BufferInv
    <3>2. Room(e) \in Int /\ ReadLength(e) \in Int
      BY <2>1, LengthIsInt
    <3>3. Room(e) # 0 /\ ~(ReadLength(e) > 0)
      BY <3>1, <3>2
    <3> QED  BY <3>3
  <2> QED  BY <2>1, <2>3, <2>4
<1> QED  BY Invariance, <1>1, PTL
=============================================================================
