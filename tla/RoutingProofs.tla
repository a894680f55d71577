---------------------------- MODULE RoutingProofs ----------------------------
(***************************************************************************)
(* Proofs about Routing: a message reaches a connection at most once, in   *)
(* the order of its sender, and is not lost on the way.                    *)
(***************************************************************************)
EXTENDS Routing, TLAPS

-----------------------------------------------------------------------------
(***************************************************************************)
(* The inductive invariant                                                 *)
(***************************************************************************)

(* The tasks of the pool are group messages, each of which is queued, or   *)
(* with one worker, or answered.                                           *)
JobInv ==
  /\ \A i \in 1..Len(jobs) : jobs[i] <= Len(messages) /\ messages[jobs[i]].to \in Groups
  /\ \A i, j \in 1..Len(jobs) : jobs[i] = jobs[j] => i = j
  /\ \A w \in Workers : job[w] # 0 => job[w] <= Len(messages) /\ messages[job[w]].to \in Groups
  /\ \A w \in Workers, i \in 1..Len(jobs) : job[w] # jobs[i]
  /\ \A v, w \in Workers : (job[v] = job[w] /\ job[v] # 0) => v = w

(* No group message is forgotten.                                          *)
AnswerInv ==
  \A m \in 1..Len(messages) : answers[m] = "pending" =>
    (\E i \in 1..Len(jobs) : jobs[i] = m) \/ (\E w \in Workers : job[w] = m)

(* A message to a user is published once, to one Redis server.  Two posts  *)
(* x and y, x ahead of y, are of different messages or users, and if they  *)
(* are private messages of one sender through one Redis server, x was sent *)
(* first.  M is the sequence of messages.                                  *)
Private(M, x) == M[x.msg].to \in Users
Same(x, y)    == x.msg = y.msg /\ x.user = y.user
Fine(M, x, y) ==
  /\ ~Same(x, y)
  /\ (x.via = y.via /\ Private(M, x) /\ Private(M, y) /\ M[x.msg].from = M[y.msg].from)
       => x.msg < y.msg
Before(M, A, B) == \A x \in A, y \in B : Fine(M, x, y)
Chain(M, s)     == \A i, j \in 1..Len(s) : i < j => Fine(M, s[i], s[j])

(* The queues a post passes through: what is further on its way to a       *)
(* connection is ahead.  P, I, T and D stand for pipe, inbox, tasks and    *)
(* delivered.                                                              *)
Ordered(M, P, I, T, D) ==
  /\ \A t \in Threads, p \in PubSubs : Chain(M, P[t][p])
  /\ \A p \in PubSubs : Chain(M, I[p])
  /\ \A l \in Loops : Chain(M, T[l])
  /\ \A c \in Conns : Chain(M, D[c])
  /\ \A t, u \in Threads, p, q \in PubSubs :
       <<t, p>> # <<u, q>> => Before(M, Range(P[t][p]), Range(P[u][q]))
  /\ \A p, q \in PubSubs : p # q => Before(M, Range(I[p]), Range(I[q]))
  /\ \A t \in Threads, p, q \in PubSubs : Before(M, Range(I[p]), Range(P[t][q]))
  /\ \A l \in Loops, p \in PubSubs : Before(M, Range(T[l]), Range(I[p]))
  /\ \A l \in Loops, t \in Threads, p \in PubSubs : Before(M, Range(T[l]), Range(P[t][p]))
  /\ \A c \in Conns : Before(M, Range(D[c]), Range(T[LoopOf[c]]))
  /\ \A c \in Conns, p \in PubSubs : Before(M, Range(D[c]), Range(I[p]))
  /\ \A c \in Conns, t \in Threads, p \in PubSubs : Before(M, Range(D[c]), Range(P[t][p]))

OrderInv == Ordered(messages, pipe, inbox, tasks, delivered)

(* A post lies at the Redis server it was sent to; the private messages of *)
(* a connection are sent by its loop.                                      *)
PlaceInv ==
  /\ \A t \in Threads, p \in PubSubs : \A x \in Range(pipe[t][p]) :
       x.via = p /\ (Private(messages, x) => t = LoopOf[messages[x.msg].from])
  /\ \A p \in PubSubs : \A x \in Range(inbox[p]) : x.via = p

(* What has been posted is not to be published again.                      *)
Posted ==
  {x \in Posts : \/ \E t \in Threads, p \in PubSubs : x \in Range(pipe[t][p])
                 \/ \E p \in PubSubs : x \in Range(inbox[p])
                 \/ \E l \in Loops : x \in Range(tasks[l])
                 \/ \E c \in Conns : x \in Range(delivered[c])}
Unpublished(m, u) ==
  \/ \E i \in 1..Len(jobs) : jobs[i] = m
  \/ \E w \in Workers : job[w] = m /\ u \in rest[w]
PostedInv ==
  \A x \in Posted : x.msg <= Len(messages) /\ ~Unpublished(x.msg, x.user)

(* A message somebody counts on is with a worker, or somewhere on its way. *)
Carries(s, m, u) == \E x \in Range(s) : x.msg = m /\ x.user = u
OnItsWay(m, c) ==
  \/ \E w \in Workers : job[w] = m /\ user[c] \in rest[w]
  \/ \E t \in Threads, p \in PubSubs : Carries(pipe[t][p], m, user[c])
  \/ \E p \in PubSubs : Carries(inbox[p], m, user[c])
  \/ Carries(tasks[LoopOf[c]], m, user[c])
  \/ Carries(delivered[c], m, user[c])
DueInv == \A d \in due : user[d[2]] \in Users \ fresh /\ OnItsWay(d[1], d[2])

IInv == TypeOK /\ JobInv /\ AnswerInv /\ OrderInv /\ PlaceInv /\ PostedInv /\ DueInv
-----------------------------------------------------------------------------
(***************************************************************************)
(* Types and jobs                                                          *)
(***************************************************************************)

(* publish() goes round the Redis servers.                                 *)
LEMMA AttemptType ==
  ASSUME TypeOK, NEW t \in Threads, NEW k \in Nat
  PROVE  Attempt(t, k) \in PubSubs
<1>1. ASSUME NEW x \in Nat, NEW n \in Nat \ {0}
      PROVE  x % n \in 0..(n - 1)
  BY <1>1
<1>2. PubSubs \subseteq Nat
  BY RoutingAssumption DEF PubSubs
<1>3. index[t] \in PubSubs
  BY DEF TypeOK
<1>4. index[t] + k \in Nat
  <2>1. ASSUME NEW x \in Nat PROVE x + k \in Nat
    BY <2>1
  <2> QED BY <2>1, <1>2, <1>3
<1> QED BY <1>1, <1>4, RoutingAssumption DEF Attempt, PubSubs

(* What publish() may do: append one message to one pipe, or nothing.      *)
LEMMA PublishCases ==
  ASSUME TypeOK, NEW t \in Threads, NEW m \in Ids, NEW u \in Users, NEW claims,
         Publish(t, m, u, claims)
  PROVE  /\ index' \in [Threads -> PubSubs]
         /\ \/ \E p \in PubSubs : /\ pipe' = [pipe EXCEPT ![t][p] = Append(@, Post(m, u, p))]
                                  /\ due' = claims
            \/ pipe' = pipe /\ due' = claims \ {<<m, c>> : c \in ConnsOf({u})}
<1>1. CASE \E k \in 0..(NumPubSubs - 1) :
             LET p == Attempt(t, k) IN
             /\ index' = [index EXCEPT ![t] = Attempt(t, k + 1)]
             /\ IF up[p]
                THEN /\ pipe' = [pipe EXCEPT ![t][p] = Append(@, Post(m, u, p))]
                     /\ due' = claims
                ELSE /\ pipe' = pipe
                     /\ due' = claims \ {<<m, c>> : c \in ConnsOf({u})}
  <2>1. PICK k \in 0..(NumPubSubs - 1) :
          /\ index' = [index EXCEPT ![t] = Attempt(t, k + 1)]
          /\ IF up[Attempt(t, k)]
             THEN /\ pipe' = [pipe EXCEPT ![t][Attempt(t, k)] = Append(@, Post(m, u, Attempt(t, k)))]
                  /\ due' = claims
             ELSE /\ pipe' = pipe
                  /\ due' = claims \ {<<m, c>> : c \in ConnsOf({u})}
    BY <1>1
  <2>2. k \in Nat /\ k + 1 \in Nat
    BY RoutingAssumption
  <2>3. Attempt(t, k) \in PubSubs /\ Attempt(t, k + 1) \in PubSubs
    BY <2>2, AttemptType
  <2>4. index' \in [Threads -> PubSubs]
    BY <2>1, <2>3 DEF TypeOK
  <2> QED BY <2>1, <2>3, <2>4
<1>2. CASE /\ due' = claims \ {<<m, c>> : c \in ConnsOf({u})}
           /\ UNCHANGED <<index, pipe>>
  BY <1>2 DEF TypeOK
<1> QED BY <1>1, <1>2 DEF Publish

(* What the queue operations do to the set of posts and to their order.    *)
LEMMA SeqAppend ==
  ASSUME NEW s \in Seq(Posts), NEW e \in Posts
  PROVE  /\ Append(s, e) \in Seq(Posts)
         /\ Range(Append(s, e)) = Range(s) \cup {e}
         /\ \A M : (Chain(M, s) /\ \A x \in Range(s) : Fine(M, x, e)) => Chain(M, Append(s, e))
<1> DEFINE a == Append(s, e)
<1>1. a \in Seq(Posts) /\ Len(a) = Len(s) + 1 /\ Len(s) \in Nat
  OBVIOUS
<1>2. /\ \A i \in 1..Len(s) : a[i] = s[i]
      /\ a[Len(s) + 1] = e
  OBVIOUS
<1>3. DOMAIN a = 1..(Len(s) + 1) /\ DOMAIN s = 1..Len(s)
  OBVIOUS
<1>4. Range(a) = Range(s) \cup {e}
  <2> HIDE DEF a
  <2>1. ASSUME NEW x \in Range(a) PROVE x \in Range(s) \cup {e}
    <3>1. PICK i \in 1..(Len(s) + 1) : x = a[i]
      BY <1>3 DEF Range
    <3>2. CASE i = Len(s) + 1
      BY <3>1, <3>2, <1>2
    <3>3. CASE i # Len(s) + 1
      <4>1. i \in 1..Len(s)
        BY <3>3, <1>1
      <4> QED BY <4>1, <3>1, <1>2, <1>3 DEF Range
    <3> QED BY <3>2, <3>3
  <2>2. ASSUME NEW x \in Range(s) PROVE x \in Range(a)
    <3>1. PICK i \in 1..Len(s) : x = s[i]
      BY <1>3 DEF Range
    <3>2. i \in 1..(Len(s) + 1)
      BY <1>1
    <3> QED BY <3>1, <3>2, <1>2, <1>3 DEF Range
  <2>3. e \in Range(a)
    <3>1. Len(s) + 1 \in 1..(Len(s) + 1)
      BY <1>1
    <3> QED BY <3>1, <1>2, <1>3 DEF Range
  <2> QED BY <2>1, <2>2, <2>3
<1>5. ASSUME NEW M, Chain(M, s), \A x \in Range(s) : Fine(M, x, e)
      PROVE  Chain(M, a)
  <2> HIDE DEF a
  <2> SUFFICES ASSUME NEW i \in 1..Len(a), NEW j \in 1..Len(a), i < j
               PROVE  Fine(M, a[i], a[j])
    BY DEF Chain
  <2>1. i \in 1..Len(s)
    BY <1>1
  <2>2. a[i] = s[i] /\ s[i] \in Range(s)
    BY <2>1, <1>2, <1>3 DEF Range
  <2>3. CASE j = Len(s) + 1
    BY <2>2, <2>3, <1>2, <1>5
  <2>4. CASE j # Len(s) + 1
    <3>1. j \in 1..Len(s)
      BY <2>4, <1>1
    <3> QED BY <3>1, <2>1, <1>2, <1>5 DEF Chain
  <2> QED BY <2>3, <2>4
<1> QED BY <1>1, <1>4, <1>5

LEMMA SeqTail ==
  ASSUME NEW s \in Seq(Posts), s # <<>>
  PROVE  /\ Tail(s) \in Seq(Posts)
         /\ Head(s) \in Posts
         /\ Range(s) = Range(Tail(s)) \cup {Head(s)}
         /\ \A M : Chain(M, s) =>
              Chain(M, Tail(s)) /\ \A y \in Range(Tail(s)) : Fine(M, Head(s), y)
<1> DEFINE r == Tail(s)
<1>1. r \in Seq(Posts) /\ Len(r) = Len(s) - 1 /\ Len(s) \in Nat /\ Len(s) >= 1 /\ Head(s) \in Posts
  OBVIOUS
<1>2. /\ \A i \in 1..Len(r) : r[i] = s[i + 1]
      /\ s[1] = Head(s)
  OBVIOUS
<1>3. DOMAIN r = 1..Len(r) /\ DOMAIN s = 1..Len(s)
  OBVIOUS
<1> HIDE DEF r
<1>4. ASSUME NEW x \in Range(s) PROVE x \in Range(r) \cup {Head(s)}
  <2>1. PICK i \in 1..Len(s) : x = s[i]
    BY <1>3 DEF Range
  <2>2. CASE i = 1
    BY <2>1, <2>2, <1>2
  <2>3. CASE i # 1
    <3>1. i - 1 \in 1..Len(r) /\ (i - 1) + 1 = i
      BY <2>3, <1>1
    <3>2. r[i - 1] = x
      BY <3>1, <2>1, <1>2
    <3> QED BY <3>1, <3>2, <1>3 DEF Range
  <2> QED BY <2>2, <2>3
<1>5. ASSUME NEW x \in Range(r) PROVE x \in Range(s)
  <2>1. PICK i \in 1..Len(r) : x = r[i]
    BY <1>3 DEF Range
  <2>2. i + 1 \in 1..Len(s)
    BY <1>1
  <2> QED BY <2>1, <2>2, <1>2, <1>3 DEF Range
<1>6. Head(s) \in Range(s)
  <2>1. 1 \in 1..Len(s)
    BY <1>1
  <2> QED BY <2>1, <1>2, <1>3 DEF Range
<1>7. ASSUME NEW M, Chain(M, s)
      PROVE  Chain(M, r) /\ \A y \in Range(r) : Fine(M, Head(s), y)
  <2>1. ASSUME NEW i \in 1..Len(r), NEW j \in 1..Len(r), i < j
        PROVE  Fine(M, r[i], r[j])
    <3>1. i + 1 \in 1..Len(s) /\ j + 1 \in 1..Len(s) /\ i + 1 < j + 1
      BY <2>1, <1>1
    <3>2. Fine(M, s[i + 1], s[j + 1])
      BY <3>1, <1>7 DEF Chain
    <3> QED BY <3>2, <1>2
  <2>2. ASSUME NEW y \in Range(r) PROVE Fine(M, Head(s), y)
    <3>1. PICK j \in 1..Len(r) : y = r[j]
      BY <1>3 DEF Range
    <3>2. 1 \in 1..Len(s) /\ j + 1 \in 1..Len(s) /\ 1 < j + 1
      BY <1>1
    <3>3. Fine(M, s[1], s[j + 1])
      BY <3>2, <1>7 DEF Chain
    <3> QED BY <3>1, <3>3, <1>2
  <2> QED BY <2>1, <2>2 DEF Chain
<1> QED BY <1>1, <1>4, <1>5, <1>6, <1>7 DEF r

LEMMA SeqEmpty ==
  /\ <<>> \in Seq(Posts)
  /\ Range(<<>>) = {}
  /\ \A M : Chain(M, <<>>)
<1>1. <<>> \in Seq(Posts)
  OBVIOUS
<1>2. Range(<<>>) = {}
  BY DEF Range
<1>3. ASSUME NEW M PROVE Chain(M, <<>>)
  <2>1. Len(<<>>) = 0
    OBVIOUS
  <2> QED BY <2>1 DEF Chain
<1> QED BY <1>1, <1>2, <1>3
-----------------------------------------------------------------------------
(***************************************************************************)
(* The posts on their way                                                  *)
(***************************************************************************)

Queues(P, I, T, D) ==
  /\ P \in [Threads -> [PubSubs -> Seq(Posts)]]
  /\ I \in [PubSubs -> Seq(Posts)]
  /\ T \in [Loops -> Seq(Posts)]
  /\ D \in [Conns -> Seq(Posts)]

(* A post enters a pipe behind all others.                                 *)
LEMMA PostOrdered ==
  ASSUME NEW M, NEW P, NEW I, NEW T, NEW D, Queues(P, I, T, D), Ordered(M, P, I, T, D),
         NEW t \in Threads, NEW p \in PubSubs, NEW e \in Posts,
         \A u \in Threads, q \in PubSubs : \A x \in Range(P[u][q]) : Fine(M, x, e),
         \A u \in Threads, q \in PubSubs : <<t, p>> # <<u, q>> =>
            \A x \in Range(P[u][q]) : Fine(M, e, x),
         \A q \in PubSubs : \A x \in Range(I[q]) : Fine(M, x, e),
         \A l \in Loops : \A x \in Range(T[l]) : Fine(M, x, e),
         \A c \in Conns : \A x \in Range(D[c]) : Fine(M, x, e)
  PROVE  Ordered(M, [P EXCEPT ![t][p] = Append(@, e)], I, T, D)
<1> DEFINE P2 == [P EXCEPT ![t][p] = Append(@, e)]
<1>1. P[t][p] \in Seq(Posts)
  BY DEF Queues
<1>2. /\ P2[t][p] = Append(P[t][p], e)
      /\ \A u \in Threads, q \in PubSubs : <<t, p>> # <<u, q>> => P2[u][q] = P[u][q]
  BY DEF Queues
<1> HIDE DEF P2
<1>3. /\ Range(P2[t][p]) = Range(P[t][p]) \cup {e}
      /\ Chain(M, P2[t][p])
  <2>1. Chain(M, P[t][p])
    BY DEF Ordered
  <2>2. \A x \in Range(P[t][p]) : Fine(M, x, e)
    OBVIOUS
  <2> QED BY <2>1, <2>2, <1>1, <1>2, SeqAppend
<1>4. \A u \in Threads, q \in PubSubs : Range(P2[u][q]) \subseteq Range(P[u][q]) \cup {e}
  BY <1>2, <1>3
<1>5. \A u \in Threads, q \in PubSubs : Chain(M, P2[u][q])
  BY <1>2, <1>3 DEF Ordered
<1>6. ASSUME NEW u \in Threads, NEW v \in Threads, NEW q \in PubSubs, NEW r \in PubSubs,
             <<u, q>> # <<v, r>>
      PROVE  Before(M, Range(P2[u][q]), Range(P2[v][r]))
  <2>0. Before(M, Range(P[u][q]), Range(P[v][r]))
    BY <1>6 DEF Ordered
  <2>1. CASE <<u, q>> = <<t, p>>
    <3>1. Range(P2[u][q]) = Range(P[u][q]) \cup {e} /\ P2[v][r] = P[v][r]
      BY <2>1, <1>6, <1>2, <1>3
    <3>2. \A x \in Range(P[v][r]) : Fine(M, e, x)
      BY <2>1, <1>6
    <3> QED BY <2>0, <3>1, <3>2 DEF Before
  <2>2. CASE <<v, r>> = <<t, p>>
    <3>1. Range(P2[v][r]) = Range(P[v][r]) \cup {e} /\ P2[u][q] = P[u][q]
      BY <2>2, <1>6, <1>2, <1>3
    <3> QED BY <2>0, <3>1 DEF Before
  <2>3. CASE <<u, q>> # <<t, p>> /\ <<v, r>> # <<t, p>>
    <3>1. P2[u][q] = P[u][q] /\ P2[v][r] = P[v][r]
      BY <2>3, <1>2
    <3> QED BY <2>0, <3>1
  <2> QED BY <2>1, <2>2, <2>3
<1>7. \A u \in Threads, q, r \in PubSubs : Before(M, Range(I[q]), Range(P2[u][r]))
  BY <1>4 DEF Ordered, Before
<1>8. \A l \in Loops, u \in Threads, q \in PubSubs : Before(M, Range(T[l]), Range(P2[u][q]))
  BY <1>4 DEF Ordered, Before
<1>9. \A c \in Conns, u \in Threads, q \in PubSubs : Before(M, Range(D[c]), Range(P2[u][q]))
  BY <1>4 DEF Ordered, Before
<1>10. Ordered(M, P2, I, T, D)
  BY <1>5, <1>6, <1>7, <1>8, <1>9 DEF Ordered
<1> QED BY <1>10 DEF P2

(* A post that was ahead of all pipes enters an inbox.                     *)
LEMMA RelayOrdered ==
  ASSUME NEW M, NEW P, NEW I, NEW T, NEW D, Queues(P, I, T, D), Ordered(M, P, I, T, D),
         NEW p \in PubSubs, NEW e \in Posts,
         \A q \in PubSubs : \A x \in Range(I[q]) : Fine(M, x, e),
         \A q \in PubSubs \ {p} : \A x \in Range(I[q]) : Fine(M, e, x),
         \A u \in Threads, q \in PubSubs : \A x \in Range(P[u][q]) : Fine(M, e, x),
         \A l \in Loops : \A x \in Range(T[l]) : Fine(M, x, e),
         \A c \in Conns : \A x \in Range(D[c]) : Fine(M, x, e)
  PROVE  Ordered(M, P, [I EXCEPT ![p] = Append(@, e)], T, D)
<1> DEFINE I2 == [I EXCEPT ![p] = Append(@, e)]
<1>1. I[p] \in Seq(Posts)
  BY DEF Queues
<1>2. /\ I2[p] = Append(I[p], e)
      /\ \A q \in PubSubs : p # q => I2[q] = I[q]
  BY DEF Queues
<1> HIDE DEF I2
<1>3. /\ Range(I2[p]) = Range(I[p]) \cup {e}
      /\ Chain(M, I2[p])
  <2>1. Chain(M, I[p])
    BY DEF Ordered
  <2>2. \A x \in Range(I[p]) : Fine(M, x, e)
    OBVIOUS
  <2> QED BY <2>1, <2>2, <1>1, <1>2, SeqAppend
<1>4. \A q \in PubSubs : Range(I2[q]) \subseteq Range(I[q]) \cup {e}
  BY <1>2, <1>3
<1>5. \A q \in PubSubs : Chain(M, I2[q])
  BY <1>2, <1>3 DEF Ordered
<1>6. ASSUME NEW q \in PubSubs, NEW r \in PubSubs, q # r
      PROVE  Before(M, Range(I2[q]), Range(I2[r]))
  <2>0. Before(M, Range(I[q]), Range(I[r]))
    BY <1>6 DEF Ordered
  <2>1. CASE q = p
    BY <2>0, <2>1, <1>6, <1>2, <1>3 DEF Before
  <2>2. CASE q # p
    BY <2>0, <2>2, <1>2, <1>4 DEF Before
  <2> QED BY <2>1, <2>2
<1>7. \A u \in Threads, q, r \in PubSubs : Before(M, Range(I2[q]), Range(P[u][r]))
  BY <1>4 DEF Ordered, Before
<1>8. \A l \in Loops, q \in PubSubs : Before(M, Range(T[l]), Range(I2[q]))
  BY <1>4 DEF Ordered, Before
<1>9. \A c \in Conns, q \in PubSubs : Before(M, Range(D[c]), Range(I2[q]))
  BY <1>4 DEF Ordered, Before
<1>10. Ordered(M, P, I2, T, D)
  BY <1>5, <1>6, <1>7, <1>8, <1>9 DEF Ordered
<1> QED BY <1>10 DEF I2

(* Posts are lost: every pipe and inbox is a tail of what it was, or empty. *)
LEMMA LoseOrdered ==
  ASSUME NEW M, NEW P, NEW I, NEW T, NEW D, Ordered(M, P, I, T, D),
         NEW P2, NEW I2,
         \A t \in Threads, q \in PubSubs :
            Range(P2[t][q]) \subseteq Range(P[t][q]) /\ Chain(M, P2[t][q]),
         \A q \in PubSubs : Range(I2[q]) \subseteq Range(I[q]) /\ Chain(M, I2[q])
  PROVE  Ordered(M, P2, I2, T, D)
<1>1. ASSUME NEW u \in Threads, NEW v \in Threads, NEW q \in PubSubs, NEW r \in PubSubs,
             <<u, q>> # <<v, r>>
      PROVE  Before(M, Range(P2[u][q]), Range(P2[v][r]))
  <2>1. Before(M, Range(P[u][q]), Range(P[v][r]))
    BY <1>1 DEF Ordered
  <2> QED BY <2>1 DEF Before
<1>2. ASSUME NEW q \in PubSubs, NEW r \in PubSubs, q # r
      PROVE  Before(M, Range(I2[q]), Range(I2[r]))
  BY <1>2 DEF Ordered, Before
<1>3. \A u \in Threads, q, r \in PubSubs : Before(M, Range(I2[q]), Range(P2[u][r]))
  BY DEF Ordered, Before
<1>4. \A l \in Loops, u \in Threads, q \in PubSubs : Before(M, Range(T[l]), Range(P2[u][q]))
  BY DEF Ordered, Before
<1>5. \A c \in Conns, u \in Threads, q \in PubSubs : Before(M, Range(D[c]), Range(P2[u][q]))
  BY DEF Ordered, Before
<1>6. \A l \in Loops, q \in PubSubs : Before(M, Range(T[l]), Range(I2[q]))
  BY DEF Ordered, Before
<1>7. \A c \in Conns, q \in PubSubs : Before(M, Range(D[c]), Range(I2[q]))
  BY DEF Ordered, Before
<1> QED BY <1>1, <1>2, <1>3, <1>4, <1>5, <1>6, <1>7 DEF Ordered

(* A post that was ahead of all inboxes and pipes is queued to some loops. *)
LEMMA TakeOrdered ==
  ASSUME NEW M, NEW P, NEW I, NEW T, NEW D, Queues(P, I, T, D), Ordered(M, P, I, T, D),
         NEW e \in Posts, NEW T2,
         \A l \in Loops : T2[l] = T[l] \/ T2[l] = Append(T[l], e),
         \A q \in PubSubs : \A x \in Range(I[q]) : Fine(M, e, x),
         \A u \in Threads, q \in PubSubs : \A x \in Range(P[u][q]) : Fine(M, e, x),
         \A l \in Loops : \A x \in Range(T[l]) : Fine(M, x, e),
         \A c \in Conns : \A x \in Range(D[c]) : Fine(M, x, e)
  PROVE  Ordered(M, P, I, T2, D)
<1>1. ASSUME NEW l \in Loops
      PROVE  /\ Range(T2[l]) \subseteq Range(T[l]) \cup {e}
             /\ Chain(M, T2[l])
  <2>1. T[l] \in Seq(Posts) /\ Chain(M, T[l]) /\ \A x \in Range(T[l]) : Fine(M, x, e)
    BY DEF Queues, Ordered
  <2> QED BY <2>1, SeqAppend
<1>2. \A l \in Loops, q \in PubSubs : Before(M, Range(T2[l]), Range(I[q]))
  BY <1>1 DEF Ordered, Before
<1>3. \A l \in Loops, u \in Threads, q \in PubSubs : Before(M, Range(T2[l]), Range(P[u][q]))
  BY <1>1 DEF Ordered, Before
<1>4. ASSUME NEW c \in Conns PROVE Before(M, Range(D[c]), Range(T2[LoopOf[c]]))
  <2>1. LoopOf[c] \in Loops
    BY RoutingAssumption
  <2>2. Before(M, Range(D[c]), Range(T[LoopOf[c]]))
    BY DEF Ordered
  <2>3. Range(T2[LoopOf[c]]) \subseteq Range(T[LoopOf[c]]) \cup {e}
    BY <2>1, <1>1
  <2> QED BY <2>2, <2>3 DEF Before
<1> QED BY <1>1, <1>2, <1>3, <1>4 DEF Ordered

(* The first task of loop l is done, and some of its connections written.  *)
LEMMA SendOrdered ==
  ASSUME NEW M, NEW P, NEW I, NEW T, NEW D, Queues(P, I, T, D), Ordered(M, P, I, T, D),
         NEW l \in Loops, T[l] # <<>>, NEW D2,
         \A c \in Conns : \/ D2[c] = D[c]
                          \/ LoopOf[c] = l /\ D2[c] = Append(D[c], Head(T[l]))
  PROVE  Ordered(M, P, I, [T EXCEPT ![l] = Tail(@)], D2)
<1> DEFINE T2 == [T EXCEPT ![l] = Tail(@)]
           e  == Head(T[l])
<1>1. T[l] \in Seq(Posts) /\ Chain(M, T[l])
  BY DEF Queues, Ordered
<1>2. e \in Posts /\ e \in Range(T[l]) /\ Range(Tail(T[l])) \subseteq Range(T[l])
  BY <1>1, SeqTail
<1>3. Chain(M, Tail(T[l])) /\ \A y \in Range(Tail(T[l])) : Fine(M, e, y)
  BY <1>1, SeqTail
<1>4. T2[l] = Tail(T[l]) /\ \A k \in Loops : k # l => T2[k] = T[k]
  BY DEF Queues
<1>5. \A c \in Conns : D2[c] = D[c] \/ (LoopOf[c] = l /\ D2[c] = Append(D[c], e))
  OBVIOUS
<1>6. /\ \A q \in PubSubs : \A x \in Range(I[q]) : Fine(M, e, x)
      /\ \A u \in Threads, q \in PubSubs : \A x \in Range(P[u][q]) : Fine(M, e, x)
      /\ \A c \in Conns : LoopOf[c] = l => \A x \in Range(D[c]) : Fine(M, x, e)
  BY <1>2 DEF Ordered, Before
<1> HIDE DEF T2, e
<1>7. \A k \in Loops : Range(T2[k]) \subseteq Range(T[k]) /\ Chain(M, T2[k])
  BY <1>2, <1>3, <1>4 DEF Ordered
<1>8. ASSUME NEW c \in Conns
      PROVE  /\ Range(D2[c]) \subseteq Range(D[c]) \cup {e}
             /\ LoopOf[c] # l => D2[c] = D[c]
             /\ Chain(M, D2[c])
  <2>1. D[c] \in Seq(Posts) /\ Chain(M, D[c])
    BY DEF Queues, Ordered
  <2>2. CASE D2[c] = D[c]
    BY <2>1, <2>2
  <2>3. CASE LoopOf[c] = l /\ D2[c] = Append(D[c], e)
    BY <2>1, <2>3, <1>2, <1>6, SeqAppend
  <2> QED BY <2>2, <2>3, <1>5
<1>9. \A k \in Loops, q \in PubSubs : Before(M, Range(T2[k]), Range(I[q]))
  BY <1>7 DEF Ordered, Before
<1>10. \A k \in Loops, u \in Threads, q \in PubSubs : Before(M, Range(T2[k]), Range(P[u][q]))
  BY <1>7 DEF Ordered, Before
<1>11. ASSUME NEW c \in Conns
       PROVE  Before(M, Range(D2[c]), Range(T2[LoopOf[c]]))
  <2>1. LoopOf[c] \in Loops
    BY RoutingAssumption
  <2>2. Before(M, Range(D[c]), Range(T2[LoopOf[c]]))
    BY <2>1, <1>7 DEF Ordered, Before
  <2>3. CASE LoopOf[c] # l
    BY <2>2, <2>3, <1>8
  <2>4. CASE LoopOf[c] = l
    BY <2>2, <2>4, <1>3, <1>4, <1>8 DEF Before
  <2> QED BY <2>3, <2>4
<1>12. \A c \in Conns, q \in PubSubs : Before(M, Range(D2[c]), Range(I[q]))
  BY <1>6, <1>8 DEF Ordered, Before
<1>13. \A c \in Conns, u \in Threads, q \in PubSubs : Before(M, Range(D2[c]), Range(P[u][q]))
  BY <1>6, <1>8 DEF Ordered, Before
<1>14. Ordered(M, P, I, T2, D2)
  BY <1>7, <1>8, <1>9, <1>10, <1>11, <1>12, <1>13 DEF Ordered
<1> QED BY <1>14 DEF T2

(* Posted is what the queues hold.                                         *)
LEMMA PostedQueues ==
  ASSUME TypeOK
  PROVE  /\ \A t \in Threads, p \in PubSubs : Range(pipe[t][p]) \subseteq Posted
         /\ \A p \in PubSubs : Range(inbox[p]) \subseteq Posted
         /\ \A l \in Loops : Range(tasks[l]) \subseteq Posted
         /\ \A c \in Conns : Range(delivered[c]) \subseteq Posted
<1>1. ASSUME NEW s \in Seq(Posts) PROVE Range(s) \subseteq Posts
  BY DEF Range
<1>2. \A t \in Threads, p \in PubSubs : Range(pipe[t][p]) \subseteq Posts
  <2>1. \A t \in Threads, p \in PubSubs : pipe[t][p] \in Seq(Posts)
    BY DEF TypeOK
  <2> QED BY <2>1, <1>1
<1>3. \A p \in PubSubs : Range(inbox[p]) \subseteq Posts
  BY <1>1 DEF TypeOK
<1>4. \A l \in Loops : Range(tasks[l]) \subseteq Posts
  BY <1>1 DEF TypeOK
<1>5. \A c \in Conns : Range(delivered[c]) \subseteq Posts
  BY <1>1 DEF TypeOK
<1> QED BY <1>2, <1>3, <1>4, <1>5 DEF Posted

LEMMA PostedStep ==
  ASSUME NEW STATE E,
         \A t \in Threads, p \in PubSubs : Range(pipe'[t][p]) \subseteq Posted \cup E,
         \A p \in PubSubs : Range(inbox'[p]) \subseteq Posted \cup E,
         \A l \in Loops : Range(tasks'[l]) \subseteq Posted \cup E,
         \A c \in Conns : Range(delivered'[c]) \subseteq Posted \cup E
  PROVE  Posted' \subseteq Posted \cup E
<1> SUFFICES ASSUME NEW x \in Posted' PROVE x \in Posted \cup E
  OBVIOUS
<1>1. CASE \E t \in Threads, p \in PubSubs : x \in Range(pipe'[t][p])
  BY <1>1
<1>2. CASE \E p \in PubSubs : x \in Range(inbox'[p])
  BY <1>2
<1>3. CASE \E l \in Loops : x \in Range(tasks'[l])
  BY <1>3
<1>4. CASE \E c \in Conns : x \in Range(delivered'[c])
  BY <1>4
<1>5. \/ \E t \in Threads, p \in PubSubs : x \in Range(pipe'[t][p])
      \/ \E p \in PubSubs : x \in Range(inbox'[p])
      \/ \E l \in Loops : x \in Range(tasks'[l])
      \/ \E c \in Conns : x \in Range(delivered'[c])
  BY DEF Posted
<1> QED BY <1>1, <1>2, <1>3, <1>4, <1>5

LEMMA PostedMsg ==
  ASSUME TypeOK, PostedInv, NEW x \in Posted
  PROVE  x.msg \in 1..Len(messages)
<1>1. x.msg \in 1..MaxMessages /\ MaxMessages \in Nat
  BY RoutingAssumption DEF Posted, Posts, Ids
<1>2. messages \in Seq([from : Conns, to : Users \cup Groups])
  BY DEF TypeOK
<1>3. Len(messages) \in Nat
  BY <1>2
<1>4. x.msg <= Len(messages)
  BY DEF PostedInv
<1> QED BY <1>1, <1>3, <1>4

(* More messages do not change the order of the posts of earlier ones.     *)
LEMMA GrowOrdered ==
  ASSUME TypeOK, OrderInv, PostedInv, NEW M,
         \A m \in 1..Len(messages) : M[m] = messages[m]
  PROVE  Ordered(M, pipe, inbox, tasks, delivered)
<1>1. ASSUME NEW x \in Posted
      PROVE  M[x.msg] = messages[x.msg]
  BY PostedMsg
<1>2. ASSUME NEW x \in Posted, NEW y \in Posted, Fine(messages, x, y)
      PROVE  Fine(M, x, y)
  <2>1. M[x.msg] = messages[x.msg] /\ M[y.msg] = messages[y.msg]
    BY <1>1
  <2> QED BY <2>1, <1>2 DEF Fine, Private
<1>3. /\ \A t \in Threads, p \in PubSubs : Range(pipe[t][p]) \subseteq Posted
      /\ \A p \in PubSubs : Range(inbox[p]) \subseteq Posted
      /\ \A l \in Loops : Range(tasks[l]) \subseteq Posted
      /\ \A c \in Conns : Range(delivered[c]) \subseteq Posted
  BY PostedQueues
<1>4. ASSUME NEW s \in Seq(Posts), Range(s) \subseteq Posted, Chain(messages, s)
      PROVE  Chain(M, s)
  <2>1. \A i \in 1..Len(s) : s[i] \in Posted
    BY <1>4 DEF Range
  <2> QED BY <2>1, <1>2, <1>4 DEF Chain
<1>5. ASSUME NEW A \in SUBSET Posted, NEW B \in SUBSET Posted, Before(messages, A, B)
      PROVE  Before(M, A, B)
  BY <1>2, <1>5 DEF Before
<1>6. \A t \in Threads, p \in PubSubs : Chain(M, pipe[t][p])
  <2>1. \A t \in Threads, p \in PubSubs : pipe[t][p] \in Seq(Posts)
    BY DEF TypeOK
  <2> QED BY <2>1, <1>3, <1>4 DEF OrderInv, Ordered
<1>7. \A p \in PubSubs : Chain(M, inbox[p])
  BY <1>3, <1>4 DEF OrderInv, Ordered, TypeOK
<1>8. \A l \in Loops : Chain(M, tasks[l])
  BY <1>3, <1>4 DEF OrderInv, Ordered, TypeOK
<1>9. \A c \in Conns : Chain(M, delivered[c])
  BY <1>3, <1>4 DEF OrderInv, Ordered, TypeOK
<1>10. \A t, u \in Threads, p, q \in PubSubs :
         <<t, p>> # <<u, q>> => Before(M, Range(pipe[t][p]), Range(pipe[u][q]))
  BY <1>3, <1>5 DEF OrderInv, Ordered
<1>11. \A p, q \in PubSubs : p # q => Before(M, Range(inbox[p]), Range(inbox[q]))
  BY <1>3, <1>5 DEF OrderInv, Ordered
<1>12. \A t \in Threads, p, q \in PubSubs : Before(M, Range(inbox[p]), Range(pipe[t][q]))
  BY <1>3, <1>5 DEF OrderInv, Ordered
<1>13. \A l \in Loops, p \in PubSubs : Before(M, Range(tasks[l]), Range(inbox[p]))
  BY <1>3, <1>5 DEF OrderInv, Ordered
<1>14. \A l \in Loops, t \in Threads, p \in PubSubs :
         Before(M, Range(tasks[l]), Range(pipe[t][p]))
  BY <1>3, <1>5 DEF OrderInv, Ordered
<1>15. \A c \in Conns : Before(M, Range(delivered[c]), Range(tasks[LoopOf[c]]))
  BY <1>3, <1>5, RoutingAssumption DEF OrderInv, Ordered
<1>16. \A c \in Conns, p \in PubSubs : Before(M, Range(delivered[c]), Range(inbox[p]))
  BY <1>3, <1>5 DEF OrderInv, Ordered
<1>17. \A c \in Conns, t \in Threads, p \in PubSubs :
         Before(M, Range(delivered[c]), Range(pipe[t][p]))
  BY <1>3, <1>5 DEF OrderInv, Ordered
<1> QED BY <1>6, <1>7, <1>8, <1>9, <1>10, <1>11, <1>12, <1>13, <1>14, <1>15, <1>16, <1>17
        DEF Ordered
-----------------------------------------------------------------------------
(***************************************************************************)
(* The steps                                                               *)
(***************************************************************************)

Answers == {"pending", "sent", "not found"}

(* A message is added behind the others, with its answer.                  *)
LEMMA NewMessageType ==
  ASSUME TypeOK, NEW c \in Conns, NEW to \in Users \cup Groups, NEW a \in Answers,
         NewMessage(c, to, a)
  PROVE  /\ messages' \in Seq([from : Conns, to : Users \cup Groups])
         /\ Len(messages) \in Nat /\ Len(messages) + 1 \in Ids
         /\ Len(messages') = Len(messages) + 1
         /\ \A m \in 1..Len(messages) : messages'[m] = messages[m]
         /\ messages'[Len(messages) + 1] = [from |-> c, to |-> to]
         /\ answers' \in [1..Len(messages') -> Answers]
         /\ \A m \in 1..Len(messages) : answers'[m] = answers[m]
         /\ answers'[Len(messages) + 1] = a
<1> DEFINE S == [from : Conns, to : Users \cup Groups]
           r == [from |-> c, to |-> to]
<1>1. messages \in Seq(S) /\ r \in S
  BY DEF TypeOK
<1>2. messages' = Append(messages, r) /\ answers' = Append(answers, a)
  BY DEF NewMessage
<1> HIDE DEF S, r
<1>3. /\ messages' \in Seq(S) /\ Len(messages) \in Nat
      /\ Len(messages') = Len(messages) + 1
      /\ \A m \in 1..Len(messages) : messages'[m] = messages[m]
      /\ messages'[Len(messages) + 1] = r
  BY <1>1, <1>2
<1>4. Len(messages) + 1 \in Ids
  <2>1. Len(messages) < MaxMessages /\ MaxMessages \in Nat
    BY RoutingAssumption DEF NewMessage
  <2> QED BY <2>1, <1>3 DEF Ids
<1>5. answers \in Seq(Answers) /\ Len(answers) = Len(messages)
  <2>1. answers \in [1..Len(messages) -> Answers]
    BY DEF TypeOK, Answers
  <2> QED BY <2>1, <1>3
<1>6. /\ answers' \in Seq(Answers)
      /\ Len(answers') = Len(messages) + 1
      /\ \A m \in 1..Len(messages) : answers'[m] = answers[m]
      /\ answers'[Len(messages) + 1] = a
  BY <1>2, <1>5
<1>7. answers' \in [1..Len(messages') -> Answers]
  BY <1>3, <1>6
<1> QED BY <1>3, <1>4, <1>6, <1>7 DEF S, r

(* A step that moves no post keeps their order and their places.           *)
LEMMA Unmoved ==
  ASSUME TypeOK, OrderInv, PlaceInv, PostedInv,
         UNCHANGED <<pipe, inbox, tasks, delivered>>,
         \A m \in 1..Len(messages) : messages'[m] = messages[m]
  PROVE  OrderInv' /\ PlaceInv' /\ Posted' = Posted
<1>1. OrderInv'
  <2>1. Ordered(messages', pipe, inbox, tasks, delivered)
    BY GrowOrdered
  <2> QED BY <2>1 DEF OrderInv
<1>2. Posted' = Posted
  BY DEF Posted
<1>3. \A t \in Threads, p \in PubSubs : \A x \in Range(pipe[t][p]) :
        messages'[x.msg] = messages[x.msg]
  BY PostedQueues, PostedMsg
<1>4. PlaceInv'
  BY <1>3 DEF PlaceInv, Private
<1> QED BY <1>1, <1>2, <1>4

(* A group message.                                                        *)
LEMMA OnGroupMessageInv ==
  ASSUME IInv, NEW c \in Senders, NEW g \in Groups, OnGroupMessage(c, g)
  PROVE  IInv'
<1> DEFINE n == Len(messages) + 1
<1>0. /\ TypeOK /\ JobInv /\ AnswerInv /\ OrderInv /\ PlaceInv /\ PostedInv /\ DueInv
      /\ c \in Conns /\ g \in Users \cup Groups
      /\ NewMessage(c, g, "pending")
      /\ jobs' = Append(jobs, n)
      /\ UNCHANGED <<user, fresh, due, job, rest, index, up, pipe, inbox, tasks, delivered>>
  BY RoutingAssumption DEF IInv, OnGroupMessage, sessionVars
<1>1. /\ messages' \in Seq([from : Conns, to : Users \cup Groups])
      /\ Len(messages) \in Nat /\ n \in Ids
      /\ Len(messages') = n
      /\ \A m \in 1..Len(messages) : messages'[m] = messages[m]
      /\ messages'[n] = [from |-> c, to |-> g]
      /\ answers' \in [1..Len(messages') -> Answers]
      /\ \A m \in 1..Len(messages) : answers'[m] = answers[m]
  BY <1>0, NewMessageType DEF Answers
<1>2. jobs \in Seq(Ids)
  BY <1>0 DEF TypeOK
<1> HIDE DEF n
<1>3. /\ jobs' \in Seq(Ids)
      /\ Len(jobs) \in Nat /\ Len(jobs') = Len(jobs) + 1
      /\ \A i \in 1..Len(jobs) : jobs'[i] = jobs[i] /\ jobs[i] \in Ids
      /\ jobs'[Len(jobs) + 1] = n
  BY <1>0, <1>1, <1>2
<1>4. Len(messages') <= MaxMessages /\ MaxMessages \in Nat
  BY <1>1, RoutingAssumption DEF Ids
<1>5. TypeOK'
  BY <1>0, <1>1, <1>3, <1>4 DEF TypeOK, Answers
<1>6. \A i \in 1..Len(jobs) : jobs[i] \in 1..Len(messages) /\ jobs[i] # n
  <2>1. \A i \in 1..Len(jobs) : jobs[i] \in 1..MaxMessages /\ jobs[i] <= Len(messages)
    BY <1>0, <1>3 DEF JobInv, Ids
  <2> QED BY <2>1, <1>1, <1>4 DEF n
<1>7. \A w \in Workers : job[w] # n /\ (job[w] # 0 => job[w] \in 1..Len(messages))
  <2>1. \A w \in Workers : job[w] \in 0..MaxMessages /\ (job[w] # 0 => job[w] <= Len(messages))
    BY <1>0 DEF JobInv, TypeOK
  <2> QED BY <2>1, <1>1, <1>4 DEF n
<1>8. JobInv'
  <2>1. \A i \in 1..Len(jobs') : i \in 1..Len(jobs) \/ i = Len(jobs) + 1
    BY <1>3
  <2>2. \A i \in 1..Len(jobs') : jobs'[i] <= Len(messages') /\ messages'[jobs'[i]].to \in Groups
    <3>1. ASSUME NEW i \in 1..Len(jobs)
          PROVE  jobs'[i] <= Len(messages') /\ messages'[jobs'[i]].to \in Groups
      <4>1. jobs'[i] = jobs[i] /\ jobs[i] \in 1..Len(messages) /\ messages[jobs[i]].to \in Groups
        BY <1>0, <1>3, <1>6 DEF JobInv
      <4>2. jobs[i] <= Len(messages')
        BY <4>1, <1>1 DEF n
      <4> QED BY <4>1, <4>2, <1>1
    <3>2. n <= Len(messages') /\ messages'[n].to \in Groups
      BY <1>1 DEF n
    <3> QED BY <2>1, <3>1, <3>2, <1>3
  <2>3. \A i, j \in 1..Len(jobs') : jobs'[i] = jobs'[j] => i = j
    BY <2>1, <1>0, <1>3, <1>6 DEF JobInv
  <2>4. \A w \in Workers : job'[w] # 0 => job'[w] <= Len(messages') /\ messages'[job'[w]].to \in Groups
    <3> SUFFICES ASSUME NEW w \in Workers, job[w] # 0
                 PROVE  job[w] <= Len(messages') /\ messages'[job[w]].to \in Groups
      BY <1>0
    <3>1. job[w] \in 1..Len(messages) /\ messages[job[w]].to \in Groups
      BY <1>0, <1>7 DEF JobInv
    <3>2. job[w] <= Len(messages')
      BY <3>1, <1>1 DEF n
    <3> QED BY <3>1, <3>2, <1>1
  <2>5. \A w \in Workers, i \in 1..Len(jobs') : job'[w] # jobs'[i]
    BY <2>1, <1>0, <1>3, <1>7 DEF JobInv
  <2>6. \A v, w \in Workers : (job'[v] = job'[w] /\ job'[v] # 0) => v = w
    BY <1>0 DEF JobInv
  <2> QED BY <2>2, <2>3, <2>4, <2>5, <2>6 DEF JobInv
<1>9. AnswerInv'
  <2> SUFFICES ASSUME NEW m \in 1..Len(messages'), answers'[m] = "pending"
               PROVE  (\E i \in 1..Len(jobs') : jobs'[i] = m) \/ (\E w \in Workers : job'[w] = m)
    BY DEF AnswerInv
  <2>1. CASE m = n
    <3>1. Len(jobs) + 1 \in 1..Len(jobs')
      BY <1>3
    <3> QED BY <2>1, <3>1, <1>3
  <2>2. CASE m # n
    <3>1. m \in 1..Len(messages)
      BY <2>2, <1>1 DEF n
    <3>2. answers[m] = "pending"
      BY <3>1, <1>1
    <3>3. (\E i \in 1..Len(jobs) : jobs[i] = m) \/ (\E w \in Workers : job[w] = m)
      BY <3>1, <3>2, <1>0 DEF AnswerInv
    <3>4. \A i \in 1..Len(jobs) : i \in 1..Len(jobs')
      BY <1>3
    <3> QED BY <3>3, <3>4, <1>0, <1>3
  <2> QED BY <2>1, <2>2
<1>10. OrderInv' /\ PlaceInv' /\ Posted' = Posted
  BY <1>0, <1>1, Unmoved
<1>11. PostedInv'
  <2> SUFFICES ASSUME NEW x \in Posted
               PROVE  x.msg <= Len(messages') /\ ~Unpublished(x.msg, x.user)'
    BY <1>10 DEF PostedInv
  <2>1. x.msg \in 1..Len(messages)
    BY <1>0, PostedMsg
  <2>2. x.msg <= Len(messages') /\ x.msg # n
    BY <2>1, <1>1 DEF n
  <2>3. ~Unpublished(x.msg, x.user)
    BY <1>0 DEF PostedInv
  <2>4. \A i \in 1..Len(jobs') : i \in 1..Len(jobs) \/ i = Len(jobs) + 1
    BY <1>3
  <2>5. \A i \in 1..Len(jobs') : jobs'[i] # x.msg
    BY <2>2, <2>3, <2>4, <1>3 DEF Unpublished
  <2> QED BY <2>2, <2>3, <2>5, <1>0 DEF Unpublished
<1>12. DueInv'
  BY <1>0 DEF DueInv, OnItsWay, Carries
<1> QED BY <1>5, <1>8, <1>9, <1>10, <1>11, <1>12 DEF IInv

(* A worker takes a group message.                                         *)
LEMMA PoolTakesInv ==
  ASSUME IInv, NEW w \in Workers, PoolTakes(w)
  PROVE  IInv'
<1> DEFINE m == Head(jobs)
           members == MembersOf[messages[m].to]
<1>0. /\ TypeOK /\ JobInv /\ AnswerInv /\ OrderInv /\ PlaceInv /\ PostedInv /\ DueInv
      /\ job[w] = 0 /\ jobs # <<>> /\ jobs' = Tail(jobs)
      /\ UNCHANGED <<user, fresh, messages, index, up, pipe, inbox, tasks, delivered>>
  BY DEF IInv, PoolTakes
<1>1. \/ /\ answers' = [answers EXCEPT ![m] = "not found"]
         /\ UNCHANGED <<job, rest, due>>
      \/ /\ job' = [job EXCEPT ![w] = m]
         /\ rest' = [rest EXCEPT ![w] = members]
         /\ due' = due \cup {<<m, c>> : c \in Reached(members)}
         /\ UNCHANGED answers
  BY DEF PoolTakes
<1>2. jobs \in Seq(Ids) /\ MaxMessages \in Nat
  BY <1>0, RoutingAssumption DEF TypeOK
<1>3. /\ Tail(jobs) \in Seq(Ids) /\ Len(jobs) \in Nat /\ Len(jobs) >= 1
      /\ Len(Tail(jobs)) = Len(jobs) - 1
      /\ m = jobs[1]
      /\ \A i \in 1..(Len(jobs) - 1) : Tail(jobs)[i] = jobs[i + 1]
  BY <1>0, <1>2
<1>4. \A i \in 1..Len(jobs') : i + 1 \in 1..Len(jobs) /\ jobs'[i] = jobs[i + 1] /\ i + 1 # 1
  BY <1>0, <1>3
<1>5. 1 \in 1..Len(jobs)
  BY <1>3
<1>6. m \in Ids /\ m <= Len(messages) /\ messages[m].to \in Groups
  BY <1>0, <1>2, <1>3, <1>5 DEF JobInv
<1>7. members \in SUBSET Users
  BY <1>6, RoutingAssumption
<1>8. m \in 1..Len(messages) /\ m # 0 /\ m \in 0..MaxMessages
  <2>1. messages \in Seq([from : Conns, to : Users \cup Groups])
    BY <1>0 DEF TypeOK
  <2>2. Len(messages) \in Nat
    BY <2>1
  <2> QED BY <2>2, <1>2, <1>6 DEF Ids
<1> HIDE DEF m, members
<1>9. \A i \in 1..Len(jobs') : jobs'[i] # m
  BY <1>0, <1>3, <1>4, <1>5 DEF JobInv
<1>10. \A v \in Workers : job[v] # m
  BY <1>0, <1>3, <1>5 DEF JobInv
<1>11. \A v \in Workers : job'[v] = job[v] \/ (v = w /\ job'[w] = m)
  BY <1>0, <1>1 DEF TypeOK
<1>12. TypeOK'
  <2>1. jobs' \in Seq(Ids)
    BY <1>0, <1>3
  <2>2. job' \in [Workers -> 0..MaxMessages]
    BY <1>0, <1>1, <1>8 DEF TypeOK
  <2>3. rest' \in [Workers -> SUBSET Users]
    BY <1>0, <1>1, <1>7 DEF TypeOK
  <2>4. \A v \in Workers : job'[v] = 0 => rest'[v] = {}
    BY <1>0, <1>1, <1>8 DEF TypeOK
  <2>5. due' \subseteq Ids \X Conns
    <3>1. Reached(members) \subseteq Conns
      BY DEF Reached, ConnsOf
    <3>2. \A c \in Reached(members) : <<m, c>> \in Ids \X Conns
      BY <3>1, <1>6
    <3>3. {<<m, c>> : c \in Reached(members)} \subseteq Ids \X Conns
      BY <3>2
    <3>4. due \subseteq Ids \X Conns
      BY <1>0 DEF TypeOK
    <3> QED BY <3>3, <3>4, <1>1
  <2>6. answers' \in [1..Len(messages) -> {"pending", "sent", "not found"}]
    BY <1>0, <1>1 DEF TypeOK
  <2> QED BY <1>0, <2>1, <2>2, <2>3, <2>4, <2>5, <2>6 DEF TypeOK
<1>13. JobInv'
  <2>1. \A i \in 1..Len(jobs') : jobs'[i] <= Len(messages') /\ messages'[jobs'[i]].to \in Groups
    BY <1>0, <1>4 DEF JobInv
  <2>2. \A i, j \in 1..Len(jobs') : jobs'[i] = jobs'[j] => i = j
    <3> SUFFICES ASSUME NEW i \in 1..Len(jobs'), NEW j \in 1..Len(jobs'), jobs'[i] = jobs'[j]
                 PROVE  i = j
      OBVIOUS
    <3>1. i + 1 = j + 1
      BY <1>0, <1>4 DEF JobInv
    <3> QED BY <3>1
  <2>3. \A v \in Workers : job'[v] # 0 => job'[v] <= Len(messages') /\ messages'[job'[v]].to \in Groups
    BY <1>0, <1>6, <1>11 DEF JobInv
  <2>4. \A v \in Workers, i \in 1..Len(jobs') : job'[v] # jobs'[i]
    BY <1>0, <1>4, <1>9, <1>11 DEF JobInv
  <2>5. \A u, v \in Workers : (job'[u] = job'[v] /\ job'[u] # 0) => u = v
    BY <1>0, <1>10, <1>11 DEF JobInv
  <2> QED BY <2>1, <2>2, <2>3, <2>4, <2>5 DEF JobInv
<1>14. AnswerInv'
  <2> SUFFICES ASSUME NEW k \in 1..Len(messages), answers'[k] = "pending"
               PROVE  (\E i \in 1..Len(jobs') : jobs'[i] = k) \/ (\E v \in Workers : job'[v] = k)
    BY <1>0 DEF AnswerInv
  <2>1. answers[k] = "pending" /\ (k = m => job' = [job EXCEPT ![w] = m])
    BY <1>0, <1>1 DEF TypeOK
  <2>2. CASE k = m
    <3>1. job'[w] = k
      BY <2>1, <2>2, <1>0 DEF TypeOK
    <3> QED BY <3>1
  <2>3. CASE k # m /\ \E i \in 1..Len(jobs) : jobs[i] = k
    <3>1. PICK i \in 1..Len(jobs) : jobs[i] = k
      BY <2>3
    <3>2. i # 1
      BY <2>3, <3>1, <1>3
    <3>3. i - 1 \in 1..Len(jobs') /\ (i - 1) + 1 = i
      BY <3>2, <1>0, <1>3
    <3>4. jobs'[i - 1] = k
      BY <3>1, <3>3, <1>4
    <3> QED BY <3>3, <3>4
  <2>4. CASE \E v \in Workers : job[v] = k
    <3>1. PICK v \in Workers : job[v] = k
      BY <2>4
    <3>2. v # w
      BY <3>1, <1>0, <2>1
    <3>3. job'[v] = k
      BY <3>1, <3>2, <1>11
    <3> QED BY <3>3
  <2> QED BY <2>1, <2>2, <2>3, <2>4, <1>0 DEF AnswerInv
<1>15. OrderInv' /\ PlaceInv' /\ Posted' = Posted
  BY <1>0, Unmoved
<1>16. PostedInv'
  <2> SUFFICES ASSUME NEW x \in Posted
               PROVE  x.msg <= Len(messages') /\ ~Unpublished(x.msg, x.user)'
    BY <1>15 DEF PostedInv
  <2>1. x.msg <= Len(messages) /\ ~Unpublished(x.msg, x.user)
    BY <1>0 DEF PostedInv
  <2>2. x.msg # m
    BY <2>1, <1>3, <1>5 DEF Unpublished
  <2>3. \A i \in 1..Len(jobs') : jobs'[i] # x.msg
    BY <2>1, <1>4 DEF Unpublished
  <2>4. \A v \in Workers : job'[v] = x.msg => job[v] = x.msg /\ rest'[v] = rest[v]
    BY <2>2, <1>0, <1>1 DEF TypeOK
  <2> QED BY <2>1, <2>3, <2>4, <1>0 DEF Unpublished
<1>17. DueInv'
  <2> SUFFICES ASSUME NEW d \in due'
               PROVE  user[d[2]] \in Users \ fresh /\ OnItsWay(d[1], d[2])'
    BY <1>0 DEF DueInv
  <2>1. CASE d \in due
    <3>1. user[d[2]] \in Users \ fresh /\ OnItsWay(d[1], d[2])
      BY <2>1, <1>0 DEF DueInv
    <3>2. ASSUME NEW v \in Workers, job[v] = d[1], user[d[2]] \in rest[v]
          PROVE  job'[v] = d[1] /\ user[d[2]] \in rest'[v]
      <4>1. v # w
        BY <3>2, <1>0 DEF TypeOK
      <4> QED BY <4>1, <3>2, <1>0, <1>1 DEF TypeOK
    <3> QED BY <3>1, <3>2, <1>0 DEF OnItsWay, Carries
  <2>2. CASE d \notin due
    <3>1. /\ d \in {<<m, c>> : c \in Reached(members)}
          /\ job' = [job EXCEPT ![w] = m]
          /\ rest' = [rest EXCEPT ![w] = members]
      BY <2>2, <1>1
    <3>2. PICK c \in Reached(members) : d = <<m, c>>
      BY <3>1
    <3>3. user[c] \in members \ fresh /\ c \in Conns
      BY <3>2 DEF Reached, ConnsOf
    <3>4. job'[w] = m /\ user'[c] \in rest'[w]
      BY <3>1, <3>3, <1>0 DEF TypeOK
    <3>5. job'[w] = d[1] /\ user'[d[2]] \in rest'[w]
      BY <3>2, <3>4
    <3>6. OnItsWay(d[1], d[2])'
      BY <3>5 DEF OnItsWay
    <3> QED BY <3>2, <3>3, <3>6, <1>7
  <2> QED BY <2>1, <2>2
<1> QED BY <1>12, <1>13, <1>14, <1>15, <1>16, <1>17 DEF IInv

(* A worker has published to all members.                                  *)
LEMMA PoolAnswersInv ==
  ASSUME IInv, NEW w \in Workers, PoolAnswers(w)
  PROVE  IInv'
<1>0. /\ TypeOK /\ JobInv /\ AnswerInv /\ OrderInv /\ PlaceInv /\ PostedInv /\ DueInv
      /\ job[w] # 0 /\ rest[w] = {}
      /\ answers' = [answers EXCEPT ![job[w]] = "sent"]
      /\ job' = [job EXCEPT ![w] = 0]
      /\ UNCHANGED <<user, fresh, messages, jobs, rest, index, up, pipe, inbox, tasks, delivered, due>>
  BY DEF IInv, PoolAnswers
<1>1. job'[w] = 0 /\ \A v \in Workers : v # w => job'[v] = job[v]
  BY <1>0 DEF TypeOK
<1>2. TypeOK'
  <2>1. job' \in [Workers -> 0..MaxMessages]
    <3>1. 0 \in 0..MaxMessages
      BY RoutingAssumption
    <3> QED BY <3>1, <1>0 DEF TypeOK
  <2>2. \A v \in Workers : job'[v] = 0 => rest'[v] = {}
    BY <1>0, <1>1 DEF TypeOK
  <2>3. answers' \in [1..Len(messages) -> {"pending", "sent", "not found"}]
    BY <1>0 DEF TypeOK
  <2> QED BY <1>0, <2>1, <2>2, <2>3 DEF TypeOK
<1>3. \A i \in 1..Len(jobs) : jobs[i] # 0
  <2>1. jobs \in Seq(1..MaxMessages) /\ MaxMessages \in Nat
    BY <1>0, RoutingAssumption DEF TypeOK, Ids
  <2>2. \A i \in 1..Len(jobs) : jobs[i] \in 1..MaxMessages
    BY <2>1
  <2> QED BY <2>1, <2>2
<1>4. JobInv'
  <2>1. \A v \in Workers : job'[v] # 0 => v # w /\ job'[v] = job[v]
    BY <1>1
  <2>2. \A v \in Workers, i \in 1..Len(jobs') : job'[v] # jobs'[i]
    BY <1>0, <1>1, <1>3 DEF JobInv
  <2> QED BY <1>0, <2>1, <2>2 DEF JobInv
<1>5. AnswerInv'
  <2> SUFFICES ASSUME NEW k \in 1..Len(messages), answers'[k] = "pending"
               PROVE  (\E i \in 1..Len(jobs') : jobs'[i] = k) \/ (\E v \in Workers : job'[v] = k)
    BY <1>0 DEF AnswerInv
  <2>1. answers[k] = "pending" /\ k # job[w]
    BY <1>0 DEF TypeOK
  <2> QED BY <2>1, <1>0, <1>1 DEF AnswerInv
<1>6. OrderInv' /\ PlaceInv' /\ Posted' = Posted
  BY <1>0, Unmoved
<1>7. PostedInv'
  <2> SUFFICES ASSUME NEW x \in Posted
               PROVE  x.msg <= Len(messages') /\ ~Unpublished(x.msg, x.user)'
    BY <1>6 DEF PostedInv
  <2>1. x.msg <= Len(messages) /\ ~Unpublished(x.msg, x.user)
    BY <1>0 DEF PostedInv
  <2> QED BY <2>1, <1>0, <1>1 DEF Unpublished
<1>8. DueInv'
  <2> SUFFICES ASSUME NEW d \in due
               PROVE  user[d[2]] \in Users \ fresh /\ OnItsWay(d[1], d[2])'
    BY <1>0 DEF DueInv
  <2>1. user[d[2]] \in Users \ fresh /\ OnItsWay(d[1], d[2])
    BY <1>0 DEF DueInv
  <2>2. ASSUME NEW v \in Workers, job[v] = d[1], user[d[2]] \in rest[v]
        PROVE  job'[v] = d[1] /\ user[d[2]] \in rest'[v]
    BY <2>2, <1>0, <1>1
  <2> QED BY <2>1, <2>2, <1>0 DEF OnItsWay, Carries
<1> QED BY <1>2, <1>4, <1>5, <1>6, <1>7, <1>8 DEF IInv

(* Logins and logouts.                                                     *)
LEMMA SessionInv ==
  ASSUME IInv,
         \/ \E c \in Conns : Logout(c)
         \/ \E c \in Conns : \E u \in LogsInAs[c] : Login(c, u)
         \/ \E u \in Users : SubscriptionSettles(u)
  PROVE  IInv'
<1>0. /\ TypeOK /\ JobInv /\ AnswerInv /\ OrderInv /\ PlaceInv /\ PostedInv /\ DueInv
      /\ UNCHANGED <<messages, answers, jobs, job, rest, index, up, pipe, inbox, tasks, delivered>>
  BY DEF IInv, Logout, Login, SubscriptionSettles, poolVars
<1>1. /\ due' \subseteq due
      /\ user' \in [Conns -> Users \cup {Offline}] /\ fresh' \subseteq Users
      /\ \A d \in due' : user'[d[2]] = user[d[2]] /\ user[d[2]] \notin fresh'
  <2>1. ASSUME NEW c \in Conns, Logout(c)
        PROVE  /\ due' \subseteq due
               /\ user' \in [Conns -> Users \cup {Offline}] /\ fresh' \subseteq Users
               /\ \A d \in due' : user'[d[2]] = user[d[2]] /\ user[d[2]] \notin fresh'
    <3>1. user' \in [Conns -> Users \cup {Offline}] /\ fresh' \subseteq fresh
      BY <2>1, <1>0 DEF Logout, TypeOK
    <3>2. \A d \in due' : d \in due /\ d[2] # c
      BY <2>1 DEF Logout
    <3>3. \A k \in Conns : k # c => user'[k] = user[k]
      BY <2>1, <1>0 DEF Logout, TypeOK
    <3>4. \A d \in due : d[2] \in Conns
      BY <1>0 DEF TypeOK
    <3> QED BY <3>1, <3>2, <3>3, <3>4, <1>0 DEF DueInv, TypeOK
  <2>2. ASSUME NEW c \in Conns, NEW u \in LogsInAs[c], Login(c, u)
        PROVE  /\ due' \subseteq due
               /\ user' \in [Conns -> Users \cup {Offline}] /\ fresh' \subseteq Users
               /\ \A d \in due' : user'[d[2]] = user[d[2]] /\ user[d[2]] \notin fresh'
    <3>1. u \in Users
      BY RoutingAssumption
    <3>2. user' \in [Conns -> Users \cup {Offline}] /\ fresh' \subseteq Users /\ due' = due
      BY <2>2, <3>1, <1>0 DEF Login, TypeOK
    <3>3. ASSUME NEW d \in due
          PROVE  user'[d[2]] = user[d[2]] /\ user[d[2]] \notin fresh'
      <4>1. d[2] \in Conns /\ user[d[2]] \in Users \ fresh
        BY <1>0 DEF TypeOK, DueInv
      <4>2. d[2] # c
        BY <4>1, <2>2, RoutingAssumption DEF Login
      <4>3. user'[d[2]] = user[d[2]]
        BY <4>1, <4>2, <2>2, <1>0 DEF Login, TypeOK
      <4>4. ASSUME user[d[2]] = u PROVE Online(u) # {}
        <5>1. d[2] \in ConnsOf({u})
          BY <4>1, <4>4 DEF ConnsOf
        <5>2. LoopOf[d[2]] \in Online(u)
          BY <5>1 DEF Online
        <5> QED BY <5>2
      <4>5. CASE user[d[2]] = u
        <5>1. fresh' = fresh
          BY <4>4, <4>5, <2>2 DEF Login
        <5> QED BY <5>1, <4>1, <4>3
      <4>6. CASE user[d[2]] # u
        <5>1. fresh' \subseteq fresh \cup {u}
          BY <2>2 DEF Login
        <5> QED BY <5>1, <4>1, <4>3, <4>6
      <4> QED BY <4>5, <4>6
    <3> QED BY <3>2, <3>3
  <2>3. ASSUME NEW u \in Users, SubscriptionSettles(u)
        PROVE  /\ due' \subseteq due
               /\ user' \in [Conns -> Users \cup {Offline}] /\ fresh' \subseteq Users
               /\ \A d \in due' : user'[d[2]] = user[d[2]] /\ user[d[2]] \notin fresh'
    BY <2>3, <1>0 DEF SubscriptionSettles, TypeOK, DueInv
  <2> QED BY <2>1, <2>2, <2>3
<1>2. TypeOK'
  BY <1>0, <1>1 DEF TypeOK
<1>3. JobInv'
  BY <1>0 DEF JobInv
<1>4. AnswerInv'
  BY <1>0 DEF AnswerInv
<1>5. OrderInv' /\ PlaceInv' /\ Posted' = Posted
  BY <1>0, Unmoved
<1>6. PostedInv'
  BY <1>0, <1>5 DEF PostedInv, Unpublished
<1>7. DueInv'
  <2> SUFFICES ASSUME NEW d \in due'
               PROVE  user'[d[2]] \in Users \ fresh' /\ OnItsWay(d[1], d[2])'
    BY DEF DueInv
  <2>1. user[d[2]] \in Users \ fresh /\ OnItsWay(d[1], d[2]) /\ user'[d[2]] = user[d[2]]
    BY <1>0, <1>1 DEF DueInv
  <2> QED BY <2>1, <1>0, <1>1 DEF OnItsWay, Carries
<1> QED BY <1>2, <1>3, <1>4, <1>5, <1>6, <1>7 DEF IInv

(* Redis reads a PUBLISH.                                                  *)
LEMMA RedisRelaysInv ==
  ASSUME IInv, NEW t \in Threads, NEW p \in PubSubs, RedisRelays(t, p)
  PROVE  IInv'
<1> DEFINE h == Head(pipe[t][p])
<1>0. /\ TypeOK /\ JobInv /\ AnswerInv /\ OrderInv /\ PlaceInv /\ PostedInv /\ DueInv
      /\ pipe[t][p] # <<>>
      /\ pipe' = [pipe EXCEPT ![t][p] = Tail(@)]
      /\ \/ inbox' = [inbox EXCEPT ![p] = Append(@, h)]
         \/ (Online(h.user) = {} \/ h.user \in fresh) /\ inbox' = inbox
      /\ UNCHANGED <<user, fresh, due, messages, answers, jobs, job, rest, index, up, tasks, delivered>>
  BY DEF IInv, RedisRelays, poolVars, sessionVars
<1>1. pipe[t][p] \in Seq(Posts) /\ inbox[p] \in Seq(Posts)
  BY <1>0 DEF TypeOK
<1>2. /\ Tail(pipe[t][p]) \in Seq(Posts) /\ h \in Posts
      /\ Range(pipe[t][p]) = Range(Tail(pipe[t][p])) \cup {h}
  BY <1>0, <1>1, SeqTail
<1>3. Chain(messages, Tail(pipe[t][p])) /\ \A y \in Range(Tail(pipe[t][p])) : Fine(messages, h, y)
  <2>1. Chain(messages, pipe[t][p])
    BY <1>0 DEF OrderInv, Ordered
  <2> QED BY <2>1, <1>0, <1>1, SeqTail
<1> HIDE DEF h
<1>4. /\ pipe'[t][p] = Tail(pipe[t][p])
      /\ \A u \in Threads, q \in PubSubs : <<t, p>> # <<u, q>> => pipe'[u][q] = pipe[u][q]
  BY <1>0 DEF TypeOK
<1>5. /\ Append(inbox[p], h) \in Seq(Posts)
      /\ Range(Append(inbox[p], h)) = Range(inbox[p]) \cup {h}
  BY <1>1, <1>2, SeqAppend
<1>6. TypeOK'
  <2>1. pipe' \in [Threads -> [PubSubs -> Seq(Posts)]]
    BY <1>0, <1>2 DEF TypeOK
  <2>2. inbox' \in [PubSubs -> Seq(Posts)]
    BY <1>0, <1>5 DEF TypeOK
  <2> QED BY <1>0, <2>1, <2>2 DEF TypeOK
<1>7. JobInv'
  BY <1>0 DEF JobInv
<1>8. AnswerInv'
  BY <1>0 DEF AnswerInv
<1>9. \A u \in Threads, q \in PubSubs : Range(pipe'[u][q]) \subseteq Range(pipe[u][q])
  BY <1>2, <1>4
<1>10. \A q \in PubSubs : Range(inbox'[q]) \subseteq Range(inbox[q]) \cup (IF q = p THEN {h} ELSE {})
  BY <1>0, <1>5 DEF TypeOK
<1>11. OrderInv'
  <2>1. \A u \in Threads, q \in PubSubs : Chain(messages, pipe'[u][q])
    BY <1>0, <1>3, <1>4 DEF OrderInv, Ordered
  <2>2. \A q \in PubSubs : Chain(messages, inbox[q])
    BY <1>0 DEF OrderInv, Ordered
  <2>3. Ordered(messages, pipe', inbox, tasks, delivered)
    BY <2>1, <2>2, <1>0, <1>9, LoseOrdered DEF OrderInv
  <2>4. CASE inbox' = inbox
    BY <2>3, <2>4, <1>0 DEF OrderInv
  <2>5. CASE inbox' = [inbox EXCEPT ![p] = Append(@, h)]
    <3>1. Queues(pipe', inbox, tasks, delivered)
      BY <1>0, <1>6 DEF Queues, TypeOK
    <3>2. h \in Range(pipe[t][p])
      BY <1>2
    <3>3. \A q \in PubSubs : \A x \in Range(inbox[q]) : Fine(messages, x, h)
      BY <3>2, <1>0 DEF OrderInv, Ordered, Before
    <3>4. \A q \in PubSubs \ {p} : \A x \in Range(inbox[q]) : Fine(messages, h, x)
      <4> SUFFICES ASSUME NEW q \in PubSubs \ {p}, NEW x \in Range(inbox[q])
                   PROVE  Fine(messages, h, x)
        OBVIOUS
      <4>1. x.via = q /\ h.via = p
        BY <3>2, <1>0 DEF PlaceInv
      <4>2. Fine(messages, x, h)
        BY <3>3
      <4> QED BY <4>1, <4>2 DEF Fine, Same
    <3>5. \A u \in Threads, q \in PubSubs : \A x \in Range(pipe'[u][q]) : Fine(messages, h, x)
      <4> SUFFICES ASSUME NEW u \in Threads, NEW q \in PubSubs, NEW x \in Range(pipe'[u][q])
                   PROVE  Fine(messages, h, x)
        OBVIOUS
      <4>1. CASE <<t, p>> = <<u, q>>
        BY <4>1, <1>3, <1>4
      <4>2. CASE <<t, p>> # <<u, q>>
        <5>1. Before(messages, Range(pipe[t][p]), Range(pipe[u][q]))
          BY <4>2, <1>0 DEF OrderInv, Ordered
        <5> QED BY <5>1, <3>2, <1>9 DEF Before
      <4> QED BY <4>1, <4>2
    <3>6. \A l \in Loops : \A x \in Range(tasks[l]) : Fine(messages, x, h)
      BY <3>2, <1>0 DEF OrderInv, Ordered, Before
    <3>7. \A c \in Conns : \A x \in Range(delivered[c]) : Fine(messages, x, h)
      BY <3>2, <1>0 DEF OrderInv, Ordered, Before
    <3>8. Ordered(messages, pipe', [inbox EXCEPT ![p] = Append(@, h)], tasks, delivered)
      BY <2>3, <3>1, <3>3, <3>4, <3>5, <3>6, <3>7, <1>2, RelayOrdered
    <3> QED BY <2>5, <3>8, <1>0 DEF OrderInv
  <2> QED BY <2>4, <2>5, <1>0
<1>12. h \in Range(pipe[t][p])
  BY <1>2
<1>13. PlaceInv'
  <2>1. \A u \in Threads, q \in PubSubs : \A x \in Range(pipe'[u][q]) :
          x.via = q /\ (Private(messages, x) => u = LoopOf[messages[x.msg].from])
    BY <1>0, <1>9 DEF PlaceInv
  <2>2. \A q \in PubSubs : \A x \in Range(inbox'[q]) : x.via = q
    BY <1>0, <1>10, <1>12 DEF PlaceInv
  <2> QED BY <2>1, <2>2, <1>0 DEF PlaceInv
<1>14. Posted' \subseteq Posted
  <2>1. \A u \in Threads, q \in PubSubs : Range(pipe'[u][q]) \subseteq Posted \cup {}
    BY <1>0, <1>9, PostedQueues
  <2>2. \A q \in PubSubs : Range(inbox'[q]) \subseteq Posted \cup {}
    BY <1>0, <1>10, <1>12, PostedQueues
  <2>3. \A l \in Loops : Range(tasks'[l]) \subseteq Posted \cup {}
    BY <1>0, PostedQueues
  <2>4. \A c \in Conns : Range(delivered'[c]) \subseteq Posted \cup {}
    BY <1>0, PostedQueues
  <2>5. Posted' \subseteq Posted \cup {}
    BY <2>1, <2>2, <2>3, <2>4, PostedStep
  <2> QED BY <2>5
<1>15. PostedInv'
  BY <1>0, <1>14 DEF PostedInv, Unpublished
<1>16. DueInv'
  <2> SUFFICES ASSUME NEW d \in due
               PROVE  user[d[2]] \in Users \ fresh /\ OnItsWay(d[1], d[2])'
    BY <1>0 DEF DueInv
  <2>1. user[d[2]] \in Users \ fresh /\ OnItsWay(d[1], d[2]) /\ d[2] \in Conns
    BY <1>0 DEF DueInv, TypeOK
  <2>2. ASSUME NEW u \in Threads, NEW q \in PubSubs, Carries(pipe[u][q], d[1], user[d[2]])
        PROVE  Carries(pipe'[u][q], d[1], user[d[2]]) \/ Carries(inbox'[p], d[1], user[d[2]])
    <3>1. PICK x \in Range(pipe[u][q]) : x.msg = d[1] /\ x.user = user[d[2]]
      BY <2>2 DEF Carries
    <3>2. CASE x \in Range(pipe'[u][q])
      BY <3>1, <3>2 DEF Carries
    <3>3. CASE x \notin Range(pipe'[u][q])
      <4>1. x = h
        BY <3>3, <1>2, <1>4
      <4>2. d[2] \in ConnsOf({h.user})
        BY <3>1, <4>1, <2>1 DEF ConnsOf
      <4>3. LoopOf[d[2]] \in Online(h.user)
        BY <4>2 DEF Online
      <4>4. inbox' = [inbox EXCEPT ![p] = Append(@, h)]
        BY <4>3, <3>1, <4>1, <2>1, <1>0
      <4>5. h \in Range(inbox'[p])
        BY <4>4, <1>0, <1>5 DEF TypeOK
      <4> QED BY <3>1, <4>1, <4>5 DEF Carries
    <3> QED BY <3>2, <3>3
  <2>3. ASSUME NEW q \in PubSubs, Carries(inbox[q], d[1], user[d[2]])
        PROVE  Carries(inbox'[q], d[1], user[d[2]])
    <3>1. Range(inbox[q]) \subseteq Range(inbox'[q])
      BY <1>0, <1>5 DEF TypeOK
    <3> QED BY <2>3, <3>1 DEF Carries
  <2>4. CASE \E w \in Workers : job[w] = d[1] /\ user[d[2]] \in rest[w]
    BY <2>1, <2>4, <1>0 DEF OnItsWay
  <2>5. CASE \E u \in Threads, q \in PubSubs : Carries(pipe[u][q], d[1], user[d[2]])
    BY <2>1, <2>2, <2>5, <1>0 DEF OnItsWay
  <2>6. CASE \E q \in PubSubs : Carries(inbox[q], d[1], user[d[2]])
    BY <2>1, <2>3, <2>6, <1>0 DEF OnItsWay
  <2>7. CASE Carries(tasks[LoopOf[d[2]]], d[1], user[d[2]]) \/ Carries(delivered[d[2]], d[1], user[d[2]])
    BY <2>1, <2>7, <1>0 DEF OnItsWay, Carries
  <2> QED BY <2>1, <2>4, <2>5, <2>6, <2>7 DEF OnItsWay
<1> QED BY <1>6, <1>7, <1>8, <1>11, <1>13, <1>15, <1>16 DEF IInv

(* The listener takes a message.                                           *)
LEMMA OnRedisPubSubMessageInv ==
  ASSUME IInv, NEW p \in PubSubs, OnRedisPubSubMessage(p)
  PROVE  IInv'
<1> DEFINE h == Head(inbox[p])
           L == Online(h.user)
<1>0. /\ TypeOK /\ JobInv /\ AnswerInv /\ OrderInv /\ PlaceInv /\ PostedInv /\ DueInv
      /\ inbox[p] # <<>>
      /\ inbox' = [inbox EXCEPT ![p] = Tail(@)]
      /\ tasks' = [l \in Loops |-> IF l \in L THEN Append(tasks[l], h) ELSE tasks[l]]
      /\ UNCHANGED <<user, fresh, due, messages, answers, jobs, job, rest, index, up, pipe, delivered>>
  BY DEF IInv, OnRedisPubSubMessage, poolVars, sessionVars
<1>1. inbox[p] \in Seq(Posts) /\ \A l \in Loops : tasks[l] \in Seq(Posts)
  BY <1>0 DEF TypeOK
<1>2. /\ Tail(inbox[p]) \in Seq(Posts) /\ h \in Posts
      /\ Range(inbox[p]) = Range(Tail(inbox[p])) \cup {h}
  BY <1>0, <1>1, SeqTail
<1>3. Chain(messages, Tail(inbox[p])) /\ \A y \in Range(Tail(inbox[p])) : Fine(messages, h, y)
  <2>1. Chain(messages, inbox[p])
    BY <1>0 DEF OrderInv, Ordered
  <2> QED BY <2>1, <1>0, <1>1, SeqTail
<1>4. ASSUME NEW c \in Conns, user[c] = h.user PROVE LoopOf[c] \in L
  <2>1. c \in ConnsOf({h.user})
    BY <1>4 DEF ConnsOf
  <2> QED BY <2>1 DEF Online
<1> HIDE DEF h, L
<1>5. inbox'[p] = Tail(inbox[p]) /\ \A q \in PubSubs : q # p => inbox'[q] = inbox[q]
  BY <1>0 DEF TypeOK
<1>6. ASSUME NEW l \in Loops
      PROVE  /\ Append(tasks[l], h) \in Seq(Posts)
             /\ Range(Append(tasks[l], h)) = Range(tasks[l]) \cup {h}
  BY <1>1, <1>2, SeqAppend
<1>7. \A l \in Loops : /\ Range(tasks[l]) \subseteq Range(tasks'[l])
                       /\ Range(tasks'[l]) \subseteq Range(tasks[l]) \cup {h}
                       /\ l \in L => h \in Range(tasks'[l])
  BY <1>0, <1>6
<1>8. TypeOK'
  <2>1. inbox' \in [PubSubs -> Seq(Posts)]
    BY <1>0, <1>2 DEF TypeOK
  <2>2. tasks' \in [Loops -> Seq(Posts)]
    BY <1>0, <1>1, <1>6
  <2> QED BY <1>0, <2>1, <2>2 DEF TypeOK
<1>9. JobInv'
  BY <1>0 DEF JobInv
<1>10. AnswerInv'
  BY <1>0 DEF AnswerInv
<1>11. \A q \in PubSubs : Range(inbox'[q]) \subseteq Range(inbox[q])
  BY <1>2, <1>5
<1>12. h \in Range(inbox[p])
  BY <1>2
<1>13. OrderInv'
  <2>1. \A u \in Threads, q \in PubSubs : Chain(messages, pipe[u][q])
    BY <1>0 DEF OrderInv, Ordered
  <2>2. \A q \in PubSubs : Chain(messages, inbox'[q])
    BY <1>0, <1>3, <1>5 DEF OrderInv, Ordered
  <2>3. Ordered(messages, pipe, inbox', tasks, delivered)
    BY <2>1, <2>2, <1>0, <1>11, LoseOrdered DEF OrderInv
  <2>4. Queues(pipe, inbox', tasks, delivered)
    BY <1>0, <1>8 DEF Queues, TypeOK
  <2>5. \A q \in PubSubs : \A x \in Range(inbox'[q]) : Fine(messages, h, x)
    <3> SUFFICES ASSUME NEW q \in PubSubs, NEW x \in Range(inbox'[q])
                 PROVE  Fine(messages, h, x)
      OBVIOUS
    <3>1. CASE q = p
      BY <3>1, <1>3, <1>5
    <3>2. CASE q # p
      <4>1. Before(messages, Range(inbox[p]), Range(inbox[q]))
        BY <3>2, <1>0 DEF OrderInv, Ordered
      <4> QED BY <4>1, <1>11, <1>12 DEF Before
    <3> QED BY <3>1, <3>2
  <2>6. \A u \in Threads, q \in PubSubs : \A x \in Range(pipe[u][q]) : Fine(messages, h, x)
    BY <1>0, <1>12 DEF OrderInv, Ordered, Before
  <2>7. \A l \in Loops : \A x \in Range(tasks[l]) : Fine(messages, x, h)
    BY <1>0, <1>12 DEF OrderInv, Ordered, Before
  <2>8. \A c \in Conns : \A x \in Range(delivered[c]) : Fine(messages, x, h)
    BY <1>0, <1>12 DEF OrderInv, Ordered, Before
  <2>9. \A l \in Loops : tasks'[l] = tasks[l] \/ tasks'[l] = Append(tasks[l], h)
    BY <1>0
  <2>10. Ordered(messages, pipe, inbox', tasks', delivered)
    BY <2>3, <2>4, <2>5, <2>6, <2>7, <2>8, <2>9, <1>2, TakeOrdered
  <2> QED BY <2>10, <1>0 DEF OrderInv
<1>14. PlaceInv'
  BY <1>0, <1>11 DEF PlaceInv
<1>15. Posted' \subseteq Posted
  <2>1. \A u \in Threads, q \in PubSubs : Range(pipe'[u][q]) \subseteq Posted \cup {}
    BY <1>0, PostedQueues
  <2>2. \A q \in PubSubs : Range(inbox'[q]) \subseteq Posted \cup {}
    BY <1>0, <1>11, PostedQueues
  <2>3. \A l \in Loops : Range(tasks'[l]) \subseteq Posted \cup {}
    BY <1>0, <1>7, <1>12, PostedQueues
  <2>4. \A c \in Conns : Range(delivered'[c]) \subseteq Posted \cup {}
    BY <1>0, PostedQueues
  <2>5. Posted' \subseteq Posted \cup {}
    BY <2>1, <2>2, <2>3, <2>4, PostedStep
  <2> QED BY <2>5
<1>16. PostedInv'
  BY <1>0, <1>15 DEF PostedInv, Unpublished
<1>17. DueInv'
  <2> SUFFICES ASSUME NEW d \in due
               PROVE  user[d[2]] \in Users \ fresh /\ OnItsWay(d[1], d[2])'
    BY <1>0 DEF DueInv
  <2>1. /\ user[d[2]] \in Users \ fresh /\ OnItsWay(d[1], d[2])
        /\ d[2] \in Conns /\ LoopOf[d[2]] \in Loops
    BY <1>0, RoutingAssumption DEF DueInv, TypeOK
  <2>2. ASSUME NEW q \in PubSubs, Carries(inbox[q], d[1], user[d[2]])
        PROVE  Carries(inbox'[q], d[1], user[d[2]]) \/ Carries(tasks'[LoopOf[d[2]]], d[1], user[d[2]])
    <3>1. PICK x \in Range(inbox[q]) : x.msg = d[1] /\ x.user = user[d[2]]
      BY <2>2 DEF Carries
    <3>2. CASE x \in Range(inbox'[q])
      BY <3>1, <3>2 DEF Carries
    <3>3. CASE x \notin Range(inbox'[q])
      <4>1. x = h
        BY <3>3, <1>2, <1>5
      <4>2. h \in Range(tasks'[LoopOf[d[2]]])
        BY <4>1, <3>1, <2>1, <1>4, <1>7
      <4> QED BY <3>1, <4>1, <4>2 DEF Carries
    <3> QED BY <3>2, <3>3
  <2>3. CASE \E w \in Workers : job[w] = d[1] /\ user[d[2]] \in rest[w]
    BY <2>1, <2>3, <1>0 DEF OnItsWay
  <2>4. CASE \E u \in Threads, q \in PubSubs : Carries(pipe[u][q], d[1], user[d[2]])
    BY <2>1, <2>4, <1>0 DEF OnItsWay
  <2>5. CASE \E q \in PubSubs : Carries(inbox[q], d[1], user[d[2]])
    BY <2>1, <2>2, <2>5, <1>0 DEF OnItsWay
  <2>6. CASE Carries(tasks[LoopOf[d[2]]], d[1], user[d[2]])
    BY <2>1, <2>6, <1>0, <1>7 DEF OnItsWay, Carries
  <2>7. CASE Carries(delivered[d[2]], d[1], user[d[2]])
    BY <2>1, <2>7, <1>0 DEF OnItsWay
  <2> QED BY <2>1, <2>3, <2>4, <2>5, <2>6, <2>7 DEF OnItsWay
<1> QED BY <1>8, <1>9, <1>10, <1>13, <1>14, <1>16, <1>17 DEF IInv

(* A loop writes a message to its connections of the user.                 *)
LEMMA SendTextMessageInv ==
  ASSUME IInv, NEW l \in Loops, SendTextMessage(l)
  PROVE  IInv'
<1> DEFINE h == Head(tasks[l])
<1>0. /\ TypeOK /\ JobInv /\ AnswerInv /\ OrderInv /\ PlaceInv /\ PostedInv /\ DueInv
      /\ tasks[l] # <<>>
      /\ tasks' = [tasks EXCEPT ![l] = Tail(@)]
      /\ delivered' = [c \in Conns |->
            IF LoopOf[c] = l /\ user[c] = h.user THEN Append(delivered[c], h) ELSE delivered[c]]
      /\ UNCHANGED <<user, fresh, due, messages, answers, jobs, job, rest, index, up, pipe, inbox>>
  BY DEF IInv, SendTextMessage, poolVars, sessionVars
<1>1. tasks[l] \in Seq(Posts) /\ \A c \in Conns : delivered[c] \in Seq(Posts)
  BY <1>0 DEF TypeOK
<1>2. /\ Tail(tasks[l]) \in Seq(Posts) /\ h \in Posts
      /\ Range(tasks[l]) = Range(Tail(tasks[l])) \cup {h}
  BY <1>0, <1>1, SeqTail
<1>3. OrderInv'
  <2>1. Queues(pipe, inbox, tasks, delivered)
    BY <1>0 DEF Queues, TypeOK
  <2>2. \A c \in Conns : \/ delivered'[c] = delivered[c]
                         \/ LoopOf[c] = l /\ delivered'[c] = Append(delivered[c], Head(tasks[l]))
    BY <1>0
  <2>3. Ordered(messages, pipe, inbox, [tasks EXCEPT ![l] = Tail(@)], delivered')
    BY <2>1, <2>2, <1>0, SendOrdered DEF OrderInv
  <2> QED BY <2>3, <1>0 DEF OrderInv
<1> HIDE DEF h
<1>4. tasks'[l] = Tail(tasks[l]) /\ \A k \in Loops : k # l => tasks'[k] = tasks[k]
  BY <1>0 DEF TypeOK
<1>5. ASSUME NEW c \in Conns
      PROVE  /\ Append(delivered[c], h) \in Seq(Posts)
             /\ Range(Append(delivered[c], h)) = Range(delivered[c]) \cup {h}
  BY <1>1, <1>2, SeqAppend
<1>6. \A c \in Conns : /\ Range(delivered[c]) \subseteq Range(delivered'[c])
                       /\ Range(delivered'[c]) \subseteq Range(delivered[c]) \cup {h}
                       /\ (LoopOf[c] = l /\ user[c] = h.user) => h \in Range(delivered'[c])
  BY <1>0, <1>5
<1>7. TypeOK'
  <2>1. tasks' \in [Loops -> Seq(Posts)]
    BY <1>0, <1>2 DEF TypeOK
  <2>2. delivered' \in [Conns -> Seq(Posts)]
    BY <1>0, <1>1, <1>5
  <2> QED BY <1>0, <2>1, <2>2 DEF TypeOK
<1>8. JobInv'
  BY <1>0 DEF JobInv
<1>9. AnswerInv'
  BY <1>0 DEF AnswerInv
<1>10. PlaceInv'
  BY <1>0 DEF PlaceInv
<1>11. Posted' \subseteq Posted
  <2>1. \A u \in Threads, q \in PubSubs : Range(pipe'[u][q]) \subseteq Posted \cup {}
    BY <1>0, PostedQueues
  <2>2. \A q \in PubSubs : Range(inbox'[q]) \subseteq Posted \cup {}
    BY <1>0, PostedQueues
  <2>3. \A k \in Loops : Range(tasks'[k]) \subseteq Posted \cup {}
    BY <1>0, <1>2, <1>4, PostedQueues
  <2>4. h \in Posted
    BY <1>0, <1>2, PostedQueues
  <2>5. \A c \in Conns : Range(delivered'[c]) \subseteq Posted \cup {}
    BY <2>4, <1>0, <1>6, PostedQueues
  <2>6. Posted' \subseteq Posted \cup {}
    BY <2>1, <2>2, <2>3, <2>5, PostedStep
  <2> QED BY <2>6
<1>12. PostedInv'
  BY <1>0, <1>11 DEF PostedInv, Unpublished
<1>13. DueInv'
  <2> SUFFICES ASSUME NEW d \in due
               PROVE  user[d[2]] \in Users \ fresh /\ OnItsWay(d[1], d[2])'
    BY <1>0 DEF DueInv
  <2>1. /\ user[d[2]] \in Users \ fresh /\ OnItsWay(d[1], d[2])
        /\ d[2] \in Conns /\ LoopOf[d[2]] \in Loops
    BY <1>0, RoutingAssumption DEF DueInv, TypeOK
  <2>2. ASSUME Carries(tasks[LoopOf[d[2]]], d[1], user[d[2]])
        PROVE  \/ Carries(tasks'[LoopOf[d[2]]], d[1], user[d[2]])
               \/ Carries(delivered'[d[2]], d[1], user[d[2]])
    <3>1. PICK x \in Range(tasks[LoopOf[d[2]]]) : x.msg = d[1] /\ x.user = user[d[2]]
      BY <2>2 DEF Carries
    <3>2. CASE x \in Range(tasks'[LoopOf[d[2]]])
      BY <3>1, <3>2 DEF Carries
    <3>3. CASE x \notin Range(tasks'[LoopOf[d[2]]])
      <4>1. x = h /\ LoopOf[d[2]] = l
        BY <3>3, <2>1, <1>2, <1>4
      <4>2. h \in Range(delivered'[d[2]])
        BY <4>1, <3>1, <2>1, <1>6
      <4> QED BY <3>1, <4>1, <4>2 DEF Carries
    <3> QED BY <3>2, <3>3
  <2>3. CASE \E w \in Workers : job[w] = d[1] /\ user[d[2]] \in rest[w]
    BY <2>1, <2>3, <1>0 DEF OnItsWay
  <2>4. CASE \E u \in Threads, q \in PubSubs : Carries(pipe[u][q], d[1], user[d[2]])
    BY <2>1, <2>4, <1>0 DEF OnItsWay
  <2>5. CASE \E q \in PubSubs : Carries(inbox[q], d[1], user[d[2]])
    BY <2>1, <2>5, <1>0 DEF OnItsWay
  <2>6. CASE Carries(tasks[LoopOf[d[2]]], d[1], user[d[2]])
    BY <2>1, <2>2, <2>6, <1>0 DEF OnItsWay
  <2>7. CASE Carries(delivered[d[2]], d[1], user[d[2]])
    BY <2>1, <2>7, <1>0, <1>6 DEF OnItsWay, Carries
  <2> QED BY <2>1, <2>3, <2>4, <2>5, <2>6, <2>7 DEF OnItsWay
<1> QED BY <1>3, <1>7, <1>8, <1>9, <1>10, <1>12, <1>13 DEF IInv

(* A Redis server is lost.                                                 *)
LEMMA RedisOutageInv ==
  ASSUME IInv, NEW p \in PubSubs, RedisOutage(p)
  PROVE  IInv'
<1> DEFINE gone == Range(inbox[p]) \cup UNION {Range(pipe[t][p]) : t \in Threads}
<1>0. /\ TypeOK /\ JobInv /\ AnswerInv /\ OrderInv /\ PlaceInv /\ PostedInv /\ DueInv
      /\ up' = [up EXCEPT ![p] = FALSE]
      /\ inbox' = [inbox EXCEPT ![p] = <<>>]
      /\ pipe' = [t \in Threads |-> [pipe[t] EXCEPT ![p] = <<>>]]
      /\ due' = {d \in due : ~\E post \in gone : post.msg = d[1] /\ post.user = user[d[2]]}
      /\ UNCHANGED <<user, fresh, messages, answers, jobs, job, rest, index, tasks, delivered>>
  BY DEF IInv, RedisOutage, poolVars
<1>1. /\ \A t \in Threads : pipe'[t][p] = <<>>
      /\ \A t \in Threads, q \in PubSubs : q # p => pipe'[t][q] = pipe[t][q]
  BY <1>0 DEF TypeOK
<1>2. /\ inbox'[p] = <<>>
      /\ \A q \in PubSubs : q # p => inbox'[q] = inbox[q]
  BY <1>0 DEF TypeOK
<1>3. TypeOK'
  <2>1. inbox' \in [PubSubs -> Seq(Posts)]
    BY <1>0, SeqEmpty DEF TypeOK
  <2>2. pipe' \in [Threads -> [PubSubs -> Seq(Posts)]]
    BY <1>0, SeqEmpty DEF TypeOK
  <2>3. up' \in [PubSubs -> BOOLEAN] /\ due' \subseteq Ids \X Conns
    BY <1>0 DEF TypeOK
  <2> QED BY <1>0, <2>1, <2>2, <2>3 DEF TypeOK
<1>4. JobInv'
  BY <1>0 DEF JobInv
<1>5. AnswerInv'
  BY <1>0 DEF AnswerInv
<1>6. \A t \in Threads, q \in PubSubs : Range(pipe'[t][q]) \subseteq Range(pipe[t][q])
  BY <1>1, SeqEmpty
<1>7. \A q \in PubSubs : Range(inbox'[q]) \subseteq Range(inbox[q])
  BY <1>2, SeqEmpty
<1>8. OrderInv'
  <2>1. \A t \in Threads, q \in PubSubs : Chain(messages, pipe'[t][q])
    BY <1>0, <1>1, SeqEmpty DEF OrderInv, Ordered
  <2>2. \A q \in PubSubs : Chain(messages, inbox'[q])
    BY <1>0, <1>2, SeqEmpty DEF OrderInv, Ordered
  <2>3. Ordered(messages, pipe', inbox', tasks, delivered)
    BY <2>1, <2>2, <1>0, <1>6, <1>7, LoseOrdered DEF OrderInv
  <2> QED BY <2>3, <1>0 DEF OrderInv
<1>9. PlaceInv'
  <2>1. \A t \in Threads, q \in PubSubs : \A x \in Range(pipe'[t][q]) :
          x.via = q /\ (Private(messages, x) => t = LoopOf[messages[x.msg].from])
    BY <1>0, <1>6 DEF PlaceInv
  <2>2. \A q \in PubSubs : \A x \in Range(inbox'[q]) : x.via = q
    BY <1>0, <1>7 DEF PlaceInv
  <2> QED BY <2>1, <2>2, <1>0 DEF PlaceInv
<1>10. Posted' \subseteq Posted
  <2>1. \A u \in Threads, q \in PubSubs : Range(pipe'[u][q]) \subseteq Posted \cup {}
    BY <1>0, <1>6, PostedQueues
  <2>2. \A q \in PubSubs : Range(inbox'[q]) \subseteq Posted \cup {}
    BY <1>0, <1>7, PostedQueues
  <2>3. \A k \in Loops : Range(tasks'[k]) \subseteq Posted \cup {}
    BY <1>0, PostedQueues
  <2>4. \A c \in Conns : Range(delivered'[c]) \subseteq Posted \cup {}
    BY <1>0, PostedQueues
  <2>5. Posted' \subseteq Posted \cup {}
    BY <2>1, <2>2, <2>3, <2>4, PostedStep
  <2> QED BY <2>5
<1>11. PostedInv'
  BY <1>0, <1>10 DEF PostedInv, Unpublished
<1>12. DueInv'
  <2> SUFFICES ASSUME NEW d \in due'
               PROVE  user[d[2]] \in Users \ fresh /\ OnItsWay(d[1], d[2])'
    BY <1>0 DEF DueInv
  <2>1. user[d[2]] \in Users \ fresh /\ OnItsWay(d[1], d[2])
    BY <1>0 DEF DueInv
  <2>2. /\ ~Carries(inbox[p], d[1], user[d[2]])
        /\ \A t \in Threads : ~Carries(pipe[t][p], d[1], user[d[2]])
    BY <1>0 DEF Carries
  <2>3. CASE \E w \in Workers : job[w] = d[1] /\ user[d[2]] \in rest[w]
    BY <2>1, <2>3, <1>0 DEF OnItsWay
  <2>4. CASE \E u \in Threads, q \in PubSubs : Carries(pipe[u][q], d[1], user[d[2]])
    <3>1. PICK u \in Threads, q \in PubSubs : Carries(pipe[u][q], d[1], user[d[2]])
      BY <2>4
    <3>2. pipe'[u][q] = pipe[u][q]
      BY <3>1, <2>2, <1>1
    <3> QED BY <3>1, <3>2, <2>1, <1>0 DEF OnItsWay
  <2>5. CASE \E q \in PubSubs : Carries(inbox[q], d[1], user[d[2]])
    <3>1. PICK q \in PubSubs : Carries(inbox[q], d[1], user[d[2]])
      BY <2>5
    <3>2. inbox'[q] = inbox[q]
      BY <3>1, <2>2, <1>2
    <3> QED BY <3>1, <3>2, <2>1, <1>0 DEF OnItsWay
  <2>6. CASE Carries(tasks[LoopOf[d[2]]], d[1], user[d[2]])
    BY <2>1, <2>6, <1>0 DEF OnItsWay
  <2>7. CASE Carries(delivered[d[2]], d[1], user[d[2]])
    BY <2>1, <2>7, <1>0 DEF OnItsWay
  <2> QED BY <2>1, <2>3, <2>4, <2>5, <2>6, <2>7 DEF OnItsWay
<1> QED BY <1>3, <1>4, <1>5, <1>8, <1>9, <1>11, <1>12 DEF IInv

(* publish() keeps the order of the posts if the message is new to the     *)
(* user, and, when private, the latest and from its sender's loop.         *)
LEMMA PublishOrder ==
  ASSUME TypeOK, OrderInv, PlaceInv, PostedInv,
         NEW t \in Threads, NEW p \in PubSubs, NEW e \in Posts, e.via = p,
         pipe' = [pipe EXCEPT ![t][p] = Append(@, e)],
         inbox' = inbox, tasks' = tasks, delivered' = delivered,
         \A k \in 1..Len(messages) : messages'[k] = messages[k],
         \A x \in Posted : Fine(messages', x, e),
         Private(messages', e) => t = LoopOf[messages'[e.msg].from]
  PROVE  /\ pipe' \in [Threads -> [PubSubs -> Seq(Posts)]]
         /\ OrderInv' /\ PlaceInv'
         /\ Posted' \subseteq Posted \cup {e}
         /\ \A v \in Threads, q \in PubSubs : Range(pipe[v][q]) \subseteq Range(pipe'[v][q])
         /\ e \in Range(pipe'[t][p])
<1>1. pipe \in [Threads -> [PubSubs -> Seq(Posts)]]
  BY DEF TypeOK
<1>2. pipe[t][p] \in Seq(Posts)
  BY <1>1
<1>3. /\ Append(pipe[t][p], e) \in Seq(Posts)
      /\ Range(Append(pipe[t][p], e)) = Range(pipe[t][p]) \cup {e}
  BY <1>2, SeqAppend
<1>4. /\ pipe'[t][p] = Append(pipe[t][p], e)
      /\ \A v \in Threads, q \in PubSubs : <<t, p>> # <<v, q>> => pipe'[v][q] = pipe[v][q]
  BY <1>1
<1>5. pipe' \in [Threads -> [PubSubs -> Seq(Posts)]]
  BY <1>1, <1>3
<1>6. /\ \A v \in Threads, q \in PubSubs : Range(pipe[v][q]) \subseteq Range(pipe'[v][q])
      /\ \A v \in Threads, q \in PubSubs :
           Range(pipe'[v][q]) \subseteq Range(pipe[v][q]) \cup (IF <<t, p>> = <<v, q>> THEN {e} ELSE {})
      /\ e \in Range(pipe'[t][p])
  BY <1>3, <1>4
<1>7. \A x \in Posted : messages'[x.msg] = messages[x.msg]
  BY PostedMsg
<1>8. ASSUME NEW v \in Threads, NEW q \in PubSubs, <<t, p>> # <<v, q>>, NEW x \in Range(pipe[v][q])
       PROVE  Fine(messages', e, x)
  <2>1. x \in Posted
    BY PostedQueues
  <2>2. ~Same(e, x)
    BY <2>1 DEF Fine, Same
  <2>3. x.via = q /\ (messages[x.msg].to \in Users => v = LoopOf[messages[x.msg].from])
    BY DEF PlaceInv, Private
  <2>4. messages'[x.msg] = messages[x.msg]
    BY <2>1, <1>7
  <2>5. ~(x.via = e.via /\ Private(messages', x) /\ Private(messages', e)
            /\ messages'[e.msg].from = messages'[x.msg].from)
    BY <2>3, <2>4, <1>8 DEF Private
  <2> QED BY <2>2, <2>5 DEF Fine
<1>9. OrderInv'
  <2>1. Ordered(messages', pipe, inbox, tasks, delivered)
    BY GrowOrdered
  <2>2. Queues(pipe, inbox, tasks, delivered)
    BY DEF Queues, TypeOK
  <2>3. \A v \in Threads, q \in PubSubs : \A x \in Range(pipe[v][q]) : Fine(messages', x, e)
    BY PostedQueues
  <2>4. \A q \in PubSubs : \A x \in Range(inbox[q]) : Fine(messages', x, e)
    BY PostedQueues
  <2>5. \A l \in Loops : \A x \in Range(tasks[l]) : Fine(messages', x, e)
    BY PostedQueues
  <2>6. \A c \in Conns : \A x \in Range(delivered[c]) : Fine(messages', x, e)
    BY PostedQueues
  <2>7. Ordered(messages', [pipe EXCEPT ![t][p] = Append(@, e)], inbox, tasks, delivered)
    BY <2>1, <2>2, <2>3, <2>4, <2>5, <2>6, <1>8, PostOrdered
  <2> QED BY <2>7 DEF OrderInv
<1>10. PlaceInv'
  <2>1. ASSUME NEW v \in Threads, NEW q \in PubSubs, NEW x \in Range(pipe'[v][q])
        PROVE  x.via = q /\ (Private(messages', x) => v = LoopOf[messages'[x.msg].from])
    <3>1. CASE x \in Range(pipe[v][q])
      <4>1. messages'[x.msg] = messages[x.msg]
        BY <3>1, <1>7, PostedQueues
      <4> QED BY <3>1, <4>1 DEF PlaceInv, Private
    <3>2. CASE x \notin Range(pipe[v][q])
      <4>1. x = e /\ v = t /\ q = p
        BY <3>2, <1>6
      <4> QED BY <4>1
    <3> QED BY <3>1, <3>2
  <2> QED BY <2>1 DEF PlaceInv
<1>11. Posted' \subseteq Posted \cup {e}
  <2>1. \A v \in Threads, q \in PubSubs : Range(pipe'[v][q]) \subseteq Posted \cup {e}
    BY <1>6, PostedQueues
  <2>2. \A q \in PubSubs : Range(inbox'[q]) \subseteq Posted \cup {e}
    BY PostedQueues
  <2>3. \A k \in Loops : Range(tasks'[k]) \subseteq Posted \cup {e}
    BY PostedQueues
  <2>4. \A c \in Conns : Range(delivered'[c]) \subseteq Posted \cup {e}
    BY PostedQueues
  <2> QED BY <2>1, <2>2, <2>3, <2>4, PostedStep
<1> QED BY <1>5, <1>6, <1>9, <1>10, <1>11

(* A private message.                                                      *)
LEMMA OnPrivateMessageInv ==
  ASSUME IInv, NEW c \in Senders, NEW u \in Users, OnPrivateMessage(c, u)
  PROVE  IInv'
<1> DEFINE n == Len(messages) + 1
           claims == due \cup {<<n, d>> : d \in Reached({u})}
           t == LoopOf[c]
<1>0. /\ TypeOK /\ JobInv /\ AnswerInv /\ OrderInv /\ PlaceInv /\ PostedInv /\ DueInv
      /\ c \in Conns /\ u \in Users \cup Groups /\ t \in Loops /\ t \in Threads
      /\ NewMessage(c, u, "sent")
      /\ Publish(t, n, u, claims)
      /\ UNCHANGED <<user, fresh, up, inbox, tasks, delivered, jobs, job, rest>>
  BY RoutingAssumption DEF IInv, OnPrivateMessage, poolVars, Threads
<1>1. /\ messages' \in Seq([from : Conns, to : Users \cup Groups])
      /\ Len(messages) \in Nat /\ n \in Ids
      /\ Len(messages') = n
      /\ \A m \in 1..Len(messages) : messages'[m] = messages[m]
      /\ messages'[n] = [from |-> c, to |-> u]
      /\ answers' \in [1..Len(messages') -> Answers]
      /\ \A m \in 1..Len(messages) : answers'[m] = answers[m]
      /\ answers'[n] = "sent"
  BY <1>0, NewMessageType DEF Answers
<1>2. /\ index' \in [Threads -> PubSubs]
      /\ \/ \E p \in PubSubs : /\ pipe' = [pipe EXCEPT ![t][p] = Append(@, Post(n, u, p))]
                               /\ due' = claims
         \/ pipe' = pipe /\ due' = claims \ {<<n, d>> : d \in ConnsOf({u})}
  BY <1>0, <1>1, PublishCases
<1>3. Reached({u}) \subseteq ConnsOf({u}) /\ ConnsOf({u}) \subseteq Conns
  BY DEF Reached, ConnsOf
<1>4. claims \subseteq Ids \X Conns
  <2>1. \A d \in Reached({u}) : <<n, d>> \in Ids \X Conns
    BY <1>1, <1>3
  <2>2. {<<n, d>> : d \in Reached({u})} \subseteq Ids \X Conns
    BY <2>1
  <2> QED BY <2>2, <1>0 DEF TypeOK
<1>5. \A d \in claims : d \in due \/ \E k \in Reached({u}) : d = <<n, k>>
  OBVIOUS
<1>6. (pipe' = pipe /\ due' = claims \ {<<n, d>> : d \in ConnsOf({u})}) => due' \subseteq due
  BY <1>3
<1> HIDE DEF n, claims, t
<1>7. \A x \in Posted : x.msg \in 1..Len(messages)
  BY <1>0, PostedMsg
<1>8. \A x \in Posted : x.msg < n
  BY <1>1, <1>7 DEF n
<1>9. /\ pipe' \in [Threads -> [PubSubs -> Seq(Posts)]]
      /\ OrderInv' /\ PlaceInv'
      /\ \A x \in Posted' : x \in Posted \/ x.msg = n
      /\ \A v \in Threads, q \in PubSubs : Range(pipe[v][q]) \subseteq Range(pipe'[v][q])
  <2>1. ASSUME NEW p \in PubSubs, pipe' = [pipe EXCEPT ![t][p] = Append(@, Post(n, u, p))]
        PROVE  /\ pipe' \in [Threads -> [PubSubs -> Seq(Posts)]]
               /\ OrderInv' /\ PlaceInv'
               /\ \A x \in Posted' : x \in Posted \/ x.msg = n
               /\ \A v \in Threads, q \in PubSubs : Range(pipe[v][q]) \subseteq Range(pipe'[v][q])
    <3> DEFINE e == Post(n, u, p)
    <3>1. e \in Posts /\ e.msg = n /\ e.user = u /\ e.via = p
      BY <1>1 DEF Post, Posts
    <3>2. pipe' = [pipe EXCEPT ![t][p] = Append(@, e)]
      BY <2>1
    <3> HIDE DEF e
    <3>3. \A x \in Posted : Fine(messages', x, e)
      BY <3>1, <1>1, <1>7, <1>8 DEF Fine, Same, n
    <3>4. Private(messages', e) => t = LoopOf[messages'[e.msg].from]
      <4>1. messages'[e.msg].from = c
        BY <3>1, <1>1
      <4> QED BY <4>1 DEF t
    <3>5. /\ TypeOK /\ OrderInv /\ PlaceInv /\ PostedInv /\ t \in Threads
          /\ inbox' = inbox /\ tasks' = tasks /\ delivered' = delivered
          /\ \A k \in 1..Len(messages) : messages'[k] = messages[k]
      BY <1>0, <1>1
    <3>6. /\ pipe' \in [Threads -> [PubSubs -> Seq(Posts)]]
          /\ OrderInv' /\ PlaceInv'
          /\ Posted' \subseteq Posted \cup {e}
          /\ \A v \in Threads, q \in PubSubs : Range(pipe[v][q]) \subseteq Range(pipe'[v][q])
      BY <3>1, <3>2, <3>3, <3>4, <3>5, PublishOrder
    <3> QED BY <3>1, <3>6
  <2>2. CASE pipe' = pipe
    BY <2>2, <1>0, <1>1, Unmoved DEF TypeOK
  <2> QED BY <2>1, <2>2, <1>2
<1>10. Len(messages') <= MaxMessages /\ MaxMessages \in Nat
  BY <1>1, RoutingAssumption DEF Ids
<1>11. TypeOK'
  <2>1. due' \subseteq Ids \X Conns
    BY <1>2, <1>4
  <2> QED BY <2>1, <1>0, <1>1, <1>2, <1>9, <1>10 DEF TypeOK, Answers
<1>12. \A i \in 1..Len(jobs) : jobs[i] \in 1..Len(messages)
  <2>1. jobs \in Seq(Ids)
    BY <1>0 DEF TypeOK
  <2>2. \A i \in 1..Len(jobs) : jobs[i] \in 1..MaxMessages
    <3>1. \A i \in 1..Len(jobs) : jobs[i] \in Ids
      BY <2>1
    <3> QED BY <3>1 DEF Ids
  <2>3. \A i \in 1..Len(jobs) : jobs[i] <= Len(messages)
    BY <1>0 DEF JobInv
  <2> QED BY <2>2, <2>3, <1>1, <1>10
<1>13. \A w \in Workers : job[w] # 0 => job[w] \in 1..Len(messages)
  <2>1. \A w \in Workers : job[w] \in 0..MaxMessages /\ (job[w] # 0 => job[w] <= Len(messages))
    BY <1>0 DEF JobInv, TypeOK
  <2> QED BY <2>1, <1>1, <1>10
<1>14. \A m \in 1..Len(messages) : m <= Len(messages') /\ m # n
  BY <1>1 DEF n
<1>15. JobInv'
  <2>1. \A i \in 1..Len(jobs) : jobs[i] <= Len(messages') /\ messages'[jobs[i]].to \in Groups
    BY <1>0, <1>1, <1>12, <1>14 DEF JobInv
  <2>2. \A w \in Workers : job[w] # 0 => job[w] <= Len(messages') /\ messages'[job[w]].to \in Groups
    BY <1>0, <1>1, <1>13, <1>14 DEF JobInv
  <2> QED BY <2>1, <2>2, <1>0 DEF JobInv
<1>16. AnswerInv'
  <2> SUFFICES ASSUME NEW m \in 1..Len(messages'), answers'[m] = "pending"
               PROVE  (\E i \in 1..Len(jobs) : jobs[i] = m) \/ (\E w \in Workers : job[w] = m)
    BY <1>0 DEF AnswerInv
  <2>1. m # n
    BY <1>1
  <2>2. m \in 1..Len(messages)
    BY <2>1, <1>1 DEF n
  <2> QED BY <2>2, <1>0, <1>1 DEF AnswerInv
<1>17. n # 0
  BY <1>1 DEF n
<1>18. PostedInv'
  <2> SUFFICES ASSUME NEW x \in Posted'
               PROVE  x.msg <= Len(messages') /\ ~Unpublished(x.msg, x.user)'
    BY DEF PostedInv
  <2>1. CASE x \in Posted
    BY <2>1, <1>0, <1>7, <1>14 DEF PostedInv, Unpublished
  <2>2. CASE x.msg = n
    <3>1. x.msg <= Len(messages')
      BY <2>2, <1>1 DEF n
    <3> QED BY <2>2, <3>1, <1>0, <1>12, <1>13, <1>14, <1>17 DEF Unpublished
  <2> QED BY <2>1, <2>2, <1>9
<1>19. DueInv'
  <2> SUFFICES ASSUME NEW d \in due'
               PROVE  user[d[2]] \in Users \ fresh /\ OnItsWay(d[1], d[2])'
    BY <1>0 DEF DueInv
  <2>1. CASE d \in due
    <3>1. user[d[2]] \in Users \ fresh /\ OnItsWay(d[1], d[2])
      BY <2>1, <1>0 DEF DueInv
    <3>2. ASSUME NEW v \in Threads, NEW q \in PubSubs, Carries(pipe[v][q], d[1], user[d[2]])
          PROVE  Carries(pipe'[v][q], d[1], user[d[2]])
      BY <3>2, <1>9 DEF Carries
    <3> QED BY <3>1, <3>2, <1>0 DEF OnItsWay
  <2>2. CASE d \notin due
    <3>1. PICK p \in PubSubs : pipe' = [pipe EXCEPT ![t][p] = Append(@, Post(n, u, p))] /\ due' = claims
      BY <2>2, <1>2, <1>6
    <3>2. PICK k \in Reached({u}) : d = <<n, k>>
      BY <2>2, <3>1, <1>5
    <3>3. user[k] = u /\ u \notin fresh
      BY <3>2 DEF Reached, ConnsOf
    <3>4. Post(n, u, p) \in Range(pipe'[t][p])
      <4>1. pipe[t][p] \in Seq(Posts) /\ Post(n, u, p) \in Posts
        BY <1>0, <1>1 DEF TypeOK, Post, Posts
      <4>2. pipe'[t][p] = Append(pipe[t][p], Post(n, u, p))
        BY <3>1, <1>0 DEF TypeOK
      <4> QED BY <4>1, <4>2, SeqAppend
    <3>5. Carries(pipe'[t][p], d[1], user[d[2]])
      BY <3>2, <3>3, <3>4 DEF Carries, Post
    <3> QED BY <3>2, <3>3, <3>5, <1>0 DEF OnItsWay
  <2> QED BY <2>1, <2>2
<1> QED BY <1>9, <1>11, <1>15, <1>16, <1>18, <1>19 DEF IInv

(* A worker publishes to one member.                                       *)
LEMMA PoolPublishesInv ==
  ASSUME IInv, NEW w \in Workers, PoolPublishes(w)
  PROVE  IInv'
<1> DEFINE m == job[w]
<1>1. PICK u \in rest[w] : /\ rest' = [rest EXCEPT ![w] = @ \ {u}]
                           /\ Publish(w, m, u, due)
  BY DEF PoolPublishes
<1>0. /\ TypeOK /\ JobInv /\ AnswerInv /\ OrderInv /\ PlaceInv /\ PostedInv /\ DueInv
      /\ job[w] # 0 /\ w \in Threads
      /\ UNCHANGED <<user, fresh, messages, answers, jobs, job, up, inbox, tasks, delivered>>
  BY DEF IInv, PoolPublishes, Threads
<1>2. m \in Ids /\ u \in Users
  <2>1. job[w] \in 0..MaxMessages /\ MaxMessages \in Nat
    BY <1>0, RoutingAssumption DEF TypeOK
  <2>2. job[w] \in Ids
    BY <2>1, <1>0 DEF Ids
  <2>3. rest[w] \in SUBSET Users
    BY <1>0 DEF TypeOK
  <2> QED BY <2>2, <2>3
<1>3. /\ index' \in [Threads -> PubSubs]
      /\ \/ \E p \in PubSubs : /\ pipe' = [pipe EXCEPT ![w][p] = Append(@, Post(m, u, p))]
                               /\ due' = due
         \/ pipe' = pipe /\ due' = due \ {<<m, c>> : c \in ConnsOf({u})}
  BY <1>0, <1>1, <1>2, PublishCases
<1>4. m <= Len(messages) /\ messages[m].to \in Groups /\ messages[m].to \notin Users
  BY <1>0, RoutingAssumption DEF JobInv
<1>5. \A x \in Posted : ~(x.msg = m /\ x.user = u)
  BY <1>0, <1>1 DEF PostedInv, Unpublished
<1>6. rest'[w] = rest[w] \ {u} /\ \A v \in Workers : v # w => rest'[v] = rest[v]
  BY <1>0, <1>1 DEF TypeOK
<1> HIDE DEF m
<1>7. /\ pipe' \in [Threads -> [PubSubs -> Seq(Posts)]]
      /\ OrderInv' /\ PlaceInv'
      /\ \A x \in Posted' : x \in Posted \/ (x.msg = m /\ x.user = u)
      /\ \A v \in Threads, q \in PubSubs : Range(pipe[v][q]) \subseteq Range(pipe'[v][q])
  <2>1. ASSUME NEW p \in PubSubs, pipe' = [pipe EXCEPT ![w][p] = Append(@, Post(m, u, p))]
        PROVE  /\ pipe' \in [Threads -> [PubSubs -> Seq(Posts)]]
               /\ OrderInv' /\ PlaceInv'
               /\ \A x \in Posted' : x \in Posted \/ (x.msg = m /\ x.user = u)
               /\ \A v \in Threads, q \in PubSubs : Range(pipe[v][q]) \subseteq Range(pipe'[v][q])
    <3> DEFINE e == Post(m, u, p)
    <3>1. e \in Posts /\ e.msg = m /\ e.user = u /\ e.via = p
      BY <1>2 DEF Post, Posts
    <3>2. pipe' = [pipe EXCEPT ![w][p] = Append(@, e)]
      BY <2>1
    <3> HIDE DEF e
    <3>3. \A x \in Posted : Fine(messages', x, e)
      BY <3>1, <1>0, <1>4, <1>5 DEF Fine, Same, Private
    <3>4. Private(messages', e) => w = LoopOf[messages'[e.msg].from]
      BY <3>1, <1>0, <1>4 DEF Private
    <3>5. /\ TypeOK /\ OrderInv /\ PlaceInv /\ PostedInv /\ w \in Threads
          /\ inbox' = inbox /\ tasks' = tasks /\ delivered' = delivered
          /\ \A k \in 1..Len(messages) : messages'[k] = messages[k]
      BY <1>0, <1>1
    <3>6. /\ pipe' \in [Threads -> [PubSubs -> Seq(Posts)]]
          /\ OrderInv' /\ PlaceInv'
          /\ Posted' \subseteq Posted \cup {e}
          /\ \A v \in Threads, q \in PubSubs : Range(pipe[v][q]) \subseteq Range(pipe'[v][q])
      BY <3>1, <3>2, <3>3, <3>4, <3>5, PublishOrder
    <3> QED BY <3>1, <3>6
  <2>2. CASE pipe' = pipe
    BY <2>2, <1>0, Unmoved DEF TypeOK
  <2> QED BY <2>1, <2>2, <1>3
<1>8. TypeOK'
  <2>1. due' \subseteq Ids \X Conns
    BY <1>0, <1>3 DEF TypeOK
  <2>2. rest' \in [Workers -> SUBSET Users]
    BY <1>0, <1>1 DEF TypeOK
  <2>3. \A v \in Workers : job'[v] = 0 => rest'[v] = {}
    BY <1>0, <1>6 DEF TypeOK
  <2> QED BY <2>1, <2>2, <2>3, <1>0, <1>3, <1>7 DEF TypeOK
<1>9. JobInv'
  BY <1>0 DEF JobInv
<1>10. AnswerInv'
  BY <1>0 DEF AnswerInv
<1>11. PostedInv'
  <2> SUFFICES ASSUME NEW x \in Posted'
               PROVE  x.msg <= Len(messages') /\ ~Unpublished(x.msg, x.user)'
    BY DEF PostedInv
  <2>1. \A v \in Workers : rest'[v] \subseteq rest[v]
    BY <1>6
  <2>2. CASE x \in Posted
    BY <2>1, <2>2, <1>0 DEF PostedInv, Unpublished
  <2>3. CASE x.msg = m /\ x.user = u
    <3>1. \A i \in 1..Len(jobs') : jobs'[i] # m
      BY <1>0 DEF JobInv, m
    <3>2. \A v \in Workers : job'[v] = m => v = w
      BY <1>0 DEF JobInv, m
    <3> QED BY <2>3, <3>1, <3>2, <1>0, <1>4, <1>6 DEF Unpublished
  <2> QED BY <2>2, <2>3, <1>7
<1>12. DueInv'
  <2> SUFFICES ASSUME NEW d \in due'
               PROVE  user[d[2]] \in Users \ fresh /\ OnItsWay(d[1], d[2])'
    BY <1>0 DEF DueInv
  <2>1. d \in due /\ d \in Ids \X Conns
    BY <1>0, <1>3 DEF TypeOK
  <2>2. user[d[2]] \in Users \ fresh /\ OnItsWay(d[1], d[2])
    BY <2>1, <1>0 DEF DueInv
  <2>3. CASE \E v \in Workers : job[v] = d[1] /\ user[d[2]] \in rest[v]
    <3>1. PICK v \in Workers : job[v] = d[1] /\ user[d[2]] \in rest[v]
      BY <2>3
    <3>2. CASE user[d[2]] \in rest'[v]
      BY <3>1, <3>2, <2>2, <1>0 DEF OnItsWay
    <3>3. CASE user[d[2]] \notin rest'[v]
      <4>1. v = w /\ user[d[2]] = u /\ d[1] = m
        BY <3>1, <3>3, <1>6 DEF m
      <4>2. d[2] \in ConnsOf({u}) /\ d = <<m, d[2]>>
        BY <4>1, <2>1 DEF ConnsOf
      <4>3. PICK p \in PubSubs : pipe' = [pipe EXCEPT ![w][p] = Append(@, Post(m, u, p))]
        BY <4>2, <1>3
      <4>4. pipe[w][p] \in Seq(Posts) /\ Post(m, u, p) \in Posts
        BY <1>0, <1>2 DEF TypeOK, Post, Posts
      <4>5. pipe'[w][p] = Append(pipe[w][p], Post(m, u, p))
        BY <4>3, <1>0 DEF TypeOK
      <4>6. Post(m, u, p) \in Range(pipe'[w][p])
        BY <4>4, <4>5, SeqAppend
      <4>7. Carries(pipe'[w][p], d[1], user[d[2]])
        BY <4>1, <4>6 DEF Carries, Post
      <4> QED BY <2>2, <4>7, <1>0 DEF OnItsWay
    <3> QED BY <3>2, <3>3
  <2>4. CASE \E v \in Threads, q \in PubSubs : Carries(pipe[v][q], d[1], user[d[2]])
    <3>1. PICK v \in Threads, q \in PubSubs : Carries(pipe[v][q], d[1], user[d[2]])
      BY <2>4
    <3>2. Carries(pipe'[v][q], d[1], user[d[2]])
      BY <3>1, <1>7 DEF Carries
    <3> QED BY <3>2, <2>2, <1>0 DEF OnItsWay
  <2>5. CASE \E q \in PubSubs : Carries(inbox[q], d[1], user[d[2]])
    BY <2>2, <2>5, <1>0 DEF OnItsWay
  <2>6. CASE Carries(tasks[LoopOf[d[2]]], d[1], user[d[2]]) \/ Carries(delivered[d[2]], d[1], user[d[2]])
    BY <2>2, <2>6, <1>0 DEF OnItsWay
  <2> QED BY <2>2, <2>3, <2>4, <2>5, <2>6 DEF OnItsWay
<1> QED BY <1>7, <1>8, <1>9, <1>10, <1>11, <1>12 DEF IInv
-----------------------------------------------------------------------------
(***************************************************************************)
(* The theorems                                                            *)
(***************************************************************************)

(* A server without messages satisfies the invariant.                      *)
LEMMA InitInv == Init => IInv
<1> SUFFICES ASSUME Init PROVE IInv
  OBVIOUS
<1>1. /\ messages = <<>> /\ answers = <<>> /\ jobs = <<>> /\ due = {} /\ fresh = {}
      /\ \A w \in Workers : job[w] = 0 /\ rest[w] = {}
      /\ \A t \in Threads, p \in PubSubs : pipe[t][p] = <<>>
      /\ \A p \in PubSubs : inbox[p] = <<>>
      /\ \A l \in Loops : tasks[l] = <<>>
      /\ \A c \in Conns : delivered[c] = <<>>
  BY DEF Init
<1>2. Len(<<>>) = 0
  OBVIOUS
<1>3. TypeOK
  <2>1. 0 \in PubSubs /\ 0 \in 0..MaxMessages /\ Len(messages) <= MaxMessages
    BY <1>1, <1>2, RoutingAssumption DEF PubSubs
  <2>2. messages \in Seq([from : Conns, to : Users \cup Groups]) /\ jobs \in Seq(Ids)
    BY <1>1
  <2>3. answers \in [1..Len(messages) -> {"pending", "sent", "not found"}]
    <3>1. <<>> \in [1..0 -> {"pending", "sent", "not found"}]
      OBVIOUS
    <3> QED BY <3>1, <1>1, <1>2
  <2>4. /\ user \in [Conns -> Users \cup {Offline}] /\ fresh \subseteq Users
        /\ job \in [Workers -> 0..MaxMessages] /\ rest \in [Workers -> SUBSET Users]
        /\ index \in [Threads -> PubSubs] /\ up \in [PubSubs -> BOOLEAN]
        /\ due \subseteq Ids \X Conns
    BY <2>1 DEF Init
  <2>5. /\ pipe \in [Threads -> [PubSubs -> Seq(Posts)]]
        /\ inbox \in [PubSubs -> Seq(Posts)]
        /\ tasks \in [Loops -> Seq(Posts)]
        /\ delivered \in [Conns -> Seq(Posts)]
    BY SeqEmpty DEF Init
  <2> QED BY <2>1, <2>2, <2>3, <2>4, <2>5, <1>1 DEF TypeOK
<1>4. JobInv
  BY <1>1, <1>2 DEF JobInv
<1>5. AnswerInv
  BY <1>1, <1>2 DEF AnswerInv
<1>6. OrderInv
  <2>1. /\ \A M : Chain(M, <<>>)
        /\ \A M, A : Before(M, Range(<<>>), A)
    BY SeqEmpty DEF Before
  <2>2. \A c \in Conns : LoopOf[c] \in Loops
    BY RoutingAssumption
  <2> QED BY <2>1, <2>2, <1>1 DEF OrderInv, Ordered
<1>7. PlaceInv
  BY <1>1, SeqEmpty DEF PlaceInv
<1>8. PostedInv
  BY <1>1, SeqEmpty DEF PostedInv, Posted
<1>9. DueInv
  BY <1>1 DEF DueInv
<1> QED BY <1>3, <1>4, <1>5, <1>6, <1>7, <1>8, <1>9 DEF IInv

(* Every step preserves it.                                                *)
LEMMA NextInv == IInv /\ [Next]_vars => IInv'
<1> SUFFICES ASSUME IInv, [Next]_vars PROVE IInv'
  OBVIOUS
<1>1. ASSUME NEW c \in Senders, NEW u \in Users, OnPrivateMessage(c, u) PROVE IInv'
  BY <1>1, OnPrivateMessageInv
<1>2. ASSUME NEW c \in Senders, NEW g \in Groups, OnGroupMessage(c, g) PROVE IInv'
  BY <1>2, OnGroupMessageInv
<1>3. CASE \/ \E c \in Conns : Logout(c)
           \/ \E c \in Conns : \E u \in LogsInAs[c] : Login(c, u)
           \/ \E u \in Users : SubscriptionSettles(u)
  BY <1>3, SessionInv
<1>4. ASSUME NEW w \in Workers, PoolTakes(w) PROVE IInv'
  BY <1>4, PoolTakesInv
<1>5. ASSUME NEW w \in Workers, PoolPublishes(w) PROVE IInv'
  BY <1>5, PoolPublishesInv
<1>6. ASSUME NEW w \in Workers, PoolAnswers(w) PROVE IInv'
  BY <1>6, PoolAnswersInv
<1>7. ASSUME NEW p \in PubSubs, OnRedisPubSubMessage(p) PROVE IInv'
  BY <1>7, OnRedisPubSubMessageInv
<1>8. ASSUME NEW p \in PubSubs, RedisOutage(p) PROVE IInv'
  BY <1>8, RedisOutageInv
<1>9. ASSUME NEW p \in PubSubs, NEW t \in Threads, RedisRelays(t, p) PROVE IInv'
  BY <1>9, RedisRelaysInv
<1>10. ASSUME NEW l \in Loops, SendTextMessage(l) PROVE IInv'
  BY <1>10, SendTextMessageInv
<1>11. CASE UNCHANGED vars
  <2>1. /\ TypeOK /\ JobInv /\ AnswerInv /\ OrderInv /\ PlaceInv /\ PostedInv /\ DueInv
        /\ UNCHANGED <<pipe, inbox, tasks, delivered>> /\ messages' = messages
    BY <1>11 DEF IInv, vars
  <2>2. TypeOK'
    BY <1>11, <2>1 DEF vars, TypeOK
  <2>3. JobInv' /\ AnswerInv'
    BY <1>11, <2>1 DEF vars, JobInv, AnswerInv
  <2>4. OrderInv' /\ PlaceInv' /\ Posted' = Posted
    BY <2>1, Unmoved
  <2>5. PostedInv'
    BY <1>11, <2>1, <2>4 DEF vars, PostedInv, Unpublished
  <2>6. DueInv'
    BY <1>11, <2>1 DEF vars, DueInv, OnItsWay
  <2> QED BY <2>2, <2>3, <2>4, <2>5, <2>6 DEF IInv
<1> QED BY <1>1, <1>2, <1>3, <1>4, <1>5, <1>6, <1>7, <1>8, <1>9, <1>10, <1>11 DEF Next

(* The inductive invariant holds in every behaviour.                       *)
THEOREM Invariance == Spec => []IInv
BY InitInv, NextInv, PTL DEF Spec

(* Every variable has its type, and no worker publishes for nobody.        *)
THEOREM RoutingTypes == Spec => []TypeOK
<1>1. IInv => TypeOK
  BY DEF IInv
<1> QED BY <1>1, Invariance, PTL

(* Of two messages written to a connection the first is ahead.             *)
LEMMA DeliveredFine ==
  ASSUME IInv, NEW c \in Conns, NEW i \in 1..Len(delivered[c]), NEW j \in 1..Len(delivered[c]),
         i < j
  PROVE  Fine(messages, delivered[c][i], delivered[c][j])
BY DEF IInv, OrderInv, Ordered, Chain

(* publish() tries one Redis server after the other, the listeners queue   *)
(* to every loop and the loops write to every connection, and still no     *)
(* connection is sent a message twice for the same user.                   *)
THEOREM WrittenAtMostOnce == Spec => []AtMostOnce
<1>1. ASSUME IInv PROVE AtMostOnce
  <2> SUFFICES ASSUME NEW c \in Conns,
                      NEW i \in 1..Len(delivered[c]), NEW j \in 1..Len(delivered[c]), i # j
               PROVE  ~Same(delivered[c][i], delivered[c][j])
    BY DEF AtMostOnce, Same
  <2>1. delivered[c] \in Seq(Posts)
    BY <1>1 DEF IInv, TypeOK
  <2>2. i < j \/ j < i
    BY <2>1
  <2> QED BY <2>2, <1>1, DeliveredFine DEF Fine, Same
<1> QED BY <1>1, Invariance, PTL

(* The private messages of one sender through one Redis server are written *)
(* to each connection in the order in which they were sent.                *)
THEOREM WrittenInOrder == Spec => []PrivateInOrder
<1>1. ASSUME IInv PROVE PrivateInOrder
  BY <1>1, DeliveredFine DEF PrivateInOrder, Fine, Private
<1> QED BY <1>1, Invariance, PTL

(* When no message is under way, everything a session could count on was   *)
(* written to it, and every group message has been answered.               *)
THEOREM NothingForgotten == Spec => []SessionsGetTheirMessages
<1>1. ASSUME IInv, Quiet PROVE \A d \in due : \E post \in Range(delivered[d[2]]) : post.msg = d[1]
  <2> SUFFICES ASSUME NEW d \in due PROVE \E post \in Range(delivered[d[2]]) : post.msg = d[1]
    OBVIOUS
  <2>1. OnItsWay(d[1], d[2])
    BY <1>1 DEF IInv, DueInv
  <2>2. d[1] # 0 /\ d[2] \in Conns /\ LoopOf[d[2]] \in Loops
    <3>1. 0 \notin Ids
      BY RoutingAssumption DEF Ids
    <3>2. d \in Ids \X Conns
      BY <1>1 DEF IInv, TypeOK
    <3> QED BY <3>1, <3>2, RoutingAssumption
  <2>3. \A m, u : ~Carries(<<>>, m, u)
    BY SeqEmpty DEF Carries
  <2>4. /\ \A w \in Workers : job[w] # d[1]
        /\ \A t \in Threads, p \in PubSubs : pipe[t][p] = <<>>
        /\ \A p \in PubSubs : inbox[p] = <<>>
        /\ tasks[LoopOf[d[2]]] = <<>>
    BY <2>2, <1>1 DEF Quiet
  <2>5. Carries(delivered[d[2]], d[1], user[d[2]])
    BY <2>1, <2>3, <2>4 DEF OnItsWay
  <2> QED BY <2>5 DEF Carries
<1>2. ASSUME IInv, Quiet PROVE \A m \in 1..Len(messages) : answers[m] # "pending"
  <2>1. \A m \in 1..Len(messages) : m # 0
    OBVIOUS
  <2>2. Len(jobs) = 0 /\ \A w \in Workers : job[w] = 0
    BY <1>2 DEF Quiet
  <2> QED BY <2>1, <2>2, <1>2 DEF IInv, AnswerInv
<1>3. IInv => SessionsGetTheirMessages
  BY <1>1, <1>2 DEF SessionsGetTheirMessages
<1> QED BY <1>3, Invariance, PTL
=============================================================================
