---------------------------- MODULE PubSubMailbox ----------------------------
(***************************************************************************)
(* What a RedisPubSub object promises to its callback: a queue.  Messages  *)
(* enter while the connection is open, leave at the front, one at a time,  *)
(* and are given up only when the connection breaks, and then only the     *)
(* youngest of them.                                                       *)
(***************************************************************************)
EXTENDS Naturals, Sequences

CONSTANT Payload   \* what can be published

VARIABLES
  queue,      \* accepted and not yet handed to the callback
  delivered,  \* handed to the callback, in order
  open        \* the connection is intact

vars == <<queue, delivered, open>>

Init == queue = <<>> /\ delivered = <<>> /\ open = TRUE

Accept(m) ==
  /\ open
  /\ queue' = Append(queue, m)
  /\ UNCHANGED <<delivered, open>>

Deliver ==
  /\ queue # <<>>
  /\ delivered' = Append(delivered, Head(queue))
  /\ queue' = Tail(queue)
  /\ UNCHANGED open

Break ==
  /\ open
  /\ open' = FALSE
  /\ \E k \in 0..Len(queue) : queue' = SubSeq(queue, 1, k)
  /\ UNCHANGED delivered

Next == Deliver \/ Break \/ \E m \in Payload : Accept(m)

Spec == Init /\ [][Next]_vars
=============================================================================
