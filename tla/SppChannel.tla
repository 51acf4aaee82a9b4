----------------------------- MODULE SppChannel ------------------------------
(* What the module promises the MCU: a bounded queue that takes an event   *)
(* while it has room and hands each over once, in the order taken.         *)
EXTENDS Sequences, Naturals

CONSTANTS Msg, Capacity
VARIABLES queue, received

Init == queue = <<>> /\ received = <<>>

Accept(m) ==
  /\ Len(queue) < Capacity
  /\ queue' = Append(queue, m)
  /\ UNCHANGED received

Deliver ==
  /\ queue # <<>>
  /\ received' = Append(received, Head(queue))
  /\ queue' = Tail(queue)

Next == Deliver \/ \E m \in Msg : Accept(m)

Spec == Init /\ [][Next]_<<queue, received>>
=============================================================================
