----------------------------- MODULE BoundedFifo -----------------------------
(***************************************************************************)
(* What a single-producer single-consumer queue promises: a bounded queue  *)
(* that hands its elements out once each, in the order they went in.  An   *)
(* element is its position in the stream of successful pushes.             *)
(***************************************************************************)
EXTENDS Integers, Sequences

CONSTANT Capacity

VARIABLES
  queue,      \* the elements pushed and not yet popped, oldest first
  sent,       \* how many elements were pushed: the name of the next one
  returned    \* the last element a successful pop returned, -1 for none

vars == <<queue, sent, returned>>

Init == queue = <<>> /\ sent = 0 /\ returned = -1

Put ==
  /\ Len(queue) < Capacity
  /\ queue' = Append(queue, sent)
  /\ sent' = sent + 1
  /\ UNCHANGED returned

Get ==
  /\ queue # <<>>
  /\ returned' = Head(queue)
  /\ queue' = Tail(queue)
  /\ UNCHANGED sent

\* The queue is destroyed, with whatever it still holds.
Discard == queue' = <<>> /\ UNCHANGED <<sent, returned>>

Next == Put \/ Get \/ Discard

Spec == Init /\ [][Next]_vars
==============================================================================
