------------------------------ MODULE ByteStream ------------------------------
(***************************************************************************)
(* What a single-writer single-reader byte buffer promises: messages go in *)
(* whole and at once, or not at all; bytes come out in order, in chunks    *)
(* that need not be the messages.  A byte is its position in the stream.   *)
(***************************************************************************)
EXTENDS Integers, Sequences

CONSTANT Capacity

VARIABLES
  queue,      \* the bytes written and not yet read
  sent,       \* how many bytes were written
  returned    \* the last chunk read

vars == <<queue, sent, returned>>

Init == queue = <<>> /\ sent = 0 /\ returned = <<>>

Put ==
  \E size \in 0 .. Capacity - Len(queue) :
    /\ queue' = queue \o [j \in 1 .. size |-> sent + j - 1]
    /\ sent' = sent + size
    /\ UNCHANGED returned

Get ==
  \E size \in 0 .. Len(queue) :
    /\ queue # <<>>
    /\ returned' = SubSeq(queue, 1, size)
    /\ queue' = SubSeq(queue, size + 1, Len(queue))
    /\ UNCHANGED sent

Next == Put \/ Get

Spec == Init /\ [][Next]_vars
==============================================================================
