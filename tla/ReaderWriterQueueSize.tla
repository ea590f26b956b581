------------------------ MODULE ReaderWriterQueueSize -------------------------
(***************************************************************************)
(* size_approx and max_capacity of moodycamel::ReaderWriterQueue, called   *)
(* by the producer or by the consumer while the other goes on: a walk once *)
(* round the circle of blocks, from the front block back to it, that adds  *)
(* up what each block holds, or could.  Nothing stops the indices, or the  *)
(* circle, from changing under it.                                         *)
(*                                                                         *)
(* The two functions make the same walk, so one walk here finds both sums. *)
(* A step loads at most one variable that the other thread writes.         *)
(*                                                                         *)
(* An operator named Bug... is what a slip in the code would make of the   *)
(* definition after it; nothing uses it but the mutants of PROJECT.json.   *)
(***************************************************************************)
EXTENDS ReaderWriterQueue

VARIABLE
  walk    \* who walks, where the walk began, where it is, whether it counted that block,
          \* and the sums of size_approx and of max_capacity.  History: the elements that
          \* the other thread had published or removed, and what the blocks could hold,
          \* as the walk began.

NoWalk == [caller |-> "nobody", first |-> 0, at |-> 0, counted |-> FALSE, result |-> 0,
           capacity |-> 0, otherAtStart |-> 0, capacityAtStart |-> 0]

\* Tail indices below their front ones are not taken modulo the size of the block.
BugHeld(b, front, tail) == IF tail < front THEN 0 ELSE tail - front

\* The elements between two indices of a block.
Held(b, front, tail) == (tail - front) % blockSize[b]

\* What the blocks in the circle could hold, as a thread sees it.
CapacityTo(t) ==
  LET circle[k \in 0 .. blocks] ==
        IF k = 0 THEN Own(t, "block", "front") ELSE Own(t, "next", circle[k - 1])
  IN MapThenSumSet(LAMBDA b : blockSize[b] - 1, {circle[k] : k \in 0 .. blocks})

Quiet(t) == IF t = "producer" THEN enqPc = "idle" ELSE deqPc = "idle"

WalkBegin(t) ==
  /\ walk.caller = "nobody" /\ Quiet(t)
  /\ walk' = [NoWalk EXCEPT
       !.caller = t, !.first = Own(t, "block", "front"), !.at = Own(t, "block", "front"),
       !.otherAtStart = IF t = "producer" THEN removed ELSE published,
       !.capacityAtStart = CapacityTo(t)]

Seen(var) == Own(walk.caller, var, walk.at)

WalkCount ==
  /\ walk.caller # "nobody" /\ ~walk.counted
  /\ walk' = [walk EXCEPT
       !.result = @ + Held(walk.at, Seen("front"), Seen("tail")),
       !.capacity = @ + blockSize[walk.at] - 1,
       !.counted = TRUE]

WalkOn ==
  /\ walk.counted
  /\ walk' = IF Seen("next") = walk.first THEN NoWalk
             ELSE [walk EXCEPT !.at = Seen("next"), !.counted = FALSE]

Walk == (\E t \in {"producer", "consumer"} : WalkBegin(t)) \/ WalkCount \/ WalkOn

SizeNext ==
  \/ Walk /\ UNCHANGED vars
  \/ walk.caller # "producer" /\ Enqueue /\ UNCHANGED walk
  \/ walk.caller # "consumer" /\ Dequeue /\ UNCHANGED walk
  \/ \E t \in {"producer", "consumer"} : Drain(t) /\ UNCHANGED walk

SizeSpec == Init /\ walk = NoWalk /\ [][SizeNext]_<<vars, walk>>
------------------------------------------------------------------------------
(* Properties *)

\* What size_approx returns is a number of elements the queue did hold at some moment
\* of the call.  To the consumer, an element whose enqueue is not over may count.
SizeBetween ==
  IF walk.caller = "producer"
    THEN pushed - removed <= walk.result /\ walk.result <= pushed - walk.otherAtStart
    ELSE walk.otherAtStart - popped <= walk.result /\ walk.result <= pushed - popped

\* "The total number of items that could be enqueued without incurring an allocation
\* when this queue is empty" at some moment of the call, and never less than the
\* constructor was asked for.
CapacityBetween == walk.capacityAtStart <= walk.capacity /\ Size <= walk.capacity

\* "Safe to call from both the producer and consumer threads": however the indices and
\* the circle change under the walk, it counts no block twice, so it returns, and it
\* returns the right sums.
SumsBetween ==
  [][walk.caller # "nobody" =>
       /\ walk.capacity <= CapacityTo(walk.caller)
       /\ walk'.caller = "nobody" => SizeBetween /\ CapacityBetween]_<<vars, walk>>
==============================================================================
