------------------------------ MODULE QueueMoves ------------------------------
(***************************************************************************)
(* Construction, destruction, move construction and move assignment of     *)
(* moodycamel::BlockingReaderWriterQueue, of include/moodycammel_queue.hpp,*)
(* and of the ReaderWriterQueue inside it.  "The queue should not be       *)
(* accessed concurrently while it's being moved": one thread does it all.  *)
(* A queue owns a circle of blocks, of which only the number of elements   *)
(* matters here, and a semaphore, of which only the count does.  Any       *)
(* allocation may fail, and then throws.                                   *)
(*                                                                         *)
(* An operator named Bug... is what a slip in the code would make of the   *)
(* definition after it; nothing uses it but the mutants of PROJECT.json.   *)
(***************************************************************************)
EXTENDS Integers, FiniteSets

CONSTANTS
  Queues,      \* places where a BlockingReaderWriterQueue may be constructed
  Circles,     \* memory for circles of blocks
  Semas,       \* memory for semaphores
  Null,        \* the null pointer
  MaxElements  \* bound: elements in a queue, and the count of a semaphore

ASSUME MovesAssumption ==
  /\ Null \notin Circles \cup Semas
  /\ MaxElements \in Nat

VARIABLES
  inner,    \* each constructed queue: its circle
  sema,     \* each constructed queue: its semaphore, or Null
  elements, \* each allocated circle: how many elements it holds
  count,    \* each allocated semaphore: m_count
  failed    \* history: an assignment ran out of memory

vars == <<inner, sema, elements, count, failed>>

Made == DOMAIN inner

\* Any memory will do: malloc may return all that is free, and none is told from another.
MemoryLeft == DOMAIN elements # Circles
SemaLeft == DOMAIN count # Semas
NewCircle == CHOOSE c \in Circles : c \notin DOMAIN elements
NewSema == CHOOSE s \in Semas : s \notin DOMAIN count

\* A function with one more argument in its domain, and with one fewer.
With(f, x, value) == [y \in DOMAIN f \cup {x} |-> IF y = x THEN value ELSE f[y]]
Without(f, x) == [y \in DOMAIN f \ {x} |-> f[y]]
Swapped(f, x, y) == [f EXCEPT ![x] = f[y], ![y] = f[x]]

NoFunction == [x \in {} |-> Null]

Init ==
  /\ inner = NoFunction /\ sema = NoFunction
  /\ elements = NoFunction /\ count = NoFunction
  /\ failed = FALSE

\* Without memory it throws, and what was made of the queue is destroyed again.
Construct(q) ==
  /\ q \notin Made /\ MemoryLeft /\ SemaLeft
  /\ inner' = With(inner, q, NewCircle) /\ elements' = With(elements, NewCircle, 0)
  /\ sema' = With(sema, q, NewSema) /\ count' = With(count, NewSema, 0)
  /\ UNCHANGED failed

\* The queue that was moved from keeps its blocks.
BugTakeInner(q, other) ==
  /\ inner' = With(inner, q, inner[other])
  /\ UNCHANGED elements

\* The inner move constructor: q takes the circle of the other, which gets a new one
\* of one block.  Without memory it throws, and neither queue has changed.
TakeInner(q, other) ==
  /\ MemoryLeft
  /\ inner' = With([inner EXCEPT ![other] = NewCircle], q, inner[other])
  /\ elements' = With(elements, NewCircle, 0)

MoveConstruct(q, other) ==
  /\ q \notin Made /\ other \in Made
  /\ TakeInner(q, other)
  /\ sema' = With([sema EXCEPT ![other] = Null], q, sema[other])
  /\ UNCHANGED <<count, failed>>

\* The semaphores stay where they are.
BugSwapSemas(q, other) == UNCHANGED sema

SwapSemas(q, other) == sema' = Swapped(sema, q, other)

\* std::swap of the inner queues: a temporary is move constructed from one, which
\* needs a new circle for it; two move assignments; and the temporary is destroyed,
\* with the new circle.
SwapInners(q, other) ==
  /\ MemoryLeft
  /\ inner' = Swapped(inner, q, other)

\* The semaphores are swapped first, and stay so when the temporary cannot be made.
MoveAssign(q, other) ==
  /\ q \in Made /\ other \in Made
  /\ SwapSemas(q, other)
  /\ \/ SwapInners(q, other) /\ UNCHANGED failed
     \/ UNCHANGED inner /\ failed' = TRUE
  /\ UNCHANGED <<elements, count>>

\* What ~ReaderWriterQueue leaves of the circles.
Destroyed(q) == Without(elements, inner[q])

Destroy(q) ==
  /\ q \in Made
  /\ inner' = Without(inner, q) /\ elements' = Destroyed(q)
  /\ sema' = Without(sema, q) /\ count' = Without(count, sema[q])
  /\ UNCHANGED failed

\* A queue that was moved from has no semaphore, and must not be used.
Usable(q) == q \in Made /\ sema[q] # Null

Enqueue(q) ==
  /\ Usable(q) /\ elements[inner[q]] < MaxElements /\ count[sema[q]] < MaxElements
  /\ elements' = [elements EXCEPT ![inner[q]] = @ + 1]
  /\ count' = [count EXCEPT ![sema[q]] = @ + 1]
  /\ UNCHANGED <<inner, sema, failed>>

\* When the count promises an element that is not there, the assert is compiled out
\* and the call returns true all the same.
TryDequeue(q) ==
  /\ Usable(q) /\ count[sema[q]] > 0
  /\ count' = [count EXCEPT ![sema[q]] = @ - 1]
  /\ elements' = [elements EXCEPT ![inner[q]] = IF @ > 0 THEN @ - 1 ELSE 0]
  /\ UNCHANGED <<inner, sema, failed>>

Next ==
  \E q \in Queues :
    \/ Construct(q) \/ Destroy(q) \/ Enqueue(q) \/ TryDequeue(q)
    \/ \E other \in Queues : MoveConstruct(q, other) \/ MoveAssign(q, other)

Spec == Init /\ [][Next]_vars
------------------------------------------------------------------------------
(* Properties *)

\* Nothing is freed twice, used after it was freed or leaked, whatever is moved where:
\* each circle and each semaphore that is allocated has one owner.
OwnedOnce ==
  /\ {inner[q] : q \in Made} = DOMAIN elements
  /\ {sema[q] : q \in Made} \ {Null} = DOMAIN count
  /\ \A q, r \in Made :
       q # r => inner[q] # inner[r] /\ (sema[q] # sema[r] \/ sema[q] = Null)

\* The elements a queue's semaphore promises are those in its inner queue, and a queue
\* that was moved from has none, unless an assignment ran out of memory half-way.
CountsMatch ==
  ~failed => \A q \in Made :
    elements[inner[q]] = IF sema[q] = Null THEN 0 ELSE count[sema[q]]
==============================================================================
