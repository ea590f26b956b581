-------------------------- MODULE ReaderWriterQueue --------------------------
(***************************************************************************)
(* moodycamel::ReaderWriterQueue of include/moodycammel_queue.hpp: a       *)
(* circular list of blocks, each a ring of its own.  The producer fills    *)
(* the tail block, goes on to the next block when the consumer has left    *)
(* it, and otherwise puts a new block in between; the consumer empties the *)
(* front block and goes on when the tail block is another.                 *)
(*                                                                         *)
(* Memory.  The atomics are relaxed and the fences cost nothing on x86, so *)
(* the memory is that of x86: a thread's stores wait in a buffer of its    *)
(* own, where only the thread itself sees them, and reach memory one by    *)
(* one in order.  Each variable has one writer, who needs no step to load  *)
(* it; a step is at most one load of what the other thread writes, with    *)
(* the stores that follow it.                                              *)
(*                                                                         *)
(* An element is its position in the stream of enqueues, and takes one     *)
(* store.  Constructing or moving it may throw.                            *)
(*                                                                         *)
(* An operator named Bug... is what a slip in the code would make of the   *)
(* definition after it; nothing uses it but the mutants of PROJECT.json.   *)
(***************************************************************************)
EXTENDS Integers, Sequences, FiniteSetsExt, SequencesExt

CONSTANTS
  Shapes,         \* pairs of a MAX_BLOCK_SIZE and the size given to the constructor,
                  \* which takes zero as well
  MaxNew,         \* bound: blocks made by enqueue, malloc fails after that
  MaxPush,        \* bound: elements enqueued in a behaviour
  MaxPending      \* bound: stores in a thread's buffer

ASSUME SizeAssumption ==
  /\ Shapes \subseteq (Nat \ {0, 1}) \X Nat
  /\ IsFiniteSet(Shapes) /\ Shapes # {}
  /\ MaxNew \in Nat /\ MaxPush \in Nat
  /\ MaxPending \in Nat /\ MaxPending >= 3

VARIABLES
  mem,                \* what the threads share
  pending,            \* the stores of each thread that are not in memory yet
  shape,              \* the queue's element of Shapes
  blocks, blockSize,  \* how many blocks were made, and the slots of each
  largestBlockSize,
  localFront, localTail,        \* of each block: the two shadow copies
  enqPc,                        \* where inner_enqueue is
  deqPc, op, block_, front_,    \* where try_dequeue, pop or peek is; its block and index
  \* History: elements enqueued by the producer, enqueued in memory, taken by the
  \* consumer, taken in memory; published and removed as the current calls began;
  \* slots with an object; the last element taken.
  pushed, published, popped, removed, publishedAtStart, removedAtStart, live, returned

producerVars == <<localFront, enqPc, pushed, removedAtStart>>
blockVars    == <<blocks, blockSize, largestBlockSize>>
growVars     == <<blockVars, mem, localTail>>          \* what only a new block changes
consumerVars == <<deqPc, op, block_, front_, popped, publishedAtStart, returned>>
vars == <<producerVars, growVars, consumerVars, published, removed, pending, shape, live>>

\* make_block rounds nothing; the constructor rounds up to a power of two.
CeilToPow2(x) ==
  LET power[k \in 0 .. x] == IF k = 0 THEN 1 ELSE 2 * power[k - 1]
  IN Min({p \in {power[k] : k \in 0 .. x} : p >= x})

Large(max, size) == CeilToPow2(size + 1) > 2 * max
FirstBlockSize(max, size) == IF Large(max, size) THEN max ELSE CeilToPow2(size + 1)

\* No spare block.
BugInitialBlockCount(max, size) ==
  IF Large(max, size) THEN (size + max - 2) \div (max - 1) ELSE 1

InitialBlockCount(max, size) ==
  IF Large(max, size) THEN (size + 2 * max - 3) \div (max - 1) ELSE 1

Blocks == UNION {0 .. InitialBlockCount(q[1], q[2]) + MaxNew - 1 : q \in Shapes}
Slots  == Blocks \X UNION {0 .. 2 * q[1] - 1 : q \in Shapes}

MaxBlockSize  == shape[1]
Size          == shape[2]

Init ==
  /\ shape \in Shapes
  /\ blocks = InitialBlockCount(MaxBlockSize, Size)
  /\ largestBlockSize = FirstBlockSize(MaxBlockSize, Size)
  /\ blockSize = [b \in Blocks |-> IF b < blocks THEN largestBlockSize ELSE 0]
  /\ mem = [ block |-> [end \in {"front", "tail"} |-> 0],   \* frontBlock and tailBlock
             front |-> [b \in Blocks |-> 0],
             tail  |-> [b \in Blocks |-> 0],
             next  |-> [b \in Blocks |-> IF b < blocks THEN (b + 1) % blocks ELSE 0],
             data  |-> [s \in Slots |-> -1] ]
  /\ pending = [t \in {"producer", "consumer"} |-> <<>>]
  /\ localFront = [b \in Blocks |-> 0] /\ localTail = [b \in Blocks |-> 0]
  /\ enqPc = "idle"
  /\ deqPc = "idle" /\ op = "none" /\ block_ = 0 /\ front_ = 0
  /\ pushed = 0 /\ published = 0 /\ popped = 0 /\ removed = 0
  /\ publishedAtStart = 0 /\ removedAtStart = 0
  /\ live = {} /\ returned = -1
------------------------------------------------------------------------------
(* Memory *)

\* History: of is the element that the store is for.
Store(var, at, value, of) == [var |-> var, at |-> at, value |-> value, of |-> of]

\* A thread stores, in this order.
Stores(t, stores) ==
  /\ Len(pending[t]) + Len(stores) <= MaxPending
  /\ pending' = [pending EXCEPT ![t] = @ \o stores]

\* What a variable is to a thread with these stores in its buffer.
View(memory, stores, var, at) ==
  LET mine == {k \in DOMAIN stores : stores[k].var = var /\ stores[k].at = at}
  IN IF mine = {} THEN memory[var][at] ELSE stores[Max(mine)].value

\* What a thread loads from a variable only it writes.
Own(t, var, at) == View(mem, pending[t], var, at)

\* The oldest store of a thread reaches memory.  With the tail of the tail block, or
\* the tail block itself, the consumer can find one more element.
Drain(t) ==
  /\ pending[t] # <<>>
  /\ LET s == Head(pending[t]) IN
       /\ mem' = [mem EXCEPT ![s.var][s.at] = s.value]
       /\ published' = IF \/ s.var = "tail" /\ s.at = mem.block["tail"]
                          \/ s.var = "block" /\ s.at = "tail"
                         THEN published + 1 ELSE published
       /\ removed' = IF s.var = "front" THEN removed + 1 ELSE removed
  /\ pending' = [pending EXCEPT ![t] = Tail(@)]
  /\ UNCHANGED <<producerVars, blockVars, consumerVars, shape, localTail, live>>
------------------------------------------------------------------------------
(* inner_enqueue *)

TailBlock == Own("producer", "block", "tail")
TailOf(b) == Own("producer", "tail", b)
NextOf(b) == Own("producer", "next", b)
After(b, slot) == (slot + 1) % blockSize[b]

\* The element goes into a slot, and the stores after it make it known.
Construct(b, slot, stores) ==
  /\ Stores("producer", <<Store("data", <<b, slot>>, pushed, pushed)>> \o stores)
  /\ live' = live \cup {<<b, slot>>}
  /\ pushed' = pushed + 1

\* No element: the constructor throws, or does not run in this step.
NoElement == UNCHANGED <<pending, live, pushed>>

\* The call returns, or throws.
EnqueueReturn == enqPc' = "idle" /\ removedAtStart' = 0

\* The shadow copy is never loaded again.
BugFrontLooked == UNCHANGED localFront

\* The shadow copy of the tail block's front, loaded again if it says full.
FrontLooked ==
  LET b == TailBlock IN
  localFront' = [localFront EXCEPT
    ![b] = IF After(b, TailOf(b)) # @ THEN @ ELSE mem.front[b]]

HasRoom == After(TailBlock, TailOf(TailBlock)) # localFront'[TailBlock]

EnqueueHere ==
  LET b == TailBlock  slot == TailOf(b) IN
  /\ enqPc = "idle" /\ pushed < MaxPush
  /\ FrontLooked /\ HasRoom
  /\ Construct(b, slot, <<Store("tail", b, After(b, slot), pushed)>>) \/ NoElement
  /\ UNCHANGED <<enqPc, removedAtStart, growVars>>

EnqueueFull ==
  /\ enqPc = "idle" /\ pushed < MaxPush
  /\ FrontLooked /\ ~HasRoom
  /\ enqPc' = "next" /\ removedAtStart' = removed
  /\ NoElement /\ UNCHANGED growVars

\* The block that the consumer is in will do.
BugBlockAhead == NextOf(TailBlock) # TailBlock

\* The consumer has left the block after the tail block.
BlockAhead == NextOf(TailBlock) # mem.block["front"]

EnqueueAhead ==
  /\ enqPc = "next" /\ BlockAhead
  /\ enqPc' = "reuse"
  /\ NoElement /\ UNCHANGED <<localFront, removedAtStart, growVars>>

\* The block becomes the tail block before it has its element.
BugEnter(b, slot) == <<Store("block", "tail", b, pushed), Store("tail", b, After(b, slot), pushed)>>

\* The stores that make a block with its first element the tail block.
Enter(b, slot) == <<Store("tail", b, After(b, slot), pushed), Store("block", "tail", b, pushed)>>

EnqueueReuse ==
  LET b == NextOf(TailBlock)  slot == TailOf(b) IN
  /\ enqPc = "reuse"
  /\ localFront' = [localFront EXCEPT ![b] = mem.front[b]]
  /\ Construct(b, slot, Enter(b, slot)) \/ NoElement
  /\ EnqueueReturn /\ UNCHANGED growVars

NewBlockSize ==
  IF largestBlockSize >= MaxBlockSize THEN largestBlockSize ELSE 2 * largestBlockSize

\* The block becomes the tail block without being linked to.
BugInsert(b) == <<Store("block", "tail", b, pushed)>>

\* The stores that put a new block after the tail block and make it the tail block.
Insert(b) == <<Store("next", TailBlock, b, pushed), Store("block", "tail", b, pushed)>>

\* enqueue makes a block.  What is stored in it before anyone can reach it is
\* in memory at once; a block made for an element that throws is lost.
EnqueueGrow ==
  LET b == blocks IN
  /\ enqPc = "next" /\ ~BlockAhead
  /\ blocks < InitialBlockCount(MaxBlockSize, Size) + MaxNew
  /\ blocks' = blocks + 1
  /\ blockSize' = [blockSize EXCEPT ![b] = NewBlockSize]
  /\ largestBlockSize' = NewBlockSize
  /\ \/ /\ mem' = [mem EXCEPT !.data[<<b, 0>>] = pushed, !.tail[b] = 1,
                              !.next[b] = NextOf(TailBlock)]
        /\ localTail' = [localTail EXCEPT ![b] = 1]
        /\ Stores("producer", Insert(b))
        /\ live' = live \cup {<<b, 0>>}
        /\ pushed' = pushed + 1
     \/ NoElement /\ UNCHANGED <<mem, localTail>>
  /\ EnqueueReturn /\ UNCHANGED localFront

\* try_enqueue may not make a block, and enqueue may fail to.
EnqueueRefused ==
  /\ enqPc = "next" /\ ~BlockAhead
  /\ EnqueueReturn
  /\ NoElement /\ UNCHANGED <<localFront, growVars>>

Enqueue ==
  /\ \/ EnqueueHere \/ EnqueueFull \/ EnqueueAhead \/ EnqueueReuse \/ EnqueueGrow
     \/ EnqueueRefused
  /\ UNCHANGED <<consumerVars, published, removed, shape>>
------------------------------------------------------------------------------
(* try_dequeue, pop and peek: an op is "remove" or "peek" *)

FrontBlock == Own("consumer", "block", "front")
FrontOf(b) == Own("consumer", "front", b)

\* The next step takes the element there.
TakeFrom(b, slot) == deqPc' = "take" /\ block_' = b /\ front_' = slot

\* The next step is another.
GoTo(pc) == deqPc' = pc /\ UNCHANGED <<block_, front_>>

\* Is there an element in a block, going by that tail?
LookIn(b, tail, otherwise) ==
  /\ localTail' = [localTail EXCEPT ![b] = tail]
  /\ IF FrontOf(b) # tail THEN TakeFrom(b, FrontOf(b)) ELSE GoTo(otherwise)

\* The call returns; its locals are gone.
Return ==
  /\ deqPc' = "idle" /\ op' = "none" /\ block_' = 0 /\ front_' = 0
  /\ publishedAtStart' = 0

InCall == UNCHANGED <<op, publishedAtStart>>
NoneTaken == UNCHANGED <<popped, returned, live>>

\* The shadow copy of the front block's tail, loaded again if it says empty.
DequeueBegin(o) ==
  LET b == FrontBlock IN
  /\ deqPc = "idle"
  /\ op' = o /\ publishedAtStart' = published
  /\ LookIn(b, IF FrontOf(b) # localTail[b] THEN localTail[b] ELSE mem.tail[b], "look")
  /\ NoneTaken /\ UNCHANGED pending

\* An empty front block is taken for an empty queue.
BugMoreBlocks == FALSE

MoreBlocks == FrontBlock # mem.block["tail"]

DequeueLook ==
  /\ deqPc = "look"
  /\ IF MoreBlocks THEN GoTo("again") /\ InCall ELSE Return
  /\ NoneTaken /\ UNCHANGED <<pending, localTail>>

\* The front block is not looked at again.
BugDequeueAgain ==
  /\ deqPc = "again" /\ GoTo("next")
  /\ InCall /\ NoneTaken /\ UNCHANGED <<pending, localTail>>

DequeueAgain ==
  /\ deqPc = "again"
  /\ LookIn(FrontBlock, mem.tail[FrontBlock], "next")
  /\ InCall /\ NoneTaken /\ UNCHANGED pending

DequeueNext ==
  LET b == mem.next[FrontBlock] IN
  /\ deqPc = "next"
  /\ IF op = "peek"
       THEN TakeFrom(b, FrontOf(b))
       ELSE deqPc' = "advance" /\ block_' = b /\ UNCHANGED front_
  /\ InCall /\ NoneTaken /\ UNCHANGED <<pending, localTail>>

DequeueAdvance ==
  /\ deqPc = "advance"
  /\ localTail' = [localTail EXCEPT ![block_] = mem.tail[block_]]
  /\ Stores("consumer", <<Store("block", "front", block_, popped)>>)
  /\ TakeFrom(block_, FrontOf(block_))
  /\ InCall /\ NoneTaken

DequeueTake ==
  /\ deqPc = "take" /\ op = "remove"
  /\ returned' = mem.data[<<block_, front_>>]
  /\ popped' = popped + 1
  /\ live' = live \ {<<block_, front_>>}
  /\ Stores("consumer", <<Store("front", block_, After(block_, front_), popped)>>)
  /\ Return /\ UNCHANGED localTail

\* peek leaves the element; the assignment of try_dequeue may throw.
DequeueLeave ==
  /\ deqPc = "take"
  /\ Return /\ NoneTaken /\ UNCHANGED <<pending, localTail>>

Dequeue ==
  /\ \/ \E o \in {"remove", "peek"} : DequeueBegin(o)
     \/ DequeueLook \/ DequeueAgain \/ DequeueNext \/ DequeueAdvance \/ DequeueTake
     \/ DequeueLeave
  /\ UNCHANGED <<producerVars, blockVars, mem, published, removed, shape>>
------------------------------------------------------------------------------
Next == Enqueue \/ Dequeue \/ \E t \in {"producer", "consumer"} : Drain(t)

Spec == Init /\ [][Next]_vars

\* Stores reach memory; the producer keeps calling try_enqueue, and the consumer
\* try_dequeue or pop, and neither is stopped by an exception every time.
FairSpec ==
  /\ Spec
  /\ \A t \in {"producer", "consumer"} : WF_vars(Drain(t))
  /\ WF_vars(Enqueue) /\ WF_vars(Dequeue)
  /\ SF_vars(Enqueue /\ blocks' = blocks /\ pushed' # pushed)
  /\ SF_vars(Dequeue /\ deqPc = "idle" /\ op' = "remove") /\ SF_vars(Dequeue /\ popped' # popped)
------------------------------------------------------------------------------
(* What is in the queue *)

\* The k-th block from the front one, and the elements of a block in memory.
BlockAt[k \in 0 .. blocks] == IF k = 0 THEN FrontBlock ELSE mem.next[BlockAt[k - 1]]

Count(b) == (mem.tail[b] - FrontOf(b)) % blockSize[b]
SlotAt(b, j) == <<b, (FrontOf(b) + j) % blockSize[b]>>
Elements(b) == [j \in 1 .. Count(b) |-> mem.data[SlotAt(b, j - 1)]]

\* What the consumer can find, from the front block to the tail block.
Contents ==
  LET last == Min({k \in 0 .. blocks : BlockAt[k] = mem.block["tail"]})
  IN FlattenSeq([k \in 1 .. last + 1 |-> Elements(BlockAt[k - 1])])

\* A block's elements are taken to lie between its indices, in that order.
BugDestroyed ==
  UNION {{<<b, j>> : j \in FrontOf(b) .. mem.tail[b] - 1} : b \in {BlockAt[k] : k \in 0 .. blocks}}

\* The objects the destructor destroys, going once round the blocks.
Destroyed ==
  UNION {{SlotAt(b, j) : j \in 0 .. Count(b) - 1} : b \in {BlockAt[k] : k \in 0 .. blocks}}
------------------------------------------------------------------------------
(* Properties *)

TypeOK ==
  /\ DOMAIN mem = {"block", "front", "tail", "next", "data"}
  /\ mem.block \in [{"front", "tail"} -> 0 .. blocks - 1]
  /\ mem.front \in [Blocks -> 0 .. largestBlockSize - 1]
  /\ mem.tail \in [Blocks -> 0 .. largestBlockSize - 1]
  /\ mem.next \in [Blocks -> 0 .. blocks - 1]
  /\ mem.data \in [Slots -> -1 .. MaxPush - 1]
  /\ \A t \in DOMAIN pending : Len(pending[t]) <= MaxPending
  /\ shape \in Shapes /\ blocks \in 1 .. Max(Blocks) + 1
  /\ blockSize \in [Blocks -> 0 .. largestBlockSize]
  /\ localFront \in [Blocks -> Nat] /\ localTail \in [Blocks -> Nat]
  /\ enqPc \in {"idle", "next", "reuse"}
  /\ deqPc \in {"idle", "look", "again", "next", "advance", "take"}
  /\ op \in {"none", "remove", "peek"} /\ block_ \in Blocks /\ front_ \in Nat
  /\ live \subseteq Slots /\ returned \in -1 .. MaxPush - 1

\* What try_dequeue, pop or peek is about to use is the oldest element, complete and
\* alive, whichever way it was found and wherever the producer is by then.
TakesNext ==
  deqPc = "take" =>
    /\ <<block_, front_>> \in live
    /\ mem.data[<<block_, front_>>] = popped
    /\ popped < published

\* The asserts: there is an element in the block ahead that the consumer advances to, or
\* that peek looks into, and none in the one that the producer advances to.
AssertsHold ==
  /\ deqPc = "advance" => FrontOf(block_) # mem.tail[block_]
  /\ deqPc = "take" /\ op = "peek" => front_ # mem.tail[block_]
  /\ enqPc = "reuse" => mem.front[NextOf(TailBlock)] = TailOf(NextOf(TailBlock))

\* Every object is destroyed once, by its dequeue or with the queue: none is built
\* over another, and the destructor of a quiet queue finds those that are left, even
\* if exceptions struck before.
ObjectLifetimes ==
  /\ Cardinality(live) = pushed - popped
  /\ (enqPc = "idle" /\ deqPc = "idle" /\ \A t \in DOMAIN pending : pending[t] = <<>>) =>
       Destroyed = live

\* "If the queue is empty, returns false instead": only then, however the producer
\* moved on between the loads.  An element enqueued before the call began is found.
EmptyIsTrue == [][deqPc = "look" /\ deqPc' = "idle" => publishedAtStart = popped]_vars

\* "Constructs a queue that can hold at least size elements without further
\* allocations": try_enqueue fails only if it did hold so many as the call began.
RefusesOnlyWhenFull ==
  [][(enqPc = "next" /\ enqPc' = "idle" /\ pushed' = pushed /\ blocks' = blocks) =>
       pushed - removedAtStart >= Size]_vars

\* A producer that retries gets every element in without making a block, and a
\* consumer that polls gets every element.
EventuallyThrough == <>(popped = MaxPush)

\* Nothing is leaked but what the code says it is: the destructor reaches every block
\* that was made, however the two ends and the store buffers stand, except a block
\* whose first element threw, which nothing refers to any more.
BlocksKept ==
  LET circle[k \in 0 .. blocks] == IF k = 0 THEN FrontBlock ELSE NextOf(circle[k - 1])
      lost == {b \in InitialBlockCount(MaxBlockSize, Size) .. blocks - 1 :
                 mem.data[<<b, 0>>] = -1}
  IN {circle[k] : k \in 0 .. blocks} = (0 .. blocks - 1) \ lost

Fifo == INSTANCE BoundedFifo WITH
  Capacity <- MaxPush,
  queue    <- Contents,
  sent     <- published,
  returned <- returned

\* The blocks implement one queue: growing, going on to a block left by the consumer
\* and failing half-way do not show.
RefinesFifo == Fifo!Spec
==============================================================================
