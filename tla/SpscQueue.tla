------------------------------ MODULE SpscQueue ------------------------------
(***************************************************************************)
(* SPSCQueue<T> of include/spsc_queue.hpp: a ring of slots between one     *)
(* producer thread (try_push) and one consumer thread (try_pop), and the   *)
(* destructor that runs after both.                                        *)
(*                                                                         *)
(* Grain.  A step does at most one access to memory the other thread also  *)
(* accesses.  Each index is stored by one thread only, so that thread's    *)
(* relaxed load of its own index always returns the last value it stored   *)
(* and needs no step.  An acquire load of the other thread's index may be  *)
(* stale: it returns any value stored since the last one this thread saw   *)
(* (coherence), and the thread then knows every access the other thread    *)
(* made before storing that value (release/acquire).                       *)
(*                                                                         *)
(* An element is its position in the stream of pushes, counted from 0: the *)
(* payload matters only in that the right one comes out.                   *)
(*                                                                         *)
(* An operator named Bug... is what a slip in the code would make of the   *)
(* definition after it; nothing uses it but the mutants of PROJECT.json.   *)
(***************************************************************************)
EXTENDS Integers, Sequences

CONSTANTS
  Slots,      \* bufferSizeSlots_
  Modulus,    \* how many values size_t has
  Trivial,    \* std::is_trivially_copyable_v<T>
  MaxPush     \* bound: pushes in a behaviour

\* A power of two divides 2^64; two slots are the fewest that hold an element.
ASSUME SizeAssumption ==
  /\ Slots \in Nat /\ Slots >= 2
  /\ Modulus \in Nat /\ Modulus >= Slots
  /\ Modulus % Slots = 0
  /\ Trivial \in BOOLEAN
  /\ MaxPush \in Nat

VARIABLES
  reader_, writer_,   \* the two atomic indices
  slot,               \* what each slot's storage holds
  pushPc, popPc,      \* where try_push and try_pop are
  dst,                \* the consumer's destination object
  phase,              \* "open" until the destructor runs
  cursor,             \* the destructor's local reader
  \* History: the streams, and what each thread knows of the other.
  pushed, popped,     \* completed pushes and pops
  knownR,             \* pops the producer has synchronised with
  knownW,             \* pushes the consumer has synchronised with
  returned            \* what the last successful try_pop returned

producerVars == <<pushPc, writer_, pushed, knownR>>
consumerVars == <<popPc, reader_, popped, knownW, dst, returned>>
lifeVars     == <<phase, cursor>>
vars == <<producerVars, consumerVars, lifeVars, slot>>

Raw == -1             \* storage with no object in it (never constructed, or destroyed)

\* An index does not wrap at the width it is compared at.
BugWord(n) == n

Word(n) == n % Modulus

\* The difference is not masked.
BugUsed(writer, reader) == IF writer < reader THEN 0 ELSE writer - reader
Used(writer, reader) == (writer - reader) % Modulus
\* No slot is kept free to tell a full queue from an empty one.
BugFreeSpace(writer, reader) == (Slots - Used(writer, reader)) % Modulus
FreeSpace(writer, reader) == (Slots - 1 - Used(writer, reader)) % Modulus
SlotOf(index) == index % Slots

\* What a load of the other thread's index may return, as a count of its calls, and
\* what its reader then knows of them: the load is not relaxed, nor its value cached.
BugLoadable(known, made) == {known}
Loadable(known, made) == known .. made
BugAcquired(known, k) == known
Acquired(known, k) == k

Init ==
  /\ reader_ = 0 /\ writer_ = 0
  /\ slot = [s \in 0 .. Slots - 1 |-> Raw]
  /\ pushPc = "idle" /\ popPc = "idle"
  /\ dst = Raw /\ returned = Raw
  /\ phase = "open" /\ cursor = 0
  /\ pushed = 0 /\ popped = 0
  /\ knownR = 0 /\ knownW = 0
------------------------------------------------------------------------------
(* try_push, for both overloads: they differ in which constructor of T runs. *)

\* The acquire load of reader_.
PushLoad(k) ==
  /\ phase = "open" /\ pushPc = "idle"
  /\ k \in Loadable(knownR, popped)
  /\ knownR' = Acquired(knownR, k)

PushFull(k) ==
  /\ PushLoad(k)
  /\ FreeSpace(writer_, Word(k)) < 1
  /\ UNCHANGED <<pushPc, writer_, pushed, consumerVars, lifeVars, slot>>

PushBegin(k) ==
  /\ pushed < MaxPush
  /\ PushLoad(k)
  /\ FreeSpace(writer_, Word(k)) >= 1
  /\ pushPc' = "construct"
  /\ UNCHANGED <<writer_, pushed, consumerVars, lifeVars, slot>>

\* memcpy, or placement new of T.
PushConstruct ==
  /\ pushPc = "construct"
  /\ slot' = [slot EXCEPT ![SlotOf(writer_)] = pushed]
  /\ pushPc' = "publish"
  /\ UNCHANGED <<writer_, pushed, knownR, consumerVars, lifeVars>>

\* T's constructor throws: no object, and writer_ is not stored.
PushThrow ==
  /\ ~Trivial
  /\ pushPc = "construct"
  /\ pushPc' = "idle"
  /\ UNCHANGED <<writer_, pushed, knownR, consumerVars, lifeVars, slot>>

PushPublish ==
  /\ pushPc = "publish"
  /\ writer_' = Word(writer_ + 1)
  /\ pushed' = pushed + 1
  /\ pushPc' = "idle"
  /\ UNCHANGED <<knownR, consumerVars, lifeVars, slot>>
------------------------------------------------------------------------------
(* try_pop *)

PopLoad(k) ==
  /\ phase = "open" /\ popPc = "idle"
  /\ k \in Loadable(knownW, pushed)
  /\ knownW' = Acquired(knownW, k)

PopEmpty(k) ==
  /\ PopLoad(k)
  /\ reader_ = Word(k)
  /\ UNCHANGED <<popPc, reader_, popped, dst, returned, producerVars, lifeVars, slot>>

PopBegin(k) ==
  /\ PopLoad(k)
  /\ reader_ # Word(k)
  /\ popPc' = "take"
  /\ UNCHANGED <<reader_, popped, dst, returned, producerVars, lifeVars, slot>>

\* What is left of the object that was moved from: it is destroyed.
BugTaken == slot
Taken == IF Trivial THEN slot ELSE [slot EXCEPT ![SlotOf(reader_)] = Raw]

\* memcpy out of the slot, or move-assign from the object and destroy it.
PopTake ==
  /\ popPc = "take"
  /\ dst' = slot[SlotOf(reader_)]
  /\ slot' = Taken
  /\ popPc' = "publish"
  /\ UNCHANGED <<reader_, popped, knownW, returned, producerVars, lifeVars>>

\* T's move assignment throws before the object is destroyed.  T is assumed to
\* leave both objects as they were.
PopThrow ==
  /\ ~Trivial
  /\ popPc = "take"
  /\ popPc' = "idle"
  /\ UNCHANGED <<reader_, popped, knownW, dst, returned, producerVars, lifeVars, slot>>

PopPublish ==
  /\ popPc = "publish"
  /\ reader_' = Word(reader_ + 1)
  /\ popped' = popped + 1
  /\ returned' = dst
  /\ popPc' = "idle"
  /\ UNCHANGED <<knownW, dst, producerVars, lifeVars, slot>>
------------------------------------------------------------------------------
(* ~SPSCQueue.  It runs when no call is in progress and after both threads   *)
(* have synchronised with the destroying one (the owner joins them).         *)

DtorBegin ==
  /\ phase = "open" /\ pushPc = "idle" /\ popPc = "idle"
  /\ phase' = "destroying"
  /\ cursor' = reader_
  /\ UNCHANGED <<producerVars, consumerVars, slot>>

\* A trivially copyable T is trivially destructible: the loop is compiled out.
DtorMore == ~Trivial /\ cursor # writer_

DtorStep ==
  /\ phase = "destroying" /\ DtorMore
  /\ slot' = [slot EXCEPT ![SlotOf(cursor)] = Raw]
  /\ cursor' = Word(cursor + 1)
  /\ UNCHANGED <<phase, producerVars, consumerVars>>

DtorEnd ==
  /\ phase = "destroying" /\ ~DtorMore
  /\ phase' = "destroyed"
  /\ UNCHANGED <<cursor, producerVars, consumerVars, slot>>

Destroyed == phase = "destroyed" /\ UNCHANGED vars
------------------------------------------------------------------------------
Producer ==
  \/ \E k \in knownR .. popped : PushFull(k) \/ PushBegin(k)
  \/ PushConstruct \/ PushThrow \/ PushPublish

Consumer ==
  \/ \E k \in knownW .. pushed : PopEmpty(k) \/ PopBegin(k)
  \/ PopTake \/ PopThrow \/ PopPublish

Destructor == DtorBegin \/ DtorStep \/ DtorEnd \/ Destroyed

Next == Producer \/ Consumer \/ Destructor

Spec == Init /\ [][Next]_vars

\* Both threads are scheduled and poll, as the loops of src/main.cpp do, a store
\* becomes visible to the other thread in finite time, and no exception strikes
\* every time.
FairSpec ==
  /\ Spec
  /\ WF_vars(\E k \in knownR .. popped : PushBegin(k))
  /\ SF_vars(PushConstruct) /\ WF_vars(PushPublish)
  /\ WF_vars(\E k \in knownW .. pushed : PopBegin(k))
  /\ SF_vars(PopTake) /\ WF_vars(PopPublish)
------------------------------------------------------------------------------
(* Properties *)

TypeOK ==
  /\ reader_ \in 0 .. Modulus - 1 /\ writer_ \in 0 .. Modulus - 1
  /\ slot \in [0 .. Slots - 1 -> Nat \cup {Raw}]
  /\ pushPc \in {"idle", "construct", "publish"}
  /\ popPc \in {"idle", "take", "publish"}
  /\ dst \in Nat \cup {Raw} /\ returned \in Nat \cup {Raw}
  /\ phase \in {"open", "destroying", "destroyed"}
  /\ cursor \in 0 .. Modulus - 1
  /\ pushed \in Nat /\ popped \in Nat /\ knownR \in Nat /\ knownW \in Nat

\* The bytes of a slot are plain memory, so two unordered accesses would be
\* undefined behaviour.  The producer touches a slot only when it has
\* synchronised with the pop that emptied it, the consumer only when it has
\* synchronised with the push that filled it.
DataRaceFree ==
  /\ pushPc = "construct" => pushed - Slots < knownR
  /\ popPc = "take" => popped < knownW
  /\ pushPc = "construct" /\ popPc = "take" => SlotOf(writer_) # SlotOf(reader_)

\* try_pop hands out the oldest element not yet handed out: none is lost,
\* repeated, reordered or overwritten, across any number of laps of the ring
\* and wraps of the counters.
PopsInOrder ==
  /\ popPc = "publish" => dst = popped
  /\ popped > 0 => returned = popped - 1

\* The queue never holds more than bufferSizeSlots_ - 1 elements, counted in the
\* stream and not with the wrapping indices try_push compares.
NeverOverfull == popped <= pushed /\ pushed - popped <= Slots - 1

\* Object lifetimes, for a T with a destructor: placement new only ever runs on
\* raw storage and the destructor of T only on an object, and once ~SPSCQueue
\* is done every object that was pushed has been destroyed.
ObjectLifetimes == ~Trivial =>
  /\ pushPc = "construct" => slot[SlotOf(writer_)] = Raw
  /\ popPc = "take" => slot[SlotOf(reader_)] # Raw
  /\ phase = "destroying" /\ cursor # writer_ => slot[SlotOf(cursor)] # Raw
  /\ phase = "destroyed" => \A s \in 0 .. Slots - 1 : slot[s] = Raw

\* A polling producer gets every element in and a polling consumer gets every one
\* out, whatever stale indices they load, unless the queue is destroyed.
EventuallyThrough == <>(popped = MaxPush \/ phase # "open")

\* The elements the memory holds, read the way the consumer would.  The element
\* try_pop has moved out counts until reader_ is stored.
Contents ==
  [i \in 1 .. Used(writer_, reader_) |->
     IF i = 1 /\ popPc = "publish" THEN dst ELSE slot[SlotOf(reader_ + i - 1)]]

Fifo == INSTANCE BoundedFifo WITH
  Capacity <- Slots - 1,
  queue    <- IF phase = "open" THEN Contents ELSE <<>>,
  sent     <- pushed

\* The ring implements the bounded queue: a push takes effect when writer_ is
\* stored, a pop when reader_ is.
RefinesFifo == Fifo!Spec
==============================================================================
