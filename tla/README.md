# Lock-free queues: a TLA+ verification project

This directory holds the models, the model-checking runs and the machine-checked
proofs kept beside the queues of this repository. Source paths below are
relative to `src/`, the root of the repository; positions are `file:line`.

1. [Inventory](#1-inventory)
2. [Modules, and how they correspond to the code](#2-modules)
3. [Memory models and grain](#3-memory-models-and-grain)
4. [The runs](#4-the-runs): what each checks, its bounds, its fairness
5. [The proofs](#5-the-proofs)
6. [What the code was found to do](#6-findings)
7. [What is not modelled](#7-what-is-not-modelled)
8. [Plan](#8-plan)

## 1. Inventory

| Component | Code | State | Operations |
|---|---|---|---|
| `SPSCQueue<T>` | `include/spsc_queue.hpp` | `reader_`, `writer_` (atomic, free-running 64-bit), a ring of slots | `try_push` (two overloads), `try_pop`, the destructor |
| `SPMCQueue<T>` | `include/spmc_queue_trivially_copiable.hpp` | a published writer index, a ring of slots each with a version of its own; per consumer a reader index | `push`, `make_consumer`, `Consumer::pop` |
| `SPSCBuffer` | `src/spsc_buffer.cpp` | two indices that wrap at the buffer's end, a ring of bytes | `try_write`, `read`, `available` |
| `IPCSPSCBuffer` | `src/spsc_buffer_ipc.cpp` | the same, inside an object in memory two processes share | the same, and being constructed once |
| SPSC benchmark | `src/main.cpp` | a queue, a `running` flag, the consumer's count | producer loop, consumer loop |
| SPMC burst benchmark | `src/spmc_burst_bench.cpp` | a queue, consumers, two barriers, the consumers' times | epochs of bursts |
| DPDK benchmark | `src/bench_dpdk.cpp` | an external `rte_ring`, a `running` flag, counts | enqueue loop, dequeue loops |
| `ReaderWriterQueue` (vendored) | `include/moodycammel_queue.hpp` | a circular list of blocks, each a ring with two indices and two shadow copies | `try_enqueue`, `enqueue`, `try_dequeue`, `pop`, `peek`, `size_approx`, `max_capacity`, the destructor, two moves |
| `BlockingReaderWriterQueue` (vendored) | `include/moodycammel_queue.hpp` | the same queue and a pointer to a semaphore | the same, and `wait_dequeue`, `wait_dequeue_timed` |
| Semaphores (vendored) | `include/atomicops.h` | a count and a kernel semaphore | `tryWait`, `wait`, `signal` |
| Benchmark utilities | `include/benchmark_utils.hpp` | a frequency, measured once | `calibrate_tsc`, `cycles_to_ns`, `export_latency_samples_csv`, pinning |
| Second benchmark utilities | `src/benchmark_utils.cpp` | none: no target builds it | an older copy |
| Google benchmarks | `benchmark/*.cpp` | none: the bodies are commented out | |
| Plots | `analysis/*.py` | none | reads the CSV files |

Components share state only by containment: a benchmark owns a queue, and
`BlockingReaderWriterQueue` owns a `ReaderWriterQueue` and a semaphore. Within
a component the interaction is through shared memory: two threads (or
processes, for the IPC buffer) that never lock.

What is hard is the same everywhere. Any step of one thread may fall between any
two of another. A load returns an index that is already old. Plain bytes may be
touched only because an index said so. Counters wrap. Element constructors
throw half-way. A process dies half-way through a `memcpy`. And in `SPMCQueue`
the producer waits for nobody and overwrites what a slow consumer is reading.

What makes each component correct:

| Component | Correct means |
|---|---|
| `SPSCQueue` | no unordered access to a slot; elements out once each in order; never more than `bufferSizeSlots_ - 1` in the ring; every object built is destroyed once; a poller is served |
| `SPMCQueue` | no torn message; no skip or repeat; an abort only of a consumer the producer has lapped; one version load tells all a consumer needs |
| byte rings | bytes out in order, messages whole or not at all, exact counts at the ends of the buffer; after a crash nothing lost or repeated |
| benchmarks | they end; results come of one epoch; nobody gives up early |
| `ReaderWriterQueue` | no block skipped; "empty" and "full" are true when said; what the constructor reserved can be used; throwing changes nothing |
| `ReaderWriterQueue`, from outside | a walk round its blocks ends, with a sum some moment of the call had; every block is reached by the destructor; moves leave each block and semaphore one owner |
| semaphore | its count and the kernel's stay in step whatever timeouts race what signals; nobody sleeps beside an element |
| utilities | percentiles, histogram and throughput are those of the samples |

`PROJECT.json` lists the hazards at the lines where they bite, each with the
properties that would show it going wrong.

## 2. Modules

Abstract specifications, each a few lines:

- **`BoundedFifo`**: a bounded queue, elements out in the order they went in.
  Implemented by `SpscQueue` and by `ReaderWriterQueue`.
- **`ByteStream`**: bytes go in by whole messages and come out in order, in
  chunks. Implemented by `SpscBuffer`, and by `IpcSpscBuffer` across crashes.
- **`FanOut`**: a stream of messages, a position per subscriber, and a failure
  that can strike only when somebody is a window behind. Implemented by
  `SpmcQueue`.

Models, in the order they were written:

| Module | Models | State and actions |
|---|---|---|
| `SpscQueue` | `spsc_queue.hpp` | the code's `reader_`, `writer_`, slots. `PushFull`, `PushBegin` / `PushConstruct` / `PushThrow` / `PushPublish` are `try_push` at its load, its construction, the exception and its store; `PopEmpty` ... `PopPublish` likewise `try_pop`; `DtorBegin`, `DtorStep`, `DtorEnd` the destructor's loop. |
| `SpmcQueue` | `spmc_queue_trivially_copiable.hpp` | `writer`, the slots' `version` and `data`, each consumer's `reader`, `temp`. `PushBegin` stores the odd version, `PushWord` one machine word, `PushSeal` the even version, `PushPublish` the index; `PopNothing`, `PopTooSlow`, `PopBegin` are the three outcomes of the first version load, `PopWord` a word of the copy, `PopDeliver` and `PopOverwritten` the two of the second load. `unexpected_abort` ends the process: no step after it. |
| `SpscBuffer` | `spsc_buffer.cpp` | indices, bytes. `WriteRefuse`, `WriteBegin`, `WriteFirst`, `WriteSecond`, `WritePublish` are `try_write` with the split at the end of the buffer; `Read...` likewise `read`. |
| `IpcSpscBuffer` | `spsc_buffer_ipc.cpp` | extends `SpscBuffer`, whose two functions are the same text, with `WriterCrash`, `ReaderCrash` at any point and `WriterStart`, `ReaderStart`. |
| `SpscBench` | `main.cpp` | extends `SpscQueue`: the same actions under the program counters of the main thread and the consumer thread. |
| `SpmcBurstBench` | `spmc_burst_bench.cpp` | extends `SpmcQueue`: epochs, barriers and the times read between barriers. |
| `DpdkBench` | `bench_dpdk.cpp` | self-contained; the `rte_ring` is external, its calls single steps. |
| `ReaderWriterQueue` | `moodycammel_queue.hpp` | blocks with `front`, `tail`, `next`, `localFront`, `localTail`. `Enqueue...` are the branches of `inner_enqueue`, `Dequeue...` those of `try_dequeue`, `pop` and `peek`, which make the same decisions; `Drain` is the hardware. |
| `LightweightSemaphore` | `atomicops.h` | `m_count`, `m_sema`; one action per access of either. Has no `Next` of its own. |
| `BlockingReaderWriterQueue` | `moodycammel_queue.hpp` | extends `LightweightSemaphore` with an inner queue that is a counter, as `ReaderWriterQueue` is shown to be a FIFO that is never falsely empty. |
| `ReaderWriterQueueSize` | `moodycammel_queue.hpp` | extends `ReaderWriterQueue` with one walk, `WalkBegin`, `WalkCount`, `WalkOn`, which `size_approx` and `max_capacity` both make, by the thread whose calls pause meanwhile; the other thread and the store buffers go on. |
| `QueueMoves` | `moodycammel_queue.hpp` | which blocking queue owns which circle of blocks and which semaphore; `Construct`, `MoveConstruct`, `MoveAssign`, `Destroy`, and `Enqueue`, `TryDequeue` as counts. One thread: the code wants quiet queues here. An allocation may fail. |
| `LatencyExport` | `benchmark_utils.hpp` | samples, frequency, histogram and sum, through `Calibrate`, `SortSamples`, `CountSample` and `AddSample`, one sample at a time. |

Proofs: `ModularArithmetic` (facts about `%` and `\div`, and about runs of the
stream), and one module for each component proved about: `SpscQueueProof` (which
is of `SpscBench` too), `SpmcQueueProof`, `IpcSpscBufferProof` (which is of
`SpscBuffer` too), `SpmcBurstBenchProof`, `BlockingReaderWriterQueueProof`,
`QueueMovesProof`, `ReaderWriterQueueProof`. A benchmark takes the invariant of
its queue from the queue's proof. The modules named `MC...` only extend a model for TLC; some also define a
set that a `.cfg` file cannot write down.

Elements, messages and bytes are *positions in the stream*: the n-th push pushes
the value n. So order, loss, repetition and tearing all show in what comes out,
and payloads never multiply the states. History variables (`pushed`, `popped`,
`position`, `written`, ...) count without wrapping, where the code's indices
wrap; no guard of a modelled operation reads one, but for the bounds and for
what a stale load may return (next section).

An operator named `Bug...` is a plausible slip in the code, next to the
definition it distorts. No specification uses one. `PROJECT.json` pairs each
property of each run with such an operator; put in place of the right
definition, it makes TLC report that property violated, so each property can
tell a wrong program from a right one.

## 3. Memory models and grain

Each model has the weakest memory its code is meant for.

- **`SpscQueue`, `SpscBuffer`, `IpcSpscBuffer`: C++ release/acquire.** Each index
  has one writer, who sees its own last store. An acquire load by the other side
  may return *any* value stored since the last one it saw, and what it saw
  orders the accesses before that store. The variables `knownR`, `knownW`
  (`visibleTaken`, `visibleWritten`) record this. Data races are then a matter
  of knowledge, which `DataRaceFree` states: a thread touches bytes only when it
  has synchronised with the other side's last access of them. A `memcpy` or a
  constructor can be one step, since `DataRaceFree` says that nobody else can
  look at these bytes meanwhile; a crash may still cut a `memcpy` short.
- **`SpmcQueue`: x86, as its comment claims** (`spmc_queue_trivially_copiable.hpp:108`).
  The copy of a message races with the producer by design. Only the producer
  stores to shared memory, so every load and store being a step of its own, one
  machine word at a time, in any order within a message, gives all outcomes of
  x86: a store buffer of the one writer only makes its stores later, all of
  them, in order.
- **`ReaderWriterQueue`: x86 with store buffers.** Both threads store to shared
  memory, and the fences of `atomicops.h` only order the compiler here. A
  thread's stores wait in `pending` and reach memory in order; a thread sees its
  own. The bound `MaxPending` is 3: one enqueue makes at most three stores, so a
  whole call can be in the buffer while the thread goes on to its next loads. A
  step is one load of the other thread's memory and the stores after it.
- **`LightweightSemaphore`**: every change of the count is an atomic addition,
  which x86 makes with a locked instruction that drains the store buffer, so
  steps interleave.
- **Flags of the benchmarks** are relaxed: a load may miss the store for a while,
  and having seen it never misses it again (`sawStopped`).

## 4. The runs

Every run with expectation *pass* is complete: TLC explores all states of the
instance. Deadlock is checked except where noted. The models of the queues and
of the byte ring state their types in `TypeOK`; `spsc_objects` checks it where
words wrap, and the inductive invariants of the proofs contain it. Where a
refinement says more, the weaker invariants it implies are not checked a second
time (`NeverOverfull` of `SpscQueue` follows from `RefinesFifo` and is only
proved).

### `spsc_objects` (`MCSpscQueue`)

A ring of 4 slots, words that wrap at 8, elements with throwing constructors and
moves and a destructor, up to 18 pushes. Checked: `TypeOK`, `DataRaceFree`,
`PopsInOrder`, `ObjectLifetimes` (construction only on raw storage, destruction
only of objects, nothing left over after `~SPSCQueue`), `RefinesFifo` and
`EventuallyThrough`. 18 pushes wrap the words twice and the ring four times; the
destructor may run at any quiet moment, so at every alignment of the indices.
4 slots hold 3 elements: empty, part full, and full are apart. `size_t` wraps at
a multiple of the slot count, as 2^64 does for a power of two, and that is all
the code relies on. Trivially copyable elements, which take fewer steps, are
those of `spsc_bench`.

`EventuallyThrough`: unless the queue is destroyed, every element goes in and
out. The fairness is that of two running threads that poll, as in `main.cpp`:
`PushBegin` and `PopBegin` are weakly fair because a store becomes visible in
finite time, so a thread cannot load the same stale index for ever; construction
and the move out of the slot are strongly fair, so that an exception does not
strike every time.

### `spmc_fan_out` (`MCSpmcQueue`)

Two consumers made at any moment, messages of two words, two slots, five pushes:
the producer laps a consumer twice, and both words of a copy can come from
different laps. `DeliversIntactInOrder`, `AbortOnlyWhenLapped`,
`VersionTellsAll`, `RefinesFanOut`, and `EventuallyDelivered` under fairness: a
push that began ends and consumers poll. Nothing makes the producer begin a
push.

### `byte_ring` (`MCIpcSpscBuffer`)

The byte ring with its processes, which covers the ring without crashes too: the
behaviours in which no process dies are those of `SpscBuffer`. Five bytes;
messages of 0, of 2, of 4 (all that fits) and of 5 (one too many) bytes; rooms of
0, 1, 3 and 6. The interesting lengths are those that end exactly at, just
before, and after the buffer's end, where `try_write` compares with `<` and
`read` with `<=`; 4 and 5 being coprime, every alignment occurs in 20 bytes.
Either process may die at any step, or with any part of a `memcpy` done, and
another takes its side over.

- `DataRaceFree`, `BytesInOrder`: a `memcpy` is in bounds and alone with its
  bytes, and the bytes returned are the next ones.
- `CountsExact`: whatever stale index is loaded, the space computed is the true
  one for it.
- `RefinesStream`: a crash shows nothing of an unfinished call, and no byte is
  lost or repeated by one. That only one process ever runs the constructor is
  assumed, as the repository's README asks (`README.md:9`); the mutant of this
  property is a second construction, which loses what was in the ring.
- `SurvivorsRead`, `SurvivorsWritten`: once crashes stop, all that was published
  is read, and a message that needs every free byte of the ring gets in.

Fairness: a process that died is replaced, and a call goes on. Strong fairness is
on a call of the writer that finds room for a ring-filling message, and on one
of the reader that finds bytes and has room for some: both sides poll, with
calls of other lengths in between, and find a new index in the end.

### `spsc_bench`, `spsc_bench_gives_up` (`MCSpscBench`)

Five samples through the queue of `SpscQueue` with three places, under the loops
of `main.cpp`. `GivesUpLate`: if the consumer throws, all samples were pushed and
those it lacks are still in the queue.
`Ends`, with both threads running and stores becoming visible; the pop that finds
an element is strongly fair, as empty pops may come in between.
`spsc_bench_gives_up` shows the first finding below.

### `spmc_bursts` (`MCSpmcBurstBench`)

Two consumers, bursts of 3 messages and then of 2, over a ring of 2:
`MetricsOfOneEpoch` (times of two epochs never mix, though they are plain
variables), `NoAbortWithinRing` (only a burst longer than the
ring can abort the process; the first burst is, the second is not), `Completes`
under weak fairness of every thread.

### `dpdk_bench` (`MCDpdkBench`)

Four samples, two consumers, a ring of three that may fill. `AlwaysThrows`: the
main thread always gets to clear the flag, so the consumers end, and one of them
in the exception: see the second finding.

### `block_queue` (`MCReaderWriterQueue`)

Two shapes of queue: `MAX_BLOCK_SIZE` 4 constructed for one element, which
starts with a block of two slots and grows by one block of four; and
`MAX_BLOCK_SIZE` 2 constructed for four elements, which has five blocks of one
element each. Neither has a block of one slot, which a size of zero would make
(finding 7). Six elements; constructors throw; calls interleave with each
other and with the store buffers. Six elements go once round the five blocks
and into the block made for growth from either side.

- `TakesNext`: what is about to be taken is the oldest element, whole and alive.
- `AssertsHold`: the asserts the code makes of the block ahead, in the dequeues,
  in `peek` and in `inner_enqueue`.
- `EmptyIsTrue`, `RefusesOnlyWhenFull`: the two negative answers are true. The
  latter is the constructor's promise (`moodycammel_queue.hpp:101`), which is why
  there is a spare block.
- `ObjectLifetimes`: the destructor of a quiet queue finds exactly what is left.
- `BlocksKept`: the circle always has every block that was made, but those whose
  first element threw.
- `RefinesFifo`: the blocks are one FIFO. A put takes effect when the store that
  makes it visible leaves the store buffer.
- `EventuallyThrough`: store buffers drain; both threads keep calling, and strong
  fairness says that an exception does not strike every time, that a consumer
  does not only ever `peek`, and that a producer that finds room uses it. So all
  six elements go through blocks the queue has.

### `queue_sizes` (`MCReaderWriterQueueSize`)

The same two shapes and bounds, and at any quiet moment of its own a thread
starts the walk of `size_approx` and `max_capacity`, several times in a
behaviour if it likes. `SumsBetween`: when the walk is back where it began, the
size it found lies between what the queue held at its start and at its end as
far as the other thread changed it, and the capacity between those of its start
and its end, and no less than the constructor was asked for. At no time has the
walk counted more than the circle can hold, so it goes round once and ends. To
the consumer, `size_approx` may count an element whose store of `tail` is in memory but whose
block is not yet the tail block, which `try_dequeue` does not find: its bound is
`pushed`, not `published`.

### `queue_moves` (`MCQueueMoves`)

Three queues, four circles and three semaphores, up to two elements each:
chains of moves through all three, moves from a queue that was moved from, and
assignments with and without memory for the temporary of `std::swap`.
`OwnedOnce`: each circle and semaphore allocated has one owner, so none is freed
twice or leaked. `CountsMatch`: the semaphore goes with the elements it counts,
but for an assignment that ran out of memory (finding 4).

### `blocking_queue` (`MCBlockingReaderWriterQueue`)

Five elements; waits of every kind (`try`, zero, timed, for ever), a timeout
wherever the kernel semaphore is zero, and assignments that throw after the
semaphore was passed. `TokensBalanced`: posts and sleepers pair up.
`CountExact`, `AssertsHold`, `DeniedOnlyWhenEmpty`, and `EventuallyDequeued`,
for which no timeout need ever strike. `stranded` counts the dequeues that threw:
each takes one from the count and leaves its element (finding 3), and the
properties say that nothing else goes wrong. Weak fairness of the steps of a call
in progress, of a consumer that keeps calling, and of a wake-up that is due.
`CHECK_DEADLOCK FALSE`: a consumer may rightly sleep for ever once all five are
dequeued.

### `latency_export` (`MCLatencyExport`)

Every list of up to six samples of five values, in every order, at three
frequencies below, near and above one cycle a nanosecond, with an `int` of four
bits. `ReportRight`: each percentile is the least sample such that the samples up
to it, itself included, are more than that share of all but one, the histogram has each sample at its nearest nanosecond, and
the sum that the throughput divides by is right exactly when it fits the `int`
(finding 5). Six samples reach every case of the percentile's index that is cut
off, and sums that wrap more than once.

## 5. The proofs

TLC checks small instances. TLAPS proves, for every value of the constants:

| Module | Theorem | Says |
|---|---|---|
| `SpscQueueProof` | `TypeCorrect`, `RaceFreedom`, `FifoOrder`, `CapacityBound`, `LifetimesRespected` | `Spec => []P` for `TypeOK`, `DataRaceFree`, `PopsInOrder`, `NeverOverfull`, `ObjectLifetimes`: any ring, any word, trivial elements or not, any number of pushes |
| `SpscQueueProof` | `RingRefinement` | `Spec => RefinesFifo`: the ring is a bounded FIFO queue |
| `SpmcQueueProof` | `IntactDelivery`, `JustifiedAbort`, `VersionSuffices` (and `TypeCorrect`) | the invariants of `spmc_fan_out`: any ring, message size and set of consumers |
| `SpmcQueueProof` | `StreamRefinement` | `Spec => RefinesFanOut`: the ring of versioned slots implements the abstract stream |
| `IpcSpscBufferProof` | `RaceFreedom`, `StreamOrder`, `CountsAreExact` (and `TypeCorrect`) | `DataRaceFree`, `BytesInOrder`, `CountsExact`, of `Spec` and of `IpcSpec`: any buffer, any lengths of messages and rooms, without crashes and with crashes at any point |
| `IpcSpscBufferProof` | `StreamRefinement` | `Spec => RefinesStream` and `IpcSpec => RefinesStream`: both are the stream of bytes, and crashes do not show |
| `SpscQueueProof` | `NoSampleMissing` | `GivesUpLate`, for any number of samples and any ring |
| `SpmcBurstBenchProof` | `OneEpoch` | `MetricsOfOneEpoch`: any number of consumers, any burst |
| `SpmcBurstBenchProof` | `RingIsEnough`, `BurstsIntact` | `NoAbortWithinRing`, and the queue's `DeliversIntactInOrder` inside the benchmark |
| `BlockingReaderWriterQueueProof` | `NoAssertFails`, `TokensStayBalanced`, `CountStaysExact`, `DenialIsRight` (and `TypeCorrect`) | the safety properties of `blocking_queue`, the action property too |
| `QueueMovesProof` | `Ownership`, `CountsFollow` | `OwnedOnce` and `CountsMatch`: any number of queues, any memory |
| `ReaderWriterQueueProof` | `TakesNextTheorem`, `AssertsHoldTheorem`, `BlocksKeptTheorem`, `ObjectLifetimesTheorem` | `Spec /\ Size >= 1 => []P` for the invariants of `block_queue`: any block size, any size of at least 1 given to the constructor, any number of new blocks, store buffers of any length, any number of elements |
| `ReaderWriterQueueProof` | `EmptyIsTrueTheorem`, `RefusesOnlyWhenFullTheorem` | the action properties of `block_queue`, for the same queues: "empty" and "full" are true when said |
| `ReaderWriterQueueProof` | `QueueRefinement` | `Spec /\ Size >= 1 => RefinesFifo`: the blocks implement the bounded FIFO queue |

**Assumptions.** `SizeAssumption` of each module: at least two slots (or bytes),
and for the queues a word that counts a multiple of the slots, as 2^64 does for a
power of two. `BurstAssumption` and `MovesAssumption` say that a burst is not
empty, that the main thread is no consumer, and that the null pointer is no
memory. TLC evaluates them in the runs. The theorems of `SpmcQueueProof`, and
those of `SpmcBurstBenchProof` that rest on the queue, have the hypothesis
`MaxPush < Modulus`, fewer than 2^64 pushes: see section 6. `OneEpoch` needs no
hypothesis: it rests on the barriers alone. The theorems of
`ReaderWriterQueueProof` have the hypothesis `Size >= 1`: the constructor takes a
size of zero too, as does `SizeAssumption`, but a block of one slot cannot tell
full from empty, and most of the theorems are false of it (finding 7). The
hypothesis is part of `TypeInv`, and gives every block two slots.

**SPSCQueue.** None of the properties is inductive. `IInv` adds `IndexInv` (the
indices are the stream counts modulo the word), `KnowledgeInv` (what a thread
knows of the other is at most true, and the room a push found stays until it is
published) and `SlotInv` (slot `k % Slots` holds element `k` for all `k` between
the counts). The arithmetic step is `FreeSpaceExact`: the masked difference of
two wrapped indices is the true difference, because that is smaller than the
word; it and its like rest on `ModularArithmetic`.

For the lifetimes `LifeInv` says that the slots with an object are exactly those
of the elements between two ends. The ends, `FirstObject` and `EndObjects`, are
the counts while the queue is open, one further where a call has built or
destroyed its object and not yet stored its index, and they follow `cursor` in
the destructor. Each construction, exception, move and destruction then moves
one end by one or none, and `ObjectAdded` and `ObjectTaken` are the two lemmas
about that. For the refinement, `ContentsExact` reads the memory as the consumer
would and finds the run of positions from `popped` to `pushed`; a push appends to
a run and a pop takes its head (`RunGrows`, `RunShrinks`), and everything else
leaves it alone.

**SPMCQueue.** At every moment each position of the stream is *live*, *gone* or
*coming*, and `VersionInv` says that the version of its slot compares with the
version expected of it accordingly: equal, greater, less. The two laps that
meet in a slot during a push are told apart by the odd version (`WriteInv`).
`CopyInv` says that while a consumer has not been lapped, the words it has
copied are of its message; so if the second version load still finds the
expected version, the consumer was not lapped before it, and the copy is whole.
The refinement maps `PushSeal` to the abstract `Produce`, `PopDeliver` to
`Deliver`, both aborts to `Overrun`, and the rest to stutters.

**Byte rings.** The invariant is that of the SPSC queue over bytes, but indices
wrap at the buffer's end, messages have lengths, and a message may be split.
`VisibleInv` bounds every count that a process may still load of the other's:
none is ahead of the other, and the oldest still leaves the call in progress its
room, or its bytes. `CallInv` says which parts of a call are under way: a second
part only where the first did not fit. `Holds` says that byte
`n` of the stream is at place `n % Size` for every `n` from the first untaken
byte to the last stored one, the stored part of an unfinished message included.
A crash ends the call and leaves bytes where no reader looks, and keeps all of
this; so one invariant serves `Spec` and `IpcSpec`, and every theorem is of both.
The hard leaves are the ends of a split: `try_write` compares with `<` and `read`
with `<=`, and both must leave an index inside the buffer.

**SPSC benchmark.** Every step is a step of the queue or leaves it alone
(`QueueStep`), so the queue's `IInv` holds; `BenchInv` adds that the consumer's
count is what it popped, that the flag is cleared after the last push only, and
that a consumer which has left its loop had every sample or saw the flag.

**SPMC burst benchmark.** `StepInv` gives each thread a round, which its epoch
and its place relative to the two barriers determine, and says that all threads
are in one round and on one side of the inner barrier; the time a consumer left
is that of this round or the one before, by its place. When the main thread reads
the times it is past the second barrier, so all are of its round. `BurstInv`
ties this to the queue: a thread's position in the stream is the start of its
epoch's burst and its count. A lapped consumer (`AbortStep` of the queue) is in
its burst, so the producer is in the same one, and more than a ring of messages
lies between two counts of one burst (`LappedInBurst`). `WholeBurst` is the
arithmetic of the short last burst.

**Semaphore.** `Balance` gives, for each point of a wait, the count relative to
the elements signalled and the number of posts under way: the waiter's claim is
one off the count, and a post is on its way just when a claimed sleeper was
signalled. All five theorems follow from it. In the blocking queue `Balance`
takes one off for each dequeue that threw.

**Moves.** `OwnedOnce` compares sets; `CirclesInv` and `SemasInv` say it of one
queue and one piece of memory at a time, and are inductive together with
`MemoryInv` and `CountsMatch`. Elements that an exception strands (finding 3) are
not in this model: `CountsFollow` is about moves and memory. An assignment of a queue to itself and a move from
a queue that was moved from are among the cases.

**ReaderWriterQueue.** The state says which blocks there are and where their
indices stand, but not which element is where once blocks are reused, and each
thread and memory have their own idea of both. So the invariant is about a
history: a *visit* is a stay of the producer in a block, and a history `h` gives
each visit its block (`h.block`), its first element (`h.first`) and the slot of
every element (`h.place`), the blocks in the circle, and the visits where the
four ends of the queue are: the front as memory has it (`h.m`) and as the
consumer knows it (`h.f`), the tail as memory has it (`h.t`) and as the producer
knows it (`h.l`). `IInv` says that some history fits the state. Its parts:

- `VisitInv`: the visits from `h.m` to `h.l` are to different blocks, and the
  elements of each follow the last one's. `RoomInv`: what memory has not seen
  removed leaves a slot of each block free.
- `ConsInv`, `ProdInv`: where the indices, the shadow copies (`ShadowTailInv`,
  `ShadowFrontInv`) and the links are, in memory and to the thread that writes
  them. `SpareInv`, `CircleInv`, `KeptInv`: the blocks not in use are empty to
  everybody and linked in.
- `ProducedInv`, `ConsumedInv`: a store in a buffer is for a known element or
  visit, in the order of `Ordered`; `ToPublishInv`, `ToRemoveInv`: what is not yet
  in memory is on its way. So memory is the thread's state of some time ago, and
  a store that reaches it moves `h.m` or `h.t` on.
- `DataInv`, `LiveInv`: the slots from `popped` to `pushed` have their elements,
  and no other slot is alive. `CallInv`, `ReuseInv`: what a call in progress has
  learned stays true.

None of `TakesNext`, `AssertsHold` and `EmptyIsTrue` is inductive without them:
that the consumer may enter the next block rests on the order of the producer's
stores, that the producer may enter the one after the tail block on where the
consumer was when its own stores were made. Before it was proved, `IInv` was
checked by TLC on a small instance with the history kept in a variable. The
proof has a lemma for each action and each kind of store (`HereStep` ...
`LeaveStep`, `ProducerDrainStep`, `ConsumerDrainStep`).

The other theorems add to it:

- `BlocksKept`: `OneCircle` says that a set of blocks closed under the producer's
  links is all of the blocks that are not lost. A new block put in between keeps
  that (`RoundGrows`), nothing is taken out, and going round such a circle from
  anywhere as many times as there are blocks meets all of it (`RoundWalk`).
- `RefusesOnlyWhenFull`: `FullInv` says that a block which the producer left, and
  where the consumer is not, is full or empty as memory has it; `StartInv` says
  what the call in progress found as it began, and `SizeInv` that no block is
  smaller than the first ones. A refusal finds the whole circle visited
  (`AllVisited`), so as many elements in the queue as the blocks can hold but for
  the one the consumer is in (`RunOfVisits`), which is what the rounding of the
  constructor promises (`CountOfBlocks`).
- `ObjectLifetimes`: element to slot is a bijection of `popped .. pushed - 1` and
  the live slots (`LiveCount`). In a quiet queue memory has what the threads know
  (`QuietEnds`), the destructor's way round meets every block (`QuietRound`), and
  between the indices of each it finds its elements (`QuietVisit`, `QuietSpare`).
- `RefinesFifo`: following the links from the front block leads through the
  blocks of the visits (`BlocksInOrder`), each has in memory its part of the
  stream (`VisitElements`), and the parts join (`FlattenParts`). So the contents
  are the run from `popped` to `published`, and `QueueStep` says which steps move
  either.

Two things in the models are there for the proofs and change no behaviour: a
store carries in `of` the element that it is for, and what a thread sees is
defined by its last store to a variable (`View`).

**Only model-checked.** All liveness and everything of fairness, which is out of
the prover's reach: `SurvivorsRead`, `SurvivorsWritten` and the like, and
`EventuallyThrough`. `ReportRight` of `LatencyExport`: sorting and adding a
sequence of any length are definitions by recursion over data, of which nothing
can be proved here. `SumsBetween` of `ReaderWriterQueueSize`, whose walk would
need an invariant of its own over the one above. That a message is any number of
words, that rooms and messages are any numbers of bytes, is part of the theorems;
that each `memcpy` is one step rests on `RaceFreedom`, as section 3 says.

## 6. Findings

1. **`main.cpp:73`: the SPSC consumer can give up on a full queue.**
   `consumer_spsc` tests `running` *after* the pop it goes with. A pop that finds
   the queue empty, then the producer's last pushes and `running = false`, then
   the test: the consumer leaves the loop and throws "failed to process all
   messages. Something is seriously wrong" (`main.cpp:77`), although every sample
   is in the queue. An exception out of a thread terminates the process. Run
   `spsc_bench_gives_up`; `GivesUpLate` shows that nothing is lost then.
2. **`bench_dpdk.cpp:85`: two consumers cannot both be served.** Each expects all
   samples and otherwise throws, but the ring gives each object to one of them
   (`RING_F_MC_RTS_DEQ`, `bench_dpdk.cpp:111`). `AlwaysThrows` shows that with two
   consumers the benchmark always ends in the exception.
3. **`moodycammel_queue.hpp:864`: an assignment that throws strands an element.**
   `try_dequeue` of the blocking queue, and the waits, pass the semaphore before
   the inner `try_dequeue` assigns the element. If that throws, the element is
   still there and its count is not: one element fewer can ever be dequeued, and
   a consumer may sleep beside the last one, although "if the queue has at least
   one element" it should get it (`moodycammel_queue.hpp:857`). `CountExact` and
   `EventuallyDequeued` say that the loss is one for each such exception.
4. **`moodycammel_queue.hpp:775`: a move assignment that runs out of memory.** The
   semaphores are swapped before the inner queues, whose swap allocates a block.
   If it cannot, each queue is left with the other's count (`OwnedOnce` says that
   nothing is freed twice or leaked even so); the `assert` of
   `try_dequeue` can then fail, or, compiled out as it is here, the call return
   true without an element. Hence the condition of `CountsMatch`.
5. **`benchmark_utils.hpp:100`: the throughput.** `std::accumulate` starts from an
   `int`, so the sum of the cycles is narrowed at every addition. Two million
   samples of 1074 cycles on average pass 2^31: the throughput is then wrong, and
   may be negative.
6. **`moodycammel_queue.hpp:616`: a leak.** An element whose constructor throws in
   a block `enqueue` has just made leaves that block unreachable. `BlocksKept`
   says that no other block ever is.
7. **`moodycammel_queue.hpp:105`: a queue constructed for zero elements.** The
   constructor accepts a size of 0, and `ceilToPow2(0 + 1)` is 1: the first block
   has one slot and a `sizeMask` of 0, so its `front` and `tail` are always equal.
   At first the block counts as full, and `enqueue` makes another. But when the
   producer comes round to it again and the consumer is no longer there, it is
   reused as any other (lines 581-601), and holds an element with
   `front == tail`. Then the asserts at 351, 416 and 467 fail ("we know there's
   for sure an element to dequeue on it"); the destructor (217) and `size_approx`
   (502) do not see the element; and after an assignment that throws once the
   consumer has advanced, the element is taken for none, or skipped. With
   `Shapes = {<<4, 0>>}` in place of the shapes of `block_queue`, TLC finds
   `AssertsHold` violated in 21 steps. No caller in this repository asks for zero.

Short of a finding, as no execution gets there: the version expected by a
`SPMCQueue` consumer is computed from an index that wraps at 2^64, and the
versions in the slots do not wrap with it
(`spmc_queue_trivially_copiable.hpp:96`). After 2^64 pushes a consumer that kept
up would be aborted as too slow. The bound `MaxPush < Modulus` of the proofs
and of the runs' constants is for this.

## 7. What is not modelled

- Moves of a plain `ReaderWriterQueue` by themselves, though the ones inside the
  blocking queue are the same; `max_capacity` of the blocking queue, which passes
  on the inner one, and its `size_approx`, which is the count of `CountExact`.
- `initialCount` other than 0 and signals of more than 1, which the queue never
  uses; kernel semaphores other than the POSIX one; failing `sem_` calls other
  than for a timeout (they are retried on `EINTR`).
- A second construction of the IPC object, but as a mutant.
- Time stamps, the writing of CSV files, thread pinning, printing, and the Python
  script: calls of the system, and I/O. A file that cannot be opened ends the
  process. The products and quotients of doubles in the percentiles and the
  throughput are taken as exact.
- EAL and ring creation failures of the DPDK benchmark, which end it early; the
  failure to allocate of the constructors, which ends in an exception before
  there is a queue.
- The Google benchmarks, whose bodies are commented out, and
  `src/benchmark_utils.cpp`, which no target builds.

## 8. Plan

The order was chosen by weight: the two queues that are the repository's own
first, then the byte rings, the programs that use them, and the vendored queue
they are compared with, its sizes and moves, and the utilities. The modelling is
done: sections 2 to 4, and section 7 says what is left out. Every safety property
and every refinement of the repository's own queues, byte rings and benchmarks is
proved, and every one of the vendored `ReaderWriterQueue`, its semaphore, its
blocking form and its moves. What is left for a prover is `SumsBetween`: that the
walk of `size_approx` counts each block once while the other thread goes on.
