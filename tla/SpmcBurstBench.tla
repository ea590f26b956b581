---------------------------- MODULE SpmcBurstBench ----------------------------
(***************************************************************************)
(* run_spmc_burst_bench of src/spmc_burst_bench.cpp: in every epoch the    *)
(* main thread pushes a burst through an SPMCQueue and every consumer pops *)
(* it; barriers before and after keep the epochs apart, and between the    *)
(* second barrier of one and the first of the next the main thread reads   *)
(* the times the consumers left.  The queue is SpmcQueue, step by step,    *)
(* with MaxPush for kTotalMessages.  A std::barrier is external: threads   *)
(* arrive and are released together once all have.                         *)
(*                                                                         *)
(* An operator named Bug... is what a slip in the code would make of the   *)
(* definition after it; nothing uses it but the mutants of PROJECT.json.   *)
(***************************************************************************)
EXTENDS SpmcQueue

CONSTANTS
  Burst,      \* kBurstSize
  Main        \* the main thread

ASSUME BurstAssumption == Burst \in Nat \ {0} /\ Main \notin Consumers

Threads == Consumers \cup {Main}

VARIABLES
  pc,         \* each thread: "start", "run", "end", "leave", "metrics" (main only), "done"
  epoch,      \* each thread's epoch
  count,      \* messages each thread has pushed or popped in its epoch
  doneCycles, \* consumer_done_cycles: the epoch whose end each consumer noted
  slowest     \* the epochs of the times the main thread took for its metrics

benchVars == <<pc, epoch, count, doneCycles, slowest>>
allVars == <<vars, benchVars>>

\* The short last epoch is forgotten.
BugEpochCount == MaxPush \div Burst

EpochCount == (MaxPush + Burst - 1) \div Burst

\* The messages of an epoch: the last may be short.
Share(e) ==
  LET start == e * Burst IN IF MaxPush - start < Burst THEN MaxPush - start ELSE Burst

\* The consumers are made before any thread starts.
BenchInit ==
  /\ writer = 0 /\ pushed = 0
  /\ version = [s \in 0 .. Slots - 1 |-> 0]
  /\ data = [s \in 0 .. Slots - 1 |-> None]
  /\ pushPc = "idle" /\ slot_ver = 0 /\ unwritten = {}
  /\ popPc = [c \in Consumers |-> "idle"]
  /\ reader = [c \in Consumers |-> 0] /\ position = [c \in Consumers |-> 0]
  /\ temp = [c \in Consumers |-> None] /\ dst = [c \in Consumers |-> None]
  /\ uncopied = [c \in Consumers |-> {}]
  /\ aborted = FALSE
  /\ pc = [t \in Threads |-> "start"]
  /\ epoch = [t \in Threads |-> 0]
  /\ count = [t \in Threads |-> 0]
  /\ doneCycles = [c \in Consumers |-> -1]
  /\ slowest = {}
------------------------------------------------------------------------------
(* epoch_start and epoch_end: the last arrival releases everybody. *)

\* The barrier is made for one thread too few.
BugCrews == {Threads \ {t} : t \in Threads}

\* The threads that a barrier releases together.
Crews == {Threads}

Release(from, to) ==
  /\ ~aborted
  /\ \E crew \in Crews :
       /\ \A t \in crew : pc[t] = from
       /\ pc' = [t \in Threads |-> IF t \in crew THEN to ELSE pc[t]]
  /\ UNCHANGED <<vars, epoch, count, doneCycles, slowest>>

EpochStart == Release("start", "run")
EpochEnd   == Release("end", "leave")

\* A thread goes round its loop, or leaves it.
NextEpoch(t) ==
  /\ epoch' = [epoch EXCEPT ![t] = @ + 1]
  /\ pc' = [pc EXCEPT ![t] = IF epoch[t] + 1 < EpochCount THEN "start" ELSE "done"]
  /\ count' = [count EXCEPT ![t] = 0]
------------------------------------------------------------------------------
(* The main thread *)

PushBurst ==
  /\ pc[Main] = "run" /\ count[Main] < Share(epoch[Main])
  /\ Push
  /\ count' = IF pushed' # pushed THEN [count EXCEPT ![Main] = @ + 1] ELSE count
  /\ UNCHANGED <<pc, epoch, doneCycles, slowest>>

BurstPushed ==
  /\ ~aborted
  /\ pc[Main] = "run" /\ count[Main] = Share(epoch[Main])
  /\ pc' = [pc EXCEPT ![Main] = "end"]
  /\ UNCHANGED <<vars, epoch, count, doneCycles, slowest>>

Metrics ==
  /\ ~aborted /\ pc[Main] = "leave"
  /\ slowest' = {doneCycles[c] : c \in Consumers}
  /\ NextEpoch(Main)
  /\ UNCHANGED <<vars, doneCycles>>
------------------------------------------------------------------------------
(* The consumers *)

PopBurst(c) ==
  /\ pc[c] = "run" /\ count[c] < Share(epoch[c])
  /\ Pop(c)
  /\ count' = IF position' # position THEN [count EXCEPT ![c] = @ + 1] ELSE count
  /\ UNCHANGED <<pc, epoch, doneCycles, slowest>>

BurstPopped(c) ==
  /\ ~aborted
  /\ pc[c] = "run" /\ count[c] = Share(epoch[c])
  /\ doneCycles' = [doneCycles EXCEPT ![c] = epoch[c]]
  /\ pc' = [pc EXCEPT ![c] = "end"]
  /\ UNCHANGED <<vars, epoch, count, slowest>>

NextRound(c) ==
  /\ ~aborted /\ pc[c] = "leave"
  /\ NextEpoch(c)
  /\ UNCHANGED <<vars, doneCycles, slowest>>
------------------------------------------------------------------------------
Finished == (aborted \/ \A t \in Threads : pc[t] = "done") /\ UNCHANGED allVars

BenchNext ==
  \/ EpochStart \/ EpochEnd \/ PushBurst \/ BurstPushed \/ Metrics
  \/ \E c \in Consumers : PopBurst(c) \/ BurstPopped(c) \/ NextRound(c)
  \/ Finished

BenchSpec == BenchInit /\ [][BenchNext]_allVars

BenchFairSpec ==
  /\ BenchSpec
  /\ WF_allVars(EpochStart) /\ WF_allVars(EpochEnd)
  /\ WF_allVars(PushBurst) /\ WF_allVars(BurstPushed) /\ WF_allVars(Metrics)
  /\ \A c \in Consumers :
       WF_allVars(PopBurst(c)) /\ WF_allVars(BurstPopped(c)) /\ WF_allVars(NextRound(c))
------------------------------------------------------------------------------
(* Properties *)

\* The main thread takes its metrics from the times of the epoch it has just run: no
\* consumer is late with its own, or early with the next.
MetricsOfOneEpoch == slowest # {} => slowest = {epoch[Main] - 1}

\* A burst no longer than the ring never aborts the process, however the threads are
\* scheduled and whatever came before: the barriers hold the producer back.
NoAbortWithinRing == aborted => Share(epoch[Main]) > Slots

\* All messages are pushed and popped and every thread ends, or a consumer was lapped.
Completes ==
  <>( \/ aborted /\ \E c \in Consumers : Lapped(c)
      \/ \A t \in Threads : pc[t] = "done" /\ \A c \in Consumers : position[c] = MaxPush )
==============================================================================
