------------------------- MODULE SpmcBurstBenchProof --------------------------
(***************************************************************************)
(* Proofs about SpmcBurstBench, for every number of consumers, length of   *)
(* burst, number of messages and size of the ring.  The queue's invariant  *)
(* is that of SpmcQueueProof.                                              *)
(***************************************************************************)
EXTENDS SpmcBurstBench, SpmcQueueProof

(***************************************************************************)
(* The two barriers keep the threads in step: either all are between the   *)
(* first barrier and the second, in one epoch, or all are between the      *)
(* second of an epoch and the first of the next.                           *)
(***************************************************************************)
Running(t) == pc[t] \in {"run", "end"}
Round(t)   == IF pc[t] \in {"start", "done"} THEN epoch[t] - 1 ELSE epoch[t]

StepInv ==
  /\ pc \in [Threads -> {"start", "run", "end", "leave", "done"}]
  /\ epoch \in [Threads -> Nat]
  /\ doneCycles \in [Consumers -> Int]
  /\ \A t \in Threads : Round(t) = Round(Main) /\ (Running(t) <=> Running(Main))
  /\ \A c \in Consumers :
       doneCycles[c] = IF pc[c] \in {"end", "leave"} THEN epoch[c] ELSE epoch[c] - 1

BarrierInv == StepInv /\ MetricsOfOneEpoch

(***************************************************************************)
(* A thread's place in the stream is the start of its epoch's burst and    *)
(* its count, and a push or a pop in progress is one of that burst.        *)
(***************************************************************************)
InBurst(t, place) ==
  /\ count[t] \in Nat
  /\ pc[t] # "done" => place = epoch[t] * Burst + count[t] /\ Share(epoch[t]) >= 0
  /\ pc[t] = "start" => count[t] = 0
  /\ pc[t] = "run" => count[t] <= Share(epoch[t])
  /\ pc[t] \in {"end", "leave"} => count[t] = Share(epoch[t])

BurstInv ==
  /\ count \in [Threads -> Nat]
  /\ InBurst(Main, pushed)
  /\ pushPc # "idle" => pc[Main] = "run" /\ count[Main] < Share(epoch[Main])
  /\ \A c \in Consumers : InBurst(c, position[c])
  /\ NoAbortWithinRing

BenchIInv == IInv /\ BarrierInv /\ BurstInv
------------------------------------------------------------------------------
(* The barriers *)

LEMMA InitBarrier == BenchInit => BarrierInv
BY DEF BenchInit, BarrierInv, StepInv, MetricsOfOneEpoch, Threads, Running, Round

\* A barrier moves every thread, from one place to the next.
LEMMA ReleaseBarrier ==
  ASSUME NEW from, NEW to, <<from, to>> \in {<<"start", "run">>, <<"end", "leave">>}
  PROVE  BarrierInv /\ Release(from, to) => BarrierInv'
<1> SUFFICES ASSUME BarrierInv, Release(from, to) PROVE BarrierInv'
  OBVIOUS
<1>1. /\ \A t \in Threads : pc[t] = from
      /\ pc' = [t \in Threads |-> to]
      /\ UNCHANGED <<epoch, doneCycles, slowest>>
  BY DEF Release, Crews
<1>2. Main \in Threads /\ Consumers \subseteq Threads
  BY DEF Threads
<1>3. CASE from = "start" /\ to = "run"
  BY <1>1, <1>2, <1>3 DEF BarrierInv, StepInv, MetricsOfOneEpoch, Running, Round
<1>4. CASE from = "end" /\ to = "leave"
  BY <1>1, <1>2, <1>4 DEF BarrierInv, StepInv, MetricsOfOneEpoch, Running, Round
<1> QED
  BY <1>3, <1>4

\* A thread that goes round keeps its round: the one it has left.
LEMMA NextEpochRound ==
  ASSUME StepInv, NEW u \in Threads, pc[u] = "leave", NextEpoch(u)
  PROVE  /\ pc' \in [Threads -> {"start", "run", "end", "leave", "done"}]
         /\ epoch' \in [Threads -> Nat] /\ epoch'[u] = epoch[u] + 1
         /\ pc'[u] \in {"start", "done"}
         /\ \A t \in Threads \ {u} : pc'[t] = pc[t] /\ epoch'[t] = epoch[t]
         /\ \A t \in Threads : Round(t)' = Round(Main)' /\ (Running(t)' <=> Running(Main)')
<1>1. /\ pc' \in [Threads -> {"start", "run", "end", "leave", "done"}]
      /\ epoch' \in [Threads -> Nat] /\ epoch'[u] = epoch[u] + 1
      /\ pc'[u] \in {"start", "done"}
      /\ \A t \in Threads \ {u} : pc'[t] = pc[t] /\ epoch'[t] = epoch[t]
  BY DEF StepInv, NextEpoch
<1>2. \A t \in Threads : Round(t)' = Round(t) /\ (Running(t)' <=> Running(t))
  BY <1>1 DEF StepInv, Round, Running
<1>3. Main \in Threads
  BY DEF Threads
<1> QED
  BY <1>1, <1>2, <1>3 DEF StepInv

LEMMA MetricsBarrier == BarrierInv /\ Metrics => BarrierInv'
<1> SUFFICES ASSUME BarrierInv, Metrics PROVE BarrierInv'
  OBVIOUS
<1>1. Main \in Threads /\ Consumers \subseteq Threads /\ Main \notin Consumers
  BY BurstAssumption DEF Threads
<1>2. doneCycles' = doneCycles /\ slowest' = {doneCycles[c] : c \in Consumers}
  BY DEF Metrics
<1>3. /\ pc' \in [Threads -> {"start", "run", "end", "leave", "done"}]
      /\ epoch' \in [Threads -> Nat] /\ epoch'[Main] = epoch[Main] + 1
      /\ pc'[Main] \in {"start", "done"}
      /\ \A t \in Threads \ {Main} : pc'[t] = pc[t] /\ epoch'[t] = epoch[t]
      /\ \A t \in Threads : Round(t)' = Round(Main)' /\ (Running(t)' <=> Running(Main)')
  BY <1>1, NextEpochRound DEF BarrierInv, Metrics
<1>4. StepInv'
  BY <1>1, <1>2, <1>3 DEF BarrierInv, StepInv
<1>5. \A c \in Consumers : doneCycles[c] = epoch[Main]
  BY <1>1 DEF BarrierInv, StepInv, Metrics, Running, Round
<1>6. epoch[Main] = epoch'[Main] - 1
  BY <1>1, <1>3 DEF BarrierInv, StepInv
<1>7. slowest' # {} => slowest' = {epoch'[Main] - 1}
  BY <1>2, <1>5, <1>6
<1> QED
  BY <1>4, <1>7 DEF BarrierInv, MetricsOfOneEpoch

LEMMA NextRoundBarrier ==
  ASSUME NEW c \in Consumers PROVE BarrierInv /\ NextRound(c) => BarrierInv'
<1> SUFFICES ASSUME BarrierInv, NextRound(c) PROVE BarrierInv'
  OBVIOUS
<1>1. c \in Threads /\ Consumers \subseteq Threads /\ Main \notin Consumers /\ Main \in Threads
  BY BurstAssumption DEF Threads
<1>2. doneCycles' = doneCycles /\ slowest' = slowest /\ pc[c] = "leave"
  BY DEF NextRound
<1>3. /\ pc' \in [Threads -> {"start", "run", "end", "leave", "done"}]
      /\ epoch' \in [Threads -> Nat] /\ epoch'[c] = epoch[c] + 1
      /\ pc'[c] \in {"start", "done"}
      /\ \A t \in Threads \ {c} : pc'[t] = pc[t] /\ epoch'[t] = epoch[t]
      /\ \A t \in Threads : Round(t)' = Round(Main)' /\ (Running(t)' <=> Running(Main)')
  BY <1>1, NextEpochRound DEF BarrierInv, NextRound
<1>4. \A d \in Consumers : doneCycles'[d] =
        IF pc'[d] \in {"end", "leave"} THEN epoch'[d] ELSE epoch'[d] - 1
  BY <1>1, <1>2, <1>3 DEF BarrierInv, StepInv
<1>5. StepInv'
  BY <1>2, <1>3, <1>4 DEF BarrierInv, StepInv
<1> QED
  BY <1>1, <1>2, <1>3, <1>5 DEF BarrierInv, MetricsOfOneEpoch

LEMMA BurstPoppedBarrier ==
  ASSUME NEW c \in Consumers PROVE BarrierInv /\ BurstPopped(c) => BarrierInv'
<1> SUFFICES ASSUME BarrierInv, BurstPopped(c) PROVE BarrierInv'
  OBVIOUS
<1>1. c \in Threads /\ Consumers \subseteq Threads /\ Main \in Threads
  BY DEF Threads
<1>2. /\ pc' = [pc EXCEPT ![c] = "end"] /\ pc[c] = "run"
      /\ doneCycles' = [doneCycles EXCEPT ![c] = epoch[c]]
      /\ UNCHANGED <<epoch, slowest>>
  BY DEF BurstPopped
<1> QED
  BY <1>1, <1>2 DEF BarrierInv, StepInv, MetricsOfOneEpoch, Running, Round

LEMMA BurstPushedBarrier == BarrierInv /\ BurstPushed => BarrierInv'
<1> SUFFICES ASSUME BarrierInv, BurstPushed PROVE BarrierInv'
  OBVIOUS
<1>1. Consumers \subseteq Threads /\ Main \in Threads /\ Main \notin Consumers
  BY BurstAssumption DEF Threads
<1>2. /\ pc' = [pc EXCEPT ![Main] = "end"] /\ pc[Main] = "run"
      /\ UNCHANGED <<epoch, slowest, doneCycles>>
  BY DEF BurstPushed
<1> QED
  BY <1>1, <1>2 DEF BarrierInv, StepInv, MetricsOfOneEpoch, Running, Round

\* Nothing else moves a thread.
LEMMA StillBarrier == BarrierInv /\ UNCHANGED <<pc, epoch, doneCycles, slowest>> => BarrierInv'
BY DEF BarrierInv, StepInv, MetricsOfOneEpoch, Running, Round

LEMMA NextBarrier == BarrierInv /\ [BenchNext]_allVars => BarrierInv'
<1> SUFFICES ASSUME BarrierInv, [BenchNext]_allVars PROVE BarrierInv'
  OBVIOUS
<1>1. CASE EpochStart \/ EpochEnd
  BY <1>1, ReleaseBarrier DEF EpochStart, EpochEnd
<1>2. CASE BurstPushed \/ Metrics
  BY <1>2, BurstPushedBarrier, MetricsBarrier
<1>3. ASSUME NEW c \in Consumers, BurstPopped(c) \/ NextRound(c) PROVE BarrierInv'
  BY <1>3, BurstPoppedBarrier, NextRoundBarrier
<1>4. CASE PushBurst
  BY <1>4, StillBarrier DEF PushBurst
<1>5. ASSUME NEW c \in Consumers, PopBurst(c) PROVE BarrierInv'
  BY <1>5, StillBarrier DEF PopBurst
<1>6. CASE Finished \/ UNCHANGED allVars
  BY <1>6, StillBarrier DEF Finished, allVars, benchVars
<1> QED
  BY <1>1, <1>2, <1>3, <1>4, <1>5, <1>6 DEF BenchNext

\* The times the main thread takes are all of the epoch it has just run, whatever the
\* queue does in it.
THEOREM OneEpoch == BenchSpec => []MetricsOfOneEpoch
<1>1. BarrierInv => MetricsOfOneEpoch
  BY DEF BarrierInv
<1> QED
  BY <1>1, InitBarrier, NextBarrier, PTL DEF BenchSpec
------------------------------------------------------------------------------
(* Bursts *)

\* Every epoch but the last has a whole burst, and the next one starts where it ends.
LEMMA WholeBurst ==
  ASSUME NEW e \in Nat, e + 1 < EpochCount
  PROVE  /\ (e + 1) * Burst = e * Burst + Burst
         /\ Share(e) = Burst /\ Share(e + 1) >= 0
<1> DEFINE n == (MaxPush + Burst - 1) \div Burst
<1> DEFINE r == (MaxPush + Burst - 1) % Burst
<1>1. Burst \in Nat \ {0} /\ MaxPush \in Nat /\ MaxPush + Burst - 1 \in Int
  BY BurstAssumption, Sizes
<1>2. MaxPush + Burst - 1 = Burst * n + r /\ r \in 0 .. Burst - 1 /\ n \in Int
  BY <1>1, DivMod
<1>3. e + 2 <= n
  BY <1>2 DEF EpochCount
<1> HIDE DEF n, r
<1>4. Burst * (e + 2) <= Burst * n
  BY <1>1, <1>2, <1>3
<1>5. Burst * (e + 2) = e * Burst + 2 * Burst /\ (e + 1) * Burst = e * Burst + Burst
      /\ e * Burst \in Int
  BY <1>1
<1>6. e * Burst + Burst <= MaxPush
  BY <1>1, <1>2, <1>4, <1>5
<1>7. MaxPush - e * Burst >= Burst
  BY <1>1, <1>5, <1>6
<1> QED
  BY <1>1, <1>5, <1>6, <1>7 DEF Share

LEMMA ShareType == ASSUME NEW e \in Nat PROVE Share(e) \in Int /\ e * Burst \in Int
BY BurstAssumption, Sizes DEF Share

\* The benchmark works the queue only through its operations.
LEMMA QueueStep == [BenchNext]_allVars => [Next]_vars
<1> SUFFICES ASSUME [BenchNext]_allVars PROVE [Next]_vars
  OBVIOUS
<1>1. CASE PushBurst
  BY <1>1 DEF PushBurst, Next
<1>2. ASSUME NEW c \in Consumers, PopBurst(c) PROVE [Next]_vars
  BY <1>2 DEF PopBurst, Next
<1>3. CASE EpochStart \/ EpochEnd \/ BurstPushed \/ Metrics
  BY <1>3 DEF EpochStart, EpochEnd, Release, BurstPushed, Metrics
<1>4. ASSUME NEW c \in Consumers, BurstPopped(c) \/ NextRound(c) PROVE [Next]_vars
  BY <1>4 DEF BurstPopped, NextRound
<1>5. CASE Finished \/ UNCHANGED allVars
  BY <1>5 DEF Finished, allVars
<1> QED
  BY <1>1, <1>2, <1>3, <1>4, <1>5 DEF BenchNext

LEMMA InitBenchIInv == MaxPush < Modulus /\ BenchInit => BenchIInv
<1> SUFFICES ASSUME MaxPush < Modulus, BenchInit PROVE BenchIInv
  OBVIOUS
<1>1. IInv
  BY FreshIInv DEF BenchInit, Fresh
<1>2. Share(0) >= 0 /\ 0 * Burst = 0
  BY BurstAssumption, Sizes DEF Share
<1>3. BurstInv
  BY <1>2 DEF BenchInit, BurstInv, InBurst, NoAbortWithinRing, Threads
<1> QED
  BY <1>1, <1>3, InitBarrier DEF BenchIInv

\* A thread that goes round is where its next burst starts.
LEMMA NextEpochBurst ==
  ASSUME NEW u \in Threads, NEW place, StepInv, count \in [Threads -> Nat],
         pc[u] = "leave", InBurst(u, place), NextEpoch(u)
  PROVE  /\ count' \in [Threads -> Nat] /\ pc'[u] # "run"
         /\ count'[u] \in Nat
         /\ pc'[u] # "done" => /\ place = epoch'[u] * Burst + count'[u]
                               /\ Share(epoch'[u]) >= 0
         /\ pc'[u] \in {"start", "done"} /\ count'[u] = 0
         /\ \A t \in Threads \ {u} :
              pc'[t] = pc[t] /\ epoch'[t] = epoch[t] /\ count'[t] = count[t]
<1>1. /\ epoch[u] \in Nat /\ epoch'[u] = epoch[u] + 1
      /\ pc'[u] = IF epoch[u] + 1 < EpochCount THEN "start" ELSE "done"
      /\ count' = [count EXCEPT ![u] = 0]
      /\ \A t \in Threads \ {u} : pc'[t] = pc[t] /\ epoch'[t] = epoch[t]
  BY DEF StepInv, NextEpoch
<1>2. place = epoch[u] * Burst + Share(epoch[u])
  BY DEF InBurst
<1>3. CASE epoch[u] + 1 < EpochCount
  <2>1. /\ (epoch[u] + 1) * Burst = epoch[u] * Burst + Burst
        /\ Share(epoch[u]) = Burst /\ Share(epoch[u] + 1) >= 0
    BY <1>1, <1>3, WholeBurst
  <2>2. (epoch[u] + 1) * Burst + 0 = (epoch[u] + 1) * Burst
    BY <1>1, BurstAssumption
  <2> QED
    BY <1>1, <1>2, <1>3, <2>1, <2>2
<1>4. CASE ~(epoch[u] + 1 < EpochCount)
  BY <1>1, <1>4
<1> QED
  BY <1>3, <1>4

\* The barriers move nobody within a burst.
LEMMA ReleaseBurst ==
  ASSUME NEW from, NEW to, <<from, to>> \in {<<"start", "run">>, <<"end", "leave">>}
  PROVE  BenchIInv /\ Release(from, to) => BurstInv'
<1> SUFFICES ASSUME BenchIInv, Release(from, to) PROVE BurstInv'
  OBVIOUS
<1>1. /\ \A t \in Threads : pc[t] = from
      /\ pc' = [t \in Threads |-> to] /\ ~aborted
      /\ UNCHANGED <<epoch, count, pushed, position, pushPc, aborted>>
  BY DEF Release, Crews, vars, pushVars, popVars
<1>2. Main \in Threads /\ Consumers \subseteq Threads
  BY DEF Threads
<1>3. pushPc = "idle"
  BY <1>1, <1>2 DEF BenchIInv, BurstInv
<1>4. ASSUME NEW t \in Threads, NEW place, InBurst(t, place), epoch[t] \in Nat
      PROVE  /\ count[t] \in Nat
             /\ place = epoch[t] * Burst + count[t] /\ Share(epoch[t]) >= 0
             /\ to = "run" => count[t] <= Share(epoch[t])
             /\ to = "leave" => count[t] = Share(epoch[t])
  BY <1>1, <1>4, ShareType DEF InBurst
<1>5. \A t \in Threads : epoch[t] \in Nat
  BY DEF BenchIInv, BarrierInv, StepInv
<1>6. InBurst(Main, pushed)'
  <2>1. InBurst(Main, pushed)
    BY DEF BenchIInv, BurstInv
  <2> QED
    BY <1>1, <1>2, <1>4, <1>5, <2>1 DEF InBurst
<1>7. ASSUME NEW c \in Consumers PROVE InBurst(c, position[c])'
  <2>1. InBurst(c, position[c])
    BY DEF BenchIInv, BurstInv
  <2> QED
    BY <1>1, <1>2, <1>4, <1>5, <2>1 DEF InBurst
<1> QED
  BY <1>1, <1>3, <1>6, <1>7 DEF BenchIInv, BurstInv, NoAbortWithinRing

\* A push keeps the main thread within its burst.
LEMMA PushBurstBurst == BenchIInv /\ PushBurst => BurstInv'
<1> SUFFICES ASSUME BenchIInv, PushBurst PROVE BurstInv'
  OBVIOUS
<1>1. /\ pc[Main] = "run" /\ count[Main] < Share(epoch[Main])
      /\ UNCHANGED <<pc, epoch>>
  BY DEF PushBurst
<1>2. Main \in Threads /\ Consumers \subseteq Threads /\ Main \notin Consumers
  BY BurstAssumption DEF Threads
<1>3. ~aborted /\ aborted' = aborted /\ position' = position
  BY DEF PushBurst, Push, PushBegin, PushWord, PushSeal, PushPublish, popVars
<1>4. \/ pushed' = pushed /\ count' = count
      \/ pushed' = pushed + 1 /\ pushPc' = "idle" /\ count' = [count EXCEPT ![Main] = @ + 1]
  <2>1. pushed \in Int
    BY DEF BenchIInv, IInv, TypeOK
  <2> QED
    BY <2>1 DEF PushBurst, Push, PushBegin, PushWord, PushSeal, PushPublish
<1>5. /\ count[Main] \in Nat /\ epoch[Main] \in Nat /\ pushed \in Int
      /\ pushed = epoch[Main] * Burst + count[Main]
      /\ Share(epoch[Main]) >= 0 /\ Share(epoch[Main]) \in Int
      /\ epoch[Main] * Burst \in Int
  BY <1>1, <1>2, ShareType DEF BenchIInv, BurstInv, InBurst, BarrierInv, StepInv, IInv, TypeOK
<1>6. count' \in [Threads -> Nat] /\ \A c \in Consumers : count'[c] = count[c]
  BY <1>2, <1>4 DEF BenchIInv, BurstInv
<1>7. InBurst(Main, pushed)'
  <2>1. /\ count'[Main] \in Nat /\ count'[Main] <= Share(epoch[Main])
        /\ pushed' = epoch[Main] * Burst + count'[Main]
    BY <1>1, <1>2, <1>4, <1>5 DEF BenchIInv, BurstInv
  <2> QED
    BY <1>1, <1>5, <2>1 DEF InBurst
<1>8. \A c \in Consumers : InBurst(c, position[c])'
  BY <1>1, <1>3, <1>6 DEF BenchIInv, BurstInv, InBurst
<1>9. pushPc' # "idle" => pc'[Main] = "run" /\ count'[Main] < Share(epoch'[Main])
  BY <1>1, <1>4
<1> QED
  BY <1>3, <1>6, <1>7, <1>8, <1>9 DEF BurstInv, NoAbortWithinRing

\* A consumer that is lapped in the middle of its burst has the producer in the same
\* burst, more than a ring ahead.
LEMMA LappedInBurst ==
  ASSUME BenchIInv, NEW c \in Consumers, pc[c] = "run", Lapped(c)
  PROVE  Share(epoch[Main]) > Slots
<1>1. Main \in Threads /\ c \in Threads
  BY DEF Threads
<1>2. epoch[c] = epoch[Main] /\ pc[Main] \in {"run", "end"}
  BY <1>1 DEF BenchIInv, BarrierInv, StepInv, Running, Round
<1> DEFINE e == epoch[Main]
<1>3. e \in Nat /\ e * Burst \in Int /\ Share(e) \in Int
  BY <1>1, ShareType DEF BenchIInv, BarrierInv, StepInv
<1>4. /\ count[Main] \in Nat /\ count[c] \in Nat
      /\ pushed = e * Burst + count[Main] /\ position[c] = e * Burst + count[c]
      /\ count[Main] <= Share(e)
      /\ pushPc # "idle" => count[Main] < Share(e)
  BY <1>1, <1>2, <1>3 DEF BenchIInv, BurstInv, InBurst
<1> DEFINE b == e * Burst
<1> DEFINE sh == Share(e)
<1>5. b \in Int /\ sh \in Int /\ Slots \in Int
  BY <1>3, Sizes
<1>6. Started <= b + sh /\ Started \in Int
  <2>1. pushed = b + count[Main] /\ count[Main] <= sh /\ (pushPc # "idle" => count[Main] < sh)
    BY <1>4
  <2> HIDE DEF b, sh, e
  <2> QED
    BY <1>4, <1>5, <2>1 DEF Started
<1>7. Started > (b + count[c]) + Slots
  BY <1>4 DEF Lapped
<1>8. sh > Slots
  <2> HIDE DEF b, sh, e
  <2> QED
    BY <1>4, <1>5, <1>6, <1>7
<1> QED
  BY <1>8

\* A pop keeps the consumer within its burst, or aborts the process rightly.
LEMMA PopBurstBurst ==
  ASSUME NEW c \in Consumers PROVE BenchIInv /\ PopBurst(c) => BurstInv'
<1> SUFFICES ASSUME BenchIInv, PopBurst(c) PROVE BurstInv'
  OBVIOUS
<1>1. /\ pc[c] = "run" /\ count[c] < Share(epoch[c])
      /\ UNCHANGED <<pc, epoch>>
  BY DEF PopBurst
<1>2. Main \in Threads /\ Consumers \subseteq Threads /\ Main \notin Consumers /\ c # Main
  BY BurstAssumption DEF Threads
<1>3. ~aborted /\ pushed' = pushed /\ pushPc' = pushPc
  BY DEF PopBurst, Pop, PopNothing, PopTooSlow, PopBegin, PopWord, PopDeliver, PopOverwritten,
         vars, pushVars
<1>4. \/ position' = position /\ count' = count
      \/ /\ position' = [position EXCEPT ![c] = @ + 1]
         /\ count' = [count EXCEPT ![c] = @ + 1]
  <2>1. position[c] \in Nat /\ position \in [Consumers -> Nat]
    BY DEF BenchIInv, IInv, TypeOK
  <2>2. [position EXCEPT ![c] = @ + 1] # position
    <3>1. [position EXCEPT ![c] = @ + 1][c] = position[c] + 1
      BY <2>1
    <3> QED
      BY <2>1, <3>1
  <2>3. position' = position \/ position' = [position EXCEPT ![c] = @ + 1]
    BY DEF PopBurst, Pop, PopNothing, PopTooSlow, PopBegin, PopWord, PopDeliver,
           PopOverwritten, vars, popVars
  <2> QED
    BY <2>2, <2>3 DEF PopBurst
<1>5. /\ count[c] \in Nat /\ epoch[c] \in Nat /\ position[c] \in Int
      /\ position[c] = epoch[c] * Burst + count[c]
      /\ Share(epoch[c]) >= 0 /\ Share(epoch[c]) \in Int /\ epoch[c] * Burst \in Int
  <2>1. count[c] \in Nat /\ epoch[c] \in Nat /\ InBurst(c, position[c])
    BY <1>2 DEF BenchIInv, BurstInv, BarrierInv, StepInv
  <2>2. position[c] \in Int
    BY DEF BenchIInv, IInv, TypeOK
  <2>3. Share(epoch[c]) \in Int /\ epoch[c] * Burst \in Int
    BY <2>1, ShareType
  <2> QED
    BY <1>1, <2>1, <2>2, <2>3 DEF InBurst
<1>6. count' \in [Threads -> Nat] /\ \A t \in Threads \ {c} : count'[t] = count[t]
  BY <1>2, <1>4 DEF BenchIInv, BurstInv
<1>7. InBurst(Main, pushed)'
  BY <1>1, <1>2, <1>3, <1>6 DEF BenchIInv, BurstInv, InBurst
<1>8. InBurst(c, position[c])'
  <2>1. /\ count'[c] \in Nat /\ count'[c] <= Share(epoch[c])
        /\ position'[c] = epoch[c] * Burst + count'[c]
    <3>1. position \in [Consumers -> Nat] /\ count \in [Threads -> Nat] /\ c \in Threads
      BY <1>2 DEF BenchIInv, IInv, TypeOK, BurstInv
    <3> QED
      BY <1>1, <1>4, <1>5, <3>1
  <2> QED
    BY <1>1, <1>5, <2>1 DEF InBurst
<1>9. ASSUME NEW d \in Consumers, d # c PROVE InBurst(d, position[d])'
  <2>1. position'[d] = position[d] /\ count'[d] = count[d]
    BY <1>2, <1>4, <1>6, <1>9 DEF BenchIInv, IInv, TypeOK
  <2> QED
    BY <1>1, <2>1 DEF BenchIInv, BurstInv, InBurst
<1>10. pushPc' # "idle" => pc'[Main] = "run" /\ count'[Main] < Share(epoch'[Main])
  BY <1>1, <1>2, <1>3, <1>6 DEF BenchIInv, BurstInv
<1>11. NoAbortWithinRing'
  <2>1. CASE PopTooSlow(c) \/ PopOverwritten(c)
    BY <1>1, <2>1, AbortStep, LappedInBurst DEF BenchIInv, NoAbortWithinRing, Share
  <2>2. CASE aborted' = aborted
    BY <1>3, <2>2 DEF NoAbortWithinRing
  <2> QED
    BY <2>1, <2>2 DEF PopBurst, Pop, PopNothing, PopBegin, PopWord, PopDeliver, vars
<1> QED
  BY <1>6, <1>7, <1>8, <1>9, <1>10, <1>11 DEF BurstInv

LEMMA BurstPushedBurst == BenchIInv /\ BurstPushed => BurstInv'
<1> SUFFICES ASSUME BenchIInv, BurstPushed PROVE BurstInv'
  OBVIOUS
<1>1. /\ pc[Main] = "run" /\ count[Main] = Share(epoch[Main]) /\ ~aborted
      /\ pc' = [pc EXCEPT ![Main] = "end"]
      /\ UNCHANGED <<epoch, count, pushed, position, pushPc, aborted>>
  BY DEF BurstPushed, vars, pushVars, popVars
<1>2. Main \in Threads /\ Consumers \subseteq Threads /\ Main \notin Consumers
  BY BurstAssumption DEF Threads
<1>3. pc'[Main] = "end" /\ \A c \in Consumers : pc'[c] = pc[c]
  BY <1>1, <1>2 DEF BenchIInv, BarrierInv, StepInv
<1>4. count[Main] \in Nat
  BY <1>2 DEF BenchIInv, BurstInv
<1>5. pushPc = "idle"
  BY <1>1, <1>4 DEF BenchIInv, BurstInv
<1> QED
  BY <1>1, <1>3, <1>5 DEF BenchIInv, BurstInv, InBurst, NoAbortWithinRing

LEMMA BurstPoppedBurst ==
  ASSUME NEW c \in Consumers PROVE BenchIInv /\ BurstPopped(c) => BurstInv'
<1> SUFFICES ASSUME BenchIInv, BurstPopped(c) PROVE BurstInv'
  OBVIOUS
<1>1. /\ pc[c] = "run" /\ count[c] = Share(epoch[c]) /\ ~aborted
      /\ pc' = [pc EXCEPT ![c] = "end"]
      /\ UNCHANGED <<epoch, count, pushed, position, pushPc, aborted>>
  BY DEF BurstPopped, vars, pushVars, popVars
<1>2. Main \in Threads /\ Consumers \subseteq Threads /\ Main \notin Consumers
  BY BurstAssumption DEF Threads
<1>3. pc'[c] = "end" /\ \A t \in Threads \ {c} : pc'[t] = pc[t]
  BY <1>1, <1>2 DEF BenchIInv, BarrierInv, StepInv
<1>4. InBurst(Main, pushed)'
  BY <1>1, <1>2, <1>3 DEF BenchIInv, BurstInv, InBurst
<1>5. ASSUME NEW d \in Consumers PROVE InBurst(d, position[d])'
  BY <1>1, <1>2, <1>3 DEF BenchIInv, BurstInv, InBurst
<1> QED
  BY <1>1, <1>2, <1>3, <1>4, <1>5 DEF BenchIInv, BurstInv, NoAbortWithinRing

LEMMA MetricsBurst == BenchIInv /\ Metrics => BurstInv'
<1> SUFFICES ASSUME BenchIInv, Metrics PROVE BurstInv'
  OBVIOUS
<1>1. /\ pc[Main] = "leave" /\ ~aborted /\ NextEpoch(Main)
      /\ UNCHANGED <<pushed, position, pushPc, aborted>>
  BY DEF Metrics, vars, pushVars, popVars
<1>2. Main \in Threads /\ Consumers \subseteq Threads /\ Main \notin Consumers
  BY BurstAssumption DEF Threads
<1>3. /\ StepInv /\ count \in [Threads -> Nat] /\ InBurst(Main, pushed) /\ pushPc = "idle"
  BY <1>1 DEF BenchIInv, BarrierInv, BurstInv
<1>4. /\ count' \in [Threads -> Nat] /\ pc'[Main] # "run"
      /\ count'[Main] \in Nat
      /\ pc'[Main] # "done" => /\ pushed = epoch'[Main] * Burst + count'[Main]
                              /\ Share(epoch'[Main]) >= 0
      /\ pc'[Main] \in {"start", "done"} /\ count'[Main] = 0
      /\ \A t \in Threads \ {Main} :
           pc'[t] = pc[t] /\ epoch'[t] = epoch[t] /\ count'[t] = count[t]
  BY <1>1, <1>2, <1>3, NextEpochBurst
<1>5. InBurst(Main, pushed)'
  BY <1>1, <1>4 DEF InBurst, Share
<1>6. \A c \in Consumers : InBurst(c, position[c])'
  BY <1>1, <1>2, <1>4 DEF BenchIInv, BurstInv, InBurst, Share
<1> QED
  BY <1>1, <1>3, <1>4, <1>5, <1>6 DEF BurstInv, NoAbortWithinRing

LEMMA NextRoundBurst ==
  ASSUME NEW c \in Consumers PROVE BenchIInv /\ NextRound(c) => BurstInv'
<1> SUFFICES ASSUME BenchIInv, NextRound(c) PROVE BurstInv'
  OBVIOUS
<1>1. /\ pc[c] = "leave" /\ ~aborted /\ NextEpoch(c)
      /\ UNCHANGED <<pushed, position, pushPc, aborted>>
  BY DEF NextRound, vars, pushVars, popVars
<1>2. Main \in Threads /\ Consumers \subseteq Threads /\ Main \notin Consumers
  BY BurstAssumption DEF Threads
<1>3. /\ StepInv /\ count \in [Threads -> Nat] /\ InBurst(c, position[c])
  BY <1>1 DEF BenchIInv, BarrierInv, BurstInv
<1>4. /\ count' \in [Threads -> Nat] /\ pc'[c] # "run"
      /\ count'[c] \in Nat
      /\ pc'[c] # "done" => /\ position[c] = epoch'[c] * Burst + count'[c]
                           /\ Share(epoch'[c]) >= 0
      /\ pc'[c] \in {"start", "done"} /\ count'[c] = 0
      /\ \A t \in Threads \ {c} :
           pc'[t] = pc[t] /\ epoch'[t] = epoch[t] /\ count'[t] = count[t]
  BY <1>1, <1>2, <1>3, NextEpochBurst
<1>5. InBurst(c, position[c])'
  BY <1>1, <1>4 DEF InBurst, Share
<1>6. \A d \in Consumers \ {c} : InBurst(d, position[d])'
  BY <1>1, <1>2, <1>4 DEF BenchIInv, BurstInv, InBurst, Share
<1>7. InBurst(Main, pushed)'
  BY <1>1, <1>2, <1>4 DEF BenchIInv, BurstInv, InBurst, Share
<1>8. pushPc' # "idle" => pc'[Main] = "run" /\ count'[Main] < Share(epoch'[Main])
  BY <1>1, <1>2, <1>4 DEF BenchIInv, BurstInv, Share
<1> QED
  BY <1>1, <1>4, <1>5, <1>6, <1>7, <1>8 DEF BurstInv, NoAbortWithinRing

LEMMA NextBenchIInv == BenchIInv /\ [BenchNext]_allVars => BenchIInv'
<1> SUFFICES ASSUME BenchIInv, [BenchNext]_allVars PROVE BenchIInv'
  OBVIOUS
<1>1. IInv'
  BY QueueStep, NextIInv DEF BenchIInv
<1>2. BarrierInv'
  BY NextBarrier DEF BenchIInv
<1>3. BurstInv'
  <2>1. CASE EpochStart \/ EpochEnd
    BY <2>1, ReleaseBurst DEF EpochStart, EpochEnd
  <2>2. CASE PushBurst \/ BurstPushed \/ Metrics
    BY <2>2, PushBurstBurst, BurstPushedBurst, MetricsBurst
  <2>3. ASSUME NEW c \in Consumers, PopBurst(c) \/ BurstPopped(c) \/ NextRound(c)
        PROVE  BurstInv'
    BY <2>3, PopBurstBurst, BurstPoppedBurst, NextRoundBurst
  <2>4. CASE Finished \/ UNCHANGED allVars
    <3>1. UNCHANGED <<pc, epoch, count, pushed, position, pushPc, aborted>>
      BY <2>4 DEF Finished, allVars, benchVars, vars, pushVars, popVars
    <3> QED
      BY <3>1 DEF BenchIInv, BurstInv, InBurst, NoAbortWithinRing, Share
  <2> QED
    BY <2>1, <2>2, <2>3, <2>4 DEF BenchNext
<1> QED
  BY <1>1, <1>2, <1>3 DEF BenchIInv

\* While the counts of messages fit the word, a burst no longer than the ring never
\* aborts the process: whatever the threads' schedule, the barriers keep every consumer
\* within a ring of the producer.
THEOREM RingIsEnough == ASSUME MaxPush < Modulus PROVE BenchSpec => []NoAbortWithinRing
<1>1. BenchInit => BenchIInv
  BY InitBenchIInv
<1>2. BenchIInv => NoAbortWithinRing
  BY DEF BenchIInv, BurstInv
<1> QED
  BY <1>1, <1>2, NextBenchIInv, PTL DEF BenchSpec

\* The benchmark uses the queue as its invariant asks: a consumer of the benchmark, too,
\* is only given whole messages, one after the other.
THEOREM BurstsIntact == ASSUME MaxPush < Modulus PROVE BenchSpec => []DeliversIntactInOrder
<1>1. BenchInit => BenchIInv
  BY InitBenchIInv
<1>2. BenchIInv => DeliversIntactInOrder
  BY DEF BenchIInv, IInv
<1> QED
  BY <1>1, <1>2, NextBenchIInv, PTL DEF BenchSpec
==============================================================================
