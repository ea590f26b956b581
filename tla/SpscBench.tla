------------------------------ MODULE SpscBench ------------------------------
(***************************************************************************)
(* spsc_bench and consumer_spsc of src/main.cpp: the main thread pushes    *)
(* samples_count elements through an SPSCQueue, clears a flag and joins    *)
(* the consumer, which stops when it has every sample, or when it sees the *)
(* flag cleared after an empty pop.  The queue is SpscQueue, step by step, *)
(* with MaxPush for samples_count.                                         *)
(*                                                                         *)
(* An operator named Bug... is what a slip in the code would make of the   *)
(* definition after it; nothing uses it but the mutants of PROJECT.json.   *)
(***************************************************************************)
EXTENDS SpscQueue

VARIABLES
  running,      \* the flag
  sawStopped,   \* the consumer has loaded FALSE from it: it cannot load TRUE again
  mainPc,       \* "push", "join", "joined", "done"
  loopPc,       \* the consumer: "pop", "check", "after", "ended"
  read,         \* its local: what the last try_pop returned
  i,            \* its local: samples taken
  terminated    \* an exception left the thread: std::terminate

benchVars == <<running, sawStopped, mainPc, loopPc, read, i, terminated>>

\* BestLvlChange is trivially copyable.
BenchInit ==
  /\ Init /\ Trivial
  /\ running = TRUE /\ sawStopped = FALSE
  /\ mainPc = "push" /\ loopPc = "pop"
  /\ read = FALSE /\ i = 0
  /\ terminated = FALSE
------------------------------------------------------------------------------
(* The main thread *)

PushLoop ==
  /\ ~terminated /\ mainPc = "push" /\ pushed < MaxPush
  /\ Producer
  /\ UNCHANGED benchVars

Stop ==
  /\ ~terminated /\ mainPc = "push" /\ pushed = MaxPush
  /\ running' = FALSE
  /\ mainPc' = "join"
  /\ UNCHANGED <<vars, sawStopped, loopPc, read, i, terminated>>

Join ==
  /\ ~terminated /\ mainPc = "join" /\ loopPc = "ended"
  /\ mainPc' = "joined"
  /\ UNCHANGED <<vars, running, sawStopped, loopPc, read, i, terminated>>

\* The queue is a local of spsc_bench; its elements need no destruction.
Leave ==
  /\ ~terminated /\ mainPc = "joined"
  /\ DtorBegin \/ DtorEnd
  /\ mainPc' = IF phase' = "destroyed" THEN "done" ELSE mainPc
  /\ UNCHANGED <<running, sawStopped, loopPc, read, i, terminated>>
------------------------------------------------------------------------------
(* The consumer thread *)

\* try_pop, in its steps; the last one sets read.
Popped(result) ==
  /\ read' = result
  /\ i' = IF result THEN i + 1 ELSE i
  /\ loopPc' = "check"

PopLoop ==
  /\ ~terminated /\ loopPc = "pop"
  /\ \/ (\E k \in knownW .. pushed : PopEmpty(k)) /\ Popped(FALSE)
     \/ (\E k \in knownW .. pushed : PopBegin(k)) /\ UNCHANGED <<loopPc, read, i>>
     \/ PopTake /\ UNCHANGED <<loopPc, read, i>>
     \/ PopPublish /\ Popped(TRUE)
  /\ UNCHANGED <<running, sawStopped, mainPc, terminated>>

\* An empty pop ends the loop even while the producer runs.
BugGivesUp(flag) == ~flag \/ ~read

GivesUp(flag) == ~flag /\ ~read

\* The condition after the pop and the one at the head of the loop.  The load of
\* running is relaxed: it may miss the store for a while.
Check(flag) ==
  /\ ~terminated /\ loopPc = "check"
  /\ flag = running \/ (flag = TRUE /\ ~sawStopped)
  /\ sawStopped' = ~flag
  /\ loopPc' = IF GivesUp(flag) \/ i = MaxPush THEN "after" ELSE "pop"
  /\ UNCHANGED <<vars, running, mainPc, read, i, terminated>>

AfterLoop ==
  /\ ~terminated /\ loopPc = "after"
  /\ IF i = MaxPush
       THEN loopPc' = "ended" /\ UNCHANGED terminated
       ELSE terminated' = TRUE /\ UNCHANGED loopPc
  /\ UNCHANGED <<vars, running, sawStopped, mainPc, read, i>>
------------------------------------------------------------------------------
Finished == (terminated \/ mainPc = "done") /\ UNCHANGED <<vars, benchVars>>

BenchNext ==
  \/ PushLoop \/ Stop \/ Join \/ Leave
  \/ PopLoop \/ (\E flag \in BOOLEAN : Check(flag)) \/ AfterLoop
  \/ Finished

BenchSpec == BenchInit /\ [][BenchNext]_<<vars, benchVars>>

\* Both threads run, and stores become visible: the consumer does not find the
\* queue empty, nor the flag set, for ever when they are not.
BenchFairSpec ==
  /\ BenchSpec
  /\ WF_<<vars, benchVars>>(PushLoop /\ pushPc' # "idle")
  /\ WF_<<vars, benchVars>>(PushLoop /\ pushPc # "idle")
  /\ WF_<<vars, benchVars>>(Stop) /\ WF_<<vars, benchVars>>(Join)
  /\ WF_<<vars, benchVars>>(Leave)
  /\ WF_<<vars, benchVars>>(PopLoop)
  /\ SF_<<vars, benchVars>>(PopLoop /\ popPc' # "idle")
  /\ WF_<<vars, benchVars>>(\E flag \in BOOLEAN : Check(flag))
  /\ WF_<<vars, benchVars>>(AfterLoop)
------------------------------------------------------------------------------
(* Properties *)

\* "failed to process all messages. Something is seriously wrong": the consumer
\* never gives up while the producer's samples are all in the queue.
NeverGivesUp == ~terminated

\* The consumer gives up only after the last push, and no sample is missing: those
\* it did not pop are still in the queue.
GivesUpLate ==
  terminated => /\ pushed = MaxPush /\ ~running
                /\ popped = i /\ i < MaxPush
                /\ Used(writer_, reader_) = MaxPush - i

\* The benchmark ends, one way or the other.
Ends == <>(mainPc = "done" \/ terminated)
==============================================================================
