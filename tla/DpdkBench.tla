------------------------------ MODULE DpdkBench -------------------------------
(***************************************************************************)
(* main and consumer of src/bench_dpdk.cpp: the main thread enqueues its   *)
(* samples into an rte_ring and clears a flag; each consumer dequeues until*)
(* it has all of them, or finds the ring empty and the flag cleared, and   *)
(* then throws unless it has all.  The ring is DPDK's, made for one        *)
(* producer and many consumers: an object goes to one of them.  Its calls  *)
(* are single steps here.                                                  *)
(*                                                                         *)
(* An operator named Bug... is what a slip in the code would make of the   *)
(* definition after it; nothing uses it but the mutants of PROJECT.json.   *)
(***************************************************************************)
EXTENDS Integers

CONSTANTS
  Samples,    \* samples_count
  Consumers,
  RingSize    \* objects the ring holds

ASSUME DpdkAssumption == Samples \in Nat /\ RingSize \in Nat

VARIABLES
  head, tail,   \* the ring holds samples head .. tail - 1
  running,
  sawStopped,   \* consumers that have loaded FALSE from running
  mainPc,       \* "enqueue", then "join"
  pc,           \* each consumer: "dequeue", "check", "after", "ended"
  read,         \* its local: the last dequeue found an object
  i,            \* its local: how many it took
  terminated    \* an exception left a thread: std::terminate

vars == <<head, tail, running, sawStopped, mainPc, pc, read, i, terminated>>

Init ==
  /\ head = 0 /\ tail = 0
  /\ running = TRUE /\ sawStopped = {}
  /\ mainPc = "enqueue"
  /\ pc = [c \in Consumers |-> "dequeue"]
  /\ read = [c \in Consumers |-> FALSE]
  /\ i = [c \in Consumers |-> 0]
  /\ terminated = FALSE

Full == tail - head = RingSize
------------------------------------------------------------------------------
\* rte_ring_enqueue: a full ring ends the loop early.
Enqueue ==
  /\ ~terminated /\ mainPc = "enqueue" /\ tail < Samples /\ ~Full
  /\ tail' = tail + 1
  /\ UNCHANGED <<head, running, sawStopped, mainPc, pc, read, i, terminated>>

Stop ==
  /\ ~terminated /\ mainPc = "enqueue" /\ (tail = Samples \/ Full)
  /\ running' = FALSE
  /\ mainPc' = "join"
  /\ UNCHANGED <<head, tail, sawStopped, pc, read, i, terminated>>

Dequeue(c) ==
  /\ ~terminated /\ pc[c] = "dequeue"
  /\ read' = [read EXCEPT ![c] = head < tail]
  /\ i' = IF head < tail THEN [i EXCEPT ![c] = @ + 1] ELSE i
  /\ head' = IF head < tail THEN head + 1 ELSE head
  /\ pc' = [pc EXCEPT ![c] = "check"]
  /\ UNCHANGED <<tail, running, sawStopped, mainPc, terminated>>

\* The loop does not look at the flag.
BugGivesUp(c, flag) == FALSE

GivesUp(c, flag) == ~flag /\ ~read[c]

\* The relaxed load of running may miss the store for a while.
Check(c, flag) ==
  /\ ~terminated /\ pc[c] = "check"
  /\ flag = running \/ (flag = TRUE /\ c \notin sawStopped)
  /\ sawStopped' = IF flag THEN sawStopped ELSE sawStopped \cup {c}
  /\ pc' = [pc EXCEPT ![c] =
       IF GivesUp(c, flag) \/ i[c] = Samples THEN "after" ELSE "dequeue"]
  /\ UNCHANGED <<head, tail, running, mainPc, read, i, terminated>>

AfterLoop(c) ==
  /\ ~terminated /\ pc[c] = "after"
  /\ IF i[c] = Samples
       THEN pc' = [pc EXCEPT ![c] = "ended"] /\ UNCHANGED terminated
       ELSE terminated' = TRUE /\ UNCHANGED pc
  /\ UNCHANGED <<head, tail, running, sawStopped, mainPc, read, i>>

\* The exception, or the join of consumers that all returned.
Finished == (terminated \/ \A c \in Consumers : pc[c] = "ended") /\ UNCHANGED vars

Next ==
  \/ Enqueue \/ Stop
  \/ \E c \in Consumers :
       Dequeue(c) \/ (\E flag \in BOOLEAN : Check(c, flag)) \/ AfterLoop(c)
  \/ Finished

Spec == Init /\ [][Next]_vars

FairSpec ==
  /\ Spec
  /\ WF_vars(Enqueue) /\ WF_vars(Stop)
  /\ \A c \in Consumers :
       /\ WF_vars(Dequeue(c)) /\ WF_vars(AfterLoop(c))
       /\ WF_vars(\E flag \in BOOLEAN : Check(c, flag))
       /\ SF_vars(Check(c, FALSE))
------------------------------------------------------------------------------
(* Properties *)

\* With more than one consumer and a sample to take, some consumer always throws,
\* and the benchmark never gets to its results.
AlwaysThrows == <>terminated
==============================================================================
