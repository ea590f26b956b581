---------------------- MODULE BlockingReaderWriterQueue ----------------------
(***************************************************************************)
(* moodycamel::BlockingReaderWriterQueue of include/moodycammel_queue.hpp: *)
(* a ReaderWriterQueue with a LightweightSemaphore that counts what can be *)
(* dequeued.  The inner queue is what ReaderWriterQueue is shown to be, a  *)
(* FIFO that never fails to hand out an element enqueued before the call,  *)
(* and the atomic addition of signal flushes the stores of enqueue: its    *)
(* operations are single steps here, and its elements are only counted.    *)
(***************************************************************************)
EXTENDS LightweightSemaphore

CONSTANT MaxPush   \* bound: elements enqueued in a behaviour

ASSUME PushAssumption == MaxPush \in Nat

VARIABLES
  inner,           \* elements in the inner queue
  pushed, popped,  \* history: elements enqueued and dequeued
  stranded         \* history: dequeues that passed the semaphore and then threw

queueVars == <<inner, pushed, popped, stranded>>
vars == <<semaVars, queueVars>>

Init == SemaInit /\ inner = 0 /\ pushed = 0 /\ popped = 0 /\ stranded = 0

\* enqueue or try_enqueue, up to the signal; one that finds no room changes nothing.
Enqueue ==
  /\ sigPc = "idle" /\ pushed < MaxPush
  /\ inner' = inner + 1
  /\ pushed' = pushed + 1
  /\ sigPc' = "signal"
  /\ UNCHANGED <<m_count, m_sema, waitPc, timeout, popped, stranded>>

\* try_dequeue and pop, wait_dequeue, and wait_dequeue_timed: with no time at all,
\* some, or a negative time, which is for ever.
DequeueBegin ==
  /\ \E t \in {"try", "zero", "timed", "forever"} : WaitBegin(t)
  /\ UNCHANGED queueVars

\* The semaphore has let the consumer in: the inner try_dequeue is to succeed.
Dequeue ==
  /\ waitPc = "got" /\ inner > 0
  /\ inner' = inner - 1
  /\ popped' = popped + 1
  /\ waitPc' = "idle"
  /\ UNCHANGED <<m_count, m_sema, sigPc, timeout, pushed, stranded>>

\* The assignment of try_dequeue throws: the element stays in the inner queue, and the
\* count that stood for it is gone.
DequeueThrow ==
  /\ waitPc = "got" /\ inner > 0
  /\ stranded' = stranded + 1
  /\ waitPc' = "idle"
  /\ UNCHANGED <<m_count, m_sema, sigPc, timeout, inner, pushed, popped>>

Next ==
  \/ Enqueue \/ DequeueBegin \/ Dequeue \/ DequeueThrow
  \/ (Signal \/ Post \/ Wait) /\ UNCHANGED queueVars

Spec == Init /\ [][Next]_vars

\* A signal that began ends; the consumer calls again and again, a call goes on, and
\* spins come to an end.  No timeout need ever strike, and no element need be enqueued.
FairSpec ==
  /\ Spec
  /\ WF_vars(Signal /\ UNCHANGED queueVars)
  /\ WF_vars(Post /\ UNCHANGED queueVars)
  /\ WF_vars(DequeueBegin) /\ WF_vars(Dequeue)
  /\ WF_vars(Wait /\ waitPc # "sleep" /\ UNCHANGED queueVars)
  /\ WF_vars(Wake /\ UNCHANGED queueVars)
------------------------------------------------------------------------------
(* Properties *)

TypeOK ==
  /\ m_count \in Int /\ m_sema \in Nat
  /\ sigPc \in {"idle", "signal", "post"}
  /\ waitPc \in {"idle", "spin", "take", "claim", "sleep", "undo", "redo", "kernel", "got"}
  /\ timeout \in {"none", "try", "zero", "timed", "forever"}
  /\ inner \in Nat /\ pushed \in 0 .. MaxPush /\ popped \in Nat /\ stranded \in Nat

\* Elements whose enqueue has signalled them, one fewer for each that threw.
Signalled == inner - stranded - (IF sigPc = "signal" THEN 1 ELSE 0)

\* Posts made and not used, and the one about to be made.
Tokens == m_sema + (IF sigPc = "post" THEN 1 ELSE 0)

\* The asserts: signal finds a count of -1 at least, and the inner try_dequeue finds an
\* element, whichever way the semaphore was passed.
AssertsHold ==
  /\ sigPc = "signal" => m_count >= -1
  /\ waitPc = "got" => inner > 0

\* A timeout that races a signal leaves nothing behind: no post is lost that a sleeper
\* needs, and none stays for a later wait that has nothing to dequeue.
TokensBalanced ==
  Tokens = IF waitPc \in {"sleep", "undo", "redo", "kernel"} /\ Signalled > 0 THEN 1 ELSE 0

\* size_approx is right when the consumer is not in a call, less one for every dequeue
\* that threw: the count survives any history of claims, timeouts and undone claims.
CountExact == waitPc = "idle" => m_count = Signalled

\* wait_dequeue_timed "returns false if the timeout expires before an element can be
\* dequeued": not when one was there, and was not stranded.
DeniedOnlyWhenEmpty == [][waitPc = "undo" /\ waitPc' = "idle" => Signalled = 0]_vars

\* Every element is dequeued, but for one less for every dequeue that threw: no consumer
\* sleeps beside more, or goes round undoing and redoing its claim for ever.
EventuallyDequeued == \A n \in 0 .. MaxPush - 1 : pushed > n ~> popped + stranded > n
==============================================================================
