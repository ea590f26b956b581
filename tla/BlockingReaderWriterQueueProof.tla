------------------- MODULE BlockingReaderWriterQueueProof -------------------
(***************************************************************************)
(* The count of LightweightSemaphore, the kernel semaphore and the inner   *)
(* queue stay in step, for a stream of any length.                         *)
(***************************************************************************)
EXTENDS BlockingReaderWriterQueue, TLAPS

\* What the count and the tokens are at each point of a wait: the waiter's claim is one
\* off the count, and a post is on its way just when a claimed sleeper was signalled.
Balance ==
  /\ waitPc \in {"idle", "spin", "claim"} => m_count = Signalled /\ Tokens = 0
  /\ waitPc = "take" => m_count = Signalled /\ Signalled > 0 /\ Tokens = 0
  /\ waitPc = "got" => m_count = Signalled - 1 /\ Signalled > 0 /\ Tokens = 0
  /\ waitPc \in {"sleep", "undo"} =>
       m_count = Signalled - 1 /\ Tokens = IF Signalled > 0 THEN 1 ELSE 0
  /\ waitPc = "redo" => m_count = Signalled /\ Signalled > 0 /\ Tokens = 1
  /\ waitPc = "kernel" => m_count = Signalled - 1 /\ Signalled > 0 /\ Tokens = 1

\* Claims are made of signalled elements, and one element at most waits for its signal.
Inv == TypeOK /\ Balance /\ Signalled >= 0

LEMMA Initially == Init => Inv
BY PushAssumption DEF Init, SemaInit, Inv, TypeOK, Balance, Signalled, Tokens

LEMMA Preserved == Inv /\ [Next]_vars => Inv'
<1> SUFFICES ASSUME Inv, [Next]_vars PROVE Inv'
  OBVIOUS
<1> USE PushAssumption DEF Inv, TypeOK, Balance, Signalled, Tokens
<1>1. CASE Enqueue
  BY <1>1 DEF Enqueue
<1>2. CASE DequeueBegin
  <2>1. PICK t \in {"try", "zero", "timed", "forever"} : WaitBegin(t)
    BY <1>2 DEF DequeueBegin
  <2> QED
    BY <1>2, <2>1 DEF queueVars, DequeueBegin, WaitBegin, Denied
<1>3. CASE Dequeue
  BY <1>3 DEF Dequeue
<1>8. CASE DequeueThrow
  BY <1>8 DEF DequeueThrow
<1>4. CASE Signal /\ UNCHANGED queueVars
  BY <1>4 DEF Signal, Claimed, queueVars
<1>5. CASE Post /\ UNCHANGED queueVars
  BY <1>5 DEF Post, queueVars
<1>6. CASE Wait /\ UNCHANGED queueVars
  <2>1. CASE Spin
    BY <1>6, <2>1 DEF Spin, queueVars
  <2>2. CASE Take
    BY <1>6, <2>2 DEF Take, Granted, queueVars
  <2>3. CASE Claim
    BY <1>6, <2>3 DEF Claim, Granted, Available, queueVars
  <2>4. CASE Wake
    BY <1>6, <2>4 DEF Wake, Granted, queueVars
  <2>5. CASE TimeOut
    BY <1>6, <2>5 DEF TimeOut, GiveUp, queueVars
  <2>6. CASE Undo
    BY <1>6, <2>6 DEF Undo, Denied, Unanswered, queueVars
  <2>7. CASE Redo
    BY <1>6, <2>7 DEF Redo, queueVars
  <2>8. CASE TryKernel
    BY <1>6, <2>8 DEF TryKernel, Granted, queueVars
  <2> QED
    BY <1>6, <2>1, <2>2, <2>3, <2>4, <2>5, <2>6, <2>7, <2>8 DEF Wait
<1>7. CASE UNCHANGED vars
  BY <1>7 DEF vars, semaVars, queueVars
<1> QED
  BY <1>1, <1>2, <1>3, <1>4, <1>5, <1>6, <1>7, <1>8 DEF Next

LEMMA Invariance == Spec => []Inv
BY Initially, Preserved, PTL DEF Spec

\* Every variable keeps its type; the kernel semaphore is never driven below zero.
THEOREM TypeCorrect == Spec => []TypeOK
<1>1. Inv => TypeOK
  BY DEF Inv
<1> QED
  BY <1>1, Invariance, PTL

\* The asserts of signal and of the dequeues never fail, for a stream of any length.
THEOREM NoAssertFails == Spec => []AssertsHold
<1>1. Inv => AssertsHold
  BY DEF Inv, TypeOK, Balance, Signalled, Tokens, AssertsHold
<1> QED
  BY <1>1, Invariance, PTL

\* However often a timeout races a signal, posts and sleepers pair up.
THEOREM TokensStayBalanced == Spec => []TokensBalanced
<1>1. Inv => TokensBalanced
  BY DEF Inv, TypeOK, Balance, TokensBalanced
<1> QED
  BY <1>1, Invariance, PTL

\* Between calls of the consumer the count is that of the elements signalled.
THEOREM CountStaysExact == Spec => []CountExact
<1>1. Inv => CountExact
  BY DEF Inv, TypeOK, Balance, CountExact
<1> QED
  BY <1>1, Invariance, PTL

\* A wait that returns FALSE after its claim leaves no signalled element behind.
THEOREM DenialIsRight == Spec => DeniedOnlyWhenEmpty
<1>1. Inv /\ [Next]_vars => [waitPc = "undo" /\ waitPc' = "idle" => Signalled = 0]_vars
  <2> SUFFICES ASSUME Inv, Next, waitPc = "undo", waitPc' = "idle" PROVE Signalled = 0
    BY DEF vars
  <2>1. Undo
    BY DEF Next, Enqueue, DequeueBegin, WaitBegin, Dequeue, DequeueThrow, Signal, Post, Wait, Spin, Take,
           Claim, Wake, TimeOut, GiveUp, Redo, TryKernel
  <2> QED
    BY <2>1 DEF Undo, Unanswered, Inv, TypeOK, Balance, Signalled
<1> QED
  BY <1>1, Invariance, PTL DEF Spec, DeniedOnlyWhenEmpty
=============================================================================
