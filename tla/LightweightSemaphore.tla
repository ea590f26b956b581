------------------------ MODULE LightweightSemaphore -------------------------
(***************************************************************************)
(* moodycamel::spsc_sema::LightweightSemaphore of include/atomicops.h: a   *)
(* count of what was signalled and not yet taken, one below zero while the *)
(* waiter sleeps on a kernel semaphore.  One thread signals, one waits.    *)
(*                                                                         *)
(* A step is one access to the count or to the kernel semaphore.  The      *)
(* count is changed by atomic additions only, which no store buffer delays.*)
(* Of the looks of a spinning waiter only the last matters, and it is any. *)
(*                                                                         *)
(* An operator named Bug... is what a slip in the code would make of the   *)
(* definition after it; nothing uses it but the mutants of PROJECT.json.   *)
(***************************************************************************)
EXTENDS Integers

VARIABLES
  m_count,
  m_sema,    \* the kernel semaphore
  sigPc,     \* signal: "idle", "signal", "post"
  waitPc,    \* tryWait or wait: "idle", "spin", "take", "claim", "sleep", "undo", "redo",
             \* "kernel", or "got" when it has returned TRUE
  timeout    \* of the wait: "try" for tryWait, "zero", "timed", "forever"; "none" outside

semaVars == <<m_count, m_sema, sigPc, waitPc, timeout>>

SemaInit ==
  /\ m_count = 0 /\ m_sema = 0
  /\ sigPc = "idle"
  /\ waitPc = "idle" /\ timeout = "none"
------------------------------------------------------------------------------
(* signal *)

\* It looks at the count after its addition, not before.
BugClaimed == m_count + 1 < 0

\* The count as an addition found it: a waiter has a claim on it.
Claimed == m_count < 0

Signal ==
  /\ sigPc = "signal"
  /\ m_count' = m_count + 1
  /\ sigPc' = IF Claimed THEN "post" ELSE "idle"
  /\ UNCHANGED <<m_sema, waitPc, timeout>>

Post ==
  /\ sigPc = "post"
  /\ m_sema' = m_sema + 1
  /\ sigPc' = "idle"
  /\ UNCHANGED <<m_count, waitPc, timeout>>
------------------------------------------------------------------------------
(* tryWait, and wait, which begins with it *)

Granted == waitPc' = "got" /\ timeout' = "none"
Denied  == waitPc' = "idle" /\ timeout' = "none"

WaitBegin(t) ==
  /\ waitPc = "idle"
  /\ \/ m_count > 0 /\ waitPc' = "take" /\ timeout' = t
     \/ m_count <= 0 /\ t # "try" /\ waitPc' = "spin" /\ timeout' = t
     \/ m_count <= 0 /\ t = "try" /\ Denied
  /\ UNCHANGED <<m_count, m_sema, sigPc>>

Spin ==
  /\ waitPc = "spin"
  /\ waitPc' = IF m_count > 0 THEN "take" ELSE "claim"
  /\ UNCHANGED <<m_count, m_sema, sigPc, timeout>>

Take ==
  /\ waitPc = "take"
  /\ m_count' = m_count - 1
  /\ Granted
  /\ UNCHANGED <<m_sema, sigPc>>

\* The waiter sleeps whatever the addition that announces it found.
BugAvailable == FALSE

\* The count as an addition found it: there is an element to take.
Available == m_count > 0

Claim ==
  /\ waitPc = "claim"
  /\ m_count' = m_count - 1
  /\ IF Available THEN Granted
     ELSE waitPc' = (IF timeout = "zero" THEN "undo" ELSE "sleep") /\ UNCHANGED timeout
  /\ UNCHANGED <<m_sema, sigPc>>

Wake ==
  /\ waitPc = "sleep" /\ m_sema > 0
  /\ m_sema' = m_sema - 1
  /\ Granted
  /\ UNCHANGED <<m_count, sigPc>>

\* The count is not put back.
BugGiveUp == Denied

GiveUp == waitPc' = "undo" /\ UNCHANGED timeout

TimeOut ==
  /\ waitPc = "sleep" /\ timeout = "timed" /\ m_sema = 0
  /\ GiveUp
  /\ UNCHANGED <<m_count, m_sema, sigPc>>

\* A waiter that timed out returns, whatever was signalled meanwhile.
BugUnanswered == TRUE

\* The count as an addition found it: no signal has answered the claim.
Unanswered == m_count < 0

Undo ==
  /\ waitPc = "undo"
  /\ m_count' = m_count + 1
  /\ IF Unanswered THEN Denied ELSE waitPc' = "redo" /\ UNCHANGED timeout
  /\ UNCHANGED <<m_sema, sigPc>>

\* The signal came after all: the claim stands again.
Redo ==
  /\ waitPc = "redo"
  /\ m_count' = m_count - 1
  /\ waitPc' = IF m_count > 0 THEN "kernel" ELSE "undo"
  /\ UNCHANGED <<m_sema, sigPc, timeout>>

\* The post may be late: then all this happens again.
TryKernel ==
  /\ waitPc = "kernel"
  /\ IF m_sema > 0
       THEN m_sema' = m_sema - 1 /\ Granted
       ELSE waitPc' = "undo" /\ UNCHANGED <<m_sema, timeout>>
  /\ UNCHANGED <<m_count, sigPc>>

Wait == Spin \/ Take \/ Claim \/ Wake \/ TimeOut \/ Undo \/ Redo \/ TryKernel
==============================================================================
