---------------------------- MODULE IpcSpscBuffer -----------------------------
(***************************************************************************)
(* IPCSPSCBuffer of src/spsc_buffer_ipc.cpp: the byte ring of SpscBuffer   *)
(* (its two functions are the same) with its storage inside the object, in *)
(* memory that two processes share.  The object is constructed once, before*)
(* either side uses it.  A process may die between any two accesses, or in *)
(* the middle of a memcpy; the memory stays, and a new process takes over  *)
(* that side by mapping it.                                                *)
(***************************************************************************)
EXTENDS SpscBuffer

VARIABLES
  writerUp, readerUp   \* the process of that side is alive

procVars == <<writerUp, readerUp>>

IpcInit == Init /\ writerUp = TRUE /\ readerUp = TRUE

\* What a memcpy cut short may leave in the buffer: any prefix of it.
CutShort ==
  \/ UNCHANGED buffer_
  \/ writePc = "first" /\ \E c \in 1 .. FirstWrite : buffer_' = Copied(writer_, c, written)
  \/ writePc = "second" /\ \E c \in 1 .. len - FirstWrite : buffer_' = Copied(0, c, SecondFrom)

\* The message being written is gone: nothing of it was published.
WriterCrash ==
  /\ writerUp
  /\ writerUp' = FALSE
  /\ CutShort
  /\ writePc' = "idle" /\ len' = 0
  /\ UNCHANGED <<writer_, written, visibleTaken, readVars, readerUp>>

\* The chunk being read was not returned, and is still there.
ReaderCrash ==
  /\ readerUp
  /\ readerUp' = FALSE
  /\ readPc' = "idle" /\ n' = 0 /\ dst' = <<>>
  /\ UNCHANGED <<reader_, taken, visibleWritten, returned, writeVars, buffer_, writerUp>>

\* The new process constructs the object instead of mapping it.
BugWriterStart ==
  /\ ~writerUp
  /\ writerUp' = TRUE
  /\ writer_' = 0 /\ reader_' = 0
  /\ UNCHANGED <<writePc, len, written, visibleTaken, readPc, n, dst, taken, visibleWritten,
                 returned, buffer_, readerUp>>

WriterStart == ~writerUp /\ writerUp' = TRUE /\ UNCHANGED <<vars, readerUp>>
ReaderStart == ~readerUp /\ readerUp' = TRUE /\ UNCHANGED <<vars, writerUp>>

\* A step of a call or its beginning, by a process that is alive.
Going(step) == step /\ UNCHANGED procVars

IpcNext ==
  \/ Going(writerUp /\ Write) \/ Going(readerUp /\ Read)
  \/ WriterCrash \/ ReaderCrash \/ WriterStart \/ ReaderStart

IpcSpec == IpcInit /\ [][IpcNext]_<<vars, procVars>>

\* A process that died is replaced; the writer keeps offering a message as long as the
\* ring can hold, among others, and the reader room for some bytes.
IpcFairSpec ==
  /\ IpcSpec
  /\ WF_<<vars, procVars>>(WriterStart) /\ WF_<<vars, procVars>>(ReaderStart)
  /\ \A pc \in {"first", "second", "publish"} :
       /\ WF_<<vars, procVars>>(Going(writerUp /\ writePc = pc /\ Write))
       /\ WF_<<vars, procVars>>(Going(readerUp /\ readPc = pc /\ Read))
  /\ SF_<<vars, procVars>>(Going(writerUp /\ writePc = "idle" /\ Write /\ len' = Size - 1))
  /\ SF_<<vars, procVars>>(Going(readerUp /\ readPc = "idle" /\ Read /\ n' > 0))
------------------------------------------------------------------------------
(* Properties *)

CrashesStop == <>[][~WriterCrash /\ ~ReaderCrash]_<<vars, procVars>>

\* Every byte that was published survives any crash, and is read, in the end.
SurvivorsRead == CrashesStop => \A b \in 1 .. MaxBytes : written >= b ~> taken >= b

\* A message that leaves not one byte free gets its turn, in between others, and in a
\* ring where crashes left what they did.
SurvivorsWritten == CrashesStop => <>(written > MaxBytes - (Size - 1))
==============================================================================
