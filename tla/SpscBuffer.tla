------------------------------ MODULE SpscBuffer ------------------------------
(***************************************************************************)
(* SPSCBuffer of src/spsc_buffer.cpp: a ring of bytes between one writer   *)
(* and one reader.  try_write takes a whole message or nothing; read takes *)
(* what there is, up to the room the caller has.  IPCSPSCBuffer, of        *)
(* src/spsc_buffer_ipc.cpp, has the same two functions: see IpcSpscBuffer. *)
(*                                                                         *)
(* Grain and memory are those of SpscQueue: a step does at most one access *)
(* to shared memory, and an acquire load of the other side's index may     *)
(* return any value stored since the last one seen.  Indices move by whole *)
(* calls, so what they went through is kept as a set of totals.  A memcpy  *)
(* is one step; DataRaceFree says that no other thread can tell.           *)
(*                                                                         *)
(* A byte is its position in the stream, counted from 0.                   *)
(*                                                                         *)
(* An operator named Bug... is what a slip in the code would make of the   *)
(* definition after it; nothing uses it but the mutants of PROJECT.json.   *)
(***************************************************************************)
EXTENDS Integers, Sequences

CONSTANTS
  Size,       \* bufferSize_
  Messages,   \* lengths of the messages offered to try_write
  Rooms,      \* sizes of the spans offered to read
  MaxBytes    \* bound: bytes written in a behaviour

ASSUME SizeAssumption ==
  /\ Size \in Nat /\ Size >= 2
  /\ Messages \subseteq Nat /\ Rooms \subseteq Nat
  /\ MaxBytes \in Nat

VARIABLES
  reader_, writer_,   \* the two atomic indices
  buffer_,
  writePc, len,       \* try_write, and the size of its message
  readPc, n,          \* read, and how many bytes it takes
  dst,                \* what read has copied so far
  \* History: bytes written and read; for each side, the totals of the other that
  \* its next load may return (the least is the one it has seen); the last result.
  written, taken, visibleTaken, visibleWritten, returned

writeVars == <<writer_, writePc, len, written, visibleTaken>>
readVars  == <<reader_, readPc, n, dst, taken, visibleWritten, returned>>
vars == <<writeVars, readVars, buffer_>>

Junk == -1                   \* a byte nobody wrote

IndexOf(total) == total % Size

\* Equal indices are taken for a full buffer.
BugAvailable(writer, reader) ==
  IF reader >= writer THEN (Size - reader) + writer ELSE writer - reader

\* available: the bytes between two indices, the writer's maybe past the end.
Available(writer, reader) ==
  IF reader > writer THEN (Size - reader) + writer ELSE writer - reader

\* One byte too many is kept free.
BugFreeSpaceLess(writer, reader) == Size - 2 - Available(writer, reader)

FreeSpace(writer, reader) == Size - 1 - Available(writer, reader)

\* try_write fills up to the end of the buffer, then goes on at its start.
WriteFits  == writer_ + len < Size
FirstWrite == IF WriteFits THEN len ELSE Size - writer_

\* The second part of the message is taken from its start.
BugSecondFrom == written

\* Where the second part of the message starts.
SecondFrom == written + FirstWrite

\* read does the same, but for a chunk that ends where the buffer does.
ReadFits  == n <= Size - reader_
FirstRead == IF ReadFits THEN n ELSE Size - reader_

\* buffer_ after a memcpy to index at of the count stream bytes from the one at from.
Copied(at, count, from) ==
  [b \in 0 .. Size - 1 |->
     IF at <= b /\ b < at + count THEN from + (b - at) ELSE buffer_[b]]

\* A memcpy from index at of count bytes.
Bytes(at, count) == [j \in 1 .. count |-> buffer_[at + j - 1]]

Init ==
  /\ reader_ = 0 /\ writer_ = 0
  /\ buffer_ = [b \in 0 .. Size - 1 |-> Junk]
  /\ writePc = "idle" /\ len = 0
  /\ readPc = "idle" /\ n = 0 /\ dst = <<>>
  /\ written = 0 /\ taken = 0
  /\ visibleTaken = {0} /\ visibleWritten = {0}
  /\ returned = <<>>
------------------------------------------------------------------------------
(* try_write *)

\* What later loads may return after one that returned k: the load is not relaxed.
BugFrom(k, visible) == visible
From(k, visible) == {t \in visible : t >= k}

\* What a load may return; its value is not cached for ever.
BugLoadable(visible) == {k \in visible : \A t \in visible : k <= t}
Loadable(visible) == visible

LoadReader(k) ==
  /\ writePc = "idle"
  /\ k \in Loadable(visibleTaken)
  /\ visibleTaken' = From(k, visibleTaken)

WriteRefuse(size, k) ==
  /\ LoadReader(k)
  /\ FreeSpace(writer_, IndexOf(k)) < size
  /\ UNCHANGED <<writer_, writePc, len, written, readVars, buffer_>>

WriteBegin(size, k) ==
  /\ written + size <= MaxBytes
  /\ LoadReader(k)
  /\ FreeSpace(writer_, IndexOf(k)) >= size
  /\ len' = size
  /\ writePc' = "first"
  /\ UNCHANGED <<writer_, written, readVars, buffer_>>

WriteFirst ==
  /\ writePc = "first"
  /\ buffer_' = Copied(writer_, FirstWrite, written)
  /\ writePc' = IF WriteFits THEN "publish" ELSE "second"
  /\ UNCHANGED <<writer_, len, written, visibleTaken, readVars>>

WriteSecond ==
  /\ writePc = "second"
  /\ buffer_' = Copied(0, len - FirstWrite, SecondFrom)
  /\ writePc' = "publish"
  /\ UNCHANGED <<writer_, len, written, visibleTaken, readVars>>

WritePublish ==
  /\ writePc = "publish"
  /\ writer_' = IF WriteFits THEN writer_ + len ELSE len - FirstWrite
  /\ written' = written + len
  /\ visibleWritten' = visibleWritten \cup {written'}
  /\ writePc' = "idle" /\ len' = 0
  /\ UNCHANGED <<visibleTaken, reader_, readPc, n, dst, taken, returned, buffer_>>
------------------------------------------------------------------------------
(* read *)

LoadWriter(k) ==
  /\ readPc = "idle"
  /\ k \in Loadable(visibleWritten)
  /\ visibleWritten' = From(k, visibleWritten)

ReadEmpty(k) ==
  /\ LoadWriter(k)
  /\ Available(IndexOf(k), reader_) = 0
  /\ UNCHANGED <<reader_, readPc, n, dst, taken, returned, writeVars, buffer_>>

ReadBegin(room, k) ==
  /\ LoadWriter(k)
  /\ LET avail == Available(IndexOf(k), reader_) IN
       /\ avail # 0
       /\ n' = IF avail < room THEN avail ELSE room
  /\ readPc' = "first"
  /\ UNCHANGED <<reader_, dst, taken, returned, writeVars, buffer_>>

ReadFirst ==
  /\ readPc = "first"
  /\ dst' = Bytes(reader_, FirstRead)
  /\ readPc' = IF ReadFits THEN "publish" ELSE "second"
  /\ UNCHANGED <<reader_, n, taken, visibleWritten, returned, writeVars, buffer_>>

ReadSecond ==
  /\ readPc = "second"
  /\ dst' = dst \o Bytes(0, n - FirstRead)
  /\ readPc' = "publish"
  /\ UNCHANGED <<reader_, n, taken, visibleWritten, returned, writeVars, buffer_>>

\* The index after the chunk; at the end of the buffer it starts again.
NewReader ==
  IF ~ReadFits THEN n - FirstRead
  ELSE IF reader_ + n = Size THEN 0 ELSE reader_ + n

ReadPublish ==
  /\ readPc = "publish"
  /\ reader_' = NewReader
  /\ taken' = taken + n
  /\ visibleTaken' = visibleTaken \cup {taken'}
  /\ returned' = dst
  /\ readPc' = "idle" /\ n' = 0 /\ dst' = <<>>
  /\ UNCHANGED <<visibleWritten, writer_, writePc, len, written, buffer_>>
------------------------------------------------------------------------------
Write ==
  \/ \E size \in Messages, k \in visibleTaken : WriteRefuse(size, k) \/ WriteBegin(size, k)
  \/ WriteFirst \/ WriteSecond \/ WritePublish

Read ==
  \/ \E k \in visibleWritten : ReadEmpty(k)
  \/ \E room \in Rooms, k \in visibleWritten : ReadBegin(room, k)
  \/ ReadFirst \/ ReadSecond \/ ReadPublish

Next == Write \/ Read

Spec == Init /\ [][Next]_vars
------------------------------------------------------------------------------
(* Properties *)

TypeOK ==
  /\ reader_ \in 0 .. Size - 1 /\ writer_ \in 0 .. Size - 1
  /\ buffer_ \in [0 .. Size - 1 -> Nat \cup {Junk}]
  /\ writePc \in {"idle", "first", "second", "publish"} /\ len \in Nat
  /\ readPc \in {"idle", "first", "second", "publish"} /\ n \in Nat
  /\ dst \in Seq(Nat \cup {Junk}) /\ returned \in Seq(Nat \cup {Junk})
  /\ written \in Nat /\ taken \in Nat
  /\ visibleTaken \subseteq Nat /\ visibleWritten \subseteq Nat

SeenTaken == CHOOSE k \in visibleTaken : \A t \in visibleTaken : k <= t
SeenWritten == CHOOSE k \in visibleWritten : \A t \in visibleWritten : k <= t

\* The bytes each side is about to access.
Writing ==
  IF writePc = "first" THEN writer_ .. writer_ + FirstWrite - 1
  ELSE IF writePc = "second" THEN 0 .. len - FirstWrite - 1 ELSE {}
Reading ==
  IF readPc = "first" THEN reader_ .. reader_ + FirstRead - 1
  ELSE IF readPc = "second" THEN 0 .. n - FirstRead - 1 ELSE {}

\* A memcpy stays inside the buffer, touches no byte the other side touches, and
\* only bytes whose last access by the other side it has synchronised with.
DataRaceFree ==
  /\ Writing \subseteq 0 .. Size - 1 /\ Reading \subseteq 0 .. Size - 1
  /\ Writing \cap Reading = {}
  /\ writePc # "idle" => written + len - Size <= SeenTaken
  /\ readPc # "idle" => taken + n <= SeenWritten

\* read returns the next bytes of the stream: none lost, repeated or overwritten,
\* wherever the messages and the chunks fall on the end of the buffer.
BytesInOrder ==
  /\ readPc = "publish" => dst = [j \in 1 .. n |-> taken + j - 1]
  /\ returned = [j \in 1 .. Len(returned) |-> taken - Len(returned) + j - 1]

\* Whatever index try_write or read may load, the space and the bytes it computes
\* are the true ones for it: no message that fits is refused, a full buffer is not
\* taken for an empty one.
CountsExact ==
  /\ \A k \in visibleTaken : FreeSpace(writer_, IndexOf(k)) = Size - 1 - (written - k)
  /\ \A k \in visibleWritten : Available(IndexOf(k), reader_) = k - taken

\* The bytes between the indices, in memory; those of a read in progress stay until
\* its store.
Stream == INSTANCE ByteStream WITH
  Capacity <- Size - 1,
  queue    <- [j \in 1 .. Available(writer_, reader_) |-> buffer_[IndexOf(reader_ + j - 1)]],
  sent     <- written

\* The buffer implements the byte stream: a message goes in whole, and at once.
RefinesStream == Stream!Spec
==============================================================================
