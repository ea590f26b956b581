-------------------------- MODULE IpcSpscBufferProof --------------------------
(***************************************************************************)
(* Proofs about SpscBuffer and IpcSpscBuffer, for every size of the ring,  *)
(* every length of message and of span, and every number of crashes.       *)
(***************************************************************************)
EXTENDS IpcSpscBuffer, ModularArithmetic, SequenceTheorems, TLAPS

(***************************************************************************)
(* The inductive invariant.  The indices are the totals modulo the size;   *)
(* what either side may still load of the other leaves it the room, or the *)
(* bytes, that its call counts on; the buffer holds the stream between the *)
(* totals, and what the call in progress has written after it; and a read  *)
(* in progress has copied the stream from the total.                       *)
(***************************************************************************)
IndexInv ==
  /\ writer_ = IndexOf(written)
  /\ reader_ = IndexOf(taken)

HasLeast(S) == \E k \in S : \A t \in S : k <= t

VisibleInv ==
  /\ taken \in visibleTaken /\ written \in visibleWritten
  /\ HasLeast(visibleTaken) /\ HasLeast(visibleWritten)
  /\ \A k \in visibleTaken : k <= taken /\ written + len - k <= Size - 1
  /\ \A k \in visibleWritten : k <= written /\ taken + n <= k

CallInv ==
  /\ writePc = "idle" => len = 0
  /\ writePc = "second" => ~WriteFits
  /\ readPc = "idle" => n = 0 /\ dst = <<>>
  /\ readPc = "second" => ~ReadFits
  /\ readPc # "idle" => taken < written

\* How much of the message in progress is in the buffer, and of the chunk in dst.
Stored == IF writePc = "second" THEN FirstWrite ELSE IF writePc = "publish" THEN len ELSE 0
Fetched == IF readPc = "second" THEN FirstRead ELSE IF readPc = "publish" THEN n ELSE 0

Holds(buffer, from, end) == \A k \in from .. end - 1 : buffer[IndexOf(k)] = k

ReturnedInv == \E d \in 0 .. taken : returned = Run(taken - d, taken)

IInv ==
  /\ TypeOK /\ IndexInv /\ VisibleInv /\ CallInv
  /\ Holds(buffer_, taken, written + Stored)
  /\ dst = Run(taken, taken + Fetched)
  /\ ReturnedInv
------------------------------------------------------------------------------
(* Indices, and the parts of a call on either side of the end of the buffer. *)

LEMMA Sized == Size \in Nat \ {0} /\ Size >= 2
BY SizeAssumption

LEMMA IndexRange ==
  ASSUME NEW t \in Nat
  PROVE  IndexOf(t) \in 0 .. Size - 1
BY Sized, DivMod DEF IndexOf

\* An index that moves by at most the size wraps at most once.
LEMMA IndexAhead ==
  ASSUME NEW t \in Nat, NEW d \in 0 .. Size
  PROVE  IndexOf(t + d) = IF IndexOf(t) + d < Size THEN IndexOf(t) + d
                                                   ELSE IndexOf(t) + d - Size
<1> DEFINE q == t \div Size
<1> DEFINE r == t % Size
<1>1. t = Size * q + r /\ r \in 0 .. Size - 1 /\ q \in Int
  BY Sized, DivMod
<1> HIDE DEF q, r
<1>2. CASE r + d < Size
  <2>1. t + d = Size * q + (r + d) /\ r + d \in 0 .. Size - 1 /\ t + d \in Int
    BY <1>1, <1>2, Sized
  <2>2. (t + d) % Size = r + d
    BY <1>1, <2>1, Sized, ModUnique
  <2> QED
    BY <1>2, <2>2 DEF IndexOf, r
<1>3. CASE ~(r + d < Size)
  <2>1. Size * (q + 1) = Size * q + Size
    BY <1>1, Sized
  <2>2. t + d = Size * (q + 1) + (r + d - Size) /\ r + d - Size \in 0 .. Size - 1
          /\ t + d \in Int /\ q + 1 \in Int
    BY <1>1, <1>3, <2>1, Sized
  <2>3. (t + d) % Size = r + d - Size
    BY <2>2, Sized, ModUnique
  <2> QED
    BY <1>3, <2>3 DEF IndexOf, r
<1> QED
  BY <1>2, <1>3

\* Bytes less than the size apart have different places.
LEMMA IndexApart ==
  ASSUME NEW a \in Nat, NEW b \in Nat, a < b, b - a < Size
  PROVE  IndexOf(a) # IndexOf(b)
<1>1. a \in Int /\ b \in Int /\ 0 <= b - a
  OBVIOUS
<1>2. ASSUME b % Size = a % Size PROVE FALSE
  <2>1. b = a
    BY <1>1, <1>2, Sized, ModDistinct
  <2> QED
    BY <2>1
<1> QED
  BY <1>2 DEF IndexOf

\* available() tells from two indices how far apart the totals are.
LEMMA AvailableExact ==
  ASSUME NEW a \in Nat, NEW b \in Nat, b <= a, a - b <= Size - 1
  PROVE  Available(IndexOf(a), IndexOf(b)) = a - b
<1> DEFINE d == a - b
<1>1. d \in 0 .. Size - 1 /\ d \in 0 .. Size /\ a = b + d
  BY Sized
<1> HIDE DEF d
<1>2. IndexOf(b + d) = IF IndexOf(b) + d < Size THEN IndexOf(b) + d ELSE IndexOf(b) + d - Size
  BY <1>1, IndexAhead
<1>3. IndexOf(b) \in 0 .. Size - 1
  BY IndexRange
<1>4. Available(IndexOf(b + d), IndexOf(b)) = d
  BY <1>1, <1>2, <1>3, Sized DEF Available
<1> QED
  BY <1>1, <1>4 DEF d

\* A memcpy of stream bytes to their places puts them there, and keeps those of the
\* last size bytes before them.
LEMMA CopyHolds ==
  ASSUME TypeOK, NEW a \in Nat, NEW from \in Nat, NEW c \in Nat,
         a <= from, from + c - a <= Size, IndexOf(from) + c <= Size,
         Holds(buffer_, a, from)
  PROVE  /\ Copied(IndexOf(from), c, from) \in [0 .. Size - 1 -> Nat \cup {Junk}]
         /\ Holds(Copied(IndexOf(from), c, from), a, from + c)
<1> DEFINE at == IndexOf(from)
<1> DEFINE B == Copied(at, c, from)
<1>1. at \in 0 .. Size - 1
  BY IndexRange
<1> HIDE DEF at
<1>2. B \in [0 .. Size - 1 -> Nat \cup {Junk}]
  BY <1>1 DEF Copied, TypeOK
<1>3. ASSUME NEW k \in a .. (from + c) - 1 PROVE B[IndexOf(k)] = k
  <2>1. k \in Nat /\ IndexOf(k) \in 0 .. Size - 1
    BY IndexRange
  <2>2. CASE k >= from
    <3>1. k - from \in 0 .. Size /\ k = from + (k - from) /\ k - from < c
      BY <1>1, <2>2, Sized
    <3>2. IndexOf(k) = IF at + (k - from) < Size THEN at + (k - from) ELSE at + (k - from) - Size
      BY <3>1, IndexAhead DEF at
    <3>3. IndexOf(k) = at + (k - from)
      BY <1>1, <3>1, <3>2, Sized DEF at
    <3> QED
      BY <1>1, <2>1, <3>1, <3>3 DEF Copied
  <2>3. CASE k < from
    <3>1. ~(at <= IndexOf(k) /\ IndexOf(k) < at + c)
      <4> SUFFICES ASSUME at <= IndexOf(k), IndexOf(k) < at + c PROVE FALSE
        OBVIOUS
      <4> DEFINE m == from + (IndexOf(k) - at)
      <4>1. IndexOf(k) - at \in 0 .. Size /\ IndexOf(k) - at < c
        BY <1>1, <2>1, Sized
      <4>2. IndexOf(m) = IF at + (IndexOf(k) - at) < Size THEN at + (IndexOf(k) - at)
                                                     ELSE at + (IndexOf(k) - at) - Size
        BY <4>1, IndexAhead DEF at
      <4>3. IndexOf(m) = IndexOf(k)
        <5>1. at + (IndexOf(k) - at) = IndexOf(k) /\ IndexOf(k) < Size
          BY <1>1, <2>1, Sized
        <5> HIDE DEF m
        <5> QED
          BY <4>2, <5>1
      <4>4. m \in Nat /\ k < m /\ m - k < Size
        BY <1>1, <2>1, <2>3, <4>1, Sized
      <4> HIDE DEF m
      <4> QED
        BY <2>1, <4>3, <4>4, IndexApart
    <3>2. B[IndexOf(k)] = buffer_[IndexOf(k)]
      BY <2>1, <3>1 DEF Copied
    <3>3. k \in a .. from - 1
      BY <2>3
    <3> QED
      BY <3>2, <3>3 DEF Holds
  <2> QED
    BY <2>1, <2>2, <2>3
<1> QED
  BY <1>2, <1>3 DEF Holds, at

\* A memcpy from the places of stream bytes gets them.
LEMMA BytesHeld ==
  ASSUME NEW from \in Nat, NEW c \in Nat, IndexOf(from) + c <= Size,
         Holds(buffer_, from, from + c)
  PROVE  Bytes(IndexOf(from), c) = Run(from, from + c)
<1>1. ASSUME NEW j \in 1 .. c PROVE buffer_[IndexOf(from) + j - 1] = from + j - 1
  <2>1. from + (j - 1) \in from .. (from + c) - 1 /\ j - 1 \in 0 .. Size
          /\ IndexOf(from) \in 0 .. Size - 1
    BY Sized, IndexRange
  <2>2. IndexOf(from + (j - 1)) = IF IndexOf(from) + (j - 1) < Size
          THEN IndexOf(from) + (j - 1) ELSE IndexOf(from) + (j - 1) - Size
    BY <2>1, IndexAhead
  <2>3. IndexOf(from + (j - 1)) = IndexOf(from) + j - 1
    BY <2>1, <2>2, Sized
  <2>4. buffer_[IndexOf(from + (j - 1))] = from + (j - 1)
    BY <2>1 DEF Holds
  <2> QED
    BY <2>3, <2>4
<1>2. (from + c) - from = c
  OBVIOUS
<1> QED
  BY <1>1, <1>2 DEF Bytes, Run
------------------------------------------------------------------------------
(* What the invariant says of the numbers. *)

LEMMA Totals ==
  ASSUME TypeOK, IndexInv, VisibleInv
  PROVE  /\ written \in Nat /\ taken \in Nat /\ len \in Nat /\ n \in Nat
         /\ taken + n <= written /\ written + len - taken <= Size - 1
         /\ writer_ \in 0 .. Size - 1 /\ reader_ \in 0 .. Size - 1
BY DEF TypeOK, VisibleInv

\* The part of a message before the end of the buffer, and the one after it.
LEMMA WriteSplit ==
  ASSUME TypeOK, IndexInv, VisibleInv
  PROVE  /\ FirstWrite \in 0 .. len /\ writer_ + FirstWrite <= Size
         /\ WriteFits => FirstWrite = len
         /\ ~WriteFits => IndexOf(SecondFrom) = 0
         /\ SecondFrom = written + FirstWrite /\ SecondFrom \in Nat
<1>1. FirstWrite \in 0 .. len /\ writer_ + FirstWrite <= Size
  BY Totals, Sized DEF WriteFits, FirstWrite
<1>2. ASSUME ~WriteFits PROVE IndexOf(SecondFrom) = 0
  <2>1. FirstWrite = Size - writer_ /\ FirstWrite \in 0 .. Size
    BY <1>2, Totals, Sized DEF FirstWrite
  <2>2. IndexOf(written + FirstWrite)
          = IF writer_ + FirstWrite < Size THEN writer_ + FirstWrite ELSE writer_ + FirstWrite - Size
    BY <2>1, Totals, IndexAhead DEF IndexInv
  <2> QED
    BY <2>1, <2>2, Totals, Sized DEF SecondFrom
<1> QED
  BY <1>1, <1>2, Totals DEF WriteFits, FirstWrite, SecondFrom

LEMMA ReadSplit ==
  ASSUME TypeOK, IndexInv, VisibleInv
  PROVE  /\ FirstRead \in 0 .. n /\ reader_ + FirstRead <= Size
         /\ ReadFits => FirstRead = n
         /\ ~ReadFits => IndexOf(taken + FirstRead) = 0
<1>1. FirstRead \in 0 .. n /\ reader_ + FirstRead <= Size
  BY Totals, Sized DEF ReadFits, FirstRead
<1>2. ASSUME ~ReadFits PROVE IndexOf(taken + FirstRead) = 0
  <2>1. FirstRead = Size - reader_ /\ FirstRead \in 0 .. Size
    BY <1>2, Totals, Sized DEF FirstRead
  <2>2. IndexOf(taken + FirstRead)
          = IF reader_ + FirstRead < Size THEN reader_ + FirstRead ELSE reader_ + FirstRead - Size
    BY <2>1, Totals, IndexAhead DEF IndexInv
  <2> QED
    BY <2>1, <2>2, Totals, Sized
<1> QED
  BY <1>1, <1>2, Totals DEF ReadFits, FirstRead

\* What a load leaves to be loaded still has a least total, and the last one.
LEMMA LoadKeeps ==
  ASSUME NEW S \in SUBSET Nat, NEW k \in S, NEW last \in S, \A t \in S : t <= last
  PROVE  /\ From(k, S) \subseteq S /\ last \in From(k, S) /\ HasLeast(From(k, S))
         /\ \A t \in From(k, S) : k <= t
BY DEF From, HasLeast

\* Nor does a new total, later than the others, change the least.
LEMMA StoreKeeps ==
  ASSUME NEW S \in SUBSET Nat, NEW last \in Nat, HasLeast(S), \A t \in S : t <= last
  PROVE  HasLeast(S \cup {last})
BY DEF HasLeast
------------------------------------------------------------------------------
(* The steps of the writer *)

LEMMA InitIInv == Init => IInv
<1> SUFFICES ASSUME Init PROVE IInv
  OBVIOUS
<1> USE Sized
<1>1. TypeOK
  BY DEF Init, TypeOK, Junk
<1>2. IndexOf(0) = 0
  BY ModSmall DEF IndexOf
<1>3. Run(0, 0) = <<>>
  BY DEF Run
<1>4. Stored = 0 /\ Fetched = 0
  BY DEF Init, Stored, Fetched
<1>5. Holds(buffer_, taken, written + Stored)
  BY <1>4 DEF Init, Holds
<1>6. VisibleInv /\ CallInv
  BY DEF Init, VisibleInv, CallInv, HasLeast
<1>7. ReturnedInv
  BY <1>3 DEF Init, ReturnedInv
<1>8. dst = Run(taken, taken + Fetched)
  BY <1>3, <1>4 DEF Init
<1> QED
  BY <1>1, <1>2, <1>5, <1>6, <1>7, <1>8 DEF Init, IInv, IndexInv

\* A step that leaves the read and its knowledge alone keeps what is said of them.
LEMMA ReaderKept ==
  ASSUME IInv, UNCHANGED readVars, written' = written
  PROVE  /\ (reader_ = IndexOf(taken))' /\ (dst = Run(taken, taken + Fetched))' /\ ReturnedInv'
         /\ (written \in visibleWritten)' /\ HasLeast(visibleWritten)'
         /\ (\A k \in visibleWritten : k <= written /\ taken + n <= k)'
         /\ (readPc = "idle" => n = 0 /\ dst = <<>>)' /\ (readPc = "second" => ~ReadFits)'
         /\ (readPc # "idle" => taken < written)'
<1> USE DEF IInv, readVars
<1>1. (reader_ = IndexOf(taken))' /\ ReturnedInv'
  BY DEF IndexInv, IndexOf, ReturnedInv, Run
<1>2. (dst = Run(taken, taken + Fetched))'
  BY DEF Run, Fetched, FirstRead, ReadFits
<1>3. (written \in visibleWritten)' /\ HasLeast(visibleWritten)'
         /\ (\A k \in visibleWritten : k <= written /\ taken + n <= k)'
  BY DEF VisibleInv, HasLeast
<1>4. (readPc = "idle" => n = 0 /\ dst = <<>>)' /\ (readPc = "second" => ~ReadFits)'
         /\ (readPc # "idle" => taken < written)'
  BY DEF CallInv, ReadFits
<1> QED
  BY <1>1, <1>2, <1>3, <1>4

LEMMA LoadReaderKeeps ==
  ASSUME IInv, NEW k \in visibleTaken, LoadReader(k)
  PROVE  /\ visibleTaken' \subseteq visibleTaken /\ taken \in visibleTaken'
         /\ HasLeast(visibleTaken') /\ \A t \in visibleTaken' : k <= t
BY LoadKeeps DEF IInv, TypeOK, VisibleInv, LoadReader

\* The room that try_write computes is the true one for the total it loaded.
LEMMA FreeSpaceExact ==
  ASSUME IInv, NEW k \in visibleTaken
  PROVE  FreeSpace(writer_, IndexOf(k)) = Size - 1 - (written - k)
<1>1. k \in Nat /\ k <= written /\ written - k <= Size - 1
  <2>1. k \in Nat /\ k <= taken /\ written + len - k <= Size - 1
    BY DEF IInv, TypeOK, VisibleInv
  <2> QED
    BY <2>1, Totals, Sized DEF IInv
<1>2. Available(writer_, IndexOf(k)) = written - k
  BY <1>1, Totals, AvailableExact DEF IInv, IndexInv
<1> QED
  BY <1>2 DEF FreeSpace

\* And so are the bytes that read finds.
LEMMA AvailableBytesExact ==
  ASSUME IInv, NEW k \in visibleWritten
  PROVE  Available(IndexOf(k), reader_) = k - taken
<1>1. k \in Nat /\ taken <= k /\ k - taken <= Size - 1
  <2>1. k \in Nat /\ k <= written /\ taken + n <= k
    BY DEF IInv, TypeOK, VisibleInv
  <2> QED
    BY <2>1, Totals, Sized DEF IInv
<1> QED
  BY <1>1, Totals, AvailableExact DEF IInv, IndexInv

LEMMA WriteBegins ==
  ASSUME IInv, NEW size \in Messages, NEW k \in visibleTaken,
         WriteRefuse(size, k) \/ WriteBegin(size, k)
  PROVE  IInv'
<1> USE DEF IInv
<1>1. UNCHANGED <<writer_, written, readVars, buffer_>> /\ LoadReader(k) /\ writePc = "idle"
  BY DEF WriteRefuse, WriteBegin, LoadReader
<1>2. size \in Nat /\ k \in Nat
  BY SizeAssumption DEF TypeOK
<1>3. \/ writePc' = writePc /\ len' = len /\ len = 0
      \/ writePc' = "first" /\ len' = size /\ written + size - k <= Size - 1
  <2>1. CASE WriteRefuse(size, k)
    BY <1>1, <2>1 DEF WriteRefuse, CallInv
  <2>2. CASE WriteBegin(size, k)
    <3>1. size <= Size - 1 - (written - k)
      BY <2>2, FreeSpaceExact DEF WriteBegin
    <3> QED
      BY <1>2, <2>2, <3>1, Totals, Sized DEF WriteBegin
  <2> QED
    BY <2>1, <2>2
<1>4. visibleTaken' \subseteq visibleTaken /\ taken \in visibleTaken' /\ HasLeast(visibleTaken')
        /\ \A t \in visibleTaken' : k <= t
  BY <1>1, LoadReaderKeeps
<1>5. TypeOK'
  BY <1>1, <1>2, <1>3, <1>4 DEF TypeOK, readVars
<1>6. (\A t \in visibleTaken : t <= taken /\ written + len - t <= Size - 1)'
  <2> SUFFICES ASSUME NEW t \in visibleTaken'
               PROVE  t <= taken /\ written + len' - t <= Size - 1
    BY <1>1 DEF readVars
  <2>1. t \in Nat /\ k <= t /\ t <= taken /\ written + len - t <= Size - 1
    BY <1>4 DEF TypeOK, VisibleInv
  <2> QED
    BY <1>2, <1>3, <2>1, Totals, Sized
<1>7. VisibleInv'
  BY <1>1, <1>4, <1>6, ReaderKept DEF VisibleInv, readVars
<1>8. CallInv'
  BY <1>1, <1>3, ReaderKept DEF CallInv
<1>9. Stored' = 0 /\ Stored = 0
  BY <1>1, <1>3 DEF Stored, CallInv
<1> QED
  BY <1>1, <1>5, <1>7, <1>8, <1>9, ReaderKept DEF IndexInv, IndexOf, Holds, readVars

LEMMA WriteCopies ==
  ASSUME IInv, WriteFirst \/ WriteSecond
  PROVE  IInv'
<1> USE DEF IInv
<1>1. UNCHANGED <<writer_, len, written, visibleTaken, readVars>>
  BY DEF WriteFirst, WriteSecond
<1>2. buffer_' \in [0 .. Size - 1 -> Nat \cup {Junk}] /\ Holds(buffer_', taken, written + Stored')
        /\ (writePc' = "second" => ~WriteFits) /\ writePc' \in {"second", "publish"}
  <2>1. CASE WriteFirst
    <3>1. Stored' = FirstWrite /\ Stored = 0
      BY <2>1, <1>1, WriteSplit DEF WriteFirst, Stored, FirstWrite, WriteFits
    <3>2. buffer_' = Copied(IndexOf(written), FirstWrite, written)
      BY <2>1 DEF WriteFirst, IndexInv
    <3>3. Holds(buffer_, taken, written) /\ FirstWrite \in Nat /\ taken <= written
            /\ written + FirstWrite - taken <= Size /\ IndexOf(written) + FirstWrite <= Size
      BY <3>1, Totals, WriteSplit, Sized DEF IndexInv
    <3>4. buffer_' \in [0 .. Size - 1 -> Nat \cup {Junk}]
            /\ Holds(buffer_', taken, written + FirstWrite)
      BY <3>2, <3>3, Totals, CopyHolds
    <3> QED
      BY <2>1, <3>1, <3>4 DEF WriteFirst
  <2>2. CASE WriteSecond
    <3>1. Stored' = len /\ Stored = FirstWrite /\ ~WriteFits
      BY <2>2 DEF WriteSecond, Stored, CallInv
    <3>2. buffer_' = Copied(IndexOf(SecondFrom), len - FirstWrite, SecondFrom)
      BY <2>2, <3>1, WriteSplit DEF WriteSecond
    <3>3. SecondFrom \in Nat /\ len - FirstWrite \in Nat /\ Holds(buffer_, taken, SecondFrom)
            /\ SecondFrom + (len - FirstWrite) = written + len /\ taken <= SecondFrom
            /\ IndexOf(SecondFrom) + (len - FirstWrite) <= Size
            /\ SecondFrom + (len - FirstWrite) - taken <= Size
      BY <3>1, Totals, WriteSplit, Sized
    <3>4. buffer_' \in [0 .. Size - 1 -> Nat \cup {Junk}]
            /\ Holds(buffer_', taken, SecondFrom + (len - FirstWrite))
      BY <3>2, <3>3, Totals, CopyHolds
    <3> QED
      BY <2>2, <3>1, <3>3, <3>4 DEF WriteSecond
  <2> QED
    BY <2>1, <2>2
<1>3. TypeOK'
  BY <1>1, <1>2 DEF TypeOK, readVars
<1>4. VisibleInv'
  BY <1>1, ReaderKept DEF VisibleInv, readVars
<1>5. CallInv'
  BY <1>1, <1>2, ReaderKept DEF CallInv, WriteFits
<1> QED
  BY <1>1, <1>2, <1>3, <1>4, <1>5, ReaderKept DEF IndexInv, IndexOf, readVars

LEMMA WritePublishes ==
  ASSUME IInv, WritePublish
  PROVE  IInv'
<1> USE DEF IInv
<1>1. UNCHANGED <<visibleTaken, reader_, readPc, n, dst, taken, returned, buffer_>>
        /\ written' = written + len /\ len' = 0 /\ writePc' = "idle"
        /\ visibleWritten' = visibleWritten \cup {written + len}
  BY DEF WritePublish
<1>2. writer_' = IndexOf(written + len) /\ writer_' \in 0 .. Size - 1
  <2>1. len \in 0 .. Size /\ writer_ = IndexOf(written)
    BY Totals, Sized DEF IndexInv
  <2>2. IndexOf(written + len)
          = IF writer_ + len < Size THEN writer_ + len ELSE writer_ + len - Size
    BY <2>1, Totals, IndexAhead
  <2>3. writer_' = IndexOf(written + len)
    BY <2>1, <2>2, Totals, Sized DEF WritePublish, WriteFits, FirstWrite
  <2> QED
    BY <2>3, Totals, IndexRange
<1>3. TypeOK'
  BY <1>1, <1>2, Totals DEF TypeOK
<1>4. HasLeast(visibleWritten')
  <2>1. written + len \in Nat /\ \A t \in visibleWritten : t <= written + len
    BY Totals DEF TypeOK, VisibleInv
  <2>2. visibleWritten \in SUBSET Nat /\ HasLeast(visibleWritten)
    BY DEF TypeOK, VisibleInv
  <2> QED
    BY <1>1, <2>1, <2>2, StoreKeeps
<1>5. VisibleInv'
  BY <1>1, <1>4, Totals DEF VisibleInv, TypeOK
<1>6. CallInv'
  BY <1>1, Totals DEF CallInv, ReadFits
<1>7. Stored = len /\ Stored' = 0 /\ Fetched' = Fetched
  BY <1>1 DEF Stored, Fetched, WritePublish, FirstRead, ReadFits
<1>8. Holds(buffer_', taken', written' + Stored')
  BY <1>1, <1>7, Totals
<1>9. ReturnedInv' /\ (dst = Run(taken, taken + Fetched))'
  BY <1>1, <1>7 DEF ReturnedInv, Run
<1> QED
  BY <1>1, <1>2, <1>3, <1>5, <1>6, <1>8, <1>9 DEF IndexInv, IndexOf
------------------------------------------------------------------------------
(* The steps of the reader *)

\* A step that leaves the write and its knowledge alone keeps what is said of them.
LEMMA WriterKept ==
  ASSUME IInv, UNCHANGED <<writeVars, buffer_>>, taken' = taken
  PROVE  /\ (writer_ = IndexOf(written))' /\ Holds(buffer_, taken, written + Stored)'
         /\ (taken \in visibleTaken)' /\ HasLeast(visibleTaken)'
         /\ (\A k \in visibleTaken : k <= taken /\ written + len - k <= Size - 1)'
         /\ (writePc = "idle" => len = 0)' /\ (writePc = "second" => ~WriteFits)'
<1> USE DEF IInv, writeVars
<1>1. (writer_ = IndexOf(written))'
  BY DEF IndexInv, IndexOf
<1>2. Holds(buffer_, taken, written + Stored)'
  BY DEF Holds, Stored, FirstWrite, WriteFits, IndexOf
<1>3. (taken \in visibleTaken)' /\ HasLeast(visibleTaken)'
         /\ (\A k \in visibleTaken : k <= taken /\ written + len - k <= Size - 1)'
  BY DEF VisibleInv, HasLeast
<1>4. (writePc = "idle" => len = 0)' /\ (writePc = "second" => ~WriteFits)'
  BY DEF CallInv, WriteFits
<1> QED
  BY <1>1, <1>2, <1>3, <1>4

LEMMA ReadBegins ==
  ASSUME IInv, NEW k \in visibleWritten,
         ReadEmpty(k) \/ (\E room \in Rooms : ReadBegin(room, k))
  PROVE  IInv'
<1> USE DEF IInv
<1>1. UNCHANGED <<reader_, dst, taken, returned, writeVars, buffer_>> /\ LoadWriter(k)
        /\ readPc = "idle" /\ visibleWritten' = From(k, visibleWritten)
  BY DEF ReadEmpty, ReadBegin, LoadWriter
<1>2. k \in Nat /\ taken <= k /\ k <= written /\ n = 0 /\ dst = <<>>
  BY <1>1 DEF TypeOK, VisibleInv, CallInv
<1>3. \/ readPc' = readPc /\ n' = n
      \/ readPc' = "first" /\ n' \in Nat /\ taken + n' <= k /\ taken < written
  <2>1. CASE ReadEmpty(k)
    BY <2>1 DEF ReadEmpty
  <2>2. ASSUME NEW room \in Rooms, ReadBegin(room, k)
        PROVE  readPc' = "first" /\ n' \in Nat /\ taken + n' <= k /\ taken < written
    <3>1. Available(IndexOf(k), reader_) = k - taken
      BY AvailableBytesExact
    <3>2. k - taken # 0 /\ n' = (IF k - taken < room THEN k - taken ELSE room) /\ readPc' = "first"
      BY <2>2, <3>1 DEF ReadBegin
    <3>3. room \in Nat
      BY SizeAssumption
    <3> QED
      BY <1>2, <3>2, <3>3, Totals
  <2> QED
    BY <2>1, <2>2
<1>4. visibleWritten' \subseteq visibleWritten /\ written \in visibleWritten'
        /\ HasLeast(visibleWritten') /\ \A t \in visibleWritten' : k <= t
  BY <1>1, LoadKeeps DEF TypeOK, VisibleInv
<1>5. TypeOK'
  BY <1>1, <1>3, <1>4 DEF TypeOK, writeVars
<1>6. (\A t \in visibleWritten : t <= written /\ taken + n <= t)'
  <2> SUFFICES ASSUME NEW t \in visibleWritten'
               PROVE  t <= written /\ taken + n' <= t
    BY <1>1 DEF writeVars
  <2>1. t \in Nat /\ k <= t /\ t <= written /\ taken + n <= t
    BY <1>4 DEF TypeOK, VisibleInv
  <2> QED
    BY <1>2, <1>3, <2>1, Totals
<1>7. VisibleInv'
  BY <1>1, <1>4, <1>6, WriterKept DEF VisibleInv, writeVars
<1>8. CallInv'
  BY <1>1, <1>2, <1>3, WriterKept DEF CallInv, writeVars
<1>9. Fetched' = 0 /\ Fetched = 0
  BY <1>1, <1>3 DEF Fetched
<1>10. ReturnedInv'
  BY <1>1 DEF ReturnedInv, Run
<1>11. (dst = Run(taken, taken + Fetched))'
  BY <1>1, <1>9 DEF Run
<1> QED
  BY <1>1, <1>5, <1>7, <1>8, <1>10, <1>11, WriterKept DEF IndexInv, IndexOf

LEMMA ReadCopies ==
  ASSUME IInv, ReadFirst \/ ReadSecond
  PROVE  IInv'
<1> USE DEF IInv
<1>1. UNCHANGED <<reader_, n, taken, visibleWritten, returned, writeVars, buffer_>>
  BY DEF ReadFirst, ReadSecond
<1>2. Holds(buffer_, taken, written) /\ n \in Nat /\ taken + n <= written /\ Stored \in Nat
  BY Totals, WriteSplit DEF Stored, Holds
<1>3. dst' = Run(taken, taken + Fetched') /\ Fetched' \in 0 .. n
        /\ (readPc' = "second" => ~ReadFits) /\ readPc' \in {"second", "publish"}
        /\ taken < written
  <2>1. CASE ReadFirst
    <3>1. Fetched' = FirstRead /\ FirstRead \in 0 .. n /\ reader_ + FirstRead <= Size
      BY <2>1, <1>1, ReadSplit DEF ReadFirst, Fetched, FirstRead, ReadFits
    <3>2. Holds(buffer_, taken, taken + FirstRead)
      BY <1>2, <3>1, Totals DEF Holds
    <3>3. Bytes(IndexOf(taken), FirstRead) = Run(taken, taken + FirstRead)
      BY <3>1, <3>2, Totals, BytesHeld DEF IndexInv
    <3> QED
      BY <2>1, <3>1, <3>3 DEF ReadFirst, IndexInv, CallInv
  <2>2. CASE ReadSecond
    <3>1. Fetched' = n /\ Fetched = FirstRead /\ ~ReadFits /\ FirstRead \in 0 .. n
      BY <2>2, <1>1, ReadSplit DEF ReadSecond, Fetched, CallInv
    <3>2. taken + FirstRead \in Nat /\ n - FirstRead \in Nat
            /\ (taken + FirstRead) + (n - FirstRead) = taken + n
            /\ IndexOf(taken + FirstRead) = 0 /\ n - FirstRead <= Size
      BY <3>1, Totals, ReadSplit, Sized
    <3>3. Holds(buffer_, taken + FirstRead, (taken + FirstRead) + (n - FirstRead))
      BY <1>2, <3>1, <3>2, Totals DEF Holds
    <3>4. Bytes(0, n - FirstRead) = Run(taken + FirstRead, taken + n)
      <4>1. IndexOf(taken + FirstRead) + (n - FirstRead) <= Size
        BY <3>2
      <4>2. Bytes(IndexOf(taken + FirstRead), n - FirstRead)
              = Run(taken + FirstRead, (taken + FirstRead) + (n - FirstRead))
        BY <3>2, <3>3, <4>1, BytesHeld
      <4> QED
        BY <3>2, <4>2
    <3>5. Run(taken, taken + FirstRead) \o Run(taken + FirstRead, taken + n) = Run(taken, taken + n)
      <4>1. taken <= taken + FirstRead /\ taken + FirstRead <= taken + n /\ taken + n \in Nat
        BY <3>1, Totals
      <4> QED
        BY <3>2, <4>1, Totals, RunsJoin
    <3>6. dst' = Run(taken, taken + n)
      BY <2>2, <3>1, <3>4, <3>5 DEF ReadSecond
    <3>7. readPc = "second" /\ readPc' = "publish" /\ Fetched' \in 0 .. n
      BY <2>2, <1>2, <3>1 DEF ReadSecond
    <3> QED
      BY <3>1, <3>6, <3>7 DEF CallInv
  <2> QED
    BY <2>1, <2>2
<1>4. dst' \in Seq(Nat \cup {Junk})
  <2>1. taken + Fetched' \in Nat /\ taken <= taken + Fetched' /\ taken \in Nat
    BY <1>3, Totals
  <2>2. dst' \in Seq(Nat)
    BY <1>3, <2>1, RunIsSeq
  <2> QED
    BY <2>2
<1>5. TypeOK'
  BY <1>1, <1>3, <1>4 DEF TypeOK, writeVars
<1>6. VisibleInv'
  BY <1>1, WriterKept DEF VisibleInv, writeVars
<1>7. CallInv'
  BY <1>1, <1>3, WriterKept DEF CallInv, ReadFits, writeVars
<1>8. (dst = Run(taken, taken + Fetched))' /\ ReturnedInv'
  BY <1>1, <1>3 DEF Run, ReturnedInv
<1> QED
  BY <1>1, <1>5, <1>6, <1>7, <1>8, WriterKept DEF IndexInv, IndexOf

LEMMA ReadPublishes ==
  ASSUME IInv, ReadPublish
  PROVE  IInv'
<1> USE DEF IInv
<1>1. UNCHANGED <<visibleWritten, writer_, writePc, len, written, buffer_>>
        /\ taken' = taken + n /\ n' = 0 /\ dst' = <<>> /\ readPc' = "idle"
        /\ visibleTaken' = visibleTaken \cup {taken + n} /\ returned' = dst
  BY DEF ReadPublish
<1>2. reader_' = IndexOf(taken + n) /\ reader_' \in 0 .. Size - 1
  <2>1. n \in 0 .. Size /\ reader_ = IndexOf(taken)
    BY Totals, Sized DEF IndexInv
  <2>2. IndexOf(taken + n) = IF reader_ + n < Size THEN reader_ + n ELSE reader_ + n - Size
    BY <2>1, Totals, IndexAhead
  <2>3. reader_' = IndexOf(taken + n)
    BY <2>1, <2>2, Totals, Sized DEF ReadPublish, NewReader, ReadFits, FirstRead
  <2> QED
    BY <2>3, Totals, IndexRange
<1>3. TypeOK'
  BY <1>1, <1>2, Totals DEF TypeOK
<1>4. HasLeast(visibleTaken')
  <2>1. taken + n \in Nat /\ \A t \in visibleTaken : t <= taken + n
    BY Totals DEF TypeOK, VisibleInv
  <2>2. visibleTaken \in SUBSET Nat /\ HasLeast(visibleTaken)
    BY DEF TypeOK, VisibleInv
  <2> QED
    BY <1>1, <2>1, <2>2, StoreKeeps
<1>5. VisibleInv'
  <2>1. (\A k \in visibleTaken : k <= taken /\ written + len - k <= Size - 1)'
    BY <1>1, Totals, Sized DEF VisibleInv, TypeOK
  <2>2. (\A k \in visibleWritten : k <= written /\ taken + n <= k)'
    BY <1>1, Totals DEF VisibleInv, TypeOK
  <2> QED
    BY <1>1, <1>4, <2>1, <2>2 DEF VisibleInv
<1>6. CallInv'
  BY <1>1 DEF CallInv, WriteFits
<1>7. Fetched = n /\ Fetched' = 0 /\ Stored' = Stored
  BY <1>1 DEF Stored, Fetched, ReadPublish, FirstWrite, WriteFits
<1>8. Holds(buffer_', taken', written' + Stored')
  <2>1. Stored \in Nat
    BY Totals, WriteSplit DEF Stored
  <2> QED
    BY <1>1, <1>7, <2>1, Totals DEF Holds
<1>9. ReturnedInv'
  <2>1. n \in 0 .. taken + n /\ (taken + n) - n = taken /\ dst = Run(taken, taken + n)
    BY <1>7, Totals
  <2>2. returned' = Run(taken' - n, taken')
    BY <1>1, <2>1
  <2> QED
    BY <1>1, <2>1, <2>2 DEF ReturnedInv, Run
<1>10. (dst = Run(taken, taken + Fetched))'
  <2>1. Fetched' = 0 /\ ((taken + n) + 0) - (taken + n) = 0
    BY <1>7, Totals
  <2> QED
    BY <1>1, <2>1 DEF Run
<1> QED
  BY <1>1, <1>2, <1>3, <1>5, <1>6, <1>8, <1>9, <1>10 DEF IndexInv, IndexOf
------------------------------------------------------------------------------
(* Crashes: the message in progress is not in the stream, whatever of it is in *)
(* the buffer, and the chunk in progress still is.                             *)

LEMMA WriterCrashes ==
  ASSUME IInv, WriterCrash
  PROVE  IInv'
<1> USE DEF IInv
<1>1. UNCHANGED <<writer_, written, visibleTaken, readVars>> /\ writePc' = "idle" /\ len' = 0
  BY DEF WriterCrash
<1>2. buffer_' \in [0 .. Size - 1 -> Nat \cup {Junk}] /\ Holds(buffer_', taken, written)
  <2>1. Holds(buffer_, taken, written) /\ Stored \in Nat
    BY Totals, WriteSplit DEF Stored, Holds
  <2>2. CASE UNCHANGED buffer_
    BY <2>1, <2>2 DEF TypeOK
  <2>3. ASSUME NEW c \in 1 .. FirstWrite, buffer_' = Copied(writer_, c, written)
        PROVE  buffer_' \in [0 .. Size - 1 -> Nat \cup {Junk}] /\ Holds(buffer_', taken, written)
    <3>1. c \in Nat /\ taken <= written /\ written + c - taken <= Size
            /\ IndexOf(written) + c <= Size
      BY Totals, WriteSplit, Sized DEF IndexInv
    <3>2. buffer_' \in [0 .. Size - 1 -> Nat \cup {Junk}] /\ Holds(buffer_', taken, written + c)
      BY <2>1, <2>3, <3>1, Totals, CopyHolds DEF IndexInv
    <3> QED
      BY <3>1, <3>2, Totals DEF Holds
  <2>4. ASSUME writePc = "second", NEW c \in 1 .. len - FirstWrite,
               buffer_' = Copied(0, c, SecondFrom)
        PROVE  buffer_' \in [0 .. Size - 1 -> Nat \cup {Junk}] /\ Holds(buffer_', taken, written)
    <3>1. ~WriteFits /\ Stored = FirstWrite
      BY <2>4 DEF CallInv, Stored
    <3>2. IndexOf(SecondFrom) = 0 /\ SecondFrom \in Nat /\ SecondFrom = written + FirstWrite
            /\ FirstWrite \in 0 .. len
      BY <3>1, WriteSplit
    <3>3. c \in Nat /\ taken <= SecondFrom /\ SecondFrom + c - taken <= Size
            /\ IndexOf(SecondFrom) + c <= Size /\ Holds(buffer_, taken, SecondFrom)
      BY <3>1, <3>2, Totals, Sized
    <3>4. buffer_' \in [0 .. Size - 1 -> Nat \cup {Junk}] /\ Holds(buffer_', taken, SecondFrom + c)
      BY <2>4, <3>2, <3>3, Totals, CopyHolds
    <3>5. \A k \in taken .. written - 1 : k \in taken .. (SecondFrom + c) - 1
      BY <3>2, <3>3, Totals
    <3> QED
      BY <3>4, <3>5 DEF Holds
  <2> QED
    BY <2>2, <2>3, <2>4 DEF WriterCrash, CutShort
<1>3. TypeOK'
  BY <1>1, <1>2 DEF TypeOK, readVars
<1>4. (\A k \in visibleTaken : k <= taken /\ written + len - k <= Size - 1)'
  <2> SUFFICES ASSUME NEW k \in visibleTaken
               PROVE  k <= taken /\ written + 0 - k <= Size - 1
    BY <1>1 DEF readVars
  <2>1. k \in Nat /\ k <= taken /\ written + len - k <= Size - 1
    BY DEF TypeOK, VisibleInv
  <2> QED
    BY <2>1, Totals, Sized
<1>5. VisibleInv'
  BY <1>1, <1>4, ReaderKept DEF VisibleInv, readVars
<1>6. CallInv'
  BY <1>1, ReaderKept DEF CallInv
<1>7. (Holds(buffer_, taken, written + Stored))'
  <2>1. Stored' = 0 /\ written' + 0 = written
    BY <1>1, Totals DEF Stored
  <2> QED
    BY <1>1, <1>2, <2>1 DEF readVars
<1> QED
  BY <1>1, <1>3, <1>5, <1>6, <1>7, ReaderKept DEF IndexInv, IndexOf

LEMMA ReaderCrashes ==
  ASSUME IInv, ReaderCrash
  PROVE  IInv'
<1> USE DEF IInv
<1>1. UNCHANGED <<reader_, taken, visibleWritten, returned, writeVars, buffer_>>
        /\ readPc' = "idle" /\ n' = 0 /\ dst' = <<>>
  BY DEF ReaderCrash
<1>2. TypeOK'
  BY <1>1 DEF TypeOK, writeVars
<1>3. (\A k \in visibleWritten : k <= written /\ taken + n <= k)'
  <2> SUFFICES ASSUME NEW k \in visibleWritten
               PROVE  k <= written /\ taken + 0 <= k
    BY <1>1 DEF writeVars
  <2>1. k \in Nat /\ k <= written /\ taken + n <= k
    BY DEF TypeOK, VisibleInv
  <2> QED
    BY <2>1, Totals
<1>4. VisibleInv'
  BY <1>1, <1>3, WriterKept DEF VisibleInv, writeVars
<1>5. CallInv'
  BY <1>1, WriterKept DEF CallInv, writeVars
<1>6. (dst = Run(taken, taken + Fetched))' /\ ReturnedInv'
  <2>1. Fetched' = 0 /\ (taken + 0) - taken = 0
    BY <1>1, Totals DEF Fetched
  <2> QED
    BY <1>1, <2>1 DEF Run, ReturnedInv
<1> QED
  BY <1>1, <1>2, <1>4, <1>5, <1>6, WriterKept DEF IndexInv, IndexOf
------------------------------------------------------------------------------
LEMMA StepIInv == IInv /\ [Next]_vars => IInv'
<1> SUFFICES ASSUME IInv, [Next]_vars PROVE IInv'
  OBVIOUS
<1>1. CASE Write
  BY <1>1, WriteBegins, WriteCopies, WritePublishes DEF Write
<1>2. CASE Read
  BY <1>2, ReadBegins, ReadCopies, ReadPublishes DEF Read
<1>3. CASE UNCHANGED vars
  <2>1. (writer_ = IndexOf(written))' /\ Holds(buffer_, taken, written + Stored)'
    BY <1>3, WriterKept DEF vars, readVars
  <2>2. (reader_ = IndexOf(taken))' /\ (dst = Run(taken, taken + Fetched))' /\ ReturnedInv'
    BY <1>3, ReaderKept DEF vars, writeVars
  <2>3. TypeOK' /\ VisibleInv' /\ CallInv'
    BY <1>3 DEF IInv, TypeOK, VisibleInv, CallInv, HasLeast, WriteFits, ReadFits, vars,
       writeVars, readVars
  <2> QED
    BY <2>1, <2>2, <2>3 DEF IInv, IndexInv
<1> QED
  BY <1>1, <1>2, <1>3 DEF Next

LEMMA IpcStepIInv == IInv /\ [IpcNext]_<<vars, procVars>> => IInv'
<1> SUFFICES ASSUME IInv, [IpcNext]_<<vars, procVars>> PROVE IInv'
  OBVIOUS
<1>1. CASE Write \/ Read \/ UNCHANGED vars
  BY <1>1, StepIInv DEF Next
<1>2. CASE WriterCrash \/ ReaderCrash
  BY <1>2, WriterCrashes, ReaderCrashes
<1> QED
  BY <1>1, <1>2 DEF IpcNext, Going, WriterStart, ReaderStart

\* With or without crashes.
LEMMA Invariance == (Spec => []IInv) /\ (IpcSpec => []IInv)
<1>1. IpcInit => Init
  BY DEF IpcInit
<1> QED
  BY <1>1, InitIInv, StepIInv, IpcStepIInv, PTL DEF Spec, IpcSpec
------------------------------------------------------------------------------
\* Every variable of the ring stays in its range.
THEOREM TypeCorrect == (Spec => []TypeOK) /\ (IpcSpec => []TypeOK)
<1>1. IInv => TypeOK
  BY DEF IInv
<1> QED
  BY <1>1, Invariance, PTL

\* The places a side is about to access are those of the bytes of its call.
LEMMA WritingPlaces ==
  ASSUME IInv, NEW b \in Writing
  PROVE  \E k \in written .. written + len - 1 : b = IndexOf(k)
<1> USE DEF IInv
<1>1. /\ FirstWrite \in 0 .. len /\ writer_ + FirstWrite <= Size /\ SecondFrom \in Nat
      /\ SecondFrom = written + FirstWrite
      /\ writer_ \in 0 .. Size - 1 /\ written \in Nat /\ len \in 0 .. Size - 1
  BY WriteSplit, Totals, Sized
<1>2. CASE writePc = "first"
  <2>1. b \in writer_ .. writer_ + FirstWrite - 1
    BY <1>2 DEF Writing
  <2>2. b - writer_ \in 0 .. Size /\ b - writer_ < len /\ b < Size
    BY <1>1, <2>1, Sized
  <2>3. IndexOf(written + (b - writer_)) = IF writer_ + (b - writer_) < Size
          THEN writer_ + (b - writer_) ELSE writer_ + (b - writer_) - Size
    BY <1>1, <2>2, IndexAhead DEF IndexInv
  <2>4. writer_ + (b - writer_) = b /\ written + (b - writer_) \in written .. written + len - 1
    BY <1>1, <2>1, <2>2
  <2> QED
    BY <2>2, <2>3, <2>4
<1>3. CASE writePc = "second"
  <2>1. b \in 0 .. len - FirstWrite - 1
    BY <1>3 DEF Writing
  <2>2. IndexOf(SecondFrom) = 0 /\ b \in 0 .. Size /\ b < Size
    BY <1>1, <1>3, <2>1, WriteSplit, Sized DEF CallInv
  <2>3. IndexOf(SecondFrom + b) = IF 0 + b < Size THEN 0 + b ELSE 0 + b - Size
    BY <1>1, <2>2, IndexAhead
  <2>4. SecondFrom + b \in written .. written + len - 1
    BY <1>1, <2>1
  <2> QED
    BY <2>2, <2>3, <2>4
<1> QED
  BY <1>2, <1>3 DEF Writing

LEMMA ReadingPlaces ==
  ASSUME IInv, NEW b \in Reading
  PROVE  \E k \in taken .. taken + n - 1 : b = IndexOf(k)
<1> USE DEF IInv
<1>1. /\ FirstRead \in 0 .. n /\ reader_ + FirstRead <= Size
      /\ reader_ \in 0 .. Size - 1 /\ taken \in Nat /\ n \in 0 .. Size - 1
  BY ReadSplit, Totals, Sized
<1>2. CASE readPc = "first"
  <2>1. b \in reader_ .. reader_ + FirstRead - 1
    BY <1>2 DEF Reading
  <2>2. b - reader_ \in 0 .. Size /\ b - reader_ < n /\ b < Size
    BY <1>1, <2>1, Sized
  <2>3. IndexOf(taken + (b - reader_)) = IF reader_ + (b - reader_) < Size
          THEN reader_ + (b - reader_) ELSE reader_ + (b - reader_) - Size
    BY <1>1, <2>2, IndexAhead DEF IndexInv
  <2>4. reader_ + (b - reader_) = b /\ taken + (b - reader_) \in taken .. taken + n - 1
    BY <1>1, <2>1, <2>2
  <2> QED
    BY <2>2, <2>3, <2>4
<1>3. CASE readPc = "second"
  <2>1. b \in 0 .. n - FirstRead - 1
    BY <1>3 DEF Reading
  <2>2. IndexOf(taken + FirstRead) = 0 /\ b \in 0 .. Size /\ b < Size /\ taken + FirstRead \in Nat
    BY <1>1, <1>3, <2>1, ReadSplit, Sized DEF CallInv
  <2>3. IndexOf((taken + FirstRead) + b) = IF 0 + b < Size THEN 0 + b ELSE 0 + b - Size
    BY <2>2, IndexAhead
  <2>4. (taken + FirstRead) + b \in taken .. taken + n - 1
    BY <1>1, <2>1
  <2> QED
    BY <2>2, <2>3, <2>4
<1> QED
  BY <1>2, <1>3 DEF Reading

\* No memcpy leaves the buffer, or touches a byte that the other side may be copying
\* or has copied since this side last heard of it; not after any crash either.
THEOREM RaceFreedom == (Spec => []DataRaceFree) /\ (IpcSpec => []DataRaceFree)
<1>1. IInv => DataRaceFree
  <2> SUFFICES ASSUME IInv PROVE DataRaceFree
    OBVIOUS
  <2>1. /\ written \in Nat /\ taken \in Nat /\ len \in Nat /\ n \in Nat
        /\ taken + n <= written /\ written + len - taken <= Size - 1
    BY Totals DEF IInv
  <2>2. Writing \subseteq 0 .. Size - 1
    <3> SUFFICES ASSUME NEW b \in Writing PROVE b \in 0 .. Size - 1
      OBVIOUS
    <3>1. PICK k \in written .. written + len - 1 : b = IndexOf(k)
      BY WritingPlaces
    <3> QED
      BY <2>1, <3>1, IndexRange
  <2>3. Reading \subseteq 0 .. Size - 1
    <3> SUFFICES ASSUME NEW b \in Reading PROVE b \in 0 .. Size - 1
      OBVIOUS
    <3>1. PICK k \in taken .. taken + n - 1 : b = IndexOf(k)
      BY ReadingPlaces
    <3> QED
      BY <2>1, <3>1, IndexRange
  <2>4. Writing \cap Reading = {}
    <3> SUFFICES ASSUME NEW b \in Writing, b \in Reading PROVE FALSE
      OBVIOUS
    <3>1. PICK k \in written .. written + len - 1 : b = IndexOf(k)
      BY WritingPlaces
    <3>2. PICK j \in taken .. taken + n - 1 : b = IndexOf(j)
      BY ReadingPlaces
    <3>3. j \in Nat /\ k \in Nat /\ j < k /\ k - j < Size
      BY <2>1, <3>1, <3>2, Sized
    <3> QED
      BY <3>1, <3>2, <3>3, IndexApart
  <2>5. SeenTaken \in visibleTaken
    BY DEF IInv, VisibleInv, HasLeast, SeenTaken
  <2>6. written + len - Size <= SeenTaken
    <3>1. SeenTaken \in Nat /\ written + len - SeenTaken <= Size - 1
      BY <2>5 DEF IInv, TypeOK, VisibleInv
    <3> QED
      BY <2>1, <3>1, Sized
  <2>7. SeenWritten \in visibleWritten
    BY DEF IInv, VisibleInv, HasLeast, SeenWritten
  <2>8. taken + n <= SeenWritten
    BY <2>7 DEF IInv, VisibleInv
  <2> QED
    BY <2>2, <2>3, <2>4, <2>6, <2>8 DEF DataRaceFree
<1> QED
  BY <1>1, Invariance, PTL

\* What read returns is the next bytes of the stream.
THEOREM StreamOrder == (Spec => []BytesInOrder) /\ (IpcSpec => []BytesInOrder)
<1>1. IInv => BytesInOrder
  <2> SUFFICES ASSUME IInv PROVE BytesInOrder
    OBVIOUS
  <2>1. taken \in Nat /\ n \in Nat
    BY Totals DEF IInv
  <2>2. ASSUME readPc = "publish" PROVE dst = [j \in 1 .. n |-> taken + j - 1]
    <3>1. dst = Run(taken, taken + n) /\ (taken + n) - taken = n
      BY <2>1, <2>2 DEF IInv, Fetched
    <3> QED
      BY <3>1 DEF Run
  <2>3. returned = [j \in 1 .. Len(returned) |-> taken - Len(returned) + j - 1]
    <3>1. PICK d \in 0 .. taken : returned = Run(taken - d, taken)
      BY DEF IInv, ReturnedInv
    <3>2. taken - d \in Nat /\ taken - d <= taken /\ taken - (taken - d) = d
      BY <2>1, <3>1
    <3>3. Len(returned) = d
      BY <2>1, <3>1, <3>2, RunIsSeq
    <3>4. returned = [j \in 1 .. d |-> (taken - d) + j - 1]
      BY <3>1, <3>2 DEF Run
    <3> QED
      BY <3>3, <3>4
  <2> QED
    BY <2>2, <2>3 DEF BytesInOrder
<1> QED
  BY <1>1, Invariance, PTL

\* The room and the bytes that the two calls compute are the true ones.
THEOREM CountsAreExact == (Spec => []CountsExact) /\ (IpcSpec => []CountsExact)
<1>1. IInv => CountsExact
  BY FreeSpaceExact, AvailableBytesExact DEF CountsExact
<1> QED
  BY <1>1, Invariance, PTL
------------------------------------------------------------------------------
(***************************************************************************)
(* The ring implements the byte stream: what is between the indices is the *)
(* stream from taken to written.  A store of writer_ puts a message, one   *)
(* of reader_ gets a chunk, and any other step, a crash too, does nothing. *)
(***************************************************************************)
Held == [j \in 1 .. Available(writer_, reader_) |-> buffer_[IndexOf(reader_ + j - 1)]]

LEMMA HeldExact == IInv => Held = Run(taken, written)
<1> SUFFICES ASSUME IInv PROVE Held = Run(taken, written)
  OBVIOUS
<1> USE DEF IInv
<1>1. written \in Nat /\ taken \in Nat /\ taken <= written /\ written - taken <= Size - 1
  BY Totals, Sized
<1>2. Available(writer_, reader_) = written - taken
  BY <1>1, AvailableExact DEF IndexInv
<1>3. ASSUME NEW j \in 1 .. written - taken
      PROVE  buffer_[IndexOf(reader_ + j - 1)] = taken + j - 1
  <2>1. Holds(buffer_, taken, written)
    BY Totals, WriteSplit DEF Stored, Holds
  <2>2. taken + j - 1 \in taken .. written - 1
    BY <1>1
  <2>3. IndexOf(reader_ + j - 1) = IndexOf(taken + j - 1)
    <3>1. Size % Size = 0
      BY Sized, ModUnique
    <3>2. taken \in Int /\ j - 1 \in Int /\ taken % Size \in Int
      BY <1>1, Sized, DivMod
    <3>3. ((taken % Size) + (j - 1)) % Size = (taken + (j - 1)) % Size
      BY <3>1, <3>2, Sized, ModAhead
    <3>4. (taken % Size) + j - 1 = (taken % Size) + (j - 1) /\ taken + j - 1 = taken + (j - 1)
      BY <3>2
    <3> QED
      BY <3>3, <3>4 DEF IndexInv, IndexOf
  <2> QED
    BY <2>1, <2>2, <2>3 DEF Holds
<1> QED
  BY <1>2, <1>3 DEF Held, Run

\* The start of a run, and what is left of it.
LEMMA RunSplit ==
  ASSUME NEW a \in Nat, NEW e \in Nat, NEW c \in Nat, a + c <= e
  PROVE  /\ SubSeq(Run(a, e), 1, c) = Run(a, a + c)
         /\ SubSeq(Run(a, e), c + 1, Len(Run(a, e))) = Run(a + c, e)
<1>1. /\ Run(a, e) \in Seq(Nat) /\ Len(Run(a, e)) = e - a
      /\ \A j \in 1 .. e - a : Run(a, e)[j] = a + j - 1
  BY RunIsSeq
<1>2. /\ Run(a, a + c) \in Seq(Nat) /\ Len(Run(a, a + c)) = c
      /\ \A j \in 1 .. c : Run(a, a + c)[j] = a + j - 1
  <2>1. a + c \in Nat /\ a <= a + c /\ (a + c) - a = c
    OBVIOUS
  <2> QED
    BY <2>1, RunIsSeq
<1>3. /\ Run(a + c, e) \in Seq(Nat) /\ Len(Run(a + c, e)) = (e - a) - c
      /\ \A j \in 1 .. (e - a) - c : Run(a + c, e)[j] = (a + c) + j - 1
  <2>1. a + c \in Nat /\ e - (a + c) = (e - a) - c
    OBVIOUS
  <2> QED
    BY <2>1, RunIsSeq
<1>4. SubSeq(Run(a, e), 1, c) = Run(a, a + c)
  <2> DEFINE s == SubSeq(Run(a, e), 1, c)
  <2>1. s = [j \in 1 .. c |-> Run(a, e)[j]]
    BY <1>1
  <2>2. s = [j \in 1 .. c |-> a + j - 1]
    BY <1>1, <2>1
  <2>3. (a + c) - a = c
    OBVIOUS
  <2> QED
    BY <2>2, <2>3 DEF Run
<1>5. SubSeq(Run(a, e), c + 1, Len(Run(a, e))) = Run(a + c, e)
  <2> DEFINE s == SubSeq(Run(a, e), c + 1, e - a)
  <2>1. s = [j \in 1 .. (e - a) - (c + 1) + 1 |-> Run(a, e)[(c + 1) + j - 1]]
    BY <1>1
  <2>2. (e - a) - (c + 1) + 1 = (e - a) - c /\ e - (a + c) = (e - a) - c
    OBVIOUS
  <2>3. \A j \in 1 .. (e - a) - c :
          (c + 1) + j - 1 \in 1 .. e - a /\ a + ((c + 1) + j - 1) - 1 = (a + c) + j - 1
    OBVIOUS
  <2>4. s = [j \in 1 .. (e - a) - c |-> (a + c) + j - 1]
    BY <1>1, <2>1, <2>2, <2>3
  <2> QED
    BY <1>1, <2>2, <2>4 DEF Run
<1> QED
  BY <1>4, <1>5

\* A step that moves neither total is no step of the stream.
LEMMA Stutter ==
  ASSUME IInv, IInv', UNCHANGED <<written, taken, returned>>
  PROVE  UNCHANGED Stream!vars
<1>1. Held = Run(taken, written)
  BY HeldExact
<1>2. (Held = Run(taken, written))'
  BY HeldExact, PTL
<1>3. Held' = Held
  BY <1>1, <1>2
<1> QED
  BY <1>3 DEF Stream!vars, Held

LEMMA StreamStep == IInv /\ IInv' /\ (Next \/ UNCHANGED vars) => [Stream!Next]_(Stream!vars)
<1> SUFFICES ASSUME IInv, IInv', Next \/ UNCHANGED vars
             PROVE  Stream!Next \/ UNCHANGED Stream!vars
  OBVIOUS
<1>1. Held = Run(taken, written)
  BY HeldExact
<1>2. (Held = Run(taken, written))'
  BY HeldExact, PTL
<1>3. /\ written \in Nat /\ taken \in Nat /\ len \in Nat /\ n \in Nat /\ taken <= written
      /\ taken + n <= written /\ written + len - taken <= Size - 1
  BY Totals DEF IInv
<1>4. Len(Held) = written - taken
  BY <1>1, <1>3, RunIsSeq
<1>5. CASE WritePublish
  <2>1. written' = written + len /\ taken' = taken /\ returned' = returned
    BY <1>5 DEF WritePublish
  <2>2. Held' = Held \o Run(written, written + len)
    <3>1. written <= written + len /\ written + len \in Nat
      BY <1>3
    <3> QED
      BY <1>1, <1>2, <1>3, <2>1, <3>1, RunsJoin
  <2>3. Run(written, written + len) = [j \in 1 .. len |-> written + j - 1]
    <3>1. (written + len) - written = len
      BY <1>3
    <3> QED
      BY <3>1 DEF Run
  <2>4. len \in 0 .. (Size - 1) - Len(Held)
    BY <1>3, <1>4, Sized
  <2>5. Stream!Put
    BY <2>1, <2>2, <2>3, <2>4 DEF Stream!Put, Held
  <2> QED
    BY <2>5 DEF Stream!Next
<1>6. CASE ReadPublish
  <2>1. taken' = taken + n /\ written' = written /\ dst = Run(taken, taken + n)
          /\ returned' = dst /\ taken < written
    BY <1>6 DEF ReadPublish, IInv, CallInv, Fetched
  <2>2. n \in 0 .. Len(Held) /\ Held # <<>>
    BY <1>3, <1>4, <2>1
  <2>3. returned' = SubSeq(Held, 1, n) /\ Held' = SubSeq(Held, n + 1, Len(Held))
    <3>1. /\ SubSeq(Run(taken, written), 1, n) = Run(taken, taken + n)
          /\ SubSeq(Run(taken, written), n + 1, Len(Run(taken, written))) = Run(taken + n, written)
      <4>1. taken \in Nat /\ written \in Nat /\ n \in Nat /\ taken + n <= written
        BY <1>3
      <4> QED
        BY Zenon, <4>1, RunSplit
    <3>2. returned' = Run(taken, taken + n) /\ Held' = Run(taken + n, written)
      BY <1>2, <2>1
    <3> QED
      BY <1>1, <3>1, <3>2
  <2>4. Stream!Get
    BY <2>1, <2>2, <2>3 DEF Stream!Get, Held
  <2> QED
    BY <2>4 DEF Stream!Next
<1> DEFINE Quiet == \/ \E size \in Messages, k \in visibleTaken :
                         WriteRefuse(size, k) \/ WriteBegin(size, k)
                    \/ WriteFirst \/ WriteSecond
                    \/ \E k \in visibleWritten : ReadEmpty(k)
                    \/ \E room \in Rooms, k \in visibleWritten : ReadBegin(room, k)
                    \/ ReadFirst \/ ReadSecond \/ UNCHANGED vars
<1>7. CASE Quiet
  <2>1. UNCHANGED <<written, taken, returned>>
    BY <1>7 DEF WriteRefuse, WriteBegin, WriteFirst, WriteSecond, ReadEmpty, ReadBegin, ReadFirst,
       ReadSecond, vars, writeVars, readVars
  <2> QED
    BY <2>1, Stutter
<1>8. WritePublish \/ ReadPublish \/ Quiet
  BY DEF Next, Write, Read
<1> HIDE DEF Quiet
<1> QED
  BY <1>5, <1>6, <1>7, <1>8

LEMMA StreamInit == Init => Stream!Init
<1> SUFFICES ASSUME Init PROVE Stream!Init
  OBVIOUS
<1>1. IInv /\ written = 0 /\ taken = 0
  BY InitIInv DEF Init
<1>2. Held = Run(0, 0)
  BY <1>1, HeldExact
<1>3. Held = <<>>
  BY <1>2 DEF Run
<1> QED
  BY <1>3 DEF Init, Stream!Init, Held

\* The in-process buffer, and the shared one with its crashes, implement the stream:
\* a message goes in whole and at once or not at all, and bytes come out in order.
THEOREM StreamRefinement == (Spec => RefinesStream) /\ (IpcSpec => RefinesStream)
<1>1. IInv /\ IInv' /\ [IpcNext]_<<vars, procVars>> => [Stream!Next]_(Stream!vars)
  <2> SUFFICES ASSUME IInv, IInv', [IpcNext]_<<vars, procVars>>
               PROVE  [Stream!Next]_(Stream!vars)
    OBVIOUS
  <2>1. CASE Next \/ UNCHANGED vars
    BY <2>1, StreamStep
  <2>2. CASE WriterCrash \/ ReaderCrash
    BY <2>2, Stutter DEF WriterCrash, ReaderCrash, writeVars, readVars
  <2> QED
    BY <2>1, <2>2 DEF IpcNext, Going, Next, WriterStart, ReaderStart, vars
<1>2. IInv /\ IInv' /\ [Next]_vars => [Stream!Next]_(Stream!vars)
  BY StreamStep
<1>3. IpcInit => Init
  BY DEF IpcInit
<1> QED
  BY <1>1, <1>2, <1>3, StreamInit, Invariance, PTL DEF Spec, IpcSpec, Stream!Spec, RefinesStream
==============================================================================
