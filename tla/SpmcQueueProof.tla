--------------------------- MODULE SpmcQueueProof ----------------------------
(***************************************************************************)
(* Proofs about SpmcQueue, for every ring size, every number of consumers  *)
(* and every size of message, while fewer messages are pushed than an      *)
(* index can count (MaxPush < Modulus).  Without that hypothesis the       *)
(* theorems about aborting are false: the version expected of an index     *)
(* wraps with it, and the versions of the slots do not.                    *)
(***************************************************************************)
EXTENDS SpmcQueue, ModularArithmetic, TLAPS

(***************************************************************************)
(* The inductive invariant.  Every position p is, at any moment, in one of *)
(* three cases, and the version of its slot says which.  Positions from    *)
(* -Slots stand for the empty slots: their Expected version is 0 or less.  *)
(***************************************************************************)
Live(p)   == p < Sealed /\ Started <= p + Slots
Gone(p)   == Started > p + Slots
Coming(p) == p >= Sealed

VersionInv ==
  \A p \in Int : p >= -Slots =>
    /\ Live(p) => version[SlotOf(p)] = Expected(p)
    /\ Gone(p) => version[SlotOf(p)] > Expected(p)
    /\ Coming(p) => version[SlotOf(p)] < Expected(p)

DataInv ==
  \A p \in Nat, w \in Words : Live(p) => data[SlotOf(p)][w] = p

\* The slot being written: an odd version, and the words written so far.
WriteInv ==
  pushPc = "write" =>
    /\ slot_ver = 2 * (pushed \div Slots)
    /\ version[SlotOf(pushed)] = slot_ver + 1
    /\ \A w \in Words \ unwritten : data[SlotOf(pushed)][w] = pushed

CountInv ==
  /\ MaxPush < Modulus
  /\ writer = pushed
  /\ pushPc # "idle" => pushed < MaxPush

ConsumerInv ==
  \A c \in Consumers : Joined(c) =>
    /\ reader[c] = position[c] /\ position[c] <= Sealed
    /\ popPc[c] = "copy" => position[c] < Sealed

\* What is copied of a message that is not lapped is of that message.
CopyInv ==
  \A c \in Consumers : popPc[c] = "copy" /\ ~Lapped(c) =>
    \A w \in Words \ uncopied[c] : temp[c][w] = position[c]

\* A consumer that was not made was given nothing.
NotJoinedInv == \A c \in Consumers : popPc[c] = "none" => dst[c] = None

IInv ==
  /\ NotJoinedInv
  /\ TypeOK /\ VersionInv /\ DataInv /\ WriteInv /\ CountInv
  /\ ConsumerInv /\ CopyInv /\ DeliversIntactInOrder /\ AbortOnlyWhenLapped
------------------------------------------------------------------------------
(* Arithmetic of slots and versions. *)

LEMMA Sizes == Slots \in Nat \ {0} /\ Modulus \in Nat \ {0} /\ MaxPush \in Nat
<1>1. Slots \in Nat /\ Slots >= 2 /\ Modulus \in Nat /\ Modulus >= Slots /\ MaxPush \in Nat
  BY SizeAssumption
<1> QED
  BY <1>1

LEMMA SlotRange ==
  ASSUME NEW p \in Int
  PROVE  SlotOf(p) \in 0 .. Slots - 1 /\ Expected(p) \in Int
         /\ Expected(p) = 2 * (p \div Slots) + 2
<1>1. p % Slots \in 0 .. Slots - 1 /\ p \div Slots \in Int
  BY Sizes, DivMod
<1> QED
  BY <1>1 DEF SlotOf, Expected

\* Positions that share a slot are laps apart, and so are their versions.
LEMMA SharedSlot ==
  ASSUME NEW p \in Int, NEW q \in Int, SlotOf(p) = SlotOf(q), p < q
  PROVE  p + Slots <= q /\ Expected(p) <= 2 * (q \div Slots) /\ 2 * (q \div Slots) \in Int
<1>1. p + Slots <= q /\ (p \div Slots) + 1 <= q \div Slots
  BY Sizes, SamePlaceLater DEF SlotOf
<1>2. p \div Slots \in Int /\ q \div Slots \in Int
  BY Sizes, DivMod
<1> QED
  BY <1>1, <1>2 DEF Expected

\* Small counts are their own index.
LEMMA WordSmall ==
  ASSUME NEW n \in Nat, n < Modulus
  PROVE  Word(n) = n
BY Sizes, ModSmall DEF Word

\* A slot that is free to be written holds an even version: that of the message
\* one lap before.
LEMMA VersionBefore ==
  ASSUME TypeOK, VersionInv, pushPc = "idle"
  PROVE  version[SlotOf(pushed)] = 2 * (pushed \div Slots)
<1> DEFINE p == pushed - Slots
<1>1. p \in Int /\ p >= -Slots /\ p + Slots = pushed /\ pushed \in Int
  BY Sizes DEF TypeOK
<1>2. Live(p)
  BY <1>1, Sizes DEF Live, Sealed, Started
<1>3. version[SlotOf(p)] = Expected(p)
  BY <1>1, <1>2 DEF VersionInv
<1> HIDE DEF p
<1>4. (p + Slots) % Slots = p % Slots /\ (p + Slots) \div Slots = (p \div Slots) + 1
  BY <1>1, Sizes, NextLap
<1> QED
  BY <1>1, <1>3, <1>4 DEF SlotOf, Expected

\* What a consumer sees of its slot.
LEMMA SeenTells ==
  ASSUME TypeOK, VersionInv, ConsumerInv, NEW c \in Consumers, Joined(c)
  PROVE  /\ Seen(c) < Expected(reader[c]) <=> position[c] >= Sealed
         /\ Seen(c) > Expected(reader[c]) <=> Lapped(c)
<1> DEFINE p == position[c]
<1>1. p \in Int /\ p >= -Slots /\ reader[c] = p
  BY Sizes DEF TypeOK, ConsumerInv
<1>2. /\ Live(p) => version[SlotOf(p)] = Expected(p)
      /\ Gone(p) => version[SlotOf(p)] > Expected(p)
      /\ Coming(p) => version[SlotOf(p)] < Expected(p)
  BY <1>1 DEF VersionInv
<1>3. version[SlotOf(p)] \in Int /\ Expected(p) \in Int
  BY <1>1, SlotRange DEF TypeOK
<1>4. Seen(c) = version[SlotOf(p)]
  BY <1>1 DEF Seen
<1>5. Live(p) \/ Gone(p) \/ Coming(p)
  BY <1>1, Sizes DEF Live, Gone, Coming, Sealed, Started, TypeOK
<1>6. (Coming(p) <=> position[c] >= Sealed) /\ (Gone(p) <=> Lapped(c))
  BY DEF Coming, Gone, Lapped
<1> HIDE DEF p
<1> QED
  BY <1>1, <1>2, <1>3, <1>4, <1>5, <1>6
------------------------------------------------------------------------------
\* The ring before its first push, whichever consumers have been made.
Fresh ==
  /\ writer = 0 /\ pushed = 0
  /\ version = [s \in 0 .. Slots - 1 |-> 0]
  /\ data = [s \in 0 .. Slots - 1 |-> None]
  /\ pushPc = "idle" /\ slot_ver = 0 /\ unwritten = {}
  /\ popPc \in [Consumers -> {"none", "idle"}]
  /\ reader = [c \in Consumers |-> 0] /\ position = [c \in Consumers |-> 0]
  /\ temp = [c \in Consumers |-> None] /\ dst = [c \in Consumers |-> None]
  /\ uncopied = [c \in Consumers |-> {}]
  /\ aborted = FALSE

LEMMA FreshIInv == MaxPush < Modulus /\ Fresh => IInv
<1> SUFFICES ASSUME MaxPush < Modulus, Fresh PROVE IInv
  OBVIOUS
<1>1. TypeOK
  <2>1. None \in [Words -> Nat \cup {Junk}]
    BY DEF None
  <2>2. 0 \in 0 .. MaxPush /\ 0 \in 0 .. Modulus - 1 /\ 0 \in Nat
    BY Sizes
  <2> QED
    BY <2>1, <2>2 DEF Fresh, TypeOK
<1>2. VersionInv
  <2> SUFFICES ASSUME NEW p \in Int, p >= -Slots
               PROVE  /\ Live(p) => version[SlotOf(p)] = Expected(p)
                      /\ Gone(p) => version[SlotOf(p)] > Expected(p)
                      /\ Coming(p) => version[SlotOf(p)] < Expected(p)
    BY DEF VersionInv
  <2>1. version[SlotOf(p)] = 0
    BY SlotRange DEF Fresh
  <2>2. Sealed = 0 /\ Started = 0
    BY DEF Fresh, Sealed, Started
  <2>3. p \div Slots \in Int /\ IF p < 0 THEN p \div Slots = -1 ELSE p \div Slots >= 0
    BY Sizes, DivMod, DivSign
  <2>4. IF p < 0 THEN Expected(p) = 0 ELSE Expected(p) > 0
    BY <2>3 DEF Expected
  <2> QED
    BY <2>1, <2>2, <2>4, Sizes DEF Live, Gone, Coming
<1>3. DataInv
  BY DEF Fresh, DataInv, Live, Sealed
<1>4. Sealed = 0 /\ \A c \in Consumers : popPc[c] # "copy"
  BY DEF Fresh, Sealed
<1> QED
  BY <1>1, <1>2, <1>3, <1>4
  DEF Fresh, IInv, WriteInv, CountInv, ConsumerInv, CopyInv, Joined,
      DeliversIntactInOrder, AbortOnlyWhenLapped, NotJoinedInv

LEMMA InitIInv == MaxPush < Modulus /\ Init => IInv
BY FreshIInv DEF Init, Fresh

\* A step of a consumer leaves the producer's part alone.
LEMMA SlotsKept ==
  ASSUME IInv, UNCHANGED <<slotVars, pushVars>>
  PROVE  /\ VersionInv' /\ DataInv' /\ WriteInv' /\ CountInv'
         /\ Sealed' = Sealed /\ Started' = Started
<1>1. Sealed' = Sealed /\ Started' = Started
  BY DEF Sealed, Started, pushVars
<1>2. VersionInv'
  BY <1>1 DEF IInv, VersionInv, Live, Gone, Coming, slotVars, SlotOf, Expected
<1>3. DataInv'
  BY <1>1 DEF IInv, DataInv, Live, slotVars, SlotOf
<1>4. WriteInv' /\ CountInv'
  BY DEF IInv, WriteInv, CountInv, slotVars, pushVars, SlotOf
<1> QED
  BY <1>1, <1>2, <1>3, <1>4

\* A step of the producer leaves the consumers' part alone: what it may break is
\* that a message being copied is not lapped, and that it only can make true.
LEMMA ConsumersKept ==
  ASSUME IInv, UNCHANGED <<popVars, aborted>>, ~aborted, Sealed' \in Int, Started' \in Int,
         Sealed <= Sealed', Started <= Started'
  PROVE  ConsumerInv' /\ CopyInv' /\ DeliversIntactInOrder' /\ AbortOnlyWhenLapped'
         /\ NotJoinedInv'
<1>1. Sealed \in Int /\ Started \in Int /\ Slots \in Int
      /\ \A c \in Consumers : position[c] \in Int
  BY Sizes DEF IInv, TypeOK, Sealed, Started
<1>2. ConsumerInv'
  <2> SUFFICES ASSUME NEW c \in Consumers, Joined(c)'
               PROVE  /\ (reader[c] = position[c])' /\ position'[c] <= Sealed'
                      /\ (popPc[c] = "copy" => position[c] < Sealed)'
    BY DEF ConsumerInv
  <2>1. Joined(c) /\ position'[c] = position[c] /\ reader' = reader /\ popPc' = popPc
    BY DEF Joined, popVars
  <2>2. position[c] <= Sealed /\ reader[c] = position[c]
        /\ (popPc[c] = "copy" => position[c] < Sealed)
    BY <2>1 DEF IInv, ConsumerInv
  <2> QED
    BY <1>1, <2>1, <2>2
<1>3. CopyInv'
  <2> SUFFICES ASSUME NEW c \in Consumers, (popPc[c] = "copy")', ~Lapped(c)'
               PROVE  (\A w \in Words \ uncopied[c] : temp[c][w] = position[c])'
    BY DEF CopyInv
  <2>1. popPc[c] = "copy" /\ position' = position /\ temp' = temp /\ uncopied' = uncopied
    BY DEF popVars
  <2>2. ~Lapped(c)
    BY <1>1, <2>1 DEF Lapped
  <2> QED
    BY <2>1, <2>2 DEF IInv, CopyInv
<1>4. DeliversIntactInOrder' /\ AbortOnlyWhenLapped' /\ NotJoinedInv'
  BY DEF IInv, DeliversIntactInOrder, AbortOnlyWhenLapped, NotJoinedInv, None, popVars
<1> QED
  BY <1>2, <1>3, <1>4
------------------------------------------------------------------------------
(* The producer's steps. *)

\* The producer's index is the position of the message it is about to push.
LEMMA WriterSlot ==
  ASSUME IInv
  PROVE  /\ SlotOf(writer) = SlotOf(pushed) /\ SlotOf(pushed) \in 0 .. Slots - 1
         /\ pushed \in Nat /\ pushed <= MaxPush
         /\ 2 * (pushed \div Slots) \in Int /\ Expected(pushed) = 2 * (pushed \div Slots) + 2
<1>1. pushed \in Nat /\ pushed <= MaxPush /\ writer = pushed
  BY Sizes DEF IInv, TypeOK, CountInv
<1>2. pushed \div Slots \in Int
  BY <1>1, Sizes, DivMod
<1> QED
  BY <1>1, <1>2, SlotRange

LEMMA PushBeginStep == IInv /\ PushBegin => IInv'
<1> SUFFICES ASSUME IInv, PushBegin PROVE IInv'
  OBVIOUS
<1> DEFINE s == SlotOf(pushed)
<1> DEFINE v == 2 * (pushed \div Slots)
<1>1. /\ SlotOf(writer) = s /\ s \in 0 .. Slots - 1 /\ pushed \in Nat
      /\ v \in Int /\ Expected(pushed) = v + 2
  BY WriterSlot
<1>2. version[s] = v
  BY VersionBefore DEF IInv, PushBegin, Odd
<1>3. slot_ver' = v /\ version' = [version EXCEPT ![s] = v + 1]
  BY <1>1, <1>2 DEF PushBegin, Odd
<1> HIDE DEF s, v
<1>4. Sealed' = pushed /\ Started' = pushed + 1 /\ Sealed = pushed /\ Started = pushed
  BY <1>1 DEF PushBegin, Odd, Sealed, Started
<1>5. v \in Nat /\ version \in [0 .. Slots - 1 -> Nat]
  BY <1>1, <1>2 DEF IInv, TypeOK
<1>6. TypeOK'
  <2>1. v + 1 \in Nat
    BY <1>5
  <2>2. version' \in [0 .. Slots - 1 -> Nat]
    BY <1>3, <1>5, <2>1, Zenon
  <2>3. slot_ver' \in Nat
    BY <1>3, <1>5
  <2> QED
    BY <2>2, <2>3 DEF IInv, TypeOK, PushBegin, Odd, popVars
<1>7. VersionInv'
  <2> SUFFICES ASSUME NEW p \in Int, p >= -Slots
               PROVE  /\ Live(p)' => version'[SlotOf(p)] = Expected(p)
                      /\ Gone(p)' => version'[SlotOf(p)] > Expected(p)
                      /\ Coming(p)' => version'[SlotOf(p)] < Expected(p)
    BY DEF VersionInv, SlotOf, Expected
  <2>1. /\ Live(p)' <=> p < pushed /\ pushed + 1 <= p + Slots
        /\ Gone(p)' <=> pushed + 1 > p + Slots
        /\ Coming(p)' <=> p >= pushed
    BY <1>4 DEF Live, Gone, Coming
  <2>2. /\ Live(p) <=> p < pushed /\ pushed <= p + Slots
        /\ Gone(p) <=> pushed > p + Slots
        /\ Coming(p) <=> p >= pushed
    BY <1>4 DEF Live, Gone, Coming
  <2>3. SlotOf(p) \in 0 .. Slots - 1 /\ Expected(p) \in Int
    BY SlotRange
  <2>4. CASE SlotOf(p) = s
    <3>1. version'[SlotOf(p)] = v + 1
      BY <1>1, <1>3, <1>5, <2>4
    <3>2. CASE p < pushed
      <4>1. p + Slots <= pushed /\ Expected(p) <= v
        BY <2>4, <3>2, <1>1, SharedSlot DEF s, v
      <4> QED
        BY <3>1, <3>2, <4>1, <2>1, <2>3, <1>1, Sizes
    <3>3. CASE p = pushed
      BY <3>1, <3>3, <2>1, <1>1, Sizes
    <3>4. CASE p > pushed
      <4>1. Expected(pushed) <= 2 * (p \div Slots) /\ Expected(p) = 2 * (p \div Slots) + 2
            /\ 2 * (p \div Slots) \in Int
        BY <2>4, <3>4, <1>1, SharedSlot, SlotRange DEF s
      <4> QED
        BY <3>1, <3>4, <4>1, <2>1, <2>3, <1>1, Sizes
    <3> QED
      BY <3>2, <3>3, <3>4, <1>1
  <2>5. CASE SlotOf(p) # s
    <3>1. version'[SlotOf(p)] = version[SlotOf(p)]
      BY <1>3, <1>5, <2>3, <2>5
    <3>2. p + Slots # pushed
      <4>1. SlotOf(p + Slots) = SlotOf(p)
        BY Sizes, NextLap DEF SlotOf
      <4> QED
        BY <4>1, <2>5 DEF s
    <3>3. (Live(p)' => Live(p)) /\ (Gone(p)' => Gone(p)) /\ (Coming(p)' => Coming(p))
      BY <2>1, <2>2, <3>2, <1>1, Sizes
    <3> QED
      BY <3>1, <3>3 DEF IInv, VersionInv
  <2> QED
    BY <2>4, <2>5
<1>8. DataInv'
  <2> SUFFICES ASSUME NEW p \in Nat, NEW w \in Words, Live(p)'
               PROVE  data'[SlotOf(p)][w] = p
    BY DEF DataInv, SlotOf
  <2>1. Live(p)
    BY <1>1, <1>4, Sizes DEF Live
  <2> QED
    BY <2>1 DEF IInv, DataInv, PushBegin, Odd
<1>9. WriteInv'
  <2>1. version'[s] = v + 1 /\ unwritten' = Words /\ pushed' = pushed
    BY <1>1, <1>3, <1>5 DEF PushBegin, Odd
  <2> QED
    BY <2>1, <1>3 DEF WriteInv, s, v, SlotOf
<1>10. CountInv'
  BY DEF IInv, CountInv, PushBegin, Odd, TypeOK
<1> QED
  BY <1>1, <1>4, <1>6, <1>7, <1>8, <1>9, <1>10, ConsumersKept DEF IInv, PushBegin, Odd

LEMMA PushWordStep == ASSUME NEW x \in Words PROVE IInv /\ PushWord(x) => IInv'
<1> SUFFICES ASSUME IInv, PushWord(x) PROVE IInv'
  OBVIOUS
<1> DEFINE s == SlotOf(pushed)
<1>1. SlotOf(writer) = s /\ s \in 0 .. Slots - 1 /\ pushed \in Nat
  BY WriterSlot
<1>2. data' = [data EXCEPT ![s][x] = pushed] /\ data \in [0 .. Slots - 1 -> [Words -> Nat \cup {Junk}]]
  BY <1>1 DEF PushWord, IInv, TypeOK
<1>3. Sealed' = pushed /\ Started' = pushed + 1 /\ Sealed = pushed /\ Started = pushed + 1
  BY <1>1 DEF PushWord, Sealed, Started
<1>4. TypeOK'
  <2>1. data' \in [0 .. Slots - 1 -> [Words -> Nat \cup {Junk}]]
    BY <1>1, <1>2
  <2> QED
    BY <2>1 DEF IInv, TypeOK, PushWord, popVars
<1>5. VersionInv'
  BY <1>3 DEF IInv, VersionInv, Live, Gone, Coming, PushWord, SlotOf, Expected
<1>6. DataInv'
  <2> SUFFICES ASSUME NEW p \in Nat, NEW w \in Words, Live(p)'
               PROVE  data'[SlotOf(p)][w] = p
    BY DEF DataInv, SlotOf
  <2>1. Live(p) /\ p < pushed /\ pushed + 1 <= p + Slots
    BY <1>3 DEF Live
  <2>2. SlotOf(p) # s
    <3>1. ASSUME SlotOf(p) = SlotOf(pushed) PROVE FALSE
      <4>1. p + Slots <= pushed
        BY <3>1, <2>1, <1>1, SharedSlot
      <4> QED
        BY <4>1, <2>1, <1>1, Sizes
    <3> QED
      BY <3>1
  <2>3. SlotOf(p) \in 0 .. Slots - 1
    BY SlotRange
  <2>4. data'[SlotOf(p)] = data[SlotOf(p)]
    BY <1>2, <2>2, <2>3
  <2> QED
    BY <2>1, <2>4 DEF IInv, DataInv
<1>7. WriteInv'
  <2>1. pushPc = "write" /\ version' = version /\ slot_ver' = slot_ver /\ pushed' = pushed
    BY DEF PushWord
  <2>2. \A w \in Words \ unwritten' : data'[s][w] = pushed
    BY <1>1, <1>2, <2>1 DEF IInv, WriteInv, PushWord
  <2> QED
    BY <2>1, <2>2 DEF IInv, WriteInv, SlotOf
<1>8. CountInv'
  BY DEF IInv, CountInv, PushWord
<1> QED
  BY <1>1, <1>3, <1>4, <1>5, <1>6, <1>7, <1>8, ConsumersKept DEF IInv, PushWord

LEMMA PushSealStep == IInv /\ PushSeal => IInv'
<1> SUFFICES ASSUME IInv, PushSeal PROVE IInv'
  OBVIOUS
<1> DEFINE s == SlotOf(pushed)
<1> DEFINE v == 2 * (pushed \div Slots)
<1>1. /\ SlotOf(writer) = s /\ s \in 0 .. Slots - 1 /\ pushed \in Nat
      /\ v \in Int /\ Expected(pushed) = v + 2
  BY WriterSlot
<1>2. slot_ver = v
  BY DEF IInv, WriteInv, PushSeal, Even
<1>3. version' = [version EXCEPT ![s] = v + 2]
  BY <1>1, <1>2 DEF PushSeal, Even
<1> HIDE DEF s, v
<1>4. Sealed' = pushed + 1 /\ Started' = pushed + 1 /\ Sealed = pushed /\ Started = pushed + 1
  BY <1>1 DEF PushSeal, Even, Sealed, Started
<1>5. v \in Nat /\ version \in [0 .. Slots - 1 -> Nat]
  BY <1>2 DEF IInv, TypeOK
<1>6. TypeOK'
  <2>1. v + 2 \in Nat
    BY <1>5
  <2>2. version' \in [0 .. Slots - 1 -> Nat]
    BY <1>3, <1>5, <2>1, Zenon
  <2> QED
    BY <2>2 DEF IInv, TypeOK, PushSeal, Even, popVars
<1>7. VersionInv'
  <2> SUFFICES ASSUME NEW p \in Int, p >= -Slots
               PROVE  /\ Live(p)' => version'[SlotOf(p)] = Expected(p)
                      /\ Gone(p)' => version'[SlotOf(p)] > Expected(p)
                      /\ Coming(p)' => version'[SlotOf(p)] < Expected(p)
    BY DEF VersionInv, SlotOf, Expected
  <2>1. /\ Live(p)' <=> p < pushed + 1 /\ pushed + 1 <= p + Slots
        /\ Gone(p)' <=> pushed + 1 > p + Slots
        /\ Coming(p)' <=> p >= pushed + 1
    BY <1>4 DEF Live, Gone, Coming
  <2>2. /\ Live(p) <=> p < pushed /\ pushed + 1 <= p + Slots
        /\ Gone(p) <=> pushed + 1 > p + Slots
        /\ Coming(p) <=> p >= pushed
    BY <1>4 DEF Live, Gone, Coming
  <2>3. SlotOf(p) \in 0 .. Slots - 1 /\ Expected(p) \in Int
    BY SlotRange
  <2>4. CASE SlotOf(p) = s
    <3>1. version'[SlotOf(p)] = v + 2
      BY <1>1, <1>3, <1>5, <2>4
    <3>2. CASE p < pushed
      <4>1. p + Slots <= pushed /\ Expected(p) <= v
        BY <2>4, <3>2, <1>1, SharedSlot DEF s, v
      <4> QED
        BY <3>1, <3>2, <4>1, <2>1, <2>3, <1>1, Sizes
    <3>3. CASE p = pushed
      BY <3>1, <3>3, <2>1, <1>1, Sizes
    <3>4. CASE p > pushed
      <4>1. Expected(pushed) <= 2 * (p \div Slots) /\ Expected(p) = 2 * (p \div Slots) + 2
            /\ 2 * (p \div Slots) \in Int
        BY <2>4, <3>4, <1>1, SharedSlot, SlotRange DEF s
      <4> QED
        BY <3>1, <3>4, <4>1, <2>1, <2>3, <1>1, Sizes
    <3> QED
      BY <3>2, <3>3, <3>4, <1>1
  <2>5. CASE SlotOf(p) # s
    <3>1. version'[SlotOf(p)] = version[SlotOf(p)]
      BY <1>3, <1>5, <2>3, <2>5
    <3>2. p # pushed
      BY <2>5 DEF s
    <3>3. (Live(p)' => Live(p)) /\ (Gone(p)' => Gone(p)) /\ (Coming(p)' => Coming(p))
      BY <2>1, <2>2, <3>2, <1>1, Sizes
    <3> QED
      BY <3>1, <3>3 DEF IInv, VersionInv
  <2> QED
    BY <2>4, <2>5
<1>8. DataInv'
  <2> SUFFICES ASSUME NEW p \in Nat, NEW w \in Words, Live(p)'
               PROVE  data[SlotOf(p)][w] = p
    BY DEF DataInv, SlotOf, PushSeal, Even
  <2>1. CASE p = pushed
    BY <2>1 DEF IInv, WriteInv, PushSeal, Even
  <2>2. CASE p # pushed
    <3>1. Live(p)
      BY <1>1, <1>4, <2>2, Sizes DEF Live
    <3> QED
      BY <3>1 DEF IInv, DataInv
  <2> QED
    BY <2>1, <2>2
<1>9. WriteInv' /\ CountInv'
  BY DEF IInv, WriteInv, CountInv, PushSeal, Even
<1> QED
  BY <1>1, <1>4, <1>6, <1>7, <1>8, <1>9, ConsumersKept DEF IInv, PushSeal, Even

LEMMA PushPublishStep == IInv /\ PushPublish => IInv'
<1> SUFFICES ASSUME IInv, PushPublish PROVE IInv'
  OBVIOUS
<1>1. pushed \in Nat /\ pushed < MaxPush /\ MaxPush < Modulus /\ writer = pushed
  BY Sizes DEF IInv, TypeOK, CountInv, PushPublish
<1>2. writer' = pushed + 1 /\ pushed' = pushed + 1
  BY <1>1, Sizes, WordSmall DEF PushPublish
<1>3. /\ Sealed' = pushed + 1 /\ Started' = pushed + 1
      /\ Sealed = pushed + 1 /\ Started = pushed + 1
  BY <1>1, <1>2 DEF PushPublish, Sealed, Started
<1>4. TypeOK'
  BY <1>1, <1>2, Sizes DEF IInv, TypeOK, PushPublish, popVars, slotVars
<1>5. VersionInv'
  BY <1>3 DEF IInv, VersionInv, Live, Gone, Coming, PushPublish, slotVars, SlotOf, Expected
<1>6. DataInv'
  BY <1>3 DEF IInv, DataInv, Live, PushPublish, slotVars, SlotOf
<1>7. WriteInv' /\ CountInv'
  BY <1>1, <1>2 DEF IInv, WriteInv, CountInv, PushPublish
<1> QED
  BY <1>1, <1>3, <1>4, <1>5, <1>6, <1>7, ConsumersKept DEF IInv, PushPublish
------------------------------------------------------------------------------
(* The consumers' steps. *)

LEMMA MakeConsumerStep ==
  ASSUME NEW c \in Consumers PROVE IInv /\ MakeConsumer(c) => IInv'
<1> SUFFICES ASSUME IInv, MakeConsumer(c) PROVE IInv'
  OBVIOUS
<1>1. /\ VersionInv' /\ DataInv' /\ WriteInv' /\ CountInv'
      /\ Sealed' = Sealed /\ Started' = Started
  BY SlotsKept DEF MakeConsumer, Start
<1>2. pushed \in Nat /\ pushed <= Sealed /\ writer = pushed
  BY Sizes DEF IInv, TypeOK, CountInv, Sealed
<1>3. TypeOK'
  <2>1. reader' \in [Consumers -> 0 .. Modulus - 1] /\ position' \in [Consumers -> Nat]
        /\ popPc' \in [Consumers -> {"none", "idle", "copy"}]
    BY <1>2 DEF IInv, TypeOK, MakeConsumer, Start
  <2> QED
    BY <2>1 DEF IInv, TypeOK, MakeConsumer, Start, slotVars, pushVars
<1>4. ConsumerInv'
  <2> SUFFICES ASSUME NEW d \in Consumers, Joined(d)'
               PROVE  /\ (reader[d] = position[d])' /\ position'[d] <= Sealed'
                      /\ (popPc[d] = "copy" => position[d] < Sealed)'
    BY DEF ConsumerInv
  <2>1. CASE d = c
    BY <2>1, <1>1, <1>2 DEF MakeConsumer, Start, IInv, TypeOK
  <2>2. CASE d # c
    BY <2>2, <1>1 DEF MakeConsumer, Start, IInv, TypeOK, ConsumerInv, Joined
  <2> QED
    BY <2>1, <2>2
<1>5. CopyInv'
  <2> SUFFICES ASSUME NEW d \in Consumers, (popPc[d] = "copy")', ~Lapped(d)'
               PROVE  (\A w \in Words \ uncopied[d] : temp[d][w] = position[d])'
    BY DEF CopyInv
  <2>1. d # c
    BY DEF MakeConsumer, Start, IInv, TypeOK
  <2> QED
    BY <2>1, <1>1 DEF MakeConsumer, Start, IInv, TypeOK, CopyInv, Lapped
<1>6. DeliversIntactInOrder'
  <2> SUFFICES ASSUME NEW d \in Consumers, dst[d] # None
               PROVE  position'[d] > 0 /\ dst[d] = [w \in Words |-> position'[d] - 1]
    BY DEF DeliversIntactInOrder, MakeConsumer, Start, None
  <2>1. d # c
    BY DEF IInv, NotJoinedInv, MakeConsumer, Start
  <2> QED
    BY <2>1 DEF IInv, TypeOK, DeliversIntactInOrder, MakeConsumer, Start
<1>7. AbortOnlyWhenLapped'
  BY DEF AbortOnlyWhenLapped, MakeConsumer, Start
<1>8. NotJoinedInv'
  BY DEF IInv, TypeOK, NotJoinedInv, MakeConsumer, Start
<1> QED
  BY <1>1, <1>3, <1>4, <1>5, <1>6, <1>7, <1>8 DEF IInv

LEMMA PopBeginStep ==
  ASSUME NEW c \in Consumers PROVE IInv /\ PopBegin(c) => IInv'
<1> SUFFICES ASSUME IInv, PopBegin(c) PROVE IInv'
  OBVIOUS
<1>1. /\ VersionInv' /\ DataInv' /\ WriteInv' /\ CountInv'
      /\ Sealed' = Sealed /\ Started' = Started
  BY SlotsKept DEF PopBegin
<1>2. position[c] < Sealed
  <2>1. Joined(c)
    BY DEF PopBegin, Joined
  <2>2. Seen(c) \in Int
    BY <2>1, SlotRange DEF Seen, IInv, TypeOK, ConsumerInv
  <2>3. ~(position[c] >= Sealed)
    BY <2>1, <2>2, SeenTells DEF IInv, PopBegin
  <2> QED
    BY <2>3 DEF IInv, TypeOK, Sealed
<1>3. TypeOK'
  BY DEF IInv, TypeOK, PopBegin, slotVars, pushVars
<1>4. ConsumerInv'
  BY <1>1, <1>2 DEF IInv, TypeOK, ConsumerInv, Joined, PopBegin
<1>5. CopyInv'
  BY <1>1 DEF IInv, TypeOK, CopyInv, Lapped, PopBegin
<1>6. DeliversIntactInOrder' /\ AbortOnlyWhenLapped' /\ NotJoinedInv'
  BY DEF IInv, TypeOK, DeliversIntactInOrder, AbortOnlyWhenLapped, NotJoinedInv, PopBegin
<1> QED
  BY <1>1, <1>3, <1>4, <1>5, <1>6 DEF IInv

LEMMA PopWordStep ==
  ASSUME NEW c \in Consumers, NEW x \in Words PROVE IInv /\ PopWord(c, x) => IInv'
<1> SUFFICES ASSUME IInv, PopWord(c, x) PROVE IInv'
  OBVIOUS
<1>1. /\ VersionInv' /\ DataInv' /\ WriteInv' /\ CountInv'
      /\ Sealed' = Sealed /\ Started' = Started
  BY SlotsKept DEF PopWord
<1>2. position[c] < Sealed /\ reader[c] = position[c] /\ position[c] \in Nat
  BY DEF IInv, TypeOK, ConsumerInv, Joined, PopWord
<1>3. data[SlotOf(reader[c])][x] \in Nat \cup {Junk}
  BY <1>2, SlotRange DEF IInv, TypeOK
<1>4. ~Lapped(c) => data[SlotOf(reader[c])][x] = position[c]
  <2>1. ~Lapped(c) => Live(position[c])
    BY <1>2, Sizes DEF Lapped, Live, Started, IInv, TypeOK
  <2> QED
    BY <2>1, <1>2 DEF IInv, DataInv
<1>5. TypeOK'
  <2>1. temp' \in [Consumers -> [Words -> Nat \cup {Junk}]]
    BY <1>3 DEF IInv, TypeOK, PopWord
  <2>2. uncopied' \in [Consumers -> SUBSET Words]
    BY DEF IInv, TypeOK, PopWord
  <2> QED
    BY <2>1, <2>2 DEF IInv, TypeOK, PopWord, slotVars, pushVars
<1>6. ConsumerInv'
  BY <1>1 DEF IInv, ConsumerInv, Joined, PopWord
<1>7. CopyInv'
  <2> SUFFICES ASSUME NEW d \in Consumers, (popPc[d] = "copy")', ~Lapped(d)',
                      NEW w \in Words, w \notin uncopied'[d]
               PROVE  temp'[d][w] = position[d]
    BY DEF CopyInv, PopWord
  <2>1. popPc[d] = "copy" /\ ~Lapped(d)
    BY <1>1 DEF PopWord, Lapped
  <2>2. CASE d = c /\ w = x
    BY <2>1, <2>2, <1>4 DEF IInv, TypeOK, PopWord
  <2>3. CASE ~(d = c /\ w = x)
    <3>1. w \notin uncopied[d]
      BY <2>3 DEF IInv, TypeOK, PopWord
    <3>2. temp'[d][w] = temp[d][w]
      BY <2>3 DEF IInv, TypeOK, PopWord
    <3> QED
      BY <3>1, <3>2, <2>1 DEF IInv, CopyInv
  <2> QED
    BY <2>2, <2>3
<1>8. DeliversIntactInOrder' /\ AbortOnlyWhenLapped' /\ NotJoinedInv'
  BY DEF IInv, DeliversIntactInOrder, AbortOnlyWhenLapped, NotJoinedInv, PopWord
<1> QED
  BY <1>1, <1>5, <1>6, <1>7, <1>8 DEF IInv

\* The second version load finding nothing changed means the copy is whole.
LEMMA CopyWhole ==
  ASSUME IInv, NEW c \in Consumers, PopDeliver(c)
  PROVE  /\ temp[c] = [w \in Words |-> position[c]]
         /\ ~Lapped(c) /\ position[c] < Sealed /\ reader[c] = position[c]
<1>1. Joined(c) /\ popPc[c] = "copy" /\ uncopied[c] = {}
  BY DEF PopDeliver, Joined
<1>2. ~Lapped(c)
  <2>1. Seen(c) \in Int
    BY <1>1, SlotRange DEF Seen, IInv, TypeOK, ConsumerInv
  <2> QED
    BY <1>1, <2>1, SeenTells DEF IInv, PopDeliver
<1>3. \A w \in Words : temp[c][w] = position[c]
  BY <1>1, <1>2 DEF IInv, CopyInv
<1>4. temp[c] \in [Words -> Nat \cup {Junk}]
  BY DEF IInv, TypeOK
<1>5. temp[c] = [w \in Words |-> position[c]]
  BY <1>3, <1>4
<1> QED
  BY <1>1, <1>2, <1>5 DEF IInv, ConsumerInv

LEMMA PopDeliverStep ==
  ASSUME NEW c \in Consumers PROVE IInv /\ PopDeliver(c) => IInv'
<1> SUFFICES ASSUME IInv, PopDeliver(c) PROVE IInv'
  OBVIOUS
<1>1. /\ VersionInv' /\ DataInv' /\ WriteInv' /\ CountInv'
      /\ Sealed' = Sealed /\ Started' = Started
  BY SlotsKept DEF PopDeliver
<1>2. /\ temp[c] = [w \in Words |-> position[c]]
      /\ position[c] < Sealed /\ reader[c] = position[c] /\ position[c] \in Nat
  BY CopyWhole DEF IInv, TypeOK
<1>3. Sealed \in Nat /\ Sealed <= MaxPush /\ MaxPush < Modulus /\ MaxPush \in Nat
  BY Sizes DEF IInv, TypeOK, CountInv, Sealed
<1>4. position[c] + 1 \in Nat /\ position[c] + 1 < Modulus /\ position[c] + 1 <= Sealed
      /\ position[c] + 1 \in 0 .. Modulus - 1
  BY <1>2, <1>3, Sizes
<1>5. Word(reader[c] + 1) = position[c] + 1
  BY <1>2, <1>4, WordSmall
<1>6. reader' = [reader EXCEPT ![c] = position[c] + 1]
      /\ position' = [position EXCEPT ![c] = position[c] + 1]
      /\ dst' = [dst EXCEPT ![c] = [w \in Words |-> position[c]]]
      /\ popPc' = [popPc EXCEPT ![c] = "idle"]
  BY <1>2, <1>5 DEF PopDeliver
<1>7. TypeOK'
  <2>1. reader' \in [Consumers -> 0 .. Modulus - 1] /\ position' \in [Consumers -> Nat]
        /\ popPc' \in [Consumers -> {"none", "idle", "copy"}]
    BY <1>4, <1>6 DEF IInv, TypeOK
  <2>2. [w \in Words |-> position[c]] \in [Words -> Nat \cup {Junk}]
    BY <1>2
  <2>3. dst' \in [Consumers -> [Words -> Nat \cup {Junk}]]
    BY <2>2, <1>6 DEF IInv, TypeOK
  <2> QED
    BY <2>1, <2>3 DEF IInv, TypeOK, PopDeliver, slotVars, pushVars
<1>8. ConsumerInv'
  BY <1>1, <1>4, <1>6 DEF IInv, TypeOK, ConsumerInv, Joined
<1>9. CopyInv'
  <2> SUFFICES ASSUME NEW d \in Consumers, (popPc[d] = "copy")', ~Lapped(d)'
               PROVE  (\A w \in Words \ uncopied[d] : temp[d][w] = position[d])'
    BY DEF CopyInv
  <2>1. d # c
    BY <1>6 DEF IInv, TypeOK
  <2>2. popPc[d] = "copy" /\ position'[d] = position[d] /\ ~Lapped(d)
    BY <1>1, <1>6, <2>1 DEF IInv, TypeOK, Lapped
  <2> QED
    BY <2>2 DEF IInv, CopyInv, PopDeliver
<1>10. DeliversIntactInOrder'
  <2> SUFFICES ASSUME NEW d \in Consumers, dst'[d] # None
               PROVE  position'[d] > 0 /\ dst'[d] = [w \in Words |-> position'[d] - 1]
    BY DEF DeliversIntactInOrder, None
  <2>1. CASE d = c
    <3>1. position'[d] = position[c] + 1 /\ dst'[d] = [w \in Words |-> position[c]]
      BY <2>1, <1>6 DEF IInv, TypeOK
    <3>2. position[c] = position'[d] - 1 /\ position'[d] > 0
      BY <3>1, <1>2
    <3> QED
      BY <3>1, <3>2
  <2>2. CASE d # c
    BY <2>2, <1>6 DEF IInv, TypeOK, DeliversIntactInOrder
  <2> QED
    BY <2>1, <2>2
<1>11. AbortOnlyWhenLapped' /\ NotJoinedInv'
  BY <1>6 DEF IInv, TypeOK, AbortOnlyWhenLapped, NotJoinedInv, PopDeliver
<1> QED
  BY <1>1, <1>7, <1>8, <1>9, <1>10, <1>11 DEF IInv

LEMMA AbortStep ==
  ASSUME NEW c \in Consumers
  PROVE  IInv /\ (PopTooSlow(c) \/ PopOverwritten(c)) => IInv' /\ Lapped(c) /\ Joined(c)
<1> SUFFICES ASSUME IInv, PopTooSlow(c) \/ PopOverwritten(c)
             PROVE  IInv' /\ Lapped(c) /\ Joined(c)
  OBVIOUS
<1>1. UNCHANGED <<slotVars, pushVars, popVars>> /\ aborted' = TRUE
  BY DEF PopTooSlow, PopOverwritten
<1>2. /\ VersionInv' /\ DataInv' /\ WriteInv' /\ CountInv'
      /\ Sealed' = Sealed /\ Started' = Started
  BY <1>1, SlotsKept
<1>3. Joined(c)
  BY DEF PopTooSlow, PopOverwritten, Joined
<1>4. Lapped(c)
  <2>1. /\ Seen(c) < Expected(reader[c]) <=> position[c] >= Sealed
        /\ Seen(c) > Expected(reader[c]) <=> Lapped(c)
    BY <1>3, SeenTells DEF IInv
  <2>2. CASE PopTooSlow(c)
    BY <2>1, <2>2 DEF PopTooSlow
  <2>3. CASE PopOverwritten(c)
    <3>1. position[c] < Sealed /\ reader[c] = position[c] /\ position[c] \in Nat
      BY <2>3, <1>3 DEF IInv, TypeOK, ConsumerInv, PopOverwritten
    <3>2. Seen(c) \in Int /\ Expected(reader[c]) \in Int /\ Sealed \in Int
      BY <3>1, SlotRange DEF Seen, IInv, TypeOK, Sealed
    <3> QED
      BY <2>1, <2>3, <3>1, <3>2 DEF PopOverwritten
  <2> QED
    BY <2>2, <2>3
<1>5. TypeOK'
  BY <1>1 DEF IInv, TypeOK, slotVars, pushVars, popVars
<1>6. ConsumerInv' /\ CopyInv' /\ DeliversIntactInOrder' /\ NotJoinedInv'
  BY <1>1, <1>2 DEF IInv, ConsumerInv, CopyInv, DeliversIntactInOrder, NotJoinedInv,
     Joined, Lapped, popVars
<1>7. AbortOnlyWhenLapped'
  BY <1>1, <1>2, <1>3, <1>4 DEF AbortOnlyWhenLapped, Joined, Lapped, popVars
<1> QED
  BY <1>2, <1>3, <1>4, <1>5, <1>6, <1>7 DEF IInv
------------------------------------------------------------------------------
LEMMA NextIInv == IInv /\ [Next]_vars => IInv'
<1> SUFFICES ASSUME IInv, [Next]_vars PROVE IInv'
  OBVIOUS
<1>1. CASE Push
  BY <1>1, PushBeginStep, PushWordStep, PushSealStep, PushPublishStep DEF Push
<1>2. ASSUME NEW c \in Consumers, MakeConsumer(c) PROVE IInv'
  BY <1>2, MakeConsumerStep
<1>3. CASE UNCHANGED vars
  <2>1. UNCHANGED <<slotVars, pushVars, popVars>> /\ UNCHANGED aborted
    BY <1>3 DEF vars
  <2>2. /\ VersionInv' /\ DataInv' /\ WriteInv' /\ CountInv'
        /\ Sealed' = Sealed /\ Started' = Started
    BY <2>1, SlotsKept
  <2> QED
    BY <2>1, <2>2 DEF IInv, TypeOK, ConsumerInv, CopyInv, DeliversIntactInOrder, NotJoinedInv,
       AbortOnlyWhenLapped, Joined, Lapped, slotVars, pushVars, popVars
<1>4. ASSUME NEW c \in Consumers, Pop(c) PROVE IInv'
  BY <1>3, <1>4, PopBeginStep, PopWordStep, PopDeliverStep, AbortStep DEF Pop, PopNothing
<1> QED
  BY <1>1, <1>2, <1>3, <1>4 DEF Next, Aborted

LEMMA Invariance == ASSUME MaxPush < Modulus PROVE Spec => []IInv
<1>1. Init => IInv
  BY InitIInv
<1> QED
  BY <1>1, NextIInv, PTL DEF Spec
------------------------------------------------------------------------------
\* Every variable of the queue stays in its range.
THEOREM TypeCorrect == ASSUME MaxPush < Modulus PROVE Spec => []TypeOK
<1>1. IInv => TypeOK
  BY DEF IInv
<1> QED
  BY <1>1, Invariance, PTL

\* pop hands out whole messages, one after the other.
THEOREM IntactDelivery == ASSUME MaxPush < Modulus PROVE Spec => []DeliversIntactInOrder
<1>1. IInv => DeliversIntactInOrder
  BY DEF IInv
<1> QED
  BY <1>1, Invariance, PTL

\* The process is aborted only when a consumer has been lapped.
THEOREM JustifiedAbort == ASSUME MaxPush < Modulus PROVE Spec => []AbortOnlyWhenLapped
<1>1. IInv => AbortOnlyWhenLapped
  BY DEF IInv
<1> QED
  BY <1>1, Invariance, PTL

\* One version load tells a consumer whether its message is to come, there or gone.
THEOREM VersionSuffices == ASSUME MaxPush < Modulus PROVE Spec => []VersionTellsAll
<1>1. IInv => VersionTellsAll
  BY SeenTells DEF IInv, ConsumerInv, VersionTellsAll
<1> QED
  BY <1>1, Invariance, PTL
------------------------------------------------------------------------------
(* The ring implements the stream of FanOut. *)

\* A step that seals no message, joins nobody, delivers nothing and aborts nothing
\* is invisible in the stream.
LEMMA Stutter ==
  ASSUME Sealed' = Sealed, UNCHANGED <<position, dst, aborted>>,
         \A c \in Consumers : Joined(c)' = Joined(c)
  PROVE  UNCHANGED Stream!vars
BY DEF Stream!vars

LEMMA ProduceStep == IInv /\ PushSeal => Stream!Produce
<1> SUFFICES ASSUME IInv, PushSeal PROVE Stream!Produce
  OBVIOUS
<1>1. Sealed' = Sealed + 1 /\ ~aborted
  BY DEF IInv, TypeOK, PushSeal, Even, Sealed
<1>2. UNCHANGED <<position, dst, aborted, popPc>>
  BY DEF PushSeal, Even, popVars
<1> QED
  BY <1>1, <1>2 DEF Stream!Produce, Joined

LEMMA SubscribeStep ==
  ASSUME NEW c \in Consumers PROVE IInv /\ MakeConsumer(c) => Stream!Subscribe(c)
<1> SUFFICES ASSUME IInv, MakeConsumer(c) PROVE Stream!Subscribe(c)
  OBVIOUS
<1>1. pushed \in {Sealed - 1, Sealed} /\ pushed >= 0
  BY Sizes DEF IInv, TypeOK, Sealed
<1>2. Sealed' = Sealed /\ UNCHANGED <<dst, aborted>> /\ ~aborted
  BY DEF MakeConsumer, Start, Sealed, pushVars
<1>3. [d \in Consumers |-> IF Joined(d)' THEN position'[d] ELSE -1]
      = [[d \in Consumers |-> IF Joined(d) THEN position[d] ELSE -1] EXCEPT ![c] = pushed]
  BY DEF IInv, TypeOK, MakeConsumer, Start, Joined
<1>4. ~Joined(c)
  BY DEF MakeConsumer, Start, Joined
<1> QED
  BY <1>1, <1>2, <1>3, <1>4 DEF Stream!Subscribe, Stream!None

LEMMA DeliverStep ==
  ASSUME NEW c \in Consumers PROVE IInv /\ PopDeliver(c) => Stream!Deliver(c)
<1> SUFFICES ASSUME IInv, PopDeliver(c) PROVE Stream!Deliver(c)
  OBVIOUS
<1>1. /\ temp[c] = [w \in Words |-> position[c]]
      /\ ~Lapped(c) /\ position[c] < Sealed /\ position[c] \in Nat
  BY CopyWhole DEF IInv, TypeOK
<1>2. Joined(c) /\ ~aborted /\ Sealed' = Sealed /\ aborted' = aborted
  BY DEF PopDeliver, Joined, Sealed, pushVars
<1>3. Sealed - position[c] <= Slots
  BY <1>1, Sizes DEF Lapped, Sealed, Started, IInv, TypeOK
<1>4. dst' = [dst EXCEPT ![c] = [w \in Words |-> position[c]]]
  BY <1>1 DEF PopDeliver
<1>5. {[v \in Words |-> position[c]][w] : w \in Words} = {position[c]}
  BY SizeAssumption
<1>6. [d \in Consumers |-> {dst'[d][w] : w \in Words}]
      = [[d \in Consumers |-> {dst[d][w] : w \in Words}] EXCEPT ![c] = {position[c]}]
  <2>1. \A d \in Consumers :
          {dst'[d][w] : w \in Words} = IF d = c THEN {position[c]} ELSE {dst[d][w] : w \in Words}
    <3> SUFFICES ASSUME NEW d \in Consumers
                 PROVE  {dst'[d][w] : w \in Words}
                        = IF d = c THEN {position[c]} ELSE {dst[d][w] : w \in Words}
      OBVIOUS
    <3>1. CASE d = c
      <4>1. dst'[d] = [w \in Words |-> position[c]]
        BY <3>1, <1>4 DEF IInv, TypeOK
      <4> QED
        BY <3>1, <4>1, <1>5
    <3>2. CASE d # c
      <4>1. dst'[d] = dst[d]
        BY <3>2, <1>4 DEF IInv, TypeOK
      <4> QED
        BY <3>2, <4>1
    <3> QED
      BY <3>1, <3>2
  <2> QED
    BY <2>1
<1>7. [d \in Consumers |-> IF Joined(d)' THEN position'[d] ELSE -1]
      = [[d \in Consumers |-> IF Joined(d) THEN position[d] ELSE -1] EXCEPT ![c] = @ + 1]
  <2>1. \A d \in Consumers :
          (IF Joined(d)' THEN position'[d] ELSE -1)
          = IF d = c THEN position[c] + 1 ELSE IF Joined(d) THEN position[d] ELSE -1
    BY <1>2 DEF IInv, TypeOK, PopDeliver, Joined
  <2> QED
    BY <1>2, <2>1
<1> QED
  BY <1>1, <1>2, <1>3, <1>6, <1>7 DEF Stream!Deliver, Stream!None

LEMMA OverrunStep ==
  ASSUME NEW c \in Consumers
  PROVE  IInv /\ (PopTooSlow(c) \/ PopOverwritten(c)) => Stream!Overrun(c)
<1> SUFFICES ASSUME IInv, PopTooSlow(c) \/ PopOverwritten(c) PROVE Stream!Overrun(c)
  OBVIOUS
<1>1. Lapped(c) /\ Joined(c) /\ position[c] \in Nat
  BY AbortStep DEF IInv, TypeOK
<1>2. Sealed - position[c] >= Slots
  BY <1>1, Sizes DEF Lapped, Sealed, Started, IInv, TypeOK
<1>3. aborted' = TRUE /\ UNCHANGED <<position, dst, popPc>> /\ Sealed' = Sealed
  BY DEF PopTooSlow, PopOverwritten, pushVars, popVars, Sealed
<1> QED
  BY <1>1, <1>2, <1>3 DEF Stream!Overrun, Stream!None, Joined

\* Every behaviour of the ring is a behaviour of the stream.
THEOREM StreamRefinement == ASSUME MaxPush < Modulus PROVE Spec => RefinesFanOut
<1>1. Init => Stream!Init
  <2> SUFFICES ASSUME Init PROVE Stream!Init
    OBVIOUS
  <2>1. {None[w] : w \in Words} = {-1}
    BY SizeAssumption DEF None, Junk
  <2> QED
    BY <2>1 DEF Init, Stream!Init, Stream!None, Sealed, Joined
<1>2. IInv /\ [Next]_vars => [Stream!Next]_(Stream!vars)
  <2> SUFFICES ASSUME IInv, [Next]_vars
               PROVE  Stream!Next \/ UNCHANGED Stream!vars
    OBVIOUS
  <2>1. CASE PushBegin \/ (\E w \in Words : PushWord(w)) \/ PushPublish
    <3>1. Sealed' = Sealed /\ UNCHANGED <<position, dst, aborted, popPc>>
      BY <2>1 DEF IInv, TypeOK, PushBegin, Odd, PushWord, PushPublish, Sealed, popVars
    <3> QED
      BY <3>1, Stutter DEF Joined
  <2>2. CASE PushSeal
    BY <2>2, ProduceStep DEF Stream!Next
  <2>3. ASSUME NEW c \in Consumers, MakeConsumer(c) PROVE Stream!Next
    BY <2>3, SubscribeStep DEF Stream!Next
  <2>4. ASSUME NEW c \in Consumers, PopBegin(c) \/ (\E w \in Words : PopWord(c, w))
        PROVE  UNCHANGED Stream!vars
    <3>1. Sealed' = Sealed /\ UNCHANGED <<position, dst, aborted>>
      BY <2>4 DEF PopBegin, PopWord, Sealed, pushVars
    <3>2. \A d \in Consumers : Joined(d)' = Joined(d)
      BY <2>4 DEF IInv, TypeOK, PopBegin, PopWord, Joined
    <3> QED
      BY <3>1, <3>2, Stutter
  <2>5. ASSUME NEW c \in Consumers, PopDeliver(c) PROVE Stream!Next
    BY <2>5, DeliverStep DEF Stream!Next
  <2>6. ASSUME NEW c \in Consumers, PopTooSlow(c) \/ PopOverwritten(c) PROVE Stream!Next
    BY <2>6, OverrunStep DEF Stream!Next
  <2>7. CASE UNCHANGED vars
    <3>1. Sealed' = Sealed /\ UNCHANGED <<position, dst, aborted, popPc>>
      BY <2>7 DEF vars, pushVars, popVars, Sealed
    <3> QED
      BY <3>1, Stutter DEF Joined
  <2> QED
    BY <2>1, <2>2, <2>3, <2>4, <2>5, <2>6, <2>7
    DEF Next, Push, Pop, PopNothing, Aborted
<1> QED
  BY <1>1, <1>2, Invariance, PTL DEF Spec, Stream!Spec, RefinesFanOut
==============================================================================
