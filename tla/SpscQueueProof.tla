--------------------------- MODULE SpscQueueProof ----------------------------
(***************************************************************************)
(* Proofs about SpscQueue, for every number of slots, every width of       *)
(* size_t, every kind of element and every bound on the pushes; and, at    *)
(* the end, about SpscBench around it, for every number of samples.        *)
(***************************************************************************)
EXTENDS SpscBench, ModularArithmetic, SequenceTheorems, TLAPS

(***************************************************************************)
(* The inductive invariant.  The indices are the stream positions modulo   *)
(* the word size; what each thread knows of the other is at most true; the *)
(* free slot a push found stays free until it is published; and each slot  *)
(* holds the element the stream says it holds.                             *)
(***************************************************************************)
IndexInv ==
  /\ writer_ = Word(pushed)
  /\ reader_ = Word(popped)

KnowledgeInv ==
  /\ knownR <= popped /\ popped <= knownW /\ knownW <= pushed
  /\ pushed - knownR <= Slots - 1
  /\ pushPc # "idle" => pushed - knownR <= Slots - 2
  /\ popPc # "idle" => popped < knownW
  /\ phase # "open" => pushPc = "idle" /\ popPc = "idle"

\* The elements whose storage still holds them: constructed and not yet taken.
InSlot(k) ==
  /\ k = pushed => pushPc = "publish"
  /\ k = popped => Trivial \/ popPc # "publish"

SlotInv ==
  phase = "open" => \A k \in popped .. pushed : InSlot(k) => slot[SlotOf(k)] = k

IInv == TypeOK /\ IndexInv /\ KnowledgeInv /\ SlotInv /\ PopsInOrder
------------------------------------------------------------------------------
(* Index arithmetic. *)

LEMMA Sizes == Slots \in Nat \ {0} /\ Modulus \in Nat \ {0} /\ Slots - 1 < Modulus
<1>1. Slots \in Nat /\ Slots >= 2 /\ Modulus \in Nat /\ Modulus >= Slots
  BY SizeAssumption
<1> QED
  BY <1>1

\* Masking a wrapped index finds the slot of the stream position it stands for.
LEMMA SlotOfWord ==
  ASSUME NEW n \in Nat
  PROVE  SlotOf(Word(n)) = SlotOf(n) /\ SlotOf(n) \in 0 .. Slots - 1
<1>1. Slots \in Nat \ {0} /\ Modulus \in Nat \ {0} /\ n \in Int
  BY Sizes
<1>2. Modulus % Slots = 0
  BY SizeAssumption
<1>3. (n % Modulus) % Slots = n % Slots
  BY <1>1, <1>2, ModMod
<1>4. n % Slots \in 0 .. Slots - 1
  BY <1>1, DivMod
<1> QED
  BY <1>3, <1>4 DEF SlotOf, Word

\* Storing an incremented index stores the next stream position.
LEMMA WordSucc ==
  ASSUME NEW n \in Nat
  PROVE  Word(Word(n) + 1) = Word(n + 1) /\ Word(n + 1) \in 0 .. Modulus - 1
<1>1. Modulus \in Nat \ {0} /\ n \in Int /\ n + 1 \in Int
  BY Sizes
<1>2. ((n % Modulus) + 1) % Modulus = (n + 1) % Modulus
  BY <1>1, ModSucc
<1>3. (n + 1) % Modulus \in 0 .. Modulus - 1
  BY <1>1, DivMod
<1> QED
  BY <1>2, <1>3 DEF Word

\* Elements less than a lap apart are in different slots.
LEMMA SlotsApart ==
  ASSUME NEW a \in Nat, NEW b \in Nat, a < b, b - a < Slots
  PROVE  SlotOf(a) # SlotOf(b)
<1>1. Slots \in Nat \ {0} /\ a \in Int /\ b \in Int /\ 0 <= b - a
  BY Sizes
<1>2. ASSUME b % Slots = a % Slots PROVE FALSE
  <2>1. b = a
    BY <1>1, <1>2, ModDistinct
  <2> QED
    BY <2>1
<1> QED
  BY <1>2 DEF SlotOf

\* The free space try_push computes from wrapped indices is the true one for
\* the pop count it loaded.
LEMMA FreeSpaceExact ==
  ASSUME TypeOK, IndexInv, KnowledgeInv, NEW k \in knownR .. popped
  PROVE  FreeSpace(writer_, Word(k)) = Slots - 1 - (pushed - k)
<1>1. k \in Int /\ pushed \in Int /\ 0 <= pushed - k /\ pushed - k <= Slots - 1
  BY Sizes DEF TypeOK, KnowledgeInv
<1>2. Used(writer_, Word(k)) = pushed - k
  BY <1>1, Sizes, ModDifference DEF IndexInv, Word, Used
<1>3. Slots - 1 - (pushed - k) \in 0 .. Modulus - 1
  BY <1>1, Sizes
<1> QED
  BY <1>2, <1>3, Sizes, ModSmall DEF FreeSpace

\* Comparing the wrapped indices tells whether the queue was empty.
LEMMA EmptyExact ==
  ASSUME TypeOK, IndexInv, KnowledgeInv, NEW k \in knownW .. pushed
  PROVE  reader_ = Word(k) <=> popped = k
<1>1. k \in Int /\ popped \in Int /\ 0 <= k - popped /\ k - popped < Modulus
  BY Sizes DEF TypeOK, KnowledgeInv
<1>2. ASSUME reader_ = Word(k) PROVE popped = k
  BY <1>1, <1>2, Sizes, ModDistinct DEF IndexInv, Word
<1> QED
  BY <1>2 DEF IndexInv
------------------------------------------------------------------------------
LEMMA InitIInv == Init => IInv
<1> SUFFICES ASSUME Init PROVE IInv
  OBVIOUS
<1>1. TypeOK
  BY Sizes DEF Init, TypeOK, Raw
<1>2. Word(0) = 0
  BY Sizes, ModSmall DEF Word
<1>3. IndexInv /\ PopsInOrder
  BY <1>2 DEF Init, IndexInv, PopsInOrder
<1>4. KnowledgeInv
  <2>1. Slots - 1 >= 0 /\ Slots \in Nat
    BY SizeAssumption
  <2> QED
    BY <2>1 DEF Init, KnowledgeInv
<1>5. SlotInv
  BY DEF Init, SlotInv, InSlot
<1> QED
  BY <1>1, <1>3, <1>4, <1>5 DEF IInv

LEMMA NextIInv == IInv /\ [Next]_vars => IInv'
<1> SUFFICES ASSUME IInv, [Next]_vars PROVE IInv'
  OBVIOUS
<1> USE Sizes DEF IInv
<1>1. ASSUME NEW k \in knownR .. popped, PushFull(k) PROVE IInv'
  <2>1. TypeOK'
    BY <1>1 DEF TypeOK, PushFull, PushLoad, Loadable, Acquired, consumerVars, lifeVars
  <2>2. KnowledgeInv'
    BY <1>1 DEF TypeOK, KnowledgeInv, PushFull, PushLoad, Loadable, Acquired, consumerVars, lifeVars
  <2> QED
    BY <1>1, <2>1, <2>2 DEF IndexInv, SlotInv, InSlot, PopsInOrder, PushFull,
       PushLoad, Loadable, Acquired, consumerVars, lifeVars, Word, SlotOf
<1>2. ASSUME NEW k \in knownR .. popped, PushBegin(k) PROVE IInv'
  <2>1. TypeOK'
    BY <1>2 DEF TypeOK, PushBegin, PushLoad, Loadable, Acquired, consumerVars, lifeVars
  <2>2. pushed - k <= Slots - 2
    BY <1>2, FreeSpaceExact DEF TypeOK, PushBegin, PushLoad, Loadable, Acquired
  <2>3. KnowledgeInv'
    BY <1>2, <2>2 DEF TypeOK, KnowledgeInv, PushBegin, PushLoad, Loadable, Acquired, consumerVars, lifeVars
  <2>4. SlotInv'
    BY <1>2 DEF SlotInv, InSlot, PushBegin, PushLoad, Loadable, Acquired, consumerVars, lifeVars, SlotOf
  <2> QED
    BY <1>2, <2>1, <2>3, <2>4 DEF IndexInv, PopsInOrder, PushBegin,
       PushLoad, Loadable, Acquired, consumerVars, lifeVars, Word
<1>3. CASE PushConstruct
  <2>1. SlotOf(writer_) = SlotOf(pushed) /\ SlotOf(pushed) \in 0 .. Slots - 1
    BY SlotOfWord DEF TypeOK, IndexInv
  <2>2. slot' = [slot EXCEPT ![SlotOf(pushed)] = pushed]
    BY <1>3, <2>1 DEF PushConstruct
  <2>3. TypeOK'
    BY <1>3, <2>1, <2>2 DEF TypeOK, PushConstruct, consumerVars, lifeVars
  <2>4. KnowledgeInv'
    BY <1>3 DEF KnowledgeInv, PushConstruct, consumerVars, lifeVars
  <2>5. SlotInv'
    <3> SUFFICES ASSUME phase = "open", NEW k \in popped .. pushed, InSlot(k)'
                 PROVE  slot'[SlotOf(k)] = k
      BY <1>3 DEF SlotInv, PushConstruct, consumerVars, lifeVars, SlotOf
    <3>1. CASE k = pushed
      BY <3>1, <2>1, <2>2 DEF TypeOK
    <3>2. CASE k # pushed
      <4>1. k \in Nat /\ k < pushed /\ pushed - k < Slots
        BY <3>2 DEF TypeOK, KnowledgeInv
      <4>2. SlotOf(k) # SlotOf(pushed)
        BY <4>1, SlotsApart DEF TypeOK
      <4>3. InSlot(k)
        BY <1>3, <3>2 DEF InSlot, PushConstruct, consumerVars
      <4>4. slot[SlotOf(k)] = k /\ SlotOf(k) \in 0 .. Slots - 1
        BY <4>1, <4>3, SlotOfWord DEF SlotInv
      <4> QED
        BY <4>2, <4>4, <2>2, <2>1 DEF TypeOK
    <3> QED
      BY <3>1, <3>2
  <2> QED
    BY <1>3, <2>3, <2>4, <2>5 DEF IndexInv, PopsInOrder, PushConstruct,
       consumerVars, lifeVars, Word
<1>4. CASE PushThrow
  <2>1. TypeOK' /\ KnowledgeInv'
    BY <1>4 DEF TypeOK, KnowledgeInv, PushThrow, consumerVars, lifeVars
  <2>2. SlotInv'
    BY <1>4 DEF SlotInv, InSlot, PushThrow, consumerVars, lifeVars, SlotOf
  <2> QED
    BY <1>4, <2>1, <2>2 DEF IndexInv, PopsInOrder, PushThrow,
       consumerVars, lifeVars, Word
<1>5. CASE PushPublish
  <2>1. writer_' = Word(pushed + 1) /\ writer_' \in 0 .. Modulus - 1
    BY <1>5, WordSucc DEF PushPublish, TypeOK, IndexInv
  <2>2. TypeOK'
    BY <1>5, <2>1 DEF TypeOK, PushPublish, consumerVars, lifeVars
  <2>3. KnowledgeInv'
    BY <1>5 DEF TypeOK, KnowledgeInv, PushPublish, consumerVars, lifeVars
  <2>4. SlotInv'
    <3> SUFFICES ASSUME phase = "open", NEW k \in popped .. pushed + 1, InSlot(k)'
                 PROVE  slot[SlotOf(k)] = k
      BY <1>5 DEF SlotInv, PushPublish, consumerVars, lifeVars, SlotOf
    <3>1. k \in popped .. pushed /\ InSlot(k)
      BY <1>5 DEF InSlot, PushPublish, consumerVars, TypeOK
    <3> QED
      BY <3>1 DEF SlotInv
  <2> QED
    BY <1>5, <2>1, <2>2, <2>3, <2>4 DEF IndexInv, PopsInOrder, PushPublish,
       consumerVars, lifeVars, Word
<1>6. ASSUME NEW k \in knownW .. pushed, PopEmpty(k) PROVE IInv'
  <2>1. TypeOK'
    BY <1>6 DEF TypeOK, PopEmpty, PopLoad, Loadable, Acquired, producerVars, lifeVars
  <2>2. KnowledgeInv'
    BY <1>6 DEF TypeOK, KnowledgeInv, PopEmpty, PopLoad, Loadable, Acquired, producerVars, lifeVars
  <2> QED
    BY <1>6, <2>1, <2>2 DEF IndexInv, SlotInv, InSlot, PopsInOrder, PopEmpty,
       PopLoad, Loadable, Acquired, producerVars, lifeVars, Word, SlotOf
<1>7. ASSUME NEW k \in knownW .. pushed, PopBegin(k) PROVE IInv'
  <2>1. TypeOK'
    BY <1>7 DEF TypeOK, PopBegin, PopLoad, Loadable, Acquired, producerVars, lifeVars
  <2>2. popped # k
    BY <1>7, EmptyExact DEF PopBegin
  <2>3. KnowledgeInv'
    BY <1>7, <2>2 DEF TypeOK, KnowledgeInv, PopBegin, PopLoad, Loadable, Acquired, producerVars, lifeVars
  <2>4. SlotInv'
    BY <1>7 DEF SlotInv, InSlot, PopBegin, PopLoad, Loadable, Acquired, producerVars, lifeVars, SlotOf
  <2> QED
    BY <1>7, <2>1, <2>3, <2>4 DEF IndexInv, PopsInOrder, PopBegin,
       PopLoad, Loadable, Acquired, producerVars, lifeVars, Word
<1>8. CASE PopTake
  <2>1. SlotOf(reader_) = SlotOf(popped) /\ SlotOf(popped) \in 0 .. Slots - 1
    BY SlotOfWord DEF TypeOK, IndexInv
  <2>2. phase = "open" /\ popped \in popped .. pushed /\ InSlot(popped)
    BY <1>8 DEF PopTake, Taken, TypeOK, KnowledgeInv, InSlot
  <2>3. dst' = popped
    BY <1>8, <2>1, <2>2 DEF PopTake, Taken, SlotInv
  <2>4. TypeOK'
    BY <1>8, <2>1, <2>3 DEF TypeOK, PopTake, Taken, producerVars, lifeVars, Raw
  <2>5. KnowledgeInv'
    BY <1>8 DEF KnowledgeInv, PopTake, Taken, producerVars, lifeVars
  <2>6. SlotInv'
    <3> SUFFICES ASSUME NEW k \in popped .. pushed, InSlot(k)'
                 PROVE  slot'[SlotOf(k)] = k
      BY <1>8 DEF SlotInv, PopTake, Taken, producerVars, lifeVars, SlotOf
    <3>1. InSlot(k)
      BY <1>8 DEF InSlot, PopTake, Taken, producerVars
    <3>2. slot[SlotOf(k)] = k
      BY <2>2, <3>1 DEF SlotInv
    <3>3. CASE Trivial
      BY <1>8, <3>2, <3>3 DEF PopTake, Taken
    <3>4. CASE ~Trivial
      <4>1. k \in Nat /\ popped < k /\ k - popped < Slots
        BY <1>8, <3>4 DEF InSlot, PopTake, Taken, TypeOK, KnowledgeInv
      <4>2. SlotOf(k) # SlotOf(popped) /\ SlotOf(k) \in 0 .. Slots - 1
        BY <4>1, SlotsApart, SlotOfWord DEF TypeOK
      <4> QED
        BY <1>8, <2>1, <3>2, <3>4, <4>2 DEF PopTake, Taken, TypeOK
    <3> QED
      BY <3>3, <3>4
  <2> QED
    BY <1>8, <2>3, <2>4, <2>5, <2>6 DEF IndexInv, PopsInOrder, PopTake, Taken,
       producerVars, lifeVars, Word
<1>9. CASE PopThrow
  <2>1. TypeOK' /\ KnowledgeInv'
    BY <1>9 DEF TypeOK, KnowledgeInv, PopThrow, producerVars, lifeVars
  <2>2. SlotInv'
    BY <1>9 DEF SlotInv, InSlot, PopThrow, producerVars, lifeVars, SlotOf
  <2> QED
    BY <1>9, <2>1, <2>2 DEF IndexInv, PopsInOrder, PopThrow,
       producerVars, lifeVars, Word
<1>10. CASE PopPublish
  <2>1. reader_' = Word(popped + 1) /\ reader_' \in 0 .. Modulus - 1
    BY <1>10, WordSucc DEF PopPublish, TypeOK, IndexInv
  <2>2. TypeOK'
    BY <1>10, <2>1 DEF TypeOK, PopPublish, producerVars, lifeVars
  <2>3. KnowledgeInv'
    BY <1>10 DEF TypeOK, KnowledgeInv, PopPublish, producerVars, lifeVars
  <2>4. SlotInv'
    <3> SUFFICES ASSUME phase = "open", NEW k \in popped + 1 .. pushed, InSlot(k)'
                 PROVE  slot[SlotOf(k)] = k
      BY <1>10 DEF SlotInv, PopPublish, producerVars, lifeVars, SlotOf
    <3>1. k \in popped .. pushed /\ InSlot(k)
      BY <1>10 DEF InSlot, PopPublish, producerVars, TypeOK
    <3> QED
      BY <3>1 DEF SlotInv
  <2> QED
    BY <1>10, <2>1, <2>2, <2>3, <2>4 DEF IndexInv, PopsInOrder, PopPublish,
       producerVars, lifeVars, Word, TypeOK
<1>11. CASE Destructor
  <2>1. TypeOK'
    <3>1. CASE DtorBegin
      BY <3>1 DEF TypeOK, DtorBegin, producerVars, consumerVars
    <3>2. CASE DtorStep
      <4>1. Word(cursor + 1) \in 0 .. Modulus - 1
        BY DivMod DEF TypeOK, Word
      <4> QED
        BY <3>2, <4>1 DEF TypeOK, DtorStep, producerVars, consumerVars, Raw
    <3>3. CASE DtorEnd
      BY <3>3 DEF TypeOK, DtorEnd, producerVars, consumerVars
    <3>4. CASE Destroyed
      BY <3>4 DEF TypeOK, Destroyed, vars, producerVars, consumerVars, lifeVars
    <3> QED
      BY <1>11, <3>1, <3>2, <3>3, <3>4 DEF Destructor
  <2>2. UNCHANGED <<producerVars, consumerVars>>
    BY <1>11 DEF Destructor, DtorBegin, DtorStep, DtorEnd, Destroyed, vars
  <2>3. phase' # "open" /\ (pushPc = "idle" /\ popPc = "idle")'
    BY <1>11 DEF Destructor, DtorBegin, DtorStep, DtorEnd, Destroyed, vars,
       producerVars, consumerVars, lifeVars, KnowledgeInv
  <2> QED
    BY <2>1, <2>2, <2>3 DEF IndexInv, KnowledgeInv, SlotInv, PopsInOrder,
       producerVars, consumerVars, Word
<1>12. CASE UNCHANGED vars
  BY <1>12 DEF TypeOK, IndexInv, KnowledgeInv, SlotInv, InSlot, PopsInOrder, vars,
     producerVars, consumerVars, lifeVars, Word, SlotOf
<1> QED
  BY <1>1, <1>2, <1>3, <1>4, <1>5, <1>6, <1>7, <1>8, <1>9, <1>10, <1>11, <1>12
  DEF Next, Producer, Consumer

LEMMA Invariance == Spec => []IInv
BY InitIInv, NextIInv, PTL DEF Spec
------------------------------------------------------------------------------
\* Every variable of the queue stays in its range.
THEOREM TypeCorrect == Spec => []TypeOK
<1>1. IInv => TypeOK
  BY DEF IInv
<1> QED
  BY <1>1, Invariance, PTL

\* No access to a slot's bytes races with the other thread's.
THEOREM RaceFreedom == Spec => []DataRaceFree
<1>1. IInv => DataRaceFree
  <2> SUFFICES ASSUME IInv PROVE DataRaceFree
    OBVIOUS
  <2>1. pushPc = "construct" => pushed - Slots < knownR
    BY Sizes DEF IInv, TypeOK, KnowledgeInv
  <2>2. popPc = "take" => popped < knownW
    BY DEF IInv, KnowledgeInv
  <2>3. ASSUME pushPc = "construct", popPc = "take"
        PROVE  SlotOf(writer_) # SlotOf(reader_)
    <3>1. popped < pushed /\ pushed - popped < Slots /\ popped \in Nat /\ pushed \in Nat
      BY <2>3, Sizes DEF IInv, TypeOK, KnowledgeInv
    <3> QED
      BY <3>1, SlotsApart, SlotOfWord DEF IInv, IndexInv
  <2> QED
    BY <2>1, <2>2, <2>3 DEF DataRaceFree
<1> QED
  BY <1>1, Invariance, PTL

\* Elements come out once each, in the order they were pushed.
THEOREM FifoOrder == Spec => []PopsInOrder
<1>1. IInv => PopsInOrder
  BY DEF IInv
<1> QED
  BY <1>1, Invariance, PTL

\* The ring never holds more than all but one of its slots.
THEOREM CapacityBound == Spec => []NeverOverfull
<1>1. IInv => NeverOverfull
  BY Sizes DEF IInv, TypeOK, KnowledgeInv, NeverOverfull
<1> QED
  BY <1>1, Invariance, PTL
------------------------------------------------------------------------------
(***************************************************************************)
(* The lifetimes of the objects, for a T with a destructor: between calls  *)
(* the slots that hold an object are those of a span of stream positions,  *)
(* which a push extends at its end and a pop, or the destructor's walk,    *)
(* shortens at its start.                                                  *)
(***************************************************************************)
Occupied(storage, from, end) ==
  \A s \in 0 .. Slots - 1 : storage[s] # Raw <=> \E k \in from .. end - 1 : s = SlotOf(k)

FirstObject == IF popPc = "publish" THEN popped + 1 ELSE popped
EndObjects  == IF pushPc = "publish" THEN pushed + 1 ELSE pushed

LifeInv == ~Trivial =>
  /\ phase = "open" => Occupied(slot, FirstObject, EndObjects)
  /\ phase = "destroying" =>
       \E c \in popped .. pushed : cursor = Word(c) /\ Occupied(slot, c, pushed)
  /\ phase = "destroyed" => \A s \in 0 .. Slots - 1 : slot[s] = Raw

\* A slot gets an object while the span is less than a lap.
LEMMA ObjectAdded ==
  ASSUME NEW f \in [0 .. Slots - 1 -> Nat \cup {Raw}], NEW a \in Nat, NEW e \in Nat,
         a <= e, e - a < Slots, NEW x \in Nat, Occupied(f, a, e)
  PROVE  /\ f[SlotOf(e)] = Raw
         /\ Occupied([f EXCEPT ![SlotOf(e)] = x], a, e + 1)
<1> DEFINE g == [f EXCEPT ![SlotOf(e)] = x]
<1>1. SlotOf(e) \in 0 .. Slots - 1
  BY SlotOfWord
<1>2. \A k \in a .. e - 1 : SlotOf(k) # SlotOf(e)
  <2> SUFFICES ASSUME NEW k \in a .. e - 1 PROVE SlotOf(k) # SlotOf(e)
    OBVIOUS
  <2>1. k \in Nat /\ k < e /\ e - k < Slots
    BY Sizes
  <2> QED
    BY <2>1, SlotsApart
<1>3. f[SlotOf(e)] = Raw
  BY <1>1, <1>2 DEF Occupied
<1>4. \A s \in 0 .. Slots - 1 : s # SlotOf(e) => g[s] = f[s]
  OBVIOUS
<1>5. g[SlotOf(e)] = x /\ x # Raw
  BY <1>1 DEF Raw
<1> HIDE DEF g
<1>6. ASSUME NEW s \in 0 .. Slots - 1
      PROVE  g[s] # Raw <=> \E k \in a .. (e + 1) - 1 : s = SlotOf(k)
  <2>1. CASE s = SlotOf(e)
    <3>1. e \in a .. (e + 1) - 1
      OBVIOUS
    <3> QED
      BY <2>1, <1>5, <3>1
  <2>2. CASE s # SlotOf(e)
    <3>1. g[s] # Raw <=> \E k \in a .. e - 1 : s = SlotOf(k)
      BY <2>2, <1>4 DEF Occupied
    <3>2. \A k \in a .. (e + 1) - 1 : k \in a .. e - 1 \/ k = e
      OBVIOUS
    <3>3. \A k \in a .. e - 1 : k \in a .. (e + 1) - 1
      OBVIOUS
    <3> QED
      BY <2>2, <3>1, <3>2, <3>3
  <2> QED
    BY <2>1, <2>2
<1> QED
  BY <1>3, <1>6 DEF Occupied, g

\* The first object of the span is destroyed: its slot is raw, the others keep theirs.
LEMMA ObjectTaken ==
  ASSUME NEW f \in [0 .. Slots - 1 -> Nat \cup {Raw}], NEW a \in Nat, NEW e \in Nat,
         a < e, e - a <= Slots, Occupied(f, a, e)
  PROVE  /\ f[SlotOf(a)] # Raw
         /\ Occupied([f EXCEPT ![SlotOf(a)] = Raw], a + 1, e)
<1> DEFINE g == [f EXCEPT ![SlotOf(a)] = Raw]
<1>1. SlotOf(a) \in 0 .. Slots - 1 /\ a \in a .. e - 1
  BY SlotOfWord
<1>2. \A k \in a + 1 .. e - 1 : SlotOf(k) # SlotOf(a)
  <2> SUFFICES ASSUME NEW k \in a + 1 .. e - 1 PROVE SlotOf(k) # SlotOf(a)
    OBVIOUS
  <2>1. k \in Nat /\ a < k /\ k - a < Slots
    BY Sizes
  <2> QED
    BY <2>1, SlotsApart
<1>3. f[SlotOf(a)] # Raw
  BY <1>1 DEF Occupied
<1>4. \A s \in 0 .. Slots - 1 : s # SlotOf(a) => g[s] = f[s]
  OBVIOUS
<1>5. g[SlotOf(a)] = Raw
  BY <1>1
<1> HIDE DEF g
<1>6. ASSUME NEW s \in 0 .. Slots - 1
      PROVE  g[s] # Raw <=> \E k \in a + 1 .. e - 1 : s = SlotOf(k)
  <2>1. CASE s = SlotOf(a)
    BY <2>1, <1>2, <1>5
  <2>2. CASE s # SlotOf(a)
    <3>1. g[s] # Raw <=> \E k \in a .. e - 1 : s = SlotOf(k)
      BY <2>2, <1>4 DEF Occupied
    <3>2. \A k \in a .. e - 1 : k \in a + 1 .. e - 1 \/ k = a
      OBVIOUS
    <3>3. \A k \in a + 1 .. e - 1 : k \in a .. e - 1
      OBVIOUS
    <3> QED
      BY <2>2, <3>1, <3>2, <3>3
  <2> QED
    BY <2>1, <2>2
<1> QED
  BY <1>3, <1>6 DEF Occupied, g

LEMMA InitLifeInv == Init => LifeInv
BY Sizes DEF Init, LifeInv, Occupied, FirstObject, EndObjects, Raw

LEMMA NextLifeInv == IInv /\ LifeInv /\ [Next]_vars => LifeInv'
<1> SUFFICES ASSUME IInv, LifeInv, [Next]_vars, ~Trivial PROVE LifeInv'
  BY DEF LifeInv
<1>1. TypeOK /\ IndexInv /\ KnowledgeInv
  BY DEF IInv
<1>2. popped \in Nat /\ pushed \in Nat /\ popped <= pushed
  BY <1>1 DEF TypeOK, KnowledgeInv
<1>3. CASE PushConstruct
  <2>1. phase = "open" /\ Occupied(slot, FirstObject, pushed)
    BY <1>1, <1>3 DEF PushConstruct, KnowledgeInv, LifeInv, EndObjects
  <2>2. FirstObject \in Nat /\ FirstObject <= pushed /\ pushed - FirstObject < Slots
    BY <1>1, <1>2, <1>3, Sizes DEF PushConstruct, KnowledgeInv, TypeOK, FirstObject
  <2>3. slot' = [slot EXCEPT ![SlotOf(pushed)] = pushed]
    BY <1>1, <1>3, SlotOfWord DEF PushConstruct, IndexInv, TypeOK
  <2>4. Occupied(slot', FirstObject, pushed + 1)
    BY <1>1, <1>2, <2>1, <2>2, <2>3, ObjectAdded DEF TypeOK
  <2>5. FirstObject' = FirstObject /\ EndObjects' = pushed + 1 /\ phase' = "open"
    BY <1>3, <2>1 DEF PushConstruct, FirstObject, EndObjects, consumerVars, lifeVars
  <2> QED
    BY <2>4, <2>5 DEF LifeInv
<1>4. CASE PopTake
  <2>1. phase = "open" /\ Occupied(slot, popped, EndObjects)
    BY <1>1, <1>4 DEF PopTake, KnowledgeInv, LifeInv, FirstObject
  <2>2. EndObjects \in Nat /\ popped < EndObjects /\ EndObjects - popped <= Slots
    BY <1>1, <1>2, <1>4, Sizes DEF PopTake, KnowledgeInv, TypeOK, EndObjects
  <2>3. slot' = [slot EXCEPT ![SlotOf(popped)] = Raw]
    BY <1>1, <1>4, SlotOfWord DEF PopTake, Taken, IndexInv, TypeOK
  <2>4. Occupied(slot', popped + 1, EndObjects)
    BY <1>1, <1>2, <2>1, <2>2, <2>3, ObjectTaken DEF TypeOK
  <2>5. FirstObject' = popped + 1 /\ EndObjects' = EndObjects /\ phase' = "open"
    BY <1>4, <2>1 DEF PopTake, FirstObject, EndObjects, producerVars, lifeVars
  <2> QED
    BY <2>4, <2>5 DEF LifeInv
<1>5. CASE DtorBegin
  <2>1. Occupied(slot, popped, pushed)
    BY <1>5 DEF DtorBegin, LifeInv, FirstObject, EndObjects
  <2>2. cursor' = Word(popped) /\ popped \in popped .. pushed
    BY <1>1, <1>2, <1>5 DEF DtorBegin, IndexInv
  <2> QED
    BY <1>5, <2>1, <2>2 DEF DtorBegin, LifeInv, producerVars, consumerVars, Word
<1>6. CASE DtorStep
  <2>1. PICK c \in popped .. pushed : cursor = Word(c) /\ Occupied(slot, c, pushed)
    BY <1>6 DEF DtorStep, LifeInv
  <2>2. c \in Nat /\ c < pushed /\ pushed - c <= Slots
    BY <1>1, <1>2, <1>6, <2>1, Sizes DEF DtorStep, DtorMore, IndexInv, KnowledgeInv, TypeOK
  <2>3. slot' = [slot EXCEPT ![SlotOf(c)] = Raw] /\ cursor' = Word(c + 1)
    BY <1>6, <2>1, <2>2, SlotOfWord, WordSucc DEF DtorStep
  <2>4. Occupied(slot', c + 1, pushed)
    BY <1>1, <1>2, <2>1, <2>2, <2>3, ObjectTaken DEF TypeOK
  <2>5. c + 1 \in popped .. pushed
    BY <1>2, <2>2
  <2>6. phase' = "destroying" /\ popped' = popped /\ pushed' = pushed
    BY <1>6 DEF DtorStep, producerVars, consumerVars
  <2> QED
    BY <2>3, <2>4, <2>5, <2>6 DEF LifeInv, Word
<1>7. CASE DtorEnd
  <2>1. PICK c \in popped .. pushed : cursor = Word(c) /\ Occupied(slot, c, pushed)
    BY <1>7 DEF DtorEnd, LifeInv
  <2>2. c = pushed
    <3>1. pushed % Modulus = c % Modulus
      BY <1>1, <1>7, <2>1 DEF DtorEnd, DtorMore, IndexInv, Word
    <3>2. c \in Int /\ pushed \in Int /\ 0 <= pushed - c /\ pushed - c < Modulus
      BY <1>1, <1>2, <2>1, Sizes DEF KnowledgeInv, TypeOK
    <3> QED
      BY <3>1, <3>2, Sizes, ModDistinct
  <2>3. \A k : k \notin pushed .. pushed - 1
    BY <1>2
  <2>4. \A s \in 0 .. Slots - 1 : slot[s] = Raw
    BY <2>1, <2>2, <2>3 DEF Occupied
  <2> QED
    BY <1>7, <2>4 DEF DtorEnd, LifeInv
<1>8. CASE PushPublish \/ PopPublish
  <2>1. FirstObject' = FirstObject /\ EndObjects' = EndObjects /\ phase' = phase
           /\ slot' = slot /\ phase = "open"
    BY <1>1, <1>2, <1>8 DEF PushPublish, PopPublish, FirstObject, EndObjects, KnowledgeInv,
       consumerVars, producerVars, lifeVars
  <2> QED
    BY <2>1 DEF LifeInv
<1>9. ASSUME UNCHANGED <<slot, lifeVars, pushed, popped>>,
             FirstObject' = FirstObject, EndObjects' = EndObjects
      PROVE  LifeInv'
  BY <1>9 DEF LifeInv, lifeVars, Word
<1>10. CASE \/ \E k \in knownR .. popped : PushFull(k) \/ PushBegin(k)
            \/ PushThrow \/ PopThrow \/ Destroyed \/ UNCHANGED vars
            \/ \E k \in knownW .. pushed : PopEmpty(k) \/ PopBegin(k)
  <2>1. UNCHANGED <<slot, lifeVars, pushed, popped>>
           /\ FirstObject' = FirstObject /\ EndObjects' = EndObjects
    BY <1>10 DEF PushFull, PushBegin, PushThrow, PopThrow, Destroyed, PopEmpty, PopBegin,
       PushLoad, PopLoad, FirstObject, EndObjects, vars, producerVars, consumerVars, lifeVars
  <2> QED
    BY <2>1, <1>9
<1> QED
  BY <1>3, <1>4, <1>5, <1>6, <1>7, <1>8, <1>10 DEF Next, Producer, Consumer, Destructor

\* An object is constructed in raw storage only, destroyed once, and none is left
\* when the queue is gone.
THEOREM LifetimesRespected == Spec => []ObjectLifetimes
<1>1. Init => LifeInv
  BY InitLifeInv
<1>2. IInv /\ LifeInv /\ [Next]_vars => LifeInv'
  BY NextLifeInv
<1>3. IInv /\ LifeInv => ObjectLifetimes
  <2> SUFFICES ASSUME IInv, LifeInv, ~Trivial PROVE ObjectLifetimes
    BY DEF ObjectLifetimes
  <2>1. TypeOK /\ IndexInv /\ KnowledgeInv
    BY DEF IInv
  <2>2. popped \in Nat /\ pushed \in Nat /\ popped <= pushed
    BY <2>1 DEF TypeOK, KnowledgeInv
  <2>3. ASSUME pushPc = "construct" PROVE slot[SlotOf(writer_)] = Raw
    <3>1. Occupied(slot, FirstObject, pushed)
      BY <2>1, <2>3 DEF KnowledgeInv, LifeInv, EndObjects
    <3>2. FirstObject \in Nat /\ FirstObject <= pushed /\ pushed - FirstObject < Slots
      BY <2>1, <2>2, <2>3, Sizes DEF KnowledgeInv, TypeOK, FirstObject
    <3>3. SlotOf(writer_) = SlotOf(pushed)
      BY <2>1, <2>2, SlotOfWord DEF IndexInv
    <3> QED
      BY <2>1, <2>2, <3>1, <3>2, <3>3, ObjectAdded DEF TypeOK
  <2>4. ASSUME popPc = "take" PROVE slot[SlotOf(reader_)] # Raw
    <3>1. Occupied(slot, popped, EndObjects)
      BY <2>1, <2>4 DEF KnowledgeInv, LifeInv, FirstObject
    <3>2. EndObjects \in Nat /\ popped < EndObjects /\ EndObjects - popped <= Slots
      BY <2>1, <2>2, <2>4, Sizes DEF KnowledgeInv, TypeOK, EndObjects
    <3>3. SlotOf(reader_) = SlotOf(popped)
      BY <2>1, <2>2, SlotOfWord DEF IndexInv
    <3> QED
      BY <2>1, <2>2, <3>1, <3>2, <3>3, ObjectTaken DEF TypeOK
  <2>5. ASSUME phase = "destroying", cursor # writer_ PROVE slot[SlotOf(cursor)] # Raw
    <3>1. PICK c \in popped .. pushed : cursor = Word(c) /\ Occupied(slot, c, pushed)
      BY <2>5 DEF LifeInv
    <3>2. c \in Nat /\ c < pushed /\ pushed - c <= Slots
      BY <2>1, <2>2, <2>5, <3>1, Sizes DEF IndexInv, KnowledgeInv, TypeOK
    <3>3. SlotOf(cursor) = SlotOf(c)
      BY <3>1, <3>2, SlotOfWord
    <3> QED
      BY <2>1, <2>2, <3>1, <3>2, <3>3, ObjectTaken DEF TypeOK
  <2>6. phase = "destroyed" => \A s \in 0 .. Slots - 1 : slot[s] = Raw
    BY DEF LifeInv
  <2> QED
    BY <2>3, <2>4, <2>5, <2>6 DEF ObjectLifetimes
<1> QED
  BY <1>1, <1>2, <1>3, Invariance, PTL DEF Spec
------------------------------------------------------------------------------
(***************************************************************************)
(* The ring implements the bounded queue: its contents are the stream from *)
(* popped to pushed, so a store of writer_ appends one element, a store of *)
(* reader_ removes the first, and any other step changes nothing.          *)
(***************************************************************************)
\* What the indices and the slots hold is the stream between the counts.
Held == IF phase = "open" THEN Contents ELSE <<>>

LEMMA ContentsExact ==
  ASSUME IInv, phase = "open" PROVE Contents = Run(popped, pushed)
<1>1. TypeOK /\ IndexInv /\ KnowledgeInv /\ SlotInv /\ PopsInOrder
  BY DEF IInv
<1>2. popped \in Nat /\ pushed \in Nat /\ popped <= pushed /\ pushed - popped < Modulus
  BY <1>1, Sizes DEF TypeOK, KnowledgeInv
<1>3. Used(writer_, reader_) = pushed - popped
  <2>1. pushed \in Int /\ popped \in Int /\ 0 <= pushed - popped
    BY <1>2
  <2>2. ((pushed % Modulus) - (popped % Modulus)) % Modulus = pushed - popped
    BY <1>2, <2>1, Sizes, ModDifference
  <2> QED
    BY <1>1, <2>2 DEF IndexInv, Word, Used
<1>4. ASSUME NEW j \in 1 .. pushed - popped
      PROVE  (IF j = 1 /\ popPc = "publish" THEN dst ELSE slot[SlotOf(reader_ + j - 1)])
               = popped + j - 1
  <2>1. CASE j = 1 /\ popPc = "publish"
    BY <1>1, <1>2, <2>1 DEF PopsInOrder
  <2>2. CASE ~(j = 1 /\ popPc = "publish")
    <3> DEFINE k == popped + j - 1
    <3>1. k \in popped .. pushed /\ k # pushed /\ (k = popped => j = 1)
      BY <1>2
    <3>2. slot[SlotOf(k)] = k
      BY <1>1, <2>2, <3>1 DEF SlotInv, InSlot
    <3>3. SlotOf(reader_ + j - 1) = SlotOf(k)
      <4>1. Modulus % Slots = 0
        BY SizeAssumption
      <4>2. ((popped % Modulus) + (j - 1)) % Slots = (popped + (j - 1)) % Slots
        <5>1. popped \in Int /\ j - 1 \in Int
          BY <1>2
        <5>2. \A d \in Int : ((popped % Modulus) + d) % Slots = (popped + d) % Slots
          BY <4>1, <5>1, Sizes, ModAhead
        <5> QED
          BY <5>1, <5>2
      <4>3. popped % Modulus \in Int
        BY <1>2, Sizes, DivMod
      <4>4. (popped % Modulus) + j - 1 = (popped % Modulus) + (j - 1) /\ k = popped + (j - 1)
        BY <1>2, <4>3
      <4> QED
        BY <1>1, <4>2, <4>4 DEF IndexInv, Word, SlotOf
    <3> QED
      BY <2>2, <3>2, <3>3
  <2> QED
    BY <2>1, <2>2
<1> QED
  BY <1>3, <1>4 DEF Contents, Run

LEMMA HeldExact == IInv => Held = IF phase = "open" THEN Run(popped, pushed) ELSE <<>>
BY ContentsExact DEF Held

\* A push is atomic at the store of writer_, a pop at that of reader_, and the
\* destruction discards what is left: the ring is a bounded FIFO queue of all but
\* one of its slots.
THEOREM RingRefinement == Spec => RefinesFifo
<1>1. Init => Fifo!Init
  <2> SUFFICES ASSUME Init PROVE Fifo!Init
    OBVIOUS
  <2>1. IInv /\ phase = "open" /\ popped = 0 /\ pushed = 0
    BY InitIInv DEF Init
  <2>2. Contents = Run(0, 0)
    BY <2>1, ContentsExact
  <2>3. Run(0, 0) = <<>>
    BY DEF Run
  <2> QED
    BY <2>1, <2>2, <2>3 DEF Init, Fifo!Init, Raw
<1>2. IInv /\ IInv' /\ [Next]_vars => [Fifo!Next]_(Fifo!vars)
  <2> SUFFICES ASSUME IInv, IInv', [Next]_vars
               PROVE  Fifo!Next \/ UNCHANGED Fifo!vars
    OBVIOUS
  <2>1. popped \in Nat /\ pushed \in Nat /\ popped <= pushed /\ Slots \in Nat
    BY Sizes DEF IInv, TypeOK, KnowledgeInv
  <2>2. Held = IF phase = "open" THEN Run(popped, pushed) ELSE <<>>
    BY HeldExact
  <2>3. (Held = IF phase = "open" THEN Run(popped, pushed) ELSE <<>>)'
    BY HeldExact, PTL
  <2>4. CASE PushPublish
    <3>1. phase = "open" /\ phase' = "open" /\ pushed - popped < Slots - 1
      BY <2>1, <2>4 DEF IInv, TypeOK, KnowledgeInv, PushPublish, lifeVars
    <3>2. pushed' = pushed + 1 /\ popped' = popped /\ returned' = returned
      BY <2>4 DEF PushPublish, consumerVars
    <3>3. Held' = Append(Held, pushed) /\ Len(Held) < Slots - 1
      BY <2>1, <2>2, <2>3, <3>1, <3>2, RunGrows
    <3>4. Fifo!Put
      BY <3>2, <3>3 DEF Fifo!Put, Held
    <3> QED
      BY <3>4 DEF Fifo!Next
  <2>5. CASE PopPublish
    <3>1. phase = "open" /\ phase' = "open" /\ popped < pushed /\ dst = popped
      BY <2>1, <2>5 DEF IInv, TypeOK, KnowledgeInv, PopsInOrder, PopPublish, lifeVars
    <3>2. pushed' = pushed /\ popped' = popped + 1 /\ returned' = popped
      BY <2>5, <3>1 DEF PopPublish, producerVars
    <3>3. Held # <<>> /\ Head(Held) = popped /\ Held' = Tail(Held)
      BY <2>1, <2>2, <2>3, <3>1, <3>2, RunShrinks
    <3>4. Fifo!Get
      BY <3>2, <3>3 DEF Fifo!Get, Held
    <3> QED
      BY <3>4 DEF Fifo!Next
  <2>6. CASE DtorBegin
    <3>1. Held' = <<>> /\ pushed' = pushed /\ returned' = returned
      BY <2>3, <2>6 DEF DtorBegin, producerVars, consumerVars
    <3>2. Fifo!Discard
      BY <3>1 DEF Fifo!Discard, Held
    <3> QED
      BY <3>2 DEF Fifo!Next
  <2>7. ASSUME pushed' = pushed, popped' = popped, returned' = returned,
               phase' = "open" <=> phase = "open"
        PROVE  UNCHANGED Fifo!vars
    <3>1. Held' = Held
      BY <2>2, <2>3, <2>7
    <3> QED
      BY <2>7, <3>1 DEF Fifo!vars, Held
  <2> DEFINE Quiet == \/ \E k \in knownR .. popped : PushFull(k) \/ PushBegin(k)
                      \/ PushConstruct \/ PushThrow
                      \/ \E k \in knownW .. pushed : PopEmpty(k) \/ PopBegin(k)
                      \/ PopTake \/ PopThrow
                      \/ DtorStep \/ DtorEnd \/ Destroyed \/ UNCHANGED vars
  <2>8. CASE Quiet
    <3>1. /\ pushed' = pushed /\ popped' = popped /\ returned' = returned
          /\ phase' = "open" <=> phase = "open"
      BY <2>8 DEF PushFull, PushBegin, PushLoad, PushConstruct, PushThrow, PopEmpty, PopBegin,
         PopLoad, PopTake, PopThrow, DtorStep, DtorEnd, Destroyed, vars, producerVars,
         consumerVars, lifeVars
    <3> QED
      BY <2>7, <3>1
  <2>9. PushPublish \/ PopPublish \/ DtorBegin \/ Quiet
    BY DEF Next, Producer, Consumer, Destructor
  <2> HIDE DEF Quiet
  <2> QED
    BY <2>4, <2>5, <2>6, <2>8, <2>9
<1> QED
  BY <1>1, <1>2, Invariance, PTL DEF Spec, Fifo!Spec, RefinesFifo
------------------------------------------------------------------------------
(***************************************************************************)
(* What the consumer counts is what it popped; the flag is cleared after   *)
(* the last push; and a consumer that has left its loop has every sample   *)
(* or has seen the flag cleared.                                           *)
(***************************************************************************)
BenchTypeOK ==
  /\ running \in BOOLEAN /\ sawStopped \in BOOLEAN /\ terminated \in BOOLEAN
  /\ mainPc \in {"push", "join", "joined", "done"}
  /\ loopPc \in {"pop", "check", "after", "ended"}
  /\ i \in Nat

BenchInv ==
  /\ BenchTypeOK
  /\ i = popped
  /\ running <=> mainPc = "push"
  /\ pushed <= MaxPush
  /\ ~running => pushed = MaxPush
  /\ loopPc = "after" => i = MaxPush \/ ~running
  /\ terminated => loopPc = "after" /\ i # MaxPush

BenchIInv == IInv /\ BenchInv
------------------------------------------------------------------------------
\* The benchmark works the queue only through its operations.
LEMMA QueueStep == [BenchNext]_<<vars, benchVars>> => [Next]_vars
<1> SUFFICES ASSUME [BenchNext]_<<vars, benchVars>> PROVE [Next]_vars
  OBVIOUS
<1>1. CASE PushLoop
  BY <1>1 DEF PushLoop, Next
<1>2. CASE Leave
  BY <1>2 DEF Leave, Next, Destructor
<1>3. CASE PopLoop
  BY <1>3 DEF PopLoop, Next, Consumer
<1>4. CASE Stop \/ Join \/ AfterLoop \/ Finished \/ UNCHANGED <<vars, benchVars>>
  BY <1>4 DEF Stop, Join, AfterLoop, Finished
<1>5. ASSUME NEW flag \in BOOLEAN, Check(flag) PROVE [Next]_vars
  BY <1>5 DEF Check
<1> QED
  BY <1>1, <1>2, <1>3, <1>4, <1>5 DEF BenchNext

LEMMA InitBenchIInv == BenchInit => BenchIInv
<1> SUFFICES ASSUME BenchInit PROVE BenchIInv
  OBVIOUS
<1>1. IInv
  BY InitIInv DEF BenchInit
<1>2. BenchInv
  <2>1. pushed = 0 /\ popped = 0 /\ i = 0 /\ 0 <= MaxPush
    BY SizeAssumption DEF BenchInit, Init
  <2>2. running = TRUE /\ sawStopped = FALSE /\ terminated = FALSE
        /\ mainPc = "push" /\ loopPc = "pop"
    BY DEF BenchInit
  <2>3. BenchTypeOK
    BY <2>1, <2>2 DEF BenchTypeOK
  <2>4. (running <=> mainPc = "push") /\ (~running => pushed = MaxPush)
        /\ (terminated => loopPc = "after" /\ i # MaxPush)
    BY <2>2, Zenon
  <2>5. i = popped /\ pushed <= MaxPush
    BY <2>1
  <2> QED
    BY <2>2, <2>3, <2>4, <2>5 DEF BenchInv
<1> QED
  BY <1>1, <1>2 DEF BenchIInv

LEMMA PushLoopInv == BenchIInv /\ PushLoop => BenchInv'
<1> SUFFICES ASSUME BenchIInv, PushLoop PROVE BenchInv'
  OBVIOUS
<1>1. UNCHANGED benchVars /\ ~terminated /\ mainPc = "push" /\ pushed < MaxPush
  BY DEF PushLoop
<1>2. popped' = popped /\ pushed' \in {pushed, pushed + 1}
  BY DEF PushLoop, Producer, PushFull, PushBegin, PushConstruct, PushThrow, PushPublish,
         consumerVars
<1>3. pushed' <= MaxPush
  BY <1>1, <1>2, SizeAssumption DEF BenchIInv, IInv, TypeOK
<1> QED
  BY <1>1, <1>2, <1>3 DEF BenchIInv, BenchInv, BenchTypeOK, benchVars

LEMMA PopLoopInv == BenchIInv /\ PopLoop => BenchInv'
<1> SUFFICES ASSUME BenchIInv, PopLoop PROVE BenchInv'
  OBVIOUS
<1>1. ~terminated /\ loopPc = "pop" /\ UNCHANGED <<running, sawStopped, mainPc, terminated>>
  BY DEF PopLoop
<1>2. pushed' = pushed
  BY DEF PopLoop, PopEmpty, PopBegin, PopTake, Taken, PopPublish, producerVars
<1>3. /\ loopPc' \in {"pop", "check"}
      /\ \/ popped' = popped /\ i' = i
         \/ popped' = popped + 1 /\ i' = i + 1
  BY <1>1 DEF PopLoop, Popped, PopEmpty, PopBegin, PopTake, Taken, PopPublish
<1> QED
  BY <1>1, <1>2, <1>3 DEF BenchIInv, BenchInv, BenchTypeOK

LEMMA NextBenchIInv == BenchIInv /\ [BenchNext]_<<vars, benchVars>> => BenchIInv'
<1> SUFFICES ASSUME BenchIInv, [BenchNext]_<<vars, benchVars>> PROVE BenchIInv'
  OBVIOUS
<1>1. IInv'
  BY QueueStep, NextIInv DEF BenchIInv
<1>2. BenchInv'
  <2>1. CASE PushLoop
    BY <2>1, PushLoopInv
  <2>2. CASE PopLoop
    BY <2>2, PopLoopInv
  <2>3. CASE Stop
    BY <2>3 DEF Stop, BenchIInv, BenchInv, BenchTypeOK, vars, producerVars, consumerVars
  <2>4. CASE Join
    BY <2>4 DEF Join, BenchIInv, BenchInv, BenchTypeOK, vars, producerVars, consumerVars
  <2>5. CASE Leave
    <3>1. UNCHANGED <<pushed, popped>>
      BY <2>5 DEF Leave, DtorBegin, DtorEnd, producerVars, consumerVars
    <3> QED
      BY <2>5, <3>1 DEF Leave, BenchIInv, BenchInv, BenchTypeOK
  <2>6. ASSUME NEW flag \in BOOLEAN, Check(flag) PROVE BenchInv'
    <3>1. ~flag => ~running
      BY <2>6 DEF Check
    <3> QED
      BY <2>6, <3>1 DEF Check, GivesUp, BenchIInv, BenchInv, BenchTypeOK, vars,
                        producerVars, consumerVars
  <2>7. CASE AfterLoop
    BY <2>7 DEF AfterLoop, BenchIInv, BenchInv, BenchTypeOK, vars, producerVars, consumerVars
  <2>8. CASE Finished \/ UNCHANGED <<vars, benchVars>>
    BY <2>8 DEF Finished, BenchIInv, BenchInv, BenchTypeOK, vars, benchVars, producerVars,
                consumerVars
  <2> QED
    BY <2>1, <2>2, <2>3, <2>4, <2>5, <2>6, <2>7, <2>8 DEF BenchNext
<1> QED
  BY <1>1, <1>2 DEF BenchIInv

\* A consumer that gives up does so after the last push, and the indices show every
\* sample it has not popped as still in the queue.
THEOREM NoSampleMissing == BenchSpec => []GivesUpLate
<1>1. BenchIInv => GivesUpLate
  <2> SUFFICES ASSUME BenchIInv, terminated PROVE GivesUpLate
    BY DEF GivesUpLate
  <2>1. pushed = MaxPush /\ ~running /\ popped = i /\ i # MaxPush
    BY DEF BenchIInv, BenchInv
  <2>2. /\ popped \in Int /\ pushed \in Int
        /\ 0 <= pushed - popped /\ pushed - popped < Modulus
    BY Sizes DEF BenchIInv, IInv, TypeOK, KnowledgeInv
  <2>3. ((pushed % Modulus) - (popped % Modulus)) % Modulus = pushed - popped
    BY <2>2, Sizes, ModDifference
  <2>4. Used(writer_, reader_) = MaxPush - i
    BY <2>1, <2>3 DEF BenchIInv, IInv, IndexInv, Word, Used
  <2> QED
    BY <2>1, <2>2, <2>4 DEF GivesUpLate
<1> QED
  BY <1>1, InitBenchIInv, NextBenchIInv, PTL DEF BenchSpec
==============================================================================
