----------------------- MODULE ReaderWriterQueueProof -----------------------
(***************************************************************************)
(* Proofs about ReaderWriterQueue, for every size of block, every size of  *)
(* at least one given to the constructor, every number of new blocks,      *)
(* every length of the store buffers and every number of elements.         *)
(*                                                                         *)
(* The constructor takes a size of zero too.  Its first block then has one *)
(* slot, where a front equal to the tail is an empty block and a full one, *)
(* and most of what follows is false; so each theorem says Size >= 1.      *)
(***************************************************************************)
EXTENDS ReaderWriterQueue, ModularArithmetic, SequenceTheorems, NaturalsInduction,
        WellFoundedInduction, FiniteSetTheorems, TLAPS
------------------------------------------------------------------------------
(***************************************************************************)
(* Induction, least and last elements, and what a thread with stores in    *)
(* its buffer sees of memory.                                              *)
(***************************************************************************)

\* Induction over a set of naturals instead of a predicate.
LEMMA SetInduction ==
  ASSUME NEW S, 0 \in S, \A n \in Nat : n \in S => n + 1 \in S
  PROVE  Nat \subseteq S
<1> SUFFICES ASSUME NEW T, T = Nat \ S, T # {} PROVE FALSE
  OBVIOUS
<1>1. IsWellFoundedOn(OpToRel(<, Nat), Nat)
  BY NatLessThanWellFounded
<1>2. PICK x \in T : \A y \in T : ~(<<y, x>> \in OpToRel(<, Nat))
  BY <1>1, WFMin
<1>3. x \in Nat /\ x # 0
  OBVIOUS
<1>4. x - 1 \in Nat /\ x - 1 \notin S
  BY <1>3
<1>5. <<x - 1, x>> \in OpToRel(<, Nat)
  BY <1>3, <1>4 DEF OpToRel
<1> QED
  BY <1>2, <1>4, <1>5

\* A set of naturals has a least element.
LEMMA LeastExists ==
  ASSUME NEW S, S \subseteq Nat, S # {}
  PROVE  \E x \in S : \A y \in S : x <= y
<1> DEFINE R == OpToRel(<, Nat)
<1>1. IsWellFoundedOn(R, Nat)
  BY NatLessThanWellFounded
<1>2. \A x, y \in Nat : y < x => <<y, x>> \in R
  BY DEF OpToRel
<1> HIDE DEF R
<1>3. PICK x \in S : \A y \in S : ~(<<y, x>> \in R)
  BY <1>1, WFMin
<1>4. ASSUME NEW y \in S PROVE x <= y
  <2>1. x \in Nat /\ y \in Nat
    OBVIOUS
  <2>2. ~(y < x)
    BY <1>2, <1>3, <2>1
  <2> QED
    BY <2>1, <2>2
<1> QED
  BY <1>4

\* Min is what its name says, for naturals.
LEMMA MinIn ==
  ASSUME NEW S, S \subseteq Nat, S # {}
  PROVE  Min(S) \in S /\ \A y \in S : Min(S) <= y
BY LeastExists DEF Min

\* So is Max, for positions in a buffer.
LEMMA MaxIn ==
  ASSUME NEW n \in Nat, NEW S, S \subseteq 1 .. n, S # {}
  PROVE  Max(S) \in S /\ \A y \in S : y <= Max(S)
<1> DEFINE T == {z \in 0 .. n : n - z \in S}
<1>0. \A x \in S : x \in Int /\ x >= 1 /\ x <= n
  OBVIOUS
<1>1. T \subseteq Nat /\ T # {}
  <2>1. PICK x \in S : TRUE
    OBVIOUS
  <2>2. n - x \in 0 .. n /\ n - (n - x) = x
    BY <1>0, <2>1
  <2>3. n - x \in T
    BY <2>1, <2>2
  <2>4. T \subseteq 0 .. n
    OBVIOUS
  <2> HIDE DEF T
  <2> QED
    BY <2>3, <2>4
<1>2. PICK z \in T : \A y \in T : z <= y
  BY <1>1, LeastExists
<1>3. n - z \in S /\ z \in Nat
  OBVIOUS
<1>4. ASSUME NEW y \in S PROVE y <= n - z
  <2>1. n - y \in 0 .. n /\ n - (n - y) = y
    BY <1>0
  <2>2. n - y \in T
    BY <2>1
  <2>3. z <= n - y
    BY <1>2, <2>2
  <2> QED
    BY <1>0, <1>3, <2>3
<1>5. \E x \in S : \A y \in S : x >= y
  BY <1>0, <1>3, <1>4
<1> HIDE DEF T
<1> QED
  BY <1>0, <1>5 DEF Max

\* The last store of a buffer to a variable, if there is one.
Is(store, var, at) == store.var = var /\ store.at = at
LastTo(p, k, var, at) ==
  k \in 1 .. Len(p) /\ Is(p[k], var, at) /\ \A j \in 1 .. Len(p) : j > k => ~Is(p[j], var, at)
NoneTo(p, var, at) == \A j \in 1 .. Len(p) : ~Is(p[j], var, at)

\* The last store to a variable decides what the thread sees of it.
LEMMA ViewLast ==
  ASSUME NEW S, NEW p \in Seq(S), NEW memory, NEW var, NEW at, NEW k, LastTo(p, k, var, at)
  PROVE  View(memory, p, var, at) = p[k].value
<1> DEFINE mine == {j \in DOMAIN p : p[j].var = var /\ p[j].at = at}
<1>1. Len(p) \in Nat /\ DOMAIN p = 1 .. Len(p)
  OBVIOUS
<1>2. k \in mine /\ k \in Int /\ \A j \in mine : j \in Int /\ j <= k
  BY <1>1 DEF Is, LastTo
<1>3. View(memory, p, var, at) = IF mine = {} THEN memory[var][at] ELSE p[Max(mine)].value
  BY DEF View
<1> HIDE DEF mine
<1>4. \E x \in mine : \A y \in mine : x >= y
  BY <1>2
<1>5. PICK x : x = Max(mine) /\ x \in mine /\ \A y \in mine : x >= y
  BY <1>4 DEF Max
<1>6. x = k
  <2>1. x \in Int /\ x <= k /\ x >= k
    BY <1>2, <1>5
  <2> QED
    BY <1>2, <2>1
<1> QED
  BY <1>2, <1>3, <1>5, <1>6

\* Without one, memory does.
LEMMA ViewNone ==
  ASSUME NEW S, NEW p \in Seq(S), NEW memory, NEW var, NEW at, NoneTo(p, var, at)
  PROVE  View(memory, p, var, at) = memory[var][at]
BY DEF View, Is, NoneTo

\* Either no store of a buffer is to a variable, or one is the last.
LEMMA LastOrNone ==
  ASSUME NEW S, NEW p \in Seq(S), NEW var, NEW at
  PROVE  NoneTo(p, var, at) \/ \E k \in 1 .. Len(p) : LastTo(p, k, var, at)
<1> DEFINE mine == {j \in 1 .. Len(p) : Is(p[j], var, at)}
<1>1. CASE mine = {}
  BY <1>1 DEF NoneTo
<1>2. CASE mine # {}
  <2>1. mine \subseteq 1 .. Len(p) /\ Len(p) \in Nat
    OBVIOUS
  <2>2. PICK k : k \in mine /\ \A y \in mine : y <= k
    BY <1>2, <2>1, MaxIn
  <2>3. k \in 1 .. Len(p) /\ Is(p[k], var, at)
    BY <2>2
  <2>4. ASSUME NEW j \in 1 .. Len(p), j > k PROVE ~Is(p[j], var, at)
    <3>1. j \in Int /\ k \in Int
      BY <2>1, <2>3
    <3> QED
      BY <2>2, <2>4, <3>1
  <2>5. LastTo(p, k, var, at)
    BY <2>3, <2>4 DEF LastTo
  <2> QED
    BY <2>3, <2>5
<1> QED
  BY <1>1, <1>2

\* Stores to other variables change nothing.
LEMMA ViewAppendOther ==
  ASSUME NEW S, NEW p \in Seq(S), NEW q \in Seq(S), NEW memory, NEW var, NEW at,
         NoneTo(q, var, at)
  PROVE  View(memory, p \o q, var, at) = View(memory, p, var, at)
<1> DEFINE r == p \o q
<1>1. /\ r \in Seq(S) /\ Len(r) = Len(p) + Len(q)
      /\ Len(p) \in Nat /\ Len(q) \in Nat
      /\ \A j \in 1 .. Len(p) : r[j] = p[j]
      /\ \A j \in 1 .. Len(r) : j > Len(p) => r[j] = q[j - Len(p)] /\ j - Len(p) \in 1 .. Len(q)
  BY ConcatProperties
<1> HIDE DEF r
<1>2. \A j \in 1 .. Len(r) : j > Len(p) => ~Is(r[j], var, at)
  BY <1>1 DEF NoneTo
<1>3. CASE NoneTo(p, var, at)
  <2>1. NoneTo(r, var, at)
    BY <1>1, <1>2, <1>3 DEF NoneTo
  <2>2. View(memory, p, var, at) = memory[var][at]
    BY <1>3, ViewNone
  <2>3. View(memory, r, var, at) = memory[var][at]
    BY <1>1, <2>1, ViewNone
  <2> QED
    BY <2>2, <2>3 DEF r
<1>4. ASSUME NEW k \in 1 .. Len(p), LastTo(p, k, var, at)
      PROVE  View(memory, r, var, at) = View(memory, p, var, at)
  <2>1. LastTo(r, k, var, at) /\ r[k] = p[k]
    <3>1. k \in 1 .. Len(r) /\ r[k] = p[k] /\ Is(p[k], var, at)
      BY <1>1, <1>4 DEF LastTo
    <3>2. ASSUME NEW j \in 1 .. Len(r), k < j PROVE ~Is(r[j], var, at)
      <4>1. CASE j > Len(p)
        BY <1>2, <4>1
      <4>2. CASE j \in 1 .. Len(p)
        <5>1. r[j] = p[j]
          BY <1>1, <4>2
        <5> QED
          BY <1>4, <3>2, <4>2, <5>1 DEF LastTo
      <4> QED
        BY <1>1, <4>1, <4>2
    <3> QED
      BY <3>1, <3>2 DEF LastTo
  <2>2. View(memory, r, var, at) = r[k].value /\ View(memory, p, var, at) = p[k].value
    BY <1>1, <1>4, <2>1, ViewLast
  <2> QED
    BY <2>1, <2>2
<1> QED
  BY <1>3, <1>4, LastOrNone DEF r

\* The last appended store to a variable decides.
LEMMA ViewAppendTo ==
  ASSUME NEW S, NEW p \in Seq(S), NEW q \in Seq(S), NEW memory, NEW var, NEW at,
         NEW k, LastTo(q, k, var, at)
  PROVE  View(memory, p \o q, var, at) = q[k].value
<1> DEFINE r == p \o q
<1>1. /\ r \in Seq(S) /\ Len(r) = Len(p) + Len(q)
      /\ Len(p) \in Nat /\ Len(q) \in Nat
      /\ \A j \in 1 .. Len(q) : r[Len(p) + j] = q[j]
  BY ConcatProperties
<1> HIDE DEF r
<1>2. k \in 1 .. Len(q) /\ Len(p) + k \in 1 .. Len(r) /\ r[Len(p) + k] = q[k]
  BY <1>1 DEF LastTo
<1>3. ASSUME NEW j \in 1 .. Len(r), j > Len(p) + k PROVE ~Is(r[j], var, at)
  <2>1. j - Len(p) \in 1 .. Len(q) /\ Len(p) + (j - Len(p)) = j /\ j - Len(p) > k
    BY <1>1, <1>2, <1>3
  <2>2. r[j] = q[j - Len(p)]
    BY <1>1, <2>1
  <2> QED
    BY <2>1, <2>2 DEF LastTo
<1>4. LastTo(r, Len(p) + k, var, at)
  BY <1>2, <1>3 DEF LastTo
<1>5. View(memory, r, var, at) = r[Len(p) + k].value
  BY <1>1, <1>4, ViewLast
<1> QED
  BY <1>2, <1>5 DEF r

\* The oldest store reaches memory: the thread sees what it saw.
LEMMA ViewDrain ==
  ASSUME NEW S, NEW p \in Seq(S), p # <<>>, NEW memory, NEW later, NEW var, NEW at,
         later[var][at] = IF Is(Head(p), var, at) THEN Head(p).value ELSE memory[var][at]
  PROVE  View(later, Tail(p), var, at) = View(memory, p, var, at)
<1> DEFINE r == Tail(p)
<1>1. /\ r \in Seq(S) /\ Len(p) \in Nat /\ Len(p) > 0 /\ Len(r) = Len(p) - 1
      /\ \A j \in 1 .. Len(r) : r[j] = p[j + 1]
      /\ Head(p) = p[1]
  BY HeadTailProperties
<1> HIDE DEF r
<1>2. CASE NoneTo(r, var, at)
  <2>1. View(later, r, var, at) = later[var][at]
    BY <1>1, <1>2, ViewNone
  <2>2. ASSUME NEW j \in 1 .. Len(p), j > 1 PROVE ~Is(p[j], var, at)
    <3>1. j - 1 \in 1 .. Len(r) /\ r[j - 1] = p[j]
      BY <1>1, <2>2
    <3> QED
      BY <1>2, <3>1 DEF NoneTo
  <2>3. CASE Is(p[1], var, at)
    <3>1. LastTo(p, 1, var, at)
      BY <1>1, <2>2, <2>3 DEF LastTo
    <3>2. View(memory, p, var, at) = p[1].value
      BY <3>1, ViewLast
    <3> QED
      BY <1>1, <2>1, <2>3, <3>2 DEF r
  <2>4. CASE ~Is(p[1], var, at)
    <3>1. NoneTo(p, var, at)
      BY <1>1, <2>2, <2>4 DEF NoneTo
    <3>2. View(memory, p, var, at) = memory[var][at]
      BY <3>1, ViewNone
    <3> QED
      BY <1>1, <2>1, <2>4, <3>2 DEF r
  <2> QED
    BY <2>3, <2>4
<1>3. ASSUME NEW k \in 1 .. Len(r), LastTo(r, k, var, at)
      PROVE  View(later, r, var, at) = View(memory, p, var, at)
  <2>1. k + 1 \in 1 .. Len(p) /\ p[k + 1] = r[k]
    BY <1>1
  <2>2. ASSUME NEW j \in 1 .. Len(p), j > k + 1 PROVE ~Is(p[j], var, at)
    <3>1. j - 1 \in 1 .. Len(r) /\ r[j - 1] = p[j] /\ j - 1 > k
      BY <1>1, <2>2
    <3> QED
      BY <1>3, <3>1 DEF LastTo
  <2>3. LastTo(p, k + 1, var, at)
    BY <1>3, <2>1, <2>2 DEF LastTo
  <2>4. View(memory, p, var, at) = p[k + 1].value
    BY <2>3, ViewLast
  <2>5. View(later, r, var, at) = r[k].value
    BY <1>1, <1>3, ViewLast
  <2> QED
    BY <2>1, <2>4, <2>5
<1>4. CASE \E k \in 1 .. Len(r) : LastTo(r, k, var, at)
  BY <1>3, <1>4 DEF r
<1> QED
  BY <1>1, <1>2, <1>4, LastOrNone
------------------------------------------------------------------------------
(***************************************************************************)
(* The inductive invariant.  A visit is a stay of the producer in a block: *)
(* visits are numbered from 0, and an element belongs to the visit it was  *)
(* enqueued in.  A history h gives for each visit its block, its first     *)
(* element and the slot of any element, the blocks kept in the circle, and *)
(* where the ends of the queue are: the consumer is in visit h.m as memory *)
(* has it and in h.f as it knows itself, the producer in h.t and h.l.      *)
(***************************************************************************)
Threads == {"producer", "consumer"}

History == [block: [Nat -> Nat], first: [Nat -> Nat], place: [Nat -> [Nat -> Nat]],
            kept: SUBSET Nat, m: Nat, f: Nat, t: Nat, l: Nat]

AnyStore == [var: {"block", "front", "tail", "next", "data"},
             at: Blocks \cup Slots \cup {"front", "tail"}, value: Nat, of: Nat]

Pp == pending["producer"]
Pc == pending["consumer"]

TypeInv ==
  /\ shape \in Shapes /\ Size >= 1
  /\ blocks \in Nat /\ blocks > 0
  /\ InitialBlockCount(MaxBlockSize, Size) <= blocks
  /\ blocks <= InitialBlockCount(MaxBlockSize, Size) + MaxNew
  /\ largestBlockSize \in Nat /\ 2 <= largestBlockSize /\ largestBlockSize <= 2 * MaxBlockSize
  /\ blockSize \in [Blocks -> Nat]
  /\ \A b \in 0 .. blocks - 1 : 2 <= blockSize[b] /\ blockSize[b] <= 2 * MaxBlockSize
  /\ mem \in [block: [{"front", "tail"} -> Nat], front: [Blocks -> Nat], tail: [Blocks -> Nat],
              next: [Blocks -> Nat], data: [Slots -> Int]]
  /\ pending \in [Threads -> Seq(AnyStore)]
  /\ localFront \in [Blocks -> Nat] /\ localTail \in [Blocks -> Nat]
  /\ enqPc \in {"idle", "next", "reuse"}
  /\ deqPc \in {"idle", "look", "again", "next", "advance", "take"}
  /\ deqPc # "idle" => op \in {"remove", "peek"}
  /\ block_ \in Nat /\ front_ \in Nat
  /\ pushed \in Nat /\ published \in Nat /\ popped \in Nat /\ removed \in Nat
  /\ publishedAtStart \in Nat

\* The slots that a run of elements takes in a ring.
IsRing(r, size) ==
  /\ \A n \in Nat : r[n] \in 0 .. size - 1 /\ r[n + 1] = (r[n] + 1) % size
  /\ \A x, y \in Nat : x < y /\ r[x] = r[y] => y - x >= size
  /\ \A x \in Nat : r[x + size] = r[x]

\* Element n belongs to visit v.
In(h, v, n) == h.first[v] <= n /\ n < h.first[v + 1]

VisitInv(h) ==
  /\ h.m <= h.f /\ h.f <= h.t /\ h.t <= h.l
  /\ h.kept \subseteq 0 .. blocks - 1
  /\ \A v \in h.m .. h.l : h.block[v] \in h.kept /\ IsRing(h.place[v], blockSize[h.block[v]])
  /\ \A v, w \in h.m .. h.l : h.block[v] = h.block[w] => v = w
  /\ h.first[0] = 0 /\ h.first[h.l + 1] = pushed
  /\ \A v, w \in 0 .. h.l + 1 : v <= w => h.first[v] <= h.first[w]
  /\ \A v \in 0 .. h.l : 0 < h.l => h.first[v] < h.first[v + 1]

\* The first element of a visit that the consumer has not taken, as it knows itself and
\* as memory has it.
FrontAt(h, v) == IF v < h.f THEN h.first[v + 1] ELSE IF v = h.f THEN popped ELSE h.first[v]
LeftAt(h, v) == IF v = h.m THEN removed ELSE h.first[v]

ConsInv(h) ==
  /\ FrontBlock = h.block[h.f] /\ mem.block["front"] = h.block[h.m]
  /\ h.first[h.f] <= popped /\ popped <= h.first[h.f + 1]
  /\ h.first[h.m] <= removed /\ removed <= h.first[h.m + 1]
  /\ removed <= popped /\ popped <= published /\ published <= pushed
  /\ \A v \in h.m .. h.l : FrontOf(h.block[v]) = h.place[v][FrontAt(h, v)]
  /\ \A v \in h.m .. h.l : mem.front[h.block[v]] = h.place[v][LeftAt(h, v)]

\* The shadow copy of the tail that the consumer may go by.
ShadowTailInv(h) ==
  \E y \in Nat : /\ localTail[h.block[h.f]] = h.place[h.f][y]
                 /\ popped <= y /\ y <= published /\ y <= h.first[h.f + 1]

ProdInv(h) ==
  /\ TailBlock = h.block[h.l] /\ mem.block["tail"] = h.block[h.t]
  /\ \A v \in h.m .. h.l : TailOf(h.block[v]) = h.place[v][h.first[v + 1]]
  /\ \A v \in h.m .. h.l - 1 : NextOf(h.block[v]) = h.block[v + 1]
  /\ h.first[h.t] <= published /\ published <= h.first[h.t + 1]
  /\ h.t = 0 \/ h.first[h.t] < published
  /\ \A v \in h.m .. h.t :
       mem.tail[h.block[v]] = h.place[v][IF v < h.t THEN h.first[v + 1] ELSE published]
  /\ \A v \in h.t + 1 .. h.l :
       \/ mem.tail[h.block[v]] = h.place[v][h.first[v] + 1]
       \/ \E i \in 1 .. Len(Pp) : Pp[i].var = "tail" /\ Pp[i].of = h.first[v]

\* A block keeps a slot free.
RoomInv(h) == \A v \in h.m .. h.l : h.first[v + 1] - LeftAt(h, v) < blockSize[h.block[v]]

\* The shadow copy of the front that the producer may go by.
ShadowFrontInv(h) ==
  \E z \in Nat : /\ localFront[h.block[h.l]] = h.place[h.l][z]
                 /\ h.first[h.l] <= z /\ z <= LeftAt(h, h.l)
                 /\ pushed - z < blockSize[h.block[h.l]]

\* A block of the circle that is not in use.
Spare(h, b) == b \in h.kept /\ \A v \in h.m .. h.l : h.block[v] # b

SpareInv(h) ==
  \A b \in h.kept : Spare(h, b) =>
    FrontOf(b) = TailOf(b) /\ mem.front[b] = FrontOf(b) /\ FrontOf(b) \in 0 .. blockSize[b] - 1

CircleInv(h) ==
  /\ \A b \in h.kept : NextOf(b) \in h.kept
  /\ \A b, c \in h.kept : NextOf(b) = NextOf(c) => b = c

KeptInv(h) ==
  h.kept = {b \in 0 .. blocks - 1 :
              b < InitialBlockCount(MaxBlockSize, Size) \/ mem.data[<<b, 0>>] # -1}

\* Blocks to come are as Init has them.
ToComeInv ==
  \A b \in Blocks : b >= blocks => localFront[b] = 0 /\ mem.front[b] = 0 /\ mem.data[<<b, 0>>] = -1

\* The stores of a buffer are in the order of what they are for.
Rank(var) == IF var = "tail" THEN 2 ELSE IF var = "block" THEN 3 ELSE IF var = "front" THEN 4 ELSE 1
Before(s, r) == s.of < r.of \/ (s.of = r.of /\ Rank(s.var) < Rank(r.var))
Ordered(p) == \A i, j \in 1 .. Len(p) : i < j => Before(p[i], p[j])

\* What a store of the producer for an element of visit v may be.
Produced(h, s, v) ==
  \/ s.var = "data" /\ s.at = <<h.block[v], h.place[v][s.of]>> /\ s.value = s.of
  \/ s.var = "tail" /\ s.at = h.block[v] /\ s.value = h.place[v][s.of + 1]
  \/ s.var = "next" /\ v > h.t /\ s.of = h.first[v] /\ s.at = h.block[v - 1] /\ s.value = h.block[v]
  \/ s.var = "block" /\ s.at = "tail" /\ v > h.t /\ s.of = h.first[v] /\ s.value = h.block[v]

ProducedInv(h) ==
  \A i \in 1 .. Len(Pp) : /\ Pp[i].of \in published .. pushed - 1
                          /\ \E v \in h.t .. h.l : In(h, v, Pp[i].of) /\ Produced(h, Pp[i], v)

\* The store that publishes an element is there until it does.
ToPublishInv(h) ==
  \A n \in published .. pushed - 1 : \E i \in 1 .. Len(Pp) :
    /\ Pp[i].of = n
    /\ \/ Pp[i].var = "block"
       \/ Pp[i].var = "tail" /\ \A v \in h.t + 1 .. h.l : h.first[v] # n

\* What a store of the consumer may be.
Consumed(h, s, v) ==
  \/ /\ s.var = "front" /\ In(h, v, s.of) /\ s.of \in removed .. popped - 1
     /\ s.at = h.block[v] /\ s.value = h.place[v][s.of + 1]
  \/ /\ s.var = "block" /\ s.at = "front" /\ v > h.m /\ s.of = h.first[v] /\ s.value = h.block[v]

ConsumedInv(h) == \A i \in 1 .. Len(Pc) : \E v \in h.m .. h.f : Consumed(h, Pc[i], v)

ToRemoveInv(h) ==
  /\ \A n \in removed .. popped - 1 : \E i \in 1 .. Len(Pc) : Pc[i].of = n /\ Pc[i].var = "front"
  /\ \A v \in h.m + 1 .. h.f : \E i \in 1 .. Len(Pc) : Pc[i].of = h.first[v] /\ Pc[i].var = "block"

\* The elements in the queue are alive in their slots, and in memory or about to be.
DataInv(h) ==
  \A v \in h.f .. h.l : \A n \in Nat : In(h, v, n) /\ popped <= n =>
    /\ <<h.block[v], h.place[v][n]>> \in live
    /\ \/ mem.data[<<h.block[v], h.place[v][n]>>] = n
       \/ \E i \in 1 .. Len(Pp) : Pp[i].var = "data" /\ Pp[i].of = n

LiveInv(h) ==
  \A s \in live : \E v \in h.f .. h.l : \E n \in Nat :
    In(h, v, n) /\ popped <= n /\ s = <<h.block[v], h.place[v][n]>>

CallInv(h) ==
  /\ deqPc = "look" => publishedAtStart = popped \/ h.f < h.t
  /\ deqPc = "again" => h.f < h.t
  /\ deqPc \in {"next", "advance"} => h.f < h.t /\ popped = h.first[h.f + 1]
  /\ deqPc = "advance" => block_ = h.block[h.f + 1] /\ op = "remove"
  /\ deqPc = "take" => \E v \in h.f .. h.t :
       /\ block_ = h.block[v] /\ front_ = h.place[v][popped] /\ In(h, v, popped)
       /\ popped < published
       /\ op = "remove" => v = h.f /\ localTail[block_] # front_

ReuseInv(h) ==
  /\ enqPc # "idle" => h.first[h.l] < pushed
  /\ enqPc = "reuse" => \A v \in h.m .. h.l : h.block[v] # NextOf(h.block[h.l])

Inv(h) ==
  /\ VisitInv(h) /\ ConsInv(h) /\ ShadowTailInv(h) /\ ProdInv(h) /\ RoomInv(h)
  /\ ShadowFrontInv(h) /\ SpareInv(h) /\ CircleInv(h) /\ KeptInv(h) /\ ToComeInv
  /\ Ordered(Pp) /\ ProducedInv(h) /\ ToPublishInv(h)
  /\ Ordered(Pc) /\ ConsumedInv(h) /\ ToRemoveInv(h)
  /\ DataInv(h) /\ LiveInv(h) /\ CallInv(h) /\ ReuseInv(h)

IInv == TypeInv /\ \E h \in History : Inv(h)
------------------------------------------------------------------------------
(***************************************************************************)
(* What the constructor makes, and the blocks and slots that the model has *)
(* room for.                                                               *)
(***************************************************************************)

\* Following a function from a starting point, a number of times.
IsWalk(f, n, S, a, next) ==
  f \in [0 .. n -> S] /\ \A k \in 0 .. n : f[k] = IF k = 0 THEN a ELSE next[f[k - 1]]

\* A function can be followed for as many times as one likes.
LEMMA WalkExists ==
  ASSUME NEW S, NEW a \in S, NEW next \in [S -> S], NEW N \in Nat
  PROVE  \E f : IsWalk(f, N, S, a, next)
<1> DEFINE T == {n \in Nat : \E f : IsWalk(f, n, S, a, next)}
<1>1. 0 \in T
  <2> DEFINE f == [k \in 0 .. 0 |-> a]
  <2>1. IsWalk(f, 0, S, a, next)
    BY DEF IsWalk
  <2> QED
    BY <2>1
<1>2. ASSUME NEW n \in Nat, n \in T PROVE n + 1 \in T
  <2>1. PICK f : IsWalk(f, n, S, a, next)
    BY <1>2
  <2> DEFINE g == [k \in 0 .. n + 1 |-> IF k = n + 1 THEN next[f[n]] ELSE f[k]]
  <2>2. g \in [0 .. n + 1 -> S]
    BY <2>1 DEF IsWalk
  <2>3. ASSUME NEW k \in 0 .. n + 1 PROVE g[k] = IF k = 0 THEN a ELSE next[g[k - 1]]
    <3>1. CASE k = n + 1
      BY <3>1
    <3>2. CASE k # n + 1
      <4>1. k \in 0 .. n /\ g[k] = f[k] /\ (k # 0 => k - 1 \in 0 .. n /\ g[k - 1] = f[k - 1])
        BY <3>2
      <4> QED
        BY <2>1, <4>1 DEF IsWalk
    <3> QED
      BY <3>1, <3>2
  <2> HIDE DEF g
  <2>4. IsWalk(g, n + 1, S, a, next)
    BY <2>2, <2>3 DEF IsWalk
  <2> QED
    BY <2>4
<1> HIDE DEF T
<1>3. Nat \subseteq T
  BY <1>1, <1>2, SetInduction
<1> QED
  BY <1>3 DEF T

\* Powers of two outgrow their exponents.
LEMMA PowerGrows ==
  ASSUME NEW x \in Nat, NEW power, power = [k \in 0 .. x |-> IF k = 0 THEN 1 ELSE 2 * power[k - 1]]
  PROVE  \A k \in 0 .. x : power[k] \in Nat /\ power[k] > k
<1> DEFINE T == {k \in Nat : k <= x => power[k] \in Nat /\ power[k] > k}
<1>1. 0 \in T
  OBVIOUS
<1>2. ASSUME NEW n \in Nat, n \in T PROVE n + 1 \in T
  <2>1. CASE n + 1 <= x
    <3>1. power[n + 1] = 2 * power[n]
      BY <2>1
    <3> QED
      BY <1>2, <2>1, <3>1
  <2> QED
    BY <2>1
<1> HIDE DEF T
<1>3. Nat \subseteq T
  BY <1>1, <1>2, SetInduction
<1>4. ASSUME NEW k \in 0 .. x PROVE power[k] \in Nat /\ power[k] > k
  <2>1. k \in T /\ k <= x
    BY <1>3
  <2> QED
    BY <2>1 DEF T
<1> QED
  BY <1>4

\* CeilToPow2 rounds up.
LEMMA CeilToPow2Above ==
  ASSUME NEW x \in Nat
  PROVE  CeilToPow2(x) \in Nat /\ CeilToPow2(x) >= x
<1> DEFINE IsPower(f) == f = [k \in 0 .. x |-> IF k = 0 THEN 1 ELSE 2 * f[k - 1]]
<1> DEFINE power == CHOOSE f : IsPower(f)
<1> DEFINE S == {p \in {power[k] : k \in 0 .. x} : p >= x}
<1>1. \E f : IsPower(f)
  <2> DEFINE double == [p \in Nat |-> 2 * p]
  <2>1. double \in [Nat -> Nat]
    OBVIOUS
  <2> HIDE DEF double
  <2>2. PICK f : IsWalk(f, x, Nat, 1, double)
    BY <2>1, WalkExists
  <2>3. \A k \in 0 .. x : k # 0 => k - 1 \in 0 .. x /\ f[k - 1] \in Nat
    BY <2>2 DEF IsWalk
  <2>4. \A k \in 0 .. x : f[k] = IF k = 0 THEN 1 ELSE 2 * f[k - 1]
    BY <2>2, <2>3 DEF IsWalk, double
  <2>5. f = [k \in 0 .. x |-> IF k = 0 THEN 1 ELSE 2 * f[k - 1]]
    BY <2>2, <2>4 DEF IsWalk
  <2> QED
    BY <2>5
<1>2. IsPower(power)
  BY <1>1
<1>3. CeilToPow2(x) = Min(S)
  BY DEF CeilToPow2
<1> HIDE DEF power
<1>4. \A k \in 0 .. x : power[k] \in Nat /\ power[k] > k
  BY <1>2, PowerGrows
<1>5. S \subseteq Nat /\ power[x] \in S
  BY <1>4
<1>6. Min(S) \in S
  BY <1>5, MinIn
<1> QED
  BY <1>3, <1>5, <1>6

\* What the constructor makes.
LEMMA ShapeFacts ==
  ASSUME NEW q \in Shapes
  PROVE  /\ q[1] \in Nat /\ q[1] >= 2 /\ q[2] \in Nat
         /\ FirstBlockSize(q[1], q[2]) \in Nat
         /\ q[2] >= 1 => 2 <= FirstBlockSize(q[1], q[2])
         /\ FirstBlockSize(q[1], q[2]) <= 2 * q[1]
         /\ InitialBlockCount(q[1], q[2]) \in Nat /\ InitialBlockCount(q[1], q[2]) >= 1
<1>1. q[1] \in Nat /\ q[1] >= 2 /\ q[2] \in Nat
  BY SizeAssumption
<1>2. CeilToPow2(q[2] + 1) \in Nat /\ CeilToPow2(q[2] + 1) >= q[2] + 1
  BY <1>1, CeilToPow2Above
<1>3. FirstBlockSize(q[1], q[2]) \in Nat /\ (q[2] >= 1 => 2 <= FirstBlockSize(q[1], q[2]))
      /\ FirstBlockSize(q[1], q[2]) <= 2 * q[1]
  BY <1>1, <1>2 DEF FirstBlockSize, Large
<1>4. InitialBlockCount(q[1], q[2]) \in Nat /\ InitialBlockCount(q[1], q[2]) >= 1
  <2> DEFINE d == q[1] - 1
  <2> DEFINE c == (q[2] + 2 * q[1] - 3) \div d
  <2>1. d \in Nat \ {0} /\ q[2] + 2 * q[1] - 3 \in Int
    BY <1>1
  <2>2. q[2] + 2 * q[1] - 3 = d * c + ((q[2] + 2 * q[1] - 3) % d)
        /\ (q[2] + 2 * q[1] - 3) % d \in 0 .. d - 1 /\ c \in Int
    BY <2>1, DivMod
  <2> DEFINE r == (q[2] + 2 * q[1] - 3) % d
  <2> HIDE DEF c, r
  <2>3. d * c >= d
    BY <1>1, <2>2 DEF r
  <2>4. c >= 1
    <3>1. c <= 0 => d * c <= 0
      BY <2>1, <2>2
    <3> QED
      BY <2>1, <2>2, <2>3, <3>1
  <2> QED
    BY <2>2, <2>4 DEF InitialBlockCount, c
<1> QED
  BY <1>1, <1>3, <1>4

\* The blocks made, and their slots, are ones that the model has room for.
LEMMA MadeBlocks ==
  ASSUME TypeInv
  PROVE  /\ 0 .. blocks - 1 \subseteq Blocks
         /\ blocks < InitialBlockCount(MaxBlockSize, Size) + MaxNew => blocks \in Blocks
         /\ \A b \in Blocks : b \in Nat
         /\ \A b \in Blocks, s \in 0 .. 2 * MaxBlockSize - 1 : <<b, s>> \in Slots
         /\ \A b \in Blocks : <<b, 0>> \in Slots
<1>1. shape \in Shapes /\ blocks \in Nat /\ blocks <= InitialBlockCount(MaxBlockSize, Size) + MaxNew
  BY DEF TypeInv
<1>2. MaxBlockSize = shape[1] /\ Size = shape[2]
  BY DEF MaxBlockSize, Size
<1>3. InitialBlockCount(shape[1], shape[2]) \in Nat /\ MaxNew \in Nat /\ shape[1] \in Nat /\ shape[1] >= 2
  BY <1>1, ShapeFacts, SizeAssumption
<1> DEFINE count == InitialBlockCount(shape[1], shape[2])
<1> HIDE DEF count
<1>4. 0 .. count + MaxNew - 1 \subseteq Blocks
  BY <1>1 DEF Blocks, count
<1>5. \A b \in Blocks : b \in Nat
  BY DEF Blocks
<1>6. \A b \in Blocks, s \in 0 .. 2 * shape[1] - 1 : <<b, s>> \in Slots
  BY <1>1 DEF Slots
<1>7. 0 .. blocks - 1 \subseteq Blocks
  BY <1>1, <1>2, <1>3, <1>4 DEF count
<1>8. blocks < InitialBlockCount(MaxBlockSize, Size) + MaxNew => blocks \in Blocks
  BY <1>1, <1>2, <1>3, <1>4 DEF count
<1> QED
  BY <1>2, <1>3, <1>5, <1>6, <1>7, <1>8

\* Any slot of a ring may be the first.
LEMMA RingFrom ==
  ASSUME NEW size \in Nat, size >= 2, NEW s \in 0 .. size - 1, NEW n0 \in Nat
  PROVE  \E r \in [Nat -> Nat] : IsRing(r, size) /\ r[n0] = s
<1> DEFINE off == s - n0
<1> DEFINE r == [n \in Nat |-> (n + off) % size]
<1>1. size \in Nat \ {0} /\ off \in Int
  OBVIOUS
<1> HIDE DEF off
<1>2. \A n \in Nat : r[n] = (n + off) % size /\ r[n] \in 0 .. size - 1
  BY <1>1, DivMod
<1>3. r \in [Nat -> Nat]
  BY <1>2
<1> HIDE DEF r
<1>4. ASSUME NEW n \in Nat PROVE r[n + 1] = (r[n] + 1) % size
  <2>1. n + off \in Int /\ (n + 1) + off = (n + off) + 1
    BY <1>1
  <2>2. (((n + off) % size) + 1) % size = ((n + off) + 1) % size
    BY <1>1, <2>1, ModSucc
  <2> QED
    BY <1>2, <2>1, <2>2
<1>5. ASSUME NEW x \in Nat, NEW y \in Nat, x < y, r[x] = r[y] PROVE y - x >= size
  <2>1. x + off \in Int /\ y + off \in Int /\ (x + off) % size = (y + off) % size /\ x + off < y + off
    BY <1>1, <1>2, <1>5
  <2>2. (x + off) + size <= y + off
    BY <1>1, <2>1, SamePlaceLater
  <2> QED
    BY <1>1, <2>2
<1>6. ASSUME NEW x \in Nat PROVE r[x + size] = r[x]
  <2>1. x + off \in Int /\ (x + size) + off = (x + off) + size /\ x + size \in Nat
    BY <1>1
  <2>2. ((x + off) + size) % size = (x + off) % size
    BY <1>1, <2>1, NextLap
  <2> QED
    BY <1>2, <2>1, <2>2
<1>7. r[n0] = s
  <2>1. n0 + off = s
    BY DEF off
  <2>2. s % size = s
    BY <1>1, ModSmall
  <2> QED
    BY <1>2, <2>1, <2>2
<1> QED
  BY <1>2, <1>3, <1>4, <1>5, <1>6, <1>7 DEF IsRing
------------------------------------------------------------------------------
(***************************************************************************)
(* The consumer. Its steps change no memory: what they load is where the   *)
(* invariant says, and what they store is for the element or the visit     *)
(* that comes next.                                                        *)
(***************************************************************************)

\* What a thread sees stays while memory and its buffer do.
LEMMA ProducerSees ==
  ASSUME mem' = mem, Pp' = Pp
  PROVE  /\ TailBlock' = TailBlock
         /\ \A b : TailOf(b)' = TailOf(b)
         /\ \A b : NextOf(b)' = NextOf(b)
BY DEF TailBlock, TailOf, NextOf, Own, Pp

\* The same of the consumer.
LEMMA ConsumerSees ==
  ASSUME mem' = mem, Pc' = Pc
  PROVE  /\ FrontBlock' = FrontBlock
         /\ \A b : FrontOf(b)' = FrontOf(b)
BY DEF FrontBlock, FrontOf, Own, Pc

\* What a step of the producer alone, or of the consumer alone, can not change.
ProducerSide(h) ==
  /\ VisitInv(h) /\ ProdInv(h) /\ RoomInv(h) /\ ShadowFrontInv(h) /\ CircleInv(h)
  /\ KeptInv(h) /\ ToComeInv /\ Ordered(Pp) /\ ProducedInv(h) /\ ToPublishInv(h) /\ ReuseInv(h)

\* A step that leaves memory and the producer's variables alone keeps its side.
LEMMA ProducerSideKept ==
  ASSUME NEW h \in History, ProducerSide(h), mem' = mem, Pp' = Pp,
         UNCHANGED <<blocks, blockSize, shape, pushed, published, removed, localFront, enqPc>>
  PROVE  ProducerSide(h)'
<1> USE DEF ProducerSide
<1>0. /\ TailBlock' = TailBlock
      /\ \A b : TailOf(b)' = TailOf(b)
      /\ \A b : NextOf(b)' = NextOf(b)
  BY ProducerSees
<1>1. VisitInv(h)'
  BY DEF VisitInv
<1>2. ProdInv(h)'
  BY <1>0 DEF ProdInv
<1>3. RoomInv(h)' /\ ShadowFrontInv(h)'
  BY DEF RoomInv, ShadowFrontInv, LeftAt
<1>4. CircleInv(h)'
  BY <1>0 DEF CircleInv
<1>5. KeptInv(h)' /\ ToComeInv'
  BY DEF KeptInv, ToComeInv, MaxBlockSize, Size
<1>6. Ordered(Pp)'
  BY DEF Ordered
<1>7. ProducedInv(h)'
  BY DEF ProducedInv
<1>8. ToPublishInv(h)'
  BY DEF ToPublishInv
<1>9. ReuseInv(h)'
  BY <1>0 DEF ReuseInv
<1> QED
  BY <1>1, <1>2, <1>3, <1>4, <1>5, <1>6, <1>7, <1>8, <1>9

ConsumerSide(h) ==
  /\ ConsInv(h) /\ SpareInv(h) /\ Ordered(Pc) /\ ConsumedInv(h) /\ ToRemoveInv(h)
  /\ DataInv(h) /\ LiveInv(h)

\* A step that leaves memory and the consumer's variables alone keeps its side.
LEMMA ConsumerSideKept ==
  ASSUME NEW h \in History, ConsumerSide(h), mem' = mem, Pp' = Pp, Pc' = Pc,
         UNCHANGED <<blocks, blockSize, pushed, published, removed, popped, live>>
  PROVE  ConsumerSide(h)'
<1> USE DEF ConsumerSide
<1>0. /\ \A b : TailOf(b)' = TailOf(b)
      /\ FrontBlock' = FrontBlock
      /\ \A b : FrontOf(b)' = FrontOf(b)
  BY ProducerSees, ConsumerSees
<1>1. ConsInv(h)'
  BY <1>0 DEF ConsInv, FrontAt, LeftAt
<1>2. SpareInv(h)'
  BY <1>0 DEF SpareInv, Spare
<1>3. Ordered(Pc)'
  BY DEF Ordered
<1>4. ConsumedInv(h)'
  BY DEF ConsumedInv, Consumed
<1>5. ToRemoveInv(h)'
  BY DEF ToRemoveInv
<1>6. DataInv(h)'
  BY DEF DataInv
<1>7. LiveInv(h)'
  BY DEF LiveInv
<1> QED
  BY <1>1, <1>2, <1>3, <1>4, <1>5, <1>6, <1>7

\* The parts of a history.
LEMMA HistoryFacts ==
  ASSUME NEW h \in History
  PROVE  /\ h.m \in Nat /\ h.f \in Nat /\ h.t \in Nat /\ h.l \in Nat
         /\ h.block \in [Nat -> Nat] /\ h.first \in [Nat -> Nat]
         /\ h.place \in [Nat -> [Nat -> Nat]] /\ h.kept \in SUBSET Nat
<1>1. h.m \in Nat BY DEF History
<1>2. h.f \in Nat BY DEF History
<1>3. h.t \in Nat BY DEF History
<1>4. h.l \in Nat BY DEF History
<1>5. h.block \in [Nat -> Nat] BY DEF History
<1>6. h.first \in [Nat -> Nat] BY DEF History
<1>7. h.place \in [Nat -> [Nat -> Nat]] BY DEF History
<1>8. h.kept \in SUBSET Nat BY DEF History
<1> QED
  BY <1>1, <1>2, <1>3, <1>4, <1>5, <1>6, <1>7, <1>8

\* The visits under way are to blocks of the circle, with slots of theirs.
LEMMA VisitFacts ==
  ASSUME TypeInv, NEW h \in History, VisitInv(h), NEW v \in h.m .. h.l
  PROVE  /\ v \in Nat
         /\ h.block[v] \in 0 .. blocks - 1 /\ h.block[v] \in Blocks /\ h.block[v] \in h.kept
         /\ h.block[v] \in Nat
         /\ blockSize[h.block[v]] \in Nat /\ blockSize[h.block[v]] >= 2
         /\ \A n \in Nat : /\ h.place[v][n] \in 0 .. blockSize[h.block[v]] - 1
                           /\ h.place[v][n] \in Nat
                           /\ <<h.block[v], h.place[v][n]>> \in Slots
                           /\ h.place[v][n + 1] = (h.place[v][n] + 1) % blockSize[h.block[v]]
         /\ h.first[v] \in Nat /\ h.first[v + 1] \in Nat /\ h.first[v] <= h.first[v + 1]
<1>1. v \in Nat /\ h.m \in Nat /\ h.l \in Nat /\ v \in 0 .. h.l + 1 /\ v + 1 \in 0 .. h.l + 1 /\ v + 1 \in Nat
  BY HistoryFacts
<1>2. h.block[v] \in h.kept /\ IsRing(h.place[v], blockSize[h.block[v]])
  BY DEF VisitInv
<1>3. h.block[v] \in 0 .. blocks - 1 /\ blocks \in Nat
  BY <1>2 DEF VisitInv, TypeInv
<1>4. h.block[v] \in Blocks
  BY <1>3, MadeBlocks
<1>5. /\ blockSize[h.block[v]] \in Nat /\ blockSize[h.block[v]] >= 2
      /\ blockSize[h.block[v]] <= 2 * MaxBlockSize
  BY <1>3, <1>4 DEF TypeInv
<1>6. shape \in Shapes /\ MaxBlockSize = shape[1] /\ shape[1] \in Nat
  BY ShapeFacts DEF TypeInv, MaxBlockSize
<1>7. ASSUME NEW n \in Nat
      PROVE  /\ h.place[v][n] \in 0 .. blockSize[h.block[v]] - 1
             /\ h.place[v][n] \in Nat
             /\ <<h.block[v], h.place[v][n]>> \in Slots
             /\ h.place[v][n + 1] = (h.place[v][n] + 1) % blockSize[h.block[v]]
  <2>1. /\ h.place[v][n] \in 0 .. blockSize[h.block[v]] - 1
        /\ h.place[v][n + 1] = (h.place[v][n] + 1) % blockSize[h.block[v]]
    BY <1>2 DEF IsRing
  <2>2. h.place[v][n] \in 0 .. 2 * MaxBlockSize - 1
    BY <1>5, <1>6, <2>1
  <2>3. <<h.block[v], h.place[v][n]>> \in Slots
    BY <1>4, <2>2, MadeBlocks
  <2> QED
    BY <1>5, <2>1, <2>3
<1>8. h.first[v] \in Nat /\ h.first[v + 1] \in Nat
  BY <1>1, HistoryFacts
<1>9. h.first[v] <= h.first[v + 1]
  BY <1>1 DEF VisitInv
<1> QED
  BY <1>1, <1>2, <1>3, <1>4, <1>5, <1>7, <1>8, <1>9

\* From the first element in memory to the end of a visit no two share a slot.
LEMMA Apart ==
  ASSUME TypeInv, NEW h \in History, VisitInv(h), RoomInv(h), NEW v \in h.m .. h.l,
         NEW x \in Nat, NEW y \in Nat, LeftAt(h, v) <= x, x <= y, y <= h.first[v + 1],
         h.place[v][x] = h.place[v][y]
  PROVE  x = y
<1>1. IsRing(h.place[v], blockSize[h.block[v]]) /\ blockSize[h.block[v]] \in Nat
  BY VisitFacts DEF VisitInv
<1>2. h.first[v + 1] - LeftAt(h, v) < blockSize[h.block[v]] /\ h.first[v + 1] \in Nat
  BY VisitFacts DEF RoomInv
<1>3. LeftAt(h, v) \in Nat
  BY VisitFacts DEF LeftAt, TypeInv
<1>4. x < y => y - x >= blockSize[h.block[v]]
  BY <1>1 DEF IsRing
<1> QED
  BY <1>1, <1>2, <1>3, <1>4

\* No store is on its way to the blocks that the producer has published and left.
LEMMA LeftAlone ==
  ASSUME TypeInv, NEW h \in History, VisitInv(h), ProdInv(h), ProducedInv(h),
         NEW v \in h.m .. h.l, v < h.t
  PROVE  mem.next[h.block[v]] = h.block[v + 1]
<1>1. h.m \in Nat /\ h.t \in Nat /\ h.l \in Nat /\ h.t <= h.l /\ h.m <= h.t /\ v \in Nat
  BY HistoryFacts DEF VisitInv
<1>2. ASSUME NEW i \in 1 .. Len(Pp), Is(Pp[i], "next", h.block[v]) PROVE FALSE
  <2>1. PICK w \in h.t .. h.l : In(h, w, Pp[i].of) /\ Produced(h, Pp[i], w)
    BY DEF ProducedInv
  <2>2. w > h.t /\ h.block[w - 1] = h.block[v]
    BY <1>2, <2>1 DEF Produced, Is
  <2>3. w - 1 \in h.m .. h.l /\ w - 1 # v
    BY <1>1, <2>2
  <2> QED
    BY <2>2, <2>3 DEF VisitInv
<1>3. NoneTo(Pp, "next", h.block[v])
  BY <1>2 DEF NoneTo
<1>4. Pp \in Seq(AnyStore)
  BY DEF TypeInv, Pp, Threads
<1>5. NextOf(h.block[v]) = mem.next[h.block[v]]
  BY <1>3, <1>4, ViewNone DEF NextOf, Own, Pp
<1>6. v \in h.m .. h.l - 1
  BY <1>1
<1> QED
  BY <1>5, <1>6 DEF ProdInv

\* A published element is in memory.
LEMMA PublishedData ==
  ASSUME TypeInv, NEW h \in History, DataInv(h), ProducedInv(h),
         NEW v \in h.f .. h.l, NEW n \in Nat, In(h, v, n), popped <= n, n < published
  PROVE  /\ <<h.block[v], h.place[v][n]>> \in live
         /\ mem.data[<<h.block[v], h.place[v][n]>>] = n
<1>1. \A i \in 1 .. Len(Pp) : Pp[i].of # n
  BY DEF ProducedInv, TypeInv
<1> QED
  BY <1>1 DEF DataInv

Shorthands(h) ==
  /\ h.m \in Nat /\ h.f \in Nat /\ h.t \in Nat /\ h.l \in Nat
  /\ h.m <= h.f /\ h.f <= h.t /\ h.t <= h.l
  /\ h.m \in h.m .. h.l /\ h.f \in h.m .. h.l /\ h.t \in h.m .. h.l /\ h.l \in h.m .. h.l

\* The visits that the ends of the queue are in come in order.
LEMMA Ends ==
  ASSUME NEW h \in History, VisitInv(h)
  PROVE  Shorthands(h)
BY HistoryFacts DEF VisitInv, Shorthands

InvParts(h) == ProducerSide(h) /\ ConsumerSide(h) /\ ShadowTailInv(h) /\ CallInv(h)

\* Inv by the side that each of its parts is of.
LEMMA InvIsParts ==
  ASSUME NEW h \in History
  PROVE  Inv(h) <=> InvParts(h)
BY DEF Inv, InvParts, ProducerSide, ConsumerSide

\* The counts are in order.
LEMMA Counts ==
  ASSUME TypeInv, NEW h \in History, Inv(h)
  PROVE  /\ Shorthands(h) /\ VisitInv(h)
         /\ pushed \in Nat /\ published \in Nat /\ popped \in Nat /\ removed \in Nat
         /\ removed <= popped /\ popped <= published /\ published <= pushed
         /\ h.first[h.f] \in Nat /\ h.first[h.f + 1] \in Nat
         /\ h.first[h.f] <= popped /\ popped <= h.first[h.f + 1]
         /\ LeftAt(h, h.f) \in Nat /\ LeftAt(h, h.f) <= popped
         /\ h.f < h.t => /\ h.first[h.f + 1] < published
                         /\ h.first[h.f + 1] < h.first[h.f + 2]
                         /\ h.f + 1 \in h.m .. h.l /\ h.f + 1 \in h.f .. h.t
                         /\ h.first[h.f + 2] \in Nat
         /\ h.f = h.t => published <= h.first[h.f + 1]
<1>1. VisitInv(h) /\ ConsInv(h) /\ ProdInv(h)
  BY DEF Inv
<1>2. Shorthands(h)
  BY <1>1, Ends
<1>3. pushed \in Nat /\ published \in Nat /\ popped \in Nat /\ removed \in Nat
  BY DEF TypeInv
<1>4. \A v \in Nat : h.first[v] \in Nat
  BY HistoryFacts
<1>5. /\ removed <= popped /\ popped <= published /\ published <= pushed
      /\ h.first[h.f] <= popped /\ popped <= h.first[h.f + 1]
  BY <1>1 DEF ConsInv
<1>6. h.f \in Nat /\ h.t \in Nat /\ h.l \in Nat /\ h.f <= h.t /\ h.t <= h.l
  BY <1>2 DEF Shorthands
<1>7. ASSUME h.f < h.t
      PROVE  /\ h.first[h.f + 1] < published /\ h.first[h.f + 1] < h.first[h.f + 2]
             /\ h.f + 1 \in h.m .. h.l /\ h.f + 1 \in h.f .. h.t
  <2>1. h.f + 1 \in 0 .. h.l + 1 /\ h.t \in 0 .. h.l + 1 /\ h.f + 1 <= h.t
    BY <1>6, <1>7
  <2>2. h.first[h.f + 1] <= h.first[h.t]
    BY <1>1, <2>1 DEF VisitInv
  <2>3. h.first[h.t] < published
    BY <1>1, <1>6, <1>7 DEF ProdInv
  <2>4. h.f + 1 \in 0 .. h.l /\ 0 < h.l /\ (h.f + 1) + 1 = h.f + 2
    BY <1>6, <1>7
  <2>5. h.first[h.f + 1] < h.first[(h.f + 1) + 1]
    BY <1>1, <2>4 DEF VisitInv
  <2>6. h.f + 1 \in h.m .. h.l /\ h.f + 1 \in h.f .. h.t
    BY <1>2, <1>7 DEF Shorthands
  <2> QED
    BY <1>3, <1>4, <1>6, <2>2, <2>3, <2>4, <2>5, <2>6
<1>8. LeftAt(h, h.f) \in Nat /\ LeftAt(h, h.f) <= popped
  BY <1>3, <1>4, <1>5, <1>6 DEF LeftAt
<1>9. h.f = h.t => published <= h.first[h.f + 1]
  BY <1>1 DEF ProdInv
<1> QED
  BY <1>1, <1>2, <1>3, <1>4, <1>5, <1>6, <1>7, <1>8, <1>9

\* How far the front block goes, as memory has it.
Reach(h) == IF h.f < h.t THEN h.first[h.f + 1] ELSE published

\* The tail of the front block in memory, which the consumer loads.
LEMMA FrontTail ==
  ASSUME TypeInv, NEW h \in History, Inv(h)
  PROVE  /\ mem.tail[FrontBlock] = h.place[h.f][Reach(h)]
         /\ Reach(h) \in Nat /\ popped <= Reach(h) /\ Reach(h) <= published
         /\ Reach(h) <= h.first[h.f + 1]
<1>1. h.f \in h.m .. h.t
  BY Counts DEF Shorthands
<1>2. mem.tail[h.block[h.f]] = h.place[h.f][IF h.f < h.t THEN h.first[h.f + 1] ELSE published]
  BY <1>1 DEF Inv, ProdInv
<1>3. FrontBlock = h.block[h.f]
  BY DEF Inv, ConsInv
<1>4. h.f = h.t \/ h.f < h.t
  BY Counts DEF Shorthands
<1> QED
  BY <1>2, <1>3, <1>4, Counts DEF Reach

\* The front block is looked at by a tail that is no later than memory's.
LEMMA Looked ==
  ASSUME TypeInv, NEW h \in History, Inv(h), NEW tail, NEW y \in Nat, NEW otherwise,
         tail = h.place[h.f][y], popped <= y, y <= published, y <= h.first[h.f + 1],
         LookIn(FrontBlock, tail, otherwise)
  PROVE  /\ localTail' \in [Blocks -> Nat]
         /\ localTail'[h.block[h.f]] = h.place[h.f][y]
         /\ \/ /\ deqPc' = "take" /\ block_' = h.block[h.f] /\ front_' = h.place[h.f][popped]
               /\ In(h, h.f, popped) /\ popped < published
               /\ localTail'[block_'] # front_'
               /\ popped < y
            \/ deqPc' = otherwise /\ UNCHANGED <<block_, front_>> /\ y = popped
         /\ block_' \in Nat /\ front_' \in Nat
<1>1. FrontBlock = h.block[h.f] /\ Shorthands(h)
  BY Counts DEF Inv, ConsInv
<1>2. FrontOf(h.block[h.f]) = h.place[h.f][popped]
  <2>1. h.f \in h.m .. h.l /\ FrontAt(h, h.f) = popped
    BY <1>1 DEF Shorthands, FrontAt
  <2> QED
    BY <2>1 DEF Inv, ConsInv
<1>3. h.block[h.f] \in Blocks /\ h.block[h.f] \in Nat
      /\ h.place[h.f][popped] \in Nat /\ h.place[h.f][y] \in Nat
  <2>1. VisitInv(h) /\ h.f \in h.m .. h.l /\ popped \in Nat
    BY Counts DEF Shorthands
  <2>2. h.block[h.f] \in Blocks /\ h.block[h.f] \in Nat
    BY <2>1, VisitFacts
  <2>3. h.place \in [Nat -> [Nat -> Nat]] /\ h.f \in Nat
    BY HistoryFacts
  <2> QED
    BY <2>1, <2>2, <2>3
<1>4. localTail' = [localTail EXCEPT ![h.block[h.f]] = tail] /\ localTail \in [Blocks -> Nat]
  BY <1>1 DEF LookIn, TypeInv
<1>5. localTail' \in [Blocks -> Nat] /\ localTail'[h.block[h.f]] = h.place[h.f][y]
  BY <1>3, <1>4
<1>6. CASE FrontOf(FrontBlock) # tail
  <2>1. deqPc' = "take" /\ block_' = h.block[h.f] /\ front_' = h.place[h.f][popped]
    BY <1>1, <1>2, <1>6 DEF LookIn, TakeFrom
  <2>2. popped # y
    BY <1>1, <1>2, <1>6
  <2>3. popped < y /\ popped < published /\ In(h, h.f, popped)
    BY <2>2, Counts DEF In
  <2> QED
    BY <1>1, <1>2, <1>3, <1>5, <1>6, <2>1, <2>3
<1>7. CASE FrontOf(FrontBlock) = tail
  <2>1. deqPc' = otherwise /\ UNCHANGED <<block_, front_>>
    BY <1>7 DEF LookIn, GoTo
  <2>2. h.place[h.f][popped] = h.place[h.f][y]
    BY <1>1, <1>2, <1>7
  <2>3. popped = y
    BY <1>1, <2>2, Counts, Apart DEF Shorthands, Inv
  <2>4. block_' \in Nat /\ front_' \in Nat
    BY <2>1 DEF TypeInv
  <2> QED
    BY <1>5, <2>1, <2>3, <2>4
<1> QED
  BY <1>6, <1>7

\* A call of the consumer begins: the front block is looked at.
LEMMA BeginStep ==
  ASSUME TypeInv, NEW h \in History, Inv(h), NEW o \in {"remove", "peek"}, DequeueBegin(o),
         UNCHANGED <<producerVars, blockVars, mem, published, removed, shape>>
  PROVE  TypeInv' /\ Inv(h)'
<1> DEFINE tail == IF FrontOf(FrontBlock) # localTail[FrontBlock] THEN localTail[FrontBlock]
                   ELSE mem.tail[FrontBlock]
<1>1. /\ deqPc = "idle" /\ op' = o /\ publishedAtStart' = published
      /\ LookIn(FrontBlock, tail, "look")
      /\ UNCHANGED <<popped, returned, live, pending>>
  BY DEF DequeueBegin, NoneTaken
<1>2. FrontBlock = h.block[h.f] /\ Shorthands(h)
  BY Counts DEF Inv, ConsInv
<1>3. FrontOf(h.block[h.f]) = h.place[h.f][popped]
  <2>1. h.f \in h.m .. h.l /\ FrontAt(h, h.f) = popped
    BY <1>2 DEF Shorthands, FrontAt
  <2> QED
    BY <2>1 DEF Inv, ConsInv
<1>4. PICK z \in Nat : /\ localTail[h.block[h.f]] = h.place[h.f][z]
                       /\ popped <= z /\ z <= published /\ z <= h.first[h.f + 1]
  BY DEF Inv, ShadowTailInv
<1>5. PICK y \in Nat : /\ tail = h.place[h.f][y]
                       /\ popped <= y /\ y <= published /\ y <= h.first[h.f + 1]
                       /\ popped # y \/ y = Reach(h)
  <2>1. CASE FrontOf(FrontBlock) # localTail[FrontBlock]
    BY <1>2, <1>3, <1>4, <2>1
  <2>2. CASE FrontOf(FrontBlock) = localTail[FrontBlock]
    <3>1. tail = h.place[h.f][Reach(h)]
      BY <2>2, FrontTail
    <3> HIDE DEF tail
    <3> QED
      BY <3>1, FrontTail
  <2> QED
    BY <2>1, <2>2
<1> HIDE DEF tail
<1>6. /\ localTail' \in [Blocks -> Nat]
      /\ localTail'[h.block[h.f]] = h.place[h.f][y]
      /\ \/ /\ deqPc' = "take" /\ block_' = h.block[h.f] /\ front_' = h.place[h.f][popped]
            /\ In(h, h.f, popped) /\ popped < published
            /\ localTail'[block_'] # front_'
         \/ deqPc' = "look" /\ UNCHANGED <<block_, front_>> /\ y = popped
      /\ block_' \in Nat /\ front_' \in Nat
  BY <1>1, <1>5, Looked
<1>7. TypeInv'
  BY <1>1, <1>6 DEF TypeInv, producerVars, blockVars, MaxBlockSize, Size
<1>8. ProducerSide(h)' /\ ConsumerSide(h)'
  BY <1>1, InvIsParts, ProducerSideKept, ConsumerSideKept
     DEF InvParts, producerVars, blockVars, Pp, Pc
<1>9. ShadowTailInv(h)'
  BY <1>1, <1>5, <1>6 DEF ShadowTailInv
<1>10. CallInv(h)'
  <2>1. CASE deqPc' = "take"
    <3>1. h.f \in h.f .. h.t
      BY <1>2 DEF Shorthands
    <3>2. (popped < published)' /\ In(h, h.f, popped)'
      BY <1>1, <1>6, <2>1 DEF In
    <3> QED
      BY <1>1, <1>6, <2>1, <3>1, <3>2 DEF CallInv
  <2>2. CASE deqPc' = "look" /\ y = popped
    <3>1. popped = Reach(h)
      BY <1>5, <2>2
    <3>2. published = popped \/ h.f < h.t
      BY <3>1 DEF Reach
    <3> QED
      BY <1>1, <2>2, <3>2 DEF CallInv
  <2> QED
    BY <1>6, <2>1, <2>2
<1> QED
  BY <1>7, <1>8, <1>9, <1>10 DEF Inv, ProducerSide, ConsumerSide

\* A step of the consumer that takes and stores nothing keeps both sides.
LEMMA SilentStep ==
  ASSUME TypeInv, NEW h \in History, Inv(h),
         UNCHANGED <<producerVars, blockVars, mem, published, removed, shape, pending, popped, live>>
  PROVE  ProducerSide(h)' /\ ConsumerSide(h)'
BY InvIsParts, ProducerSideKept, ConsumerSideKept DEF InvParts, producerVars, blockVars, Pp, Pc

\* The tail block is another than the front block only if it is of a later visit.
LEMMA MoreBlocksMeans ==
  ASSUME TypeInv, NEW h \in History, Inv(h)
  PROVE  MoreBlocks <=> h.f < h.t
<1>1. FrontBlock = h.block[h.f] /\ mem.block["tail"] = h.block[h.t]
  BY DEF Inv, ConsInv, ProdInv
<1>2. Shorthands(h) /\ \A v, w \in h.m .. h.l : h.block[v] = h.block[w] => v = w
  BY Counts DEF VisitInv
<1> QED
  BY <1>1, <1>2 DEF MoreBlocks, Shorthands

\* The tail block is compared; a call that returns here found the queue empty as it began.
LEMMA LookStep ==
  ASSUME TypeInv, NEW h \in History, Inv(h), DequeueLook,
         UNCHANGED <<producerVars, blockVars, mem, published, removed, shape>>
  PROVE  TypeInv' /\ Inv(h)' /\ (deqPc' = "idle" => publishedAtStart = popped)
<1>1. deqPc = "look" /\ UNCHANGED <<popped, returned, live, pending, localTail>>
  BY DEF DequeueLook, NoneTaken
<1>2. \/ /\ h.f < h.t /\ deqPc' = "again" /\ UNCHANGED <<op, publishedAtStart, block_, front_>>
      \/ /\ ~(h.f < h.t) /\ deqPc' = "idle" /\ op' = "none" /\ block_' = 0 /\ front_' = 0
         /\ publishedAtStart' = 0
  BY MoreBlocksMeans DEF DequeueLook, GoTo, InCall, Return
<1>3. publishedAtStart = popped \/ h.f < h.t
  BY <1>1 DEF Inv, CallInv
<1>4. TypeInv'
  <2>1. /\ deqPc' \in {"idle", "look", "again", "next", "advance", "take"}
        /\ (deqPc' # "idle" => op' \in {"remove", "peek"})
        /\ block_' \in Nat /\ front_' \in Nat /\ publishedAtStart' \in Nat
    BY <1>1, <1>2 DEF TypeInv
  <2> QED
    BY <1>1, <2>1 DEF TypeInv, producerVars, blockVars, MaxBlockSize, Size
<1>5. ProducerSide(h)' /\ ConsumerSide(h)'
  BY <1>1, SilentStep
<1>6. ShadowTailInv(h)'
  BY <1>1 DEF Inv, ShadowTailInv
<1>7. CallInv(h)'
  BY <1>2 DEF CallInv
<1> QED
  BY <1>2, <1>3, <1>4, <1>5, <1>6, <1>7 DEF Inv, ProducerSide, ConsumerSide

\* The front block is looked at again.
LEMMA AgainStep ==
  ASSUME TypeInv, NEW h \in History, Inv(h), DequeueAgain,
         UNCHANGED <<producerVars, blockVars, mem, published, removed, shape>>
  PROVE  TypeInv' /\ Inv(h)'
<1>1. /\ deqPc = "again" /\ LookIn(FrontBlock, mem.tail[FrontBlock], "next")
      /\ UNCHANGED <<op, publishedAtStart, popped, returned, live, pending>>
  BY DEF DequeueAgain, NoneTaken, InCall
<1>2. /\ mem.tail[FrontBlock] = h.place[h.f][Reach(h)]
      /\ Reach(h) \in Nat /\ popped <= Reach(h) /\ Reach(h) <= published
      /\ Reach(h) <= h.first[h.f + 1]
  BY FrontTail
<1>3. h.f < h.t /\ Reach(h) = h.first[h.f + 1]
  BY <1>1 DEF Inv, CallInv, Reach
<1>4. /\ localTail' \in [Blocks -> Nat]
      /\ localTail'[h.block[h.f]] = h.place[h.f][Reach(h)]
      /\ \/ /\ deqPc' = "take" /\ block_' = h.block[h.f] /\ front_' = h.place[h.f][popped]
            /\ In(h, h.f, popped) /\ popped < published
            /\ localTail'[block_'] # front_'
         \/ deqPc' = "next" /\ UNCHANGED <<block_, front_>> /\ Reach(h) = popped
      /\ block_' \in Nat /\ front_' \in Nat
  BY <1>1, <1>2, Looked
<1>5. TypeInv'
  BY <1>1, <1>4 DEF TypeInv, producerVars, blockVars, MaxBlockSize, Size
<1>6. ProducerSide(h)' /\ ConsumerSide(h)'
  BY <1>1, SilentStep
<1>7. ShadowTailInv(h)'
  BY <1>1, <1>2, <1>4 DEF ShadowTailInv
<1>8. CallInv(h)'
  <2>1. CASE deqPc' = "take"
    <3>1. h.f \in h.f .. h.t
      BY Counts DEF Shorthands
    <3>2. (popped < published)' /\ In(h, h.f, popped)'
      BY <1>1, <1>4, <2>1 DEF In
    <3> QED
      BY <1>1, <1>4, <2>1, <3>1, <3>2 DEF CallInv
  <2>2. CASE deqPc' = "next" /\ Reach(h) = popped
    BY <1>1, <1>3, <2>2 DEF CallInv
  <2> QED
    BY <1>4, <2>1, <2>2
<1> QED
  BY <1>5, <1>6, <1>7, <1>8 DEF Inv, ProducerSide, ConsumerSide

\* peek returns, or the assignment throws.
LEMMA LeaveStep ==
  ASSUME TypeInv, NEW h \in History, Inv(h), DequeueLeave,
         UNCHANGED <<producerVars, blockVars, mem, published, removed, shape>>
  PROVE  TypeInv' /\ Inv(h)'
<1>1. /\ deqPc' = "idle" /\ op' = "none" /\ block_' = 0 /\ front_' = 0 /\ publishedAtStart' = 0
      /\ UNCHANGED <<popped, returned, live, pending, localTail>>
  BY DEF DequeueLeave, NoneTaken, Return
<1>2. TypeInv'
  BY <1>1 DEF TypeInv, producerVars, blockVars, MaxBlockSize, Size
<1>3. ProducerSide(h)' /\ ConsumerSide(h)'
  BY <1>1, SilentStep
<1>4. ShadowTailInv(h)'
  BY <1>1 DEF Inv, ShadowTailInv
<1>5. CallInv(h)'
  BY <1>1 DEF CallInv
<1> QED
  BY <1>2, <1>3, <1>4, <1>5 DEF Inv, ProducerSide, ConsumerSide

\* The front block is empty and there is another: it is the next one, and has an element.
LEMMA NextBlock ==
  ASSUME TypeInv, NEW h \in History, Inv(h), h.f < h.t, popped = h.first[h.f + 1]
  PROVE  /\ mem.next[FrontBlock] = h.block[h.f + 1]
         /\ FrontOf(h.block[h.f + 1]) = h.place[h.f + 1][popped]
         /\ In(h, h.f + 1, popped) /\ popped < published
         /\ h.block[h.f + 1] \in Blocks /\ h.block[h.f + 1] \in Nat
         /\ h.place[h.f + 1][popped] \in Nat
<1>1. FrontBlock = h.block[h.f] /\ Shorthands(h) /\ VisitInv(h) /\ ProdInv(h) /\ ProducedInv(h)
  BY Counts DEF Inv, ConsInv
<1>2. mem.next[h.block[h.f]] = h.block[h.f + 1]
  BY <1>1, LeftAlone DEF Shorthands
<1>3. h.f + 1 \in h.m .. h.l /\ h.f \in Nat /\ popped < published /\ popped < h.first[h.f + 2]
      /\ (h.f + 1) + 1 = h.f + 2 /\ popped \in Nat
  BY Counts DEF Shorthands
<1>4. FrontAt(h, h.f + 1) = popped
  BY <1>3 DEF FrontAt
<1>5. FrontOf(h.block[h.f + 1]) = h.place[h.f + 1][popped]
  BY <1>3, <1>4 DEF Inv, ConsInv
<1>6. In(h, h.f + 1, popped)
  BY <1>3 DEF In
<1>7. h.block[h.f + 1] \in Blocks /\ h.block[h.f + 1] \in Nat /\ h.place[h.f + 1][popped] \in Nat
  <2>1. h.block[h.f + 1] \in Blocks /\ h.block[h.f + 1] \in Nat
    BY <1>1, <1>3, VisitFacts
  <2>2. h.place \in [Nat -> [Nat -> Nat]]
    BY HistoryFacts
  <2>3. h.f + 1 \in Nat
    BY <1>3
  <2> QED
    BY <1>3, <2>1, <2>2, <2>3
<1> QED
  BY <1>1, <1>2, <1>3, <1>5, <1>6, <1>7

\* The consumer finds the block after its own.
LEMMA NextStep ==
  ASSUME TypeInv, NEW h \in History, Inv(h), DequeueNext,
         UNCHANGED <<producerVars, blockVars, mem, published, removed, shape>>
  PROVE  TypeInv' /\ Inv(h)'
<1>1. /\ deqPc = "next"
      /\ UNCHANGED <<op, publishedAtStart, popped, returned, live, pending, localTail>>
  BY DEF DequeueNext, NoneTaken, InCall
<1>2. h.f < h.t /\ popped = h.first[h.f + 1] /\ op \in {"remove", "peek"}
  BY <1>1 DEF Inv, CallInv, TypeInv
<1>3. /\ mem.next[FrontBlock] = h.block[h.f + 1]
      /\ FrontOf(h.block[h.f + 1]) = h.place[h.f + 1][popped]
      /\ In(h, h.f + 1, popped) /\ popped < published
      /\ h.block[h.f + 1] \in Blocks /\ h.block[h.f + 1] \in Nat
      /\ h.place[h.f + 1][popped] \in Nat
  BY <1>2, NextBlock
<1>4. \/ /\ op = "peek" /\ deqPc' = "take" /\ block_' = h.block[h.f + 1]
         /\ front_' = h.place[h.f + 1][popped]
      \/ op = "remove" /\ deqPc' = "advance" /\ block_' = h.block[h.f + 1] /\ UNCHANGED front_
  BY <1>2, <1>3 DEF DequeueNext, TakeFrom
<1>5. TypeInv'
  BY <1>1, <1>2, <1>3, <1>4 DEF TypeInv, producerVars, blockVars, MaxBlockSize, Size
<1>6. ProducerSide(h)' /\ ConsumerSide(h)'
  BY <1>1, SilentStep
<1>7. ShadowTailInv(h)'
  BY <1>1 DEF Inv, ShadowTailInv
<1>8. CallInv(h)'
  <2>1. CASE deqPc' = "take"
    <3>1. h.f + 1 \in h.f .. h.t
      BY <1>2, Counts
    <3>2. (popped < published)' /\ In(h, h.f + 1, popped)'
      BY <1>1, <1>3 DEF In
    <3> QED
      BY <1>1, <1>4, <2>1, <3>1, <3>2 DEF CallInv
  <2>2. CASE deqPc' = "advance"
    BY <1>1, <1>2, <1>4, <2>2 DEF CallInv
  <2> QED
    BY <1>4, <2>1, <2>2
<1> QED
  BY <1>5, <1>6, <1>7, <1>8 DEF Inv, ProducerSide, ConsumerSide

\* An element belongs to one visit.
LEMMA OneVisit ==
  ASSUME NEW h \in History, VisitInv(h), NEW v \in 0 .. h.l, NEW w \in 0 .. h.l, NEW n \in Nat,
         In(h, v, n), In(h, w, n)
  PROVE  v = w
<1>1. h.l \in Nat /\ h.first \in [Nat -> Nat]
  BY HistoryFacts
<1>2. ASSUME NEW x \in 0 .. h.l, NEW y \in 0 .. h.l, In(h, x, n), In(h, y, n), x < y PROVE FALSE
  <2>1. x + 1 \in 0 .. h.l + 1 /\ y \in 0 .. h.l + 1 /\ x + 1 <= y
    BY <1>1, <1>2
  <2>2. h.first[x + 1] <= h.first[y]
    BY <2>1 DEF VisitInv
  <2>3. h.first[x + 1] \in Nat /\ h.first[y] \in Nat
    BY <1>1, <2>1
  <2> QED
    BY <1>2, <2>2, <2>3 DEF In
<1>3. ~(v < w) /\ ~(w < v)
  BY <1>2
<1> QED
  BY <1>3

\* One store more at the end of a buffer.
LEMMA AppendFacts ==
  ASSUME NEW S, NEW p \in Seq(S), NEW q \in Seq(S)
  PROVE  /\ p \o q \in Seq(S) /\ Len(p \o q) = Len(p) + Len(q)
         /\ Len(p) \in Nat /\ Len(q) \in Nat
         /\ \A j \in 1 .. Len(p) : (p \o q)[j] = p[j]
         /\ \A j \in 1 .. Len(q) : (p \o q)[Len(p) + j] = q[j]
         /\ \A j \in 1 .. Len(p \o q) : j > Len(p) =>
              (p \o q)[j] = q[j - Len(p)] /\ j - Len(p) \in 1 .. Len(q)
BY ConcatProperties

\* A thread's stores go to its own buffer.
LEMMA StoresFacts ==
  ASSUME TypeInv, NEW t \in Threads, NEW q \in Seq(AnyStore), Stores(t, q)
  PROVE  /\ pending' \in [Threads -> Seq(AnyStore)]
         /\ pending'[t] = pending[t] \o q
         /\ \A u \in Threads : u # t => pending'[u] = pending[u]
<1>1. pending \in [Threads -> Seq(AnyStore)]
  BY DEF TypeInv
<1>2. pending[t] \o q \in Seq(AnyStore)
  BY <1>1, ConcatProperties
<1> QED
  BY <1>1, <1>2 DEF Stores

\* One store more at the end of a buffer.
LEMMA OrderedAppend ==
  ASSUME NEW S, NEW p \in Seq(S), Ordered(p), NEW s \in S,
         \A j \in 1 .. Len(p) : Before(p[j], s)
  PROVE  Ordered(p \o <<s>>)
<1> DEFINE q == <<s>>
<1> DEFINE r == p \o q
<1>1. q \in Seq(S) /\ Len(q) = 1 /\ q[1] = s
  OBVIOUS
<1> HIDE DEF q
<1>2. /\ Len(r) = Len(p) + 1 /\ Len(p) \in Nat
      /\ \A j \in 1 .. Len(p) : r[j] = p[j]
      /\ r[Len(p) + 1] = s
  BY <1>1, AppendFacts
<1> HIDE DEF r
<1>3. ASSUME NEW i \in 1 .. Len(r), NEW j \in 1 .. Len(r), i < j PROVE Before(r[i], r[j])
  <2>1. i \in 1 .. Len(p)
    BY <1>2, <1>3
  <2>2. CASE j \in 1 .. Len(p)
    BY <1>2, <1>3, <2>1, <2>2 DEF Ordered
  <2>3. CASE j = Len(p) + 1
    BY <1>2, <2>1, <2>3
  <2> QED
    BY <1>2, <2>2, <2>3
<1>4. Ordered(r)
  BY <1>3 DEF Ordered
<1> QED
  BY <1>4 DEF r, q

\* One store of the consumer: to its buffer, seen by itself only.
LEMMA ConsumerStores ==
  ASSUME TypeInv, NEW s \in AnyStore, Stores("consumer", <<s>>), mem' = mem
  PROVE  /\ pending' \in [Threads -> Seq(AnyStore)] /\ Pp' = Pp /\ Pc' = Pc \o <<s>>
         /\ Len(Pc) \in Nat /\ Len(Pc') = Len(Pc) + 1 /\ Pc'[Len(Pc) + 1] = s
         /\ \A i \in 1 .. Len(Pc) : Pc'[i] = Pc[i]
         /\ \A i \in 1 .. Len(Pc') : i \in 1 .. Len(Pc) \/ i = Len(Pc) + 1
         /\ Pc \in Seq(AnyStore)
         /\ FrontBlock' = IF Is(s, "block", "front") THEN s.value ELSE FrontBlock
         /\ \A b : FrontOf(b)' = IF Is(s, "front", b) THEN s.value ELSE FrontOf(b)
<1> DEFINE q == <<s>>
<1>1. q \in Seq(AnyStore) /\ Len(q) = 1 /\ q[1] = s
  OBVIOUS
<1> HIDE DEF q
<1>2. pending \in [Threads -> Seq(AnyStore)] /\ Pc \in Seq(AnyStore) /\ "consumer" \in Threads
      /\ "producer" \in Threads
  BY DEF TypeInv, Pc, Threads
<1>3. Stores("consumer", q)
  BY DEF q
<1>4. /\ pending' \in [Threads -> Seq(AnyStore)] /\ Pp' = Pp
      /\ Pc' = Pc \o q
  BY <1>1, <1>2, <1>3, StoresFacts DEF Pc, Pp
<1>5. /\ Len(Pc) \in Nat /\ Len(Pc') = Len(Pc) + 1 /\ Pc'[Len(Pc) + 1] = s
      /\ \A i \in 1 .. Len(Pc) : Pc'[i] = Pc[i]
  <2> DEFINE p == Pc
  <2> DEFINE r == Pc'
  <2>1. p \in Seq(AnyStore) /\ r = p \o q
    BY <1>2, <1>4
  <2> HIDE DEF p, r
  <2>2. /\ Len(p) \in Nat /\ Len(r) = Len(p) + Len(q)
        /\ \A j \in 1 .. Len(p) : r[j] = p[j]
        /\ \A j \in 1 .. Len(q) : r[Len(p) + j] = q[j]
    <3>1. q \in Seq(AnyStore)
      BY <1>1
    <3>2. /\ Len(p) \in Nat /\ Len(p \o q) = Len(p) + Len(q)
          /\ \A j \in 1 .. Len(p) : (p \o q)[j] = p[j]
          /\ \A j \in 1 .. Len(q) : (p \o q)[Len(p) + j] = q[j]
      BY <2>1, <3>1, AppendFacts
    <3> QED
      BY Zenon, <2>1, <3>2
  <2>3. Len(r) = Len(p) + 1 /\ r[Len(p) + 1] = s
    BY <1>1, <2>2
  <2> QED
    BY <2>2, <2>3 DEF p, r
<1>6. \A var, at : ~Is(s, var, at) => NoneTo(q, var, at)
  BY <1>1 DEF NoneTo
<1>7. \A var, at : Is(s, var, at) => LastTo(q, 1, var, at)
  BY <1>1 DEF LastTo
<1>8. ASSUME NEW var, NEW at
      PROVE  View(mem, Pc', var, at) = IF Is(s, var, at) THEN s.value ELSE View(mem, Pc, var, at)
  <2>1. CASE Is(s, var, at)
    BY <1>1, <1>2, <1>4, <1>7, <2>1, ViewAppendTo
  <2>2. CASE ~Is(s, var, at)
    BY <1>1, <1>2, <1>4, <1>6, <2>2, ViewAppendOther
  <2> QED
    BY <2>1, <2>2
<1>9. FrontBlock' = IF Is(s, "block", "front") THEN s.value ELSE FrontBlock
  BY <1>8 DEF FrontBlock, Own, Pc
<1>10. \A b : FrontOf(b)' = IF Is(s, "front", b) THEN s.value ELSE FrontOf(b)
  BY <1>8 DEF FrontOf, Own, Pc
<1>11. \A i \in 1 .. Len(Pc') : i \in 1 .. Len(Pc) \/ i = Len(Pc) + 1
  BY <1>5
<1> QED
  BY <1>2, <1>4, <1>5, <1>9, <1>10, <1>11 DEF q

Same(g, h) ==
  /\ g.block = h.block /\ g.first = h.first /\ g.place = h.place /\ g.kept = h.kept
  /\ g.m = h.m /\ g.t = h.t /\ g.l = h.l

\* Where the consumer is by its own account is nothing to the producer.
LEMMA ProducerSideSame ==
  ASSUME NEW g \in History, NEW h \in History, Same(g, h), g.m <= g.f, g.f <= g.t,
         ProducerSide(h)
  PROVE  ProducerSide(g)
<1> USE DEF ProducerSide, Same
<1>1. VisitInv(g)
  BY DEF VisitInv
<1>2. ProdInv(g)
  BY DEF ProdInv
<1>3. RoomInv(g) /\ ShadowFrontInv(g)
  BY DEF RoomInv, ShadowFrontInv, LeftAt
<1>4. CircleInv(g)
  BY DEF CircleInv
<1>5. KeptInv(g) /\ ToComeInv
  BY DEF KeptInv, ToComeInv
<1>6. Ordered(Pp)
  OBVIOUS
<1>7. ProducedInv(g)
  BY DEF ProducedInv, In, Produced
<1>8. ToPublishInv(g)
  BY DEF ToPublishInv
<1>9. ReuseInv(g)
  BY DEF ReuseInv
<1> QED
  BY <1>1, <1>2, <1>3, <1>4, <1>5, <1>6, <1>7, <1>8, <1>9

\* The consumer goes on to the next block.
LEMMA AdvanceStep ==
  ASSUME TypeInv, NEW h \in History, Inv(h), DequeueAdvance,
         UNCHANGED <<producerVars, blockVars, mem, published, removed, shape>>
  PROVE  TypeInv' /\ \E g \in History : Inv(g)'
<1> PICK s : s = Store("block", "front", block_, popped)
  OBVIOUS
<1>1. /\ deqPc = "advance"
      /\ localTail' = [localTail EXCEPT ![block_] = mem.tail[block_]]
      /\ Stores("consumer", <<s>>)
      /\ deqPc' = "take" /\ block_' = block_ /\ front_' = FrontOf(block_)
      /\ UNCHANGED <<op, publishedAtStart, popped, returned, live>>
  BY DEF DequeueAdvance, NoneTaken, InCall, TakeFrom
<1>2. /\ h.f < h.t /\ popped = h.first[h.f + 1] /\ block_ = h.block[h.f + 1] /\ op = "remove"
  BY <1>1 DEF Inv, CallInv
<1>3. /\ FrontOf(h.block[h.f + 1]) = h.place[h.f + 1][popped]
      /\ In(h, h.f + 1, popped) /\ popped < published
      /\ h.block[h.f + 1] \in Blocks /\ h.block[h.f + 1] \in Nat
      /\ h.place[h.f + 1][popped] \in Nat
  BY <1>2, NextBlock
<1>4. /\ s \in AnyStore /\ s.of = popped /\ s.value = block_ /\ s.var = "block" /\ s.at = "front"
      /\ Is(s, "block", "front") /\ \A b : ~Is(s, "front", b)
  <2>1. popped \in Nat /\ block_ \in Nat
    BY DEF TypeInv
  <2>2. s \in AnyStore
    BY <2>1 DEF AnyStore, Store
  <2> QED
    BY <2>2 DEF Store, Is
<1>5. /\ pending' \in [Threads -> Seq(AnyStore)] /\ Pp' = Pp
      /\ Len(Pc) \in Nat /\ Len(Pc') = Len(Pc) + 1 /\ Pc'[Len(Pc) + 1] = s
      /\ \A i \in 1 .. Len(Pc) : Pc'[i] = Pc[i]
      /\ \A i \in 1 .. Len(Pc') : i \in 1 .. Len(Pc) \/ i = Len(Pc) + 1
      /\ Pc \in Seq(AnyStore) /\ Pc' = Pc \o <<s>>
      /\ FrontBlock' = block_
      /\ \A b : FrontOf(b)' = FrontOf(b)
  BY <1>1, <1>4, ConsumerStores
<1>6. Shorthands(h) /\ VisitInv(h) /\ h.first[h.f] < popped /\ h.f + 1 \in h.m .. h.l
      /\ h.f + 1 \in Nat /\ (h.f + 1) + 1 = h.f + 2 /\ popped \in Nat
  <2>1. Shorthands(h) /\ VisitInv(h) /\ popped \in Nat /\ h.f + 1 \in h.m .. h.l
    BY <1>2, Counts
  <2>2. h.f \in 0 .. h.l /\ 0 < h.l
    BY <1>2, <2>1 DEF Shorthands
  <2>3. h.first[h.f] < h.first[h.f + 1]
    BY <2>1, <2>2 DEF VisitInv
  <2> QED
    BY <1>2, <2>1, <2>3 DEF Shorthands
<1>7. PICK g \in History : Same(g, h) /\ g.f = h.f + 1
  <2> DEFINE g == [h EXCEPT !.f = h.f + 1]
  <2>1. g \in History
    BY <1>6 DEF History
  <2> QED
    BY <2>1 DEF Same, History
<1>8. g.m <= g.f /\ g.f <= g.t
  BY <1>2, <1>6, <1>7 DEF Same, Shorthands
<1>9. ProducerSide(g)'
  <2>1. ProducerSide(g)
    BY <1>7, <1>8, InvIsParts, ProducerSideSame DEF InvParts
  <2> QED
    BY <1>1, <1>5, <2>1, ProducerSideKept DEF producerVars, blockVars
<1>10. PICK y \in Nat : /\ mem.tail[block_] = h.place[h.f + 1][y]
                        /\ popped < y /\ y <= published /\ y <= h.first[h.f + 2]
  <2> DEFINE z == IF h.f + 1 < h.t THEN h.first[h.f + 2] ELSE published
  <2>1. ProdInv(h) /\ h.f + 1 \in h.m .. h.t
    BY <1>2, <1>6 DEF Inv, Shorthands
  <2>2. mem.tail[block_] = h.place[h.f + 1][z]
    BY <1>2, <1>6, <2>1 DEF ProdInv
  <2>3. h.first[h.f + 2] \in Nat /\ published \in Nat /\ popped < h.first[h.f + 2]
    BY <1>2, Counts
  <2>4. CASE h.f + 1 < h.t
    <3>1. h.f + 2 \in 0 .. h.l + 1 /\ h.t \in 0 .. h.l + 1 /\ h.f + 2 <= h.t
      BY <1>6, <2>4 DEF Shorthands
    <3>2. h.first[h.f + 2] <= h.first[h.t] /\ h.first[h.t] <= published /\ h.first[h.t] \in Nat
      BY <1>6, <2>1, <3>1, HistoryFacts DEF VisitInv, ProdInv
    <3> QED
      BY <2>2, <2>3, <2>4, <3>2
  <2>5. CASE h.f + 1 = h.t
    <3>1. published <= h.first[h.f + 2]
      BY <1>6, <2>1, <2>5 DEF ProdInv
    <3> QED
      BY <1>3, <1>6, <2>2, <2>3, <2>5, <3>1 DEF Shorthands
  <2> QED
    BY <1>2, <1>6, <2>4, <2>5 DEF Shorthands
<1>11. h.place[h.f + 1][popped] # h.place[h.f + 1][y]
  <2>1. LeftAt(h, h.f + 1) = popped
    BY <1>2, <1>6 DEF LeftAt, Shorthands
  <2> QED
    BY <1>6, <1>10, <2>1, Apart DEF Inv
<1>12. localTail' \in [Blocks -> Nat] /\ localTail'[block_] = h.place[h.f + 1][y]
  <2>1. mem.tail[block_] \in Nat /\ block_ \in Blocks /\ localTail \in [Blocks -> Nat]
    BY <1>2, <1>3 DEF TypeInv
  <2> QED
    BY <1>1, <1>10, <2>1
<1>13. TypeInv'
  BY <1>1, <1>2, <1>3, <1>5, <1>12 DEF TypeInv, producerVars, blockVars, MaxBlockSize, Size
<1>14. \A v \in Nat : v \in h.m .. h.l => FrontAt(g, v)' = FrontAt(h, v) /\ LeftAt(g, v)' = LeftAt(h, v)
  BY <1>1, <1>2, <1>6, <1>7 DEF FrontAt, LeftAt, Same, Shorthands
<1>15. ConsInv(g)'
  <2>1. ConsInv(h)
    BY DEF Inv
  <2>2. FrontBlock' = g.block[g.f] /\ mem.block["front"] = g.block[g.m]
    BY <1>2, <1>5, <1>7, <2>1 DEF ConsInv, Same
  <2>3. g.first[g.f] <= popped /\ popped <= g.first[g.f + 1]
    BY <1>2, <1>3, <1>6, <1>7, Counts DEF Same
  <2>4. \A v \in h.m .. h.l : v \in Nat
    BY <1>6 DEF Shorthands
  <2>5. \A v \in g.m .. g.l : FrontOf(g.block[v])' = g.place[v][FrontAt(g, v)']
    BY <1>5, <1>7, <1>14, <2>1, <2>4 DEF ConsInv, Same
  <2>6. \A v \in g.m .. g.l : mem.front[g.block[v]] = g.place[v][LeftAt(g, v)']
    BY <1>7, <1>14, <2>1, <2>4 DEF ConsInv, Same
  <2> QED
    BY <1>1, <1>7, <2>1, <2>2, <2>3, <2>5, <2>6 DEF ConsInv, Same, producerVars
<1>16. SpareInv(g)'
  <2>1. \A b : TailOf(b)' = TailOf(b)
    BY <1>5, ProducerSees
  <2> QED
    BY <1>5, <1>7, <2>1 DEF Inv, SpareInv, Spare, Same, blockVars
<1>17. ConsumedInv(h)
  BY DEF Inv
<1>18. Ordered(Pc)'
  <2>1. ASSUME NEW i \in 1 .. Len(Pc) PROVE Before(Pc[i], s)
    <3>1. PICK v \in h.m .. h.f : Consumed(h, Pc[i], v)
      BY <1>17 DEF ConsumedInv
    <3>2. CASE Pc[i].var = "front" /\ Pc[i].of \in removed .. popped - 1
      BY <1>4, <1>6, <3>2, Counts DEF Before
    <3>3. CASE Pc[i].var = "block" /\ Pc[i].of = h.first[v]
      <4>1. v \in 0 .. h.l + 1 /\ h.f \in 0 .. h.l + 1 /\ v <= h.f
        BY <1>6 DEF Shorthands
      <4>2. h.first[v] <= h.first[h.f]
        BY <1>6, <4>1 DEF VisitInv
      <4>3. h.first[v] \in Nat /\ h.first[h.f] \in Nat
        <5>1. v \in Nat /\ h.f \in Nat
          BY <1>6 DEF Shorthands
        <5> QED
          BY <5>1, HistoryFacts
      <4> QED
        BY <1>4, <1>6, <3>3, <4>2, <4>3 DEF Before
    <3> QED
      BY <3>1, <3>2, <3>3 DEF Consumed
  <2>2. Ordered(Pc \o <<s>>)
    BY <1>4, <1>5, <2>1, OrderedAppend DEF Inv
  <2> QED
    BY <1>5, <2>2 DEF Ordered
<1>19. ConsumedInv(g)'
  <2>1. ASSUME NEW i \in 1 .. Len(Pc'), NEW x, x = Pc'[i] PROVE \E v \in g.m .. g.f : Consumed(g, x, v)'
    <3>1. CASE i \in 1 .. Len(Pc)
      <4>1. PICK v \in h.m .. h.f : Consumed(h, Pc[i], v)
        BY <1>17, <3>1 DEF ConsumedInv
      <4>2. v \in g.m .. g.f
        BY <1>6, <1>7 DEF Same, Shorthands
      <4> QED
        BY <1>1, <1>5, <1>7, <2>1, <3>1, <4>1, <4>2 DEF Consumed, In, Same
    <3>2. CASE i = Len(Pc) + 1
      <4>1. g.f \in g.m .. g.f /\ g.f > g.m
        BY <1>6, <1>7 DEF Same, Shorthands
      <4>2. Consumed(g, s, g.f)'
        BY <1>1, <1>2, <1>4, <1>7, <4>1 DEF Consumed, Same
      <4>3. x = s
        BY <1>5, <2>1, <3>2
      <4> QED
        BY <4>1, <4>2, <4>3
    <3> QED
      BY <1>5, <3>1, <3>2
  <2> QED
    BY <2>1 DEF ConsumedInv, Consumed
<1>20. ToRemoveInv(g)'
  <2>1. ToRemoveInv(h) /\ h.m \in Nat /\ h.f \in Nat /\ h.m <= h.f
    BY <1>6 DEF Inv, Shorthands
  <2>2. \A i \in 1 .. Len(Pc) : i \in 1 .. Len(Pc')
    BY <1>5
  <2>3. Len(Pc) + 1 \in 1 .. Len(Pc')
    BY <1>5
  <2>4. ASSUME NEW v \in g.m + 1 .. g.f
        PROVE  \E i \in 1 .. Len(Pc') : Pc'[i].of = g.first[v] /\ Pc'[i].var = "block"
    <3>1. CASE v = g.f
      BY <1>2, <1>4, <1>5, <1>7, <2>3, <3>1 DEF Same
    <3>2. CASE v # g.f
      <4>1. v \in h.m + 1 .. h.f
        BY <1>7, <2>1, <3>2 DEF Same
      <4> QED
        BY <1>5, <1>7, <2>1, <2>2, <4>1 DEF ToRemoveInv, Same
    <3> QED
      BY <3>1, <3>2
  <2>5. ASSUME NEW n \in removed .. popped - 1
        PROVE  \E i \in 1 .. Len(Pc') : Pc'[i].of = n /\ Pc'[i].var = "front"
    BY <1>5, <2>1, <2>2 DEF ToRemoveInv
  <2> QED
    BY <1>1, <2>4, <2>5 DEF ToRemoveInv
<1>21. DataInv(g)'
  <2>1. \A v \in g.f .. g.l : v \in h.f .. h.l
    BY <1>6, <1>7 DEF Same, Shorthands
  <2> QED
    BY <1>1, <1>5, <1>7, <2>1 DEF Inv, DataInv, In, Same
<1>22. LiveInv(g)'
  <2>1. ASSUME NEW x \in live
        PROVE  \E v \in g.f .. g.l : \E n \in Nat :
                 In(g, v, n) /\ popped <= n /\ x = <<g.block[v], g.place[v][n]>>
    <3>1. PICK v \in h.f .. h.l, n \in Nat :
            In(h, v, n) /\ popped <= n /\ x = <<h.block[v], h.place[v][n]>>
      BY DEF Inv, LiveInv
    <3>2. v # h.f
      BY <1>2, <1>6, <3>1 DEF In
    <3>3. v \in g.f .. g.l
      BY <1>6, <1>7, <3>2 DEF Same, Shorthands
    <3> QED
      BY <1>7, <3>1, <3>3 DEF In, Same
  <2> QED
    BY <1>1, <2>1 DEF LiveInv, In
<1>23. ShadowTailInv(g)'
  BY <1>1, <1>2, <1>6, <1>7, <1>10, <1>12 DEF ShadowTailInv, Same
<1>24. CallInv(g)'
  <2>1. g.f \in g.f .. g.t
    BY <1>6, <1>7, <1>8 DEF Same, Shorthands
  <2>2. In(g, g.f, popped)' /\ (popped < published)'
    BY <1>1, <1>3, <1>7 DEF In, Same
  <2>3. block_' = g.block[g.f] /\ front_' = g.place[g.f][popped'] /\ localTail'[block_'] # front_'
    BY <1>1, <1>2, <1>3, <1>7, <1>11, <1>12 DEF Same
  <2> QED
    BY <1>1, <2>1, <2>2, <2>3 DEF CallInv
<1>25. Inv(g)'
  BY <1>9, <1>15, <1>16, <1>18, <1>19, <1>20, <1>21, <1>22, <1>23, <1>24 DEF Inv, ProducerSide
<1> QED
  BY <1>13, <1>25

\* The consumer takes an element.
LEMMA TakeStep ==
  ASSUME TypeInv, NEW h \in History, Inv(h), DequeueTake,
         UNCHANGED <<producerVars, blockVars, mem, published, removed, shape>>
  PROVE  TypeInv' /\ Inv(h)'
<1> PICK s : s = Store("front", block_, After(block_, front_), popped)
  OBVIOUS
<1>1. /\ deqPc = "take" /\ op = "remove"
      /\ popped' = popped + 1
      /\ live' = live \ {<<block_, front_>>}
      /\ Stores("consumer", <<s>>)
      /\ deqPc' = "idle" /\ op' = "none" /\ block_' = 0 /\ front_' = 0 /\ publishedAtStart' = 0
      /\ localTail' = localTail
  BY DEF DequeueTake, Return
<1>2. /\ block_ = h.block[h.f] /\ front_ = h.place[h.f][popped] /\ In(h, h.f, popped)
      /\ popped < published /\ localTail[block_] # front_
  BY <1>1 DEF Inv, CallInv
<1>3. /\ Shorthands(h) /\ VisitInv(h) /\ popped \in Nat /\ published \in Nat /\ removed \in Nat
      /\ removed <= popped /\ h.first[h.f] \in Nat /\ h.first[h.f + 1] \in Nat
      /\ LeftAt(h, h.f) \in Nat /\ LeftAt(h, h.f) <= popped
  BY Counts
<1>4. h.m \in Nat /\ h.f \in Nat /\ h.l \in Nat /\ h.f \in h.m .. h.l /\ h.m <= h.f /\ h.f <= h.l
  BY <1>3 DEF Shorthands
<1>5. /\ block_ \in Nat /\ block_ \in Blocks /\ After(block_, front_) = h.place[h.f][popped + 1]
      /\ h.place[h.f][popped + 1] \in Nat
  <2>1. /\ h.block[h.f] \in Nat /\ h.block[h.f] \in Blocks
        /\ \A n \in Nat : /\ h.place[h.f][n] \in Nat
                          /\ h.place[h.f][n + 1] = (h.place[h.f][n] + 1) % blockSize[h.block[h.f]]
    BY <1>3, <1>4, VisitFacts
  <2>2. h.place[h.f][popped + 1] \in Nat
    BY <1>3, <2>1
  <2> QED
    BY <1>2, <1>3, <2>1, <2>2 DEF After
<1>6. /\ s \in AnyStore /\ s.of = popped /\ s.value = h.place[h.f][popped + 1]
      /\ s.var = "front" /\ s.at = block_
      /\ ~Is(s, "block", "front") /\ Is(s, "front", block_) /\ \A b : b # block_ => ~Is(s, "front", b)
  <2>1. s \in AnyStore
    BY <1>3, <1>5 DEF AnyStore, Store
  <2> QED
    BY <1>5, <2>1 DEF Store, Is
<1>7. /\ pending' \in [Threads -> Seq(AnyStore)] /\ Pp' = Pp
      /\ Len(Pc) \in Nat /\ Len(Pc') = Len(Pc) + 1 /\ Pc'[Len(Pc) + 1] = s
      /\ \A i \in 1 .. Len(Pc) : Pc'[i] = Pc[i]
      /\ \A i \in 1 .. Len(Pc') : i \in 1 .. Len(Pc) \/ i = Len(Pc) + 1
      /\ Pc \in Seq(AnyStore) /\ Pc' = Pc \o <<s>>
      /\ FrontBlock' = FrontBlock
      /\ \A b : FrontOf(b)' = IF b = block_ THEN h.place[h.f][popped + 1] ELSE FrontOf(b)
  BY <1>1, <1>6, ConsumerStores
<1>8. ProducerSide(h)'
  BY <1>1, <1>7, InvIsParts, ProducerSideKept DEF producerVars, blockVars, InvParts
<1>9. TypeInv'
  <2>1. pending' \in [Threads -> Seq(AnyStore)]
    BY <1>7
  <2>2. popped + 1 \in Nat
    BY <1>3
  <2> QED
    BY <1>1, <2>1, <2>2 DEF TypeInv, producerVars, blockVars, MaxBlockSize, Size
<1>10. \A v \in Nat : FrontAt(h, v)' = IF v = h.f THEN popped + 1 ELSE FrontAt(h, v)
  BY <1>1, <1>4 DEF FrontAt
<1>11. \A v \in h.m .. h.l : v \in Nat /\ (h.block[v] = block_ => v = h.f)
  BY <1>2, <1>3, <1>4 DEF VisitInv
<1>12. ConsInv(h)'
  <2>1. ConsInv(h)
    BY DEF Inv
  <2>2. h.first[h.f] <= popped + 1 /\ popped + 1 <= h.first[h.f + 1]
    BY <1>2, <1>3 DEF In
  <2>3. \A v \in h.m .. h.l : FrontOf(h.block[v])' = h.place[v][FrontAt(h, v)']
    BY <1>2, <1>7, <1>10, <1>11, <2>1 DEF ConsInv
  <2>4. \A v \in h.m .. h.l : mem.front[h.block[v]] = h.place[v][LeftAt(h, v)']
    BY <2>1 DEF ConsInv, LeftAt
  <2>5. removed <= popped + 1 /\ popped + 1 <= published
    BY <1>2, <1>3
  <2> QED
    BY <1>1, <1>7, <2>1, <2>2, <2>3, <2>4, <2>5 DEF ConsInv, producerVars
<1>13. ShadowTailInv(h)'
  <2>1. PICK y \in Nat : /\ localTail[h.block[h.f]] = h.place[h.f][y]
                         /\ popped <= y /\ y <= published /\ y <= h.first[h.f + 1]
    BY DEF Inv, ShadowTailInv
  <2>2. popped + 1 <= y
    BY <1>2, <1>3, <2>1
  <2> QED
    BY <1>1, <2>1, <2>2 DEF ShadowTailInv
<1>14. SpareInv(h)'
  <2>1. \A b : TailOf(b)' = TailOf(b)
    BY <1>7, ProducerSees
  <2>2. \A b \in h.kept : Spare(h, b) => FrontOf(b)' = FrontOf(b)
    BY <1>2, <1>4, <1>7 DEF Spare
  <2> QED
    BY <2>1, <2>2 DEF Inv, SpareInv, Spare, blockVars
<1>15. ConsumedInv(h)
  BY DEF Inv
<1>16. Ordered(Pc)'
  <2>1. ASSUME NEW i \in 1 .. Len(Pc) PROVE Before(Pc[i], s)
    <3>1. PICK v \in h.m .. h.f : Consumed(h, Pc[i], v)
      BY <1>15 DEF ConsumedInv
    <3>2. CASE Pc[i].var = "front" /\ Pc[i].of \in removed .. popped - 1
      BY <1>3, <1>6, <3>2 DEF Before
    <3>3. CASE Pc[i].var = "block" /\ Pc[i].of = h.first[v]
      <4>1. v \in 0 .. h.l + 1 /\ h.f \in 0 .. h.l + 1 /\ v <= h.f /\ v \in Nat
        BY <1>4
      <4>2. h.first[v] <= h.first[h.f]
        BY <1>3, <4>1 DEF VisitInv
      <4>3. h.first[v] \in Nat
        BY <4>1, HistoryFacts
      <4>4. h.first[h.f] <= popped
        BY <1>2 DEF In
      <4> QED
        BY <1>3, <1>6, <3>3, <4>2, <4>3, <4>4 DEF Before, Rank
    <3> QED
      BY <3>1, <3>2, <3>3 DEF Consumed
  <2>2. Ordered(Pc \o <<s>>)
    BY <1>6, <1>7, <2>1, OrderedAppend DEF Inv
  <2> QED
    BY <1>7, <2>2 DEF Ordered
<1>17. ConsumedInv(h)'
  <2>1. ASSUME NEW i \in 1 .. Len(Pc'), NEW x, x = Pc'[i] PROVE \E v \in h.m .. h.f : Consumed(h, x, v)'
    <3>1. CASE i \in 1 .. Len(Pc)
      <4>1. PICK v \in h.m .. h.f : Consumed(h, Pc[i], v)
        BY <1>15, <3>1 DEF ConsumedInv
      <4>2. removed .. popped - 1 \subseteq removed .. popped' - 1
        BY <1>1, <1>3
      <4>3. x = Pc[i]
        BY <1>7, <2>1, <3>1
      <4>4. Consumed(h, x, v)'
        BY <4>1, <4>2, <4>3 DEF Consumed, In
      <4> QED
        BY <4>4
    <3>2. CASE i = Len(Pc) + 1
      <4>1. h.f \in h.m .. h.f
        BY <1>4
      <4>2. popped \in removed .. popped' - 1
        BY <1>1, <1>3
      <4>3. Consumed(h, s, h.f)'
        BY <1>2, <1>6, <4>2 DEF Consumed, In
      <4>4. x = s
        BY <1>7, <2>1, <3>2
      <4> QED
        BY <4>1, <4>3, <4>4
    <3> QED
      BY <1>7, <3>1, <3>2
  <2> QED
    BY <2>1 DEF ConsumedInv, Consumed
<1>18. ToRemoveInv(h)'
  <2>1. ToRemoveInv(h)
    BY DEF Inv
  <2>2. \A i \in 1 .. Len(Pc) : i \in 1 .. Len(Pc')
    BY <1>7
  <2>3. Len(Pc) + 1 \in 1 .. Len(Pc')
    BY <1>7
  <2>4. ASSUME NEW n \in removed .. popped' - 1
        PROVE  \E i \in 1 .. Len(Pc') : Pc'[i].of = n /\ Pc'[i].var = "front"
    <3>1. CASE n = popped
      BY <1>6, <1>7, <2>3, <3>1
    <3>2. CASE n # popped
      <4>1. n \in removed .. popped - 1
        BY <1>1, <1>3, <3>2
      <4> QED
        BY <1>7, <2>1, <2>2, <4>1 DEF ToRemoveInv
    <3> QED
      BY <3>1, <3>2
  <2>5. ASSUME NEW v \in h.m + 1 .. h.f
        PROVE  \E i \in 1 .. Len(Pc') : Pc'[i].of = h.first[v] /\ Pc'[i].var = "block"
    BY <1>7, <2>1, <2>2 DEF ToRemoveInv
  <2> QED
    BY <2>4, <2>5 DEF ToRemoveInv
<1>19. DataInv(h)'
  <2>1. ASSUME NEW v \in h.f .. h.l, NEW n \in Nat, In(h, v, n), popped + 1 <= n
        PROVE  <<h.block[v], h.place[v][n]>> # <<block_, front_>>
    <3>1. SUFFICES ASSUME h.block[v] = block_, h.place[v][n] = front_ PROVE FALSE
      OBVIOUS
    <3>2. v \in h.m .. h.l
      BY <1>4
    <3>3. v = h.f
      BY <1>11, <3>1, <3>2
    <3>4. popped <= n /\ n <= h.first[h.f + 1]
      BY <1>3, <2>1, <3>3 DEF In
    <3>5. RoomInv(h) /\ h.place[h.f][popped] = h.place[h.f][n]
      BY <1>2, <3>1, <3>3 DEF Inv
    <3>6. popped = n
      BY <1>3, <1>4, <3>4, <3>5, Apart
    <3> QED
      BY <1>3, <2>1, <3>6
  <2>2. \A n \in Nat : popped + 1 <= n => popped <= n
    BY <1>3
  <2> QED
    BY <1>1, <1>7, <2>1, <2>2 DEF Inv, DataInv, In
<1>20. LiveInv(h)'
  <2>1. ASSUME NEW x \in live, x # <<block_, front_>>
        PROVE  \E v \in h.f .. h.l : \E n \in Nat :
                 In(h, v, n) /\ popped + 1 <= n /\ x = <<h.block[v], h.place[v][n]>>
    <3>1. PICK v \in h.f .. h.l, n \in Nat :
            In(h, v, n) /\ popped <= n /\ x = <<h.block[v], h.place[v][n]>>
      BY DEF Inv, LiveInv
    <3>2. ASSUME n = popped PROVE FALSE
      <4>1. v \in 0 .. h.l /\ h.f \in 0 .. h.l
        BY <1>4
      <4>2. v = h.f
        BY <1>2, <1>3, <3>1, <3>2, <4>1, OneVisit
      <4> QED
        BY <1>2, <2>1, <3>1, <3>2, <4>2
    <3>3. popped + 1 <= n
      BY <1>3, <3>1, <3>2
    <3> QED
      BY <3>1, <3>3
  <2> QED
    BY <1>1, <2>1 DEF LiveInv, In
<1>21. CallInv(h)'
  BY <1>1 DEF CallInv
<1> QED
  BY <1>8, <1>9, <1>12, <1>13, <1>14, <1>16, <1>17, <1>18, <1>19, <1>20, <1>21 DEF Inv, ProducerSide
------------------------------------------------------------------------------
(***************************************************************************)
(* The producer. A step without an element leaves the history as it is;    *)
(* one with an element adds it to the last visit, or begins a visit to a   *)
(* block that has been left or that is new.                                *)
(***************************************************************************)

\* The parts of the invariant that no shadow copy of the front matters to.
ProducerRest(h) ==
  /\ VisitInv(h) /\ ProdInv(h) /\ RoomInv(h) /\ CircleInv(h) /\ KeptInv(h)
  /\ Ordered(Pp) /\ ProducedInv(h) /\ ToPublishInv(h)

\* They stay while memory and the producer's buffer do.
LEMMA ProducerRestKept ==
  ASSUME NEW h \in History, ProducerRest(h), mem' = mem, Pp' = Pp,
         UNCHANGED <<blocks, blockSize, shape, pushed, published, removed>>
  PROVE  ProducerRest(h)'
<1> USE DEF ProducerRest
<1>0. /\ TailBlock' = TailBlock
      /\ \A b : TailOf(b)' = TailOf(b)
      /\ \A b : NextOf(b)' = NextOf(b)
  BY ProducerSees
<1>1. VisitInv(h)'
  BY DEF VisitInv
<1>2. ProdInv(h)'
  BY <1>0 DEF ProdInv
<1>3. RoomInv(h)'
  BY DEF RoomInv, LeftAt
<1>4. CircleInv(h)'
  BY <1>0 DEF CircleInv
<1>5. KeptInv(h)'
  BY DEF KeptInv, MaxBlockSize, Size
<1>6. Ordered(Pp)'
  BY DEF Ordered
<1>7. ProducedInv(h)'
  BY DEF ProducedInv
<1>8. ToPublishInv(h)'
  BY DEF ToPublishInv
<1> QED
  BY <1>1, <1>2, <1>3, <1>4, <1>5, <1>6, <1>7, <1>8

\* The tail block, as the producer knows it.
LEMMA TailFacts ==
  ASSUME TypeInv, NEW h \in History, Inv(h)
  PROVE  /\ TailBlock = h.block[h.l] /\ h.block[h.l] \in Blocks /\ h.block[h.l] \in Nat
         /\ h.block[h.l] \in h.kept /\ h.block[h.l] < blocks
         /\ TailOf(TailBlock) = h.place[h.l][pushed]
         /\ After(TailBlock, TailOf(TailBlock)) = h.place[h.l][pushed + 1]
         /\ blockSize[h.block[h.l]] \in Nat /\ blockSize[h.block[h.l]] >= 2
         /\ h.first[h.l + 1] = pushed /\ h.first[h.l] \in Nat /\ h.first[h.l] <= pushed
         /\ mem.front[h.block[h.l]] = h.place[h.l][LeftAt(h, h.l)]
         /\ LeftAt(h, h.l) \in Nat /\ h.first[h.l] <= LeftAt(h, h.l)
         /\ pushed - LeftAt(h, h.l) < blockSize[h.block[h.l]]
         /\ LeftAt(h, h.l) <= pushed
         /\ \A n \in Nat : /\ h.place[h.l][n] \in Nat
                           /\ <<h.block[h.l], h.place[h.l][n]>> \in Slots
         /\ \A x \in Nat : h.place[h.l][x + blockSize[h.block[h.l]]] = h.place[h.l][x]
<1>1. Shorthands(h) /\ VisitInv(h) /\ ConsInv(h) /\ ProdInv(h) /\ RoomInv(h) /\ pushed \in Nat
      /\ removed \in Nat /\ removed <= pushed
  BY Counts DEF Inv
<1>2. h.l \in Nat /\ h.m \in Nat /\ h.l \in h.m .. h.l /\ blocks \in Nat
  BY <1>1 DEF Shorthands, TypeInv
<1>3. /\ h.block[h.l] \in 0 .. blocks - 1 /\ h.block[h.l] \in Blocks /\ h.block[h.l] \in h.kept
      /\ blockSize[h.block[h.l]] \in Nat /\ blockSize[h.block[h.l]] >= 2
      /\ \A n \in Nat : /\ h.place[h.l][n] \in Nat
                        /\ <<h.block[h.l], h.place[h.l][n]>> \in Slots
                        /\ h.place[h.l][n + 1] = (h.place[h.l][n] + 1) % blockSize[h.block[h.l]]
      /\ h.first[h.l] \in Nat /\ h.first[h.l + 1] \in Nat /\ h.first[h.l] <= h.first[h.l + 1]
  BY <1>1, <1>2, VisitFacts
<1>3a. h.block[h.l] \in Nat /\ h.block[h.l] < blocks
  BY <1>2, <1>3
<1>3b. \A n \in Nat : /\ h.place[h.l][n] \in Nat
                      /\ <<h.block[h.l], h.place[h.l][n]>> \in Slots
  BY <1>3
<1>4. h.first[h.l + 1] = pushed /\ h.first[h.l] <= pushed
  BY <1>1, <1>3 DEF VisitInv
<1>5. TailBlock = h.block[h.l] /\ TailOf(TailBlock) = h.place[h.l][pushed]
  BY <1>1, <1>2, <1>4 DEF ProdInv
<1>6. After(TailBlock, TailOf(TailBlock)) = h.place[h.l][pushed + 1]
  BY <1>1, <1>3, <1>5 DEF After
<1>7. mem.front[h.block[h.l]] = h.place[h.l][LeftAt(h, h.l)]
  BY <1>1, <1>2 DEF ConsInv
<1>8. pushed - LeftAt(h, h.l) < blockSize[h.block[h.l]]
  BY <1>1, <1>2, <1>4 DEF RoomInv
<1>9. LeftAt(h, h.l) \in Nat /\ h.first[h.l] <= LeftAt(h, h.l) /\ LeftAt(h, h.l) <= pushed
  BY <1>1, <1>3, <1>4 DEF LeftAt, ConsInv
<1>10. \A x \in Nat : h.place[h.l][x + blockSize[h.block[h.l]]] = h.place[h.l][x]
  BY <1>1, <1>2 DEF VisitInv, IsRing
<1> QED
  BY Zenon, <1>3, <1>3a, <1>3b, <1>4, <1>5, <1>6, <1>7, <1>8, <1>9, <1>10

\* The shadow copy of the front is that of a state of the consumer's, and if there is room
\* by it, there is; if there is none, the tail block holds elements.
LEMMA Room ==
  ASSUME TypeInv, NEW h \in History, Inv(h), FrontLooked
  PROVE  /\ localFront' \in [Blocks -> Nat]
         /\ \A b \in Blocks : b # h.block[h.l] => localFront'[b] = localFront[b]
         /\ \E z \in Nat : /\ localFront'[h.block[h.l]] = h.place[h.l][z]
                           /\ h.first[h.l] <= z /\ z <= LeftAt(h, h.l)
                           /\ pushed - z < blockSize[h.block[h.l]]
                           /\ HasRoom => pushed + 1 - z < blockSize[h.block[h.l]]
         /\ ~HasRoom => h.first[h.l] < pushed
<1> PICK b : b = h.block[h.l]
  OBVIOUS
<1> PICK left : left = LeftAt(h, h.l)
  OBVIOUS
<1> PICK size : size = blockSize[h.block[h.l]]
  OBVIOUS
<1>1. /\ TailBlock = b /\ b \in Blocks
      /\ After(TailBlock, TailOf(TailBlock)) = h.place[h.l][pushed + 1]
      /\ size \in Nat /\ size >= 2
      /\ h.first[h.l + 1] = pushed /\ h.first[h.l] \in Nat /\ h.first[h.l] <= pushed
      /\ mem.front[b] = h.place[h.l][left]
      /\ left \in Nat /\ h.first[h.l] <= left
      /\ pushed - left < size /\ left <= pushed
      /\ \A n \in Nat : h.place[h.l][n] \in Nat
      /\ \A x \in Nat : h.place[h.l][x + size] = h.place[h.l][x]
  BY TailFacts
<1>2. pushed \in Nat /\ localFront \in [Blocks -> Nat]
  BY DEF TypeInv
<1>2a. /\ size \in Nat /\ size >= 2 /\ left \in Nat /\ pushed \in Nat /\ left <= pushed
       /\ h.first[h.l] \in Nat /\ h.first[h.l] <= left
  BY Zenon, <1>1, <1>2
<1>3. PICK y \in Nat : /\ localFront[b] = h.place[h.l][y]
                       /\ h.first[h.l] <= y /\ y <= left /\ pushed - y < size
  BY DEF Inv, ShadowFrontInv
<1>4. localFront' = [localFront EXCEPT ![b] =
        IF h.place[h.l][pushed + 1] # localFront[b] THEN localFront[b] ELSE mem.front[b]]
  BY <1>1 DEF FrontLooked
<1>5. PICK z \in Nat : /\ localFront'[b] = h.place[h.l][z]
                       /\ h.first[h.l] <= z /\ z <= left /\ pushed - z < size
                       /\ h.place[h.l][pushed + 1] = localFront'[b] => z = left
  <2>1. CASE h.place[h.l][pushed + 1] # localFront[b]
    <3>1. localFront'[b] = localFront[b]
      BY <1>1, <1>2, <1>4, <2>1
    <3> QED
      BY <1>3, <2>1, <3>1
  <2>2. CASE h.place[h.l][pushed + 1] = localFront[b]
    <3>1. localFront'[b] = mem.front[b]
      BY <1>1, <1>2, <1>4, <2>2
    <3>2. /\ left \in Nat /\ localFront'[b] = h.place[h.l][left]
          /\ h.first[h.l] <= left /\ left <= left /\ pushed - left < size
      BY <1>1, <3>1
    <3> QED
      BY <3>2
  <2> QED
    BY <2>1, <2>2
<1>6. HasRoom <=> h.place[h.l][pushed + 1] # localFront'[b]
  BY <1>1 DEF HasRoom
<1>7. localFront' \in [Blocks -> Nat] /\ \A c \in Blocks : c # b => localFront'[c] = localFront[c]
  <2>1. mem.front[b] \in Nat
    BY <1>1
  <2> QED
    BY <1>2, <1>4, <2>1
<1>8. HasRoom => pushed + 1 - z < size
  <2>1. SUFFICES ASSUME pushed + 1 - z >= size PROVE h.place[h.l][pushed + 1] = localFront'[b]
    BY <1>2a, <1>6
  <2>2. pushed + 1 = z + size
    <3>1. size \in Int /\ pushed \in Int /\ z \in Int
      BY <1>2a
    <3>2. pushed - z < size
      BY <1>5
    <3> QED
      BY <2>1, <3>1, <3>2
  <2> QED
    BY <1>1, <1>5, <2>2
<1>9. ~HasRoom => h.first[h.l] < pushed
  <2>1. SUFFICES ASSUME h.place[h.l][pushed + 1] = h.place[h.l][left] PROVE h.first[h.l] < pushed
    BY <1>5, <1>6
  <2>2. IsRing(h.place[h.l], size)
    BY Counts DEF Shorthands, VisitInv
  <2>3. pushed + 1 - left >= size
    <3>1. left \in Nat /\ pushed + 1 \in Nat /\ left < pushed + 1 /\ size \in Nat /\ pushed \in Nat
      BY <1>2a
    <3>2. \A x, w \in Nat : x < w /\ h.place[h.l][x] = h.place[h.l][w] => w - x >= size
      BY <2>2 DEF IsRing
    <3> QED
      BY <2>1, <3>1, <3>2
  <2> QED
    BY <1>2a, <2>3
<1> QED
  BY <1>5, <1>7, <1>8, <1>9

\* A step of the producer that enqueues nothing and makes no block.
LEMMA QuietStep ==
  ASSUME TypeInv, NEW h \in History, Inv(h),
         UNCHANGED <<consumerVars, growVars, pending, live, published, removed, shape, pushed>>,
         localFront' \in [Blocks -> Nat],
         \A b \in Blocks : b >= blocks => localFront'[b] = localFront[b],
         ShadowFrontInv(h)',
         enqPc' \in {"idle", "next", "reuse"}, ReuseInv(h)'
  PROVE  TypeInv' /\ Inv(h)'
<1>1. /\ mem' = mem /\ pending' = pending /\ Pp' = Pp /\ Pc' = Pc
      /\ UNCHANGED <<blocks, blockSize, largestBlockSize, localTail>>
      /\ UNCHANGED <<deqPc, op, block_, front_, popped, publishedAtStart>>
      /\ UNCHANGED <<live, published, removed, shape, pushed>>
  BY DEF growVars, blockVars, consumerVars, Pp, Pc
<1>2. TypeInv'
  BY <1>1 DEF TypeInv, MaxBlockSize, Size
<1>3. ProducerRest(h)'
  BY <1>1, ProducerRestKept DEF Inv, ProducerRest
<1>4. ConsumerSide(h)'
  BY <1>1, ConsumerSideKept DEF Inv, ConsumerSide
<1>5. ToComeInv'
  BY <1>1 DEF Inv, ToComeInv
<1>6. ShadowTailInv(h)' /\ CallInv(h)'
  BY <1>1 DEF Inv, ShadowTailInv, CallInv, In
<1> QED
  BY <1>2, <1>3, <1>4, <1>5, <1>6 DEF Inv, ProducerRest, ConsumerSide

\* The tail block is full.
LEMMA FullStep ==
  ASSUME TypeInv, NEW h \in History, Inv(h), EnqueueFull,
         UNCHANGED <<consumerVars, published, removed, shape>>
  PROVE  TypeInv' /\ Inv(h)'
<1>1. /\ FrontLooked /\ ~HasRoom /\ enqPc' = "next" /\ UNCHANGED <<pending, live, pushed, growVars>>
  BY DEF EnqueueFull, NoElement
<1>2. /\ localFront' \in [Blocks -> Nat]
      /\ \A b \in Blocks : b # h.block[h.l] => localFront'[b] = localFront[b]
      /\ \E z \in Nat : /\ localFront'[h.block[h.l]] = h.place[h.l][z]
                        /\ h.first[h.l] <= z /\ z <= LeftAt(h, h.l)
                        /\ pushed - z < blockSize[h.block[h.l]]
      /\ h.first[h.l] < pushed
  BY <1>1, Room
<1>3. h.block[h.l] < blocks /\ h.block[h.l] \in Nat /\ blocks \in Nat /\ \A b \in Blocks : b \in Nat
  BY TailFacts, MadeBlocks DEF TypeInv
<1>4. ShadowFrontInv(h)'
  BY <1>1, <1>2 DEF ShadowFrontInv, LeftAt, growVars, blockVars
<1>5. ReuseInv(h)'
  BY <1>1, <1>2 DEF ReuseInv
<1>6. \A b \in Blocks : b >= blocks => localFront'[b] = localFront[b]
  BY <1>2, <1>3
<1> QED
  BY <1>1, <1>2, <1>4, <1>5, <1>6, QuietStep

\* The block after the tail block is free.
LEMMA AheadStep ==
  ASSUME TypeInv, NEW h \in History, Inv(h), EnqueueAhead,
         UNCHANGED <<consumerVars, published, removed, shape>>
  PROVE  TypeInv' /\ Inv(h)'
<1>1. /\ enqPc = "next" /\ BlockAhead /\ enqPc' = "reuse"
      /\ UNCHANGED <<pending, live, pushed, localFront, growVars>>
  BY DEF EnqueueAhead, NoElement
<1>2. ShadowFrontInv(h)'
  BY <1>1 DEF Inv, ShadowFrontInv, LeftAt, growVars, blockVars
<1>3. Shorthands(h) /\ VisitInv(h) /\ ProdInv(h) /\ ConsInv(h) /\ CircleInv(h)
  BY Counts DEF Inv
<1>4. NextOf(h.block[h.l]) # h.block[h.m]
  BY <1>1, <1>3 DEF BlockAhead, ProdInv, ConsInv
<1>5. ASSUME NEW v \in h.m .. h.l, h.block[v] = NextOf(h.block[h.l]) PROVE FALSE
  <2>1. v # h.m /\ v \in Nat /\ h.m \in Nat /\ h.l \in Nat
    BY <1>3, <1>4, <1>5 DEF Shorthands
  <2>2. v - 1 \in h.m .. h.l - 1 /\ v - 1 \in h.m .. h.l /\ v - 1 # h.l /\ h.l \in h.m .. h.l
        /\ (v - 1) + 1 = v
    BY <2>1
  <2>3. NextOf(h.block[v - 1]) = h.block[v]
    BY <1>3, <2>2 DEF ProdInv
  <2>4. h.block[v - 1] \in h.kept /\ h.block[h.l] \in h.kept
    BY <1>3, <2>2 DEF VisitInv
  <2>5. h.block[v - 1] = h.block[h.l]
    BY <1>3, <1>5, <2>3, <2>4 DEF CircleInv
  <2> QED
    BY <1>3, <2>2, <2>5 DEF VisitInv
<1>6. \A b : NextOf(b)' = NextOf(b)
  BY <1>1, ProducerSees DEF growVars, Pp
<1>7. h.first[h.l] < pushed
  BY <1>1 DEF Inv, ReuseInv
<1>8. ReuseInv(h)'
  BY <1>1, <1>5, <1>6, <1>7 DEF ReuseInv
<1>9. localFront' \in [Blocks -> Nat]
  BY <1>1 DEF TypeInv
<1> QED
  BY <1>1, <1>2, <1>8, <1>9, QuietStep

\* There is no block for the element: the call gives up.
LEMMA RefusedStep ==
  ASSUME TypeInv, NEW h \in History, Inv(h), EnqueueRefused,
         UNCHANGED <<consumerVars, published, removed, shape>>
  PROVE  TypeInv' /\ Inv(h)'
<1>1. enqPc' = "idle" /\ UNCHANGED <<pending, live, pushed, localFront, growVars>>
  BY DEF EnqueueRefused, NoElement, EnqueueReturn
<1>2. ShadowFrontInv(h)'
  BY <1>1 DEF Inv, ShadowFrontInv, LeftAt, growVars, blockVars
<1>3. ReuseInv(h)'
  BY <1>1 DEF ReuseInv
<1>4. localFront' \in [Blocks -> Nat]
  BY <1>1 DEF TypeInv
<1> QED
  BY <1>1, <1>2, <1>3, <1>4, QuietStep

\* History g goes on from h with one more element, in the last visit or in a new one.
Extends(g, h) ==
  /\ g.m = h.m /\ g.f = h.f /\ g.t = h.t
  /\ \A v \in 0 .. h.l :
       g.block[v] = h.block[v] /\ g.first[v] = h.first[v] /\ g.place[v] = h.place[v]
  /\ g.first[g.l + 1] = pushed + 1
  /\ \/ g.l = h.l
     \/ g.l = h.l + 1 /\ g.first[g.l] = pushed /\ h.first[h.l] < pushed

\* The step that enqueues it, with these stores.
Enqueues(g, h, q) ==
  /\ pushed' = pushed + 1 /\ Pp' = Pp \o q /\ Pc' = Pc
  /\ live' = live \cup {<<g.block[g.l], g.place[g.l][pushed]>>}
  /\ UNCHANGED <<consumerVars, published, removed, shape>>
  /\ mem'.block = mem.block /\ mem'.front = mem.front
  /\ \A b \in 0 .. blocks - 1 :
       /\ mem'.tail[b] = mem.tail[b] /\ blockSize'[b] = blockSize[b] /\ localTail'[b] = localTail[b]
       /\ \A n \in Nat : <<b, n>> \in Slots => mem'.data[<<b, n>>] = mem.data[<<b, n>>]
  /\ blocks' \in Nat /\ blocks <= blocks'

\* The stores are those of the element.
StoresOf(g, h, q) ==
  /\ Ordered(q)
  /\ \A j \in 1 .. Len(q) : q[j].of = pushed /\ Produced(g, q[j], g.l)
  /\ \E j \in 1 .. Len(q) : q[j].var = IF g.l = h.l THEN "tail" ELSE "block"

\* A history that has an element more, and what it shares with the one before.
LEMMA ExtendsFacts ==
  ASSUME TypeInv, NEW h \in History, NEW g \in History, Inv(h), Extends(g, h)
  PROVE  /\ Shorthands(h) /\ VisitInv(h) /\ pushed \in Nat
         /\ g.l \in Nat /\ h.l <= g.l /\ g.l <= h.l + 1
         /\ \A v \in Nat : h.first[v] \in Nat /\ g.first[v] \in Nat
         /\ h.first[h.l + 1] = pushed
         /\ g.first[g.l] <= pushed
         /\ \A v \in 0 .. h.l : h.first[v + 1] <= g.first[v + 1] /\ h.first[v + 1] <= pushed
         /\ \A v \in 0 .. h.l : v < g.l => g.first[v + 1] = h.first[v + 1]
         /\ \A v \in 0 .. h.l, n \in Nat : In(h, v, n) => In(g, v, n)
         /\ In(g, g.l, pushed)
         /\ \A v \in 0 .. g.l, n \in Nat : In(g, v, n) =>
              (v \in 0 .. h.l /\ In(h, v, n)) \/ (v = g.l /\ n = pushed)
<1>1. Shorthands(h) /\ VisitInv(h) /\ pushed \in Nat
  BY Counts
<1>2. h.l \in Nat /\ g.l \in Nat /\ h.l <= g.l /\ g.l <= h.l + 1
  BY <1>1, HistoryFacts DEF Extends, Shorthands
<1>3. \A v \in Nat : h.first[v] \in Nat /\ g.first[v] \in Nat
  BY HistoryFacts
<1>4. h.first[h.l + 1] = pushed
  BY <1>1 DEF VisitInv
<1>5. \A v \in 0 .. h.l : v + 1 \in 0 .. h.l \/ v = h.l
  BY <1>2
<1>6. \A v \in 0 .. h.l : v \in Nat /\ v + 1 \in Nat /\ v + 1 \in 0 .. h.l + 1 /\ v + 1 <= h.l + 1
                          /\ v \in 0 .. h.l + 1 /\ v <= h.l + 1
  BY <1>2
<1>7. h.l + 1 \in 0 .. h.l + 1
  BY <1>2
<1>8. \A v \in 0 .. h.l : h.first[v + 1] <= pushed /\ h.first[v] <= pushed
  BY <1>1, <1>4, <1>6, <1>7 DEF VisitInv
<1>9. g.first[h.l + 1] = pushed \/ g.first[h.l + 1] = pushed + 1
  BY DEF Extends
<1>10. \A v \in 0 .. h.l : h.first[v + 1] <= g.first[v + 1]
  <2>1. ASSUME NEW v \in 0 .. h.l PROVE h.first[v + 1] <= g.first[v + 1]
    <3>1. CASE v + 1 \in 0 .. h.l
      BY <1>3, <1>6, <3>1 DEF Extends
    <3>2. CASE v = h.l
      BY <1>1, <1>4, <1>9, <3>2
    <3> QED
      BY <1>5, <3>1, <3>2
  <2> QED
    BY <2>1
<1>11. ASSUME NEW v \in 0 .. h.l, v < g.l PROVE g.first[v + 1] = h.first[v + 1]
  <2>1. CASE v + 1 \in 0 .. h.l
    BY <2>1 DEF Extends
  <2>2. CASE v = h.l
    BY <1>2, <1>4, <1>11, <2>2 DEF Extends
  <2> QED
    BY <1>5, <2>1, <2>2
<1>12. g.first[g.l] <= pushed
  <2>1. h.l \in 0 .. h.l
    BY <1>2
  <2> QED
    BY <1>1, <1>3, <1>8, <2>1 DEF Extends
<1>13. In(g, g.l, pushed)
  BY <1>1, <1>12 DEF In, Extends
<1>14. ASSUME NEW v \in 0 .. h.l, NEW n \in Nat, In(h, v, n) PROVE In(g, v, n)
  <2>1. g.first[v] = h.first[v] /\ h.first[v + 1] <= g.first[v + 1]
    BY <1>10 DEF Extends
  <2>2. h.first[v + 1] \in Nat /\ g.first[v + 1] \in Nat
    BY <1>3, <1>6
  <2> QED
    BY <1>14, <2>1, <2>2 DEF In
<1>15. ASSUME NEW v \in 0 .. g.l, NEW n \in Nat, In(g, v, n)
       PROVE  (v \in 0 .. h.l /\ In(h, v, n)) \/ (v = g.l /\ n = pushed)
  <2>1. CASE v \in 0 .. h.l /\ v < g.l
    BY <1>11, <1>15, <2>1 DEF In, Extends
  <2>2. CASE v = g.l /\ g.l = h.l
    <3>1. h.l \in 0 .. h.l
      BY <1>2
    <3>2. h.first[h.l] <= n /\ n < pushed + 1
      BY <1>15, <2>2, <3>1 DEF In, Extends
    <3>3. n = pushed \/ n < pushed
      BY <1>1, <3>2
    <3> QED
      BY <1>4, <2>2, <3>1, <3>2, <3>3 DEF In
  <2>3. CASE v = g.l /\ g.l = h.l + 1
    <3>1. g.first[g.l] = pushed /\ g.first[g.l + 1] = pushed + 1
      BY <1>2, <2>3 DEF Extends
    <3> QED
      BY <1>1, <1>15, <2>3, <3>1 DEF In
  <2> QED
    BY <1>2, <2>1, <2>2, <2>3
<1> QED
  BY <1>1, <1>2, <1>3, <1>4, <1>8, <1>10, <1>11, <1>12, <1>13, <1>14, <1>15

\* The visits are in order with an element more.
LEMMA VisitGrown ==
  ASSUME TypeInv, NEW h \in History, NEW g \in History, NEW q, Inv(h), Extends(g, h), Enqueues(g, h, q),
         h.kept \subseteq g.kept, g.kept \subseteq 0 .. blocks' - 1,
         g.l # h.l => /\ g.block[g.l] \in g.kept
                      /\ IsRing(g.place[g.l], blockSize'[g.block[g.l]])
                      /\ \A v \in h.m .. h.l : h.block[v] # g.block[g.l]
  PROVE  VisitInv(g)'
<1>1. /\ Shorthands(h) /\ VisitInv(h) /\ pushed \in Nat
      /\ g.l \in Nat /\ h.l <= g.l /\ g.l <= h.l + 1
      /\ \A v \in Nat : h.first[v] \in Nat /\ g.first[v] \in Nat
      /\ h.first[h.l + 1] = pushed
      /\ g.first[g.l] <= pushed
      /\ \A v \in 0 .. h.l : v < g.l => g.first[v + 1] = h.first[v + 1]
      /\ \A v \in 0 .. h.l : h.first[v + 1] <= pushed
  BY ExtendsFacts
<1>2. h.m \in Nat /\ h.f \in Nat /\ h.t \in Nat /\ h.l \in Nat /\ h.m <= h.f /\ h.f <= h.t /\ h.t <= h.l
  BY <1>1 DEF Shorthands
<1>3. g.m = h.m /\ g.f = h.f /\ g.t = h.t /\ g.first[g.l + 1] = pushed + 1
  BY DEF Extends
<1>4. g.m <= g.f /\ g.f <= g.t /\ g.t <= g.l
  BY <1>1, <1>2, <1>3
<1>5. \A v \in g.m .. g.l : v \in h.m .. h.l \/ (v = g.l /\ g.l # h.l)
  <2>1. g.l \in Nat /\ (g.l = h.l \/ g.l = h.l + 1)
    BY <1>1 DEF Extends
  <2>2. h.m \in Nat /\ h.l \in Nat /\ g.m = h.m
    BY <1>2, <1>3
  <2> QED
    BY <2>1, <2>2
<1>6. \A v \in h.m .. h.l : v \in 0 .. h.l
  BY <1>2
<1>7. \A v \in h.m .. h.l : g.block[v] = h.block[v] /\ g.place[v] = h.place[v]
  BY <1>6 DEF Extends
<1>8. \A v \in h.m .. h.l : blockSize'[h.block[v]] = blockSize[h.block[v]]
  BY <1>1 DEF VisitInv, Enqueues
<1>9. \A v \in g.m .. g.l : g.block[v] \in g.kept /\ IsRing(g.place[v], blockSize'[g.block[v]])
  BY <1>1, <1>5, <1>7, <1>8 DEF VisitInv
<1>10. ASSUME NEW v \in g.m .. g.l, NEW w \in g.m .. g.l, g.block[v] = g.block[w] PROVE v = w
  <2>1. CASE v \in h.m .. h.l /\ w \in h.m .. h.l
    BY <1>1, <1>7, <1>10, <2>1 DEF VisitInv
  <2>2. CASE ~(v \in h.m .. h.l /\ w \in h.m .. h.l)
    BY <1>5, <1>7, <1>10, <2>2
  <2> QED
    BY <2>1, <2>2
<1>11. g.first[0] = 0
  <2>1. 0 \in 0 .. h.l
    BY <1>2
  <2> QED
    BY <1>1, <2>1 DEF Extends, VisitInv
<1>18. g.l \in Nat /\ h.l \in Nat /\ (g.l = h.l \/ g.l = h.l + 1)
  <2>1. g.l \in Nat /\ h.l <= g.l /\ g.l <= h.l + 1
    BY <1>1
  <2>2. h.l \in Nat
    BY <1>2
  <2> QED
    BY <2>1, <2>2
<1>12. \A v \in 0 .. g.l + 1 : v \in Nat /\ (v \in 0 .. h.l \/ v = g.l + 1 \/ (v = h.l + 1 /\ v = g.l))
  BY <1>18
<1>13. \A v \in 0 .. h.l : g.first[v] = h.first[v] /\ g.first[v] <= pushed
  <2>1. \A v \in 0 .. h.l : v \in 0 .. h.l + 1 /\ h.l + 1 \in 0 .. h.l + 1 /\ v <= h.l + 1
    BY <1>2
  <2> QED
    BY <1>1, <2>1 DEF Extends, VisitInv
<1>14. g.l = h.l + 1 => g.first[g.l] = pushed
  BY <1>2 DEF Extends
<1>15. ASSUME NEW v \in 0 .. g.l + 1, NEW w \in 0 .. g.l + 1, v <= w PROVE g.first[v] <= g.first[w]
  <2>1. CASE w \in 0 .. h.l
    <3>1. v \in 0 .. h.l /\ v \in 0 .. h.l + 1 /\ w \in 0 .. h.l + 1
      BY <1>2, <1>15, <2>1
    <3> QED
      BY <1>1, <1>13, <1>15, <2>1, <3>1 DEF VisitInv
  <2>2. CASE w = g.l + 1
    BY <1>1, <1>3, <1>12, <1>13, <1>14, <2>2
  <2>3. CASE w = h.l + 1 /\ w = g.l
    <3>1. v \in 0 .. h.l \/ v = w
      BY <1>2, <1>12, <1>15, <2>3
    <3> QED
      BY <1>1, <1>12, <1>13, <1>14, <2>3, <3>1
  <2> QED
    BY <1>12, <2>1, <2>2, <2>3
<1>16. ASSUME NEW v \in 0 .. g.l, 0 < g.l PROVE g.first[v] < g.first[v + 1]
  <2>1. CASE v = g.l
    BY <1>1, <1>3, <2>1
  <2>2. CASE v # g.l /\ v # h.l
    <3>1. v \in 0 .. h.l /\ v < g.l /\ 0 < h.l
      BY <1>1, <1>2, <2>2
    <3> QED
      BY <1>1, <1>13, <3>1 DEF VisitInv
  <2>3. CASE v = h.l /\ g.l = h.l + 1
    BY <1>1, <1>2, <1>13, <1>14, <2>3 DEF Extends
  <2> QED
    BY <1>18, <2>1, <2>2, <2>3
<1>17. g.first[g.l + 1] = pushed'
  BY <1>3 DEF Enqueues
<1> QED
  BY <1>4, <1>9, <1>10, <1>11, <1>15, <1>16, <1>17 DEF VisitInv

\* An element more is nothing to the consumer.
LEMMA ConsumerGrown ==
  ASSUME TypeInv, NEW h \in History, NEW g \in History, NEW q, Inv(h), Extends(g, h), Enqueues(g, h, q),
         g.l # h.l => /\ FrontOf(g.block[g.l]) = g.place[g.l][pushed]
                      /\ mem.front[g.block[g.l]] = g.place[g.l][pushed]
  PROVE  /\ ConsInv(g)' /\ ShadowTailInv(g)' /\ Ordered(Pc)' /\ ConsumedInv(g)' /\ ToRemoveInv(g)'
         /\ CallInv(g)'
         /\ \A b : FrontOf(b)' = FrontOf(b)
<1>1. /\ Shorthands(h) /\ VisitInv(h) /\ pushed \in Nat
      /\ g.l \in Nat /\ h.l <= g.l /\ g.l <= h.l + 1
      /\ \A v \in Nat : h.first[v] \in Nat /\ g.first[v] \in Nat
      /\ \A v \in 0 .. h.l : h.first[v + 1] <= g.first[v + 1]
      /\ \A v \in 0 .. h.l : v < g.l => g.first[v + 1] = h.first[v + 1]
      /\ \A v \in 0 .. h.l, n \in Nat : In(h, v, n) => In(g, v, n)
  BY ExtendsFacts
<1>2. h.m \in Nat /\ h.f \in Nat /\ h.t \in Nat /\ h.l \in Nat /\ h.m <= h.f /\ h.f <= h.t /\ h.t <= h.l
  BY <1>1 DEF Shorthands
<1>3. g.m = h.m /\ g.f = h.f /\ g.t = h.t
  BY DEF Extends
<1>4. /\ pushed' = pushed + 1 /\ Pc' = Pc
      /\ UNCHANGED <<deqPc, op, block_, front_, popped, publishedAtStart, published, removed>>
      /\ mem'.block = mem.block /\ mem'.front = mem.front
  BY DEF Enqueues, consumerVars
<1>5. FrontBlock' = FrontBlock /\ \A b : FrontOf(b)' = FrontOf(b)
  BY <1>4 DEF FrontBlock, FrontOf, Own, View, Pc
<1>6. /\ \A v \in h.m .. h.l : v \in Nat /\ v \in 0 .. h.l
      /\ h.m \in 0 .. h.l /\ h.f \in 0 .. h.l /\ h.t \in 0 .. h.l
  BY <1>2
<1>7. /\ g.block[h.m] = h.block[h.m] /\ g.block[h.f] = h.block[h.f]
      /\ g.first[h.m] = h.first[h.m] /\ g.first[h.f] = h.first[h.f]
      /\ g.place[h.f] = h.place[h.f]
      /\ h.first[h.f + 1] <= g.first[h.f + 1] /\ h.first[h.m + 1] <= g.first[h.m + 1]
  BY <1>1, <1>6 DEF Extends
<1>8. /\ \A v \in Nat : h.first[v] \in Nat /\ g.first[v] \in Nat
      /\ h.f + 1 \in Nat /\ h.m + 1 \in Nat
      /\ popped \in Nat /\ removed \in Nat /\ published \in Nat
  <2>1. popped \in Nat /\ removed \in Nat /\ published \in Nat
    BY DEF TypeInv
  <2> QED
    BY <1>1, <1>2, <2>1
<1>9. ConsInv(h)
  BY DEF Inv
<1>10. ASSUME NEW v \in h.m .. h.l
       PROVE FrontAt(g, v)' = FrontAt(h, v) /\ LeftAt(g, v)' = LeftAt(h, v)
  <2>1. v < h.f => v + 1 \in 0 .. h.l
    BY <1>2
  <2>2. v < h.f => g.first[v + 1] = h.first[v + 1]
    BY <2>1 DEF Extends
  <2>3. g.first[v] = h.first[v]
    BY <1>6 DEF Extends
  <2> QED
    BY <1>3, <1>4, <2>2, <2>3 DEF FrontAt, LeftAt
<1>11. ConsInv(g)'
  <2>1. FrontBlock' = g.block[g.f] /\ mem'.block["front"] = g.block[g.m]
    BY <1>3, <1>4, <1>5, <1>7, <1>9 DEF ConsInv
  <2>2. /\ g.first[g.f] <= popped /\ popped <= g.first[g.f + 1]
        /\ g.first[g.m] <= removed /\ removed <= g.first[g.m + 1]
        /\ published <= pushed + 1
    BY <1>1, <1>3, <1>7, <1>8, <1>9 DEF ConsInv
  <2>3. ASSUME NEW v \in g.m .. g.l
        PROVE  /\ FrontOf(g.block[v])' = g.place[v][FrontAt(g, v)']
               /\ mem'.front[g.block[v]] = g.place[v][LeftAt(g, v)']
    <3>1. CASE v \in h.m .. h.l
      <4>1. g.block[v] = h.block[v] /\ g.place[v] = h.place[v]
        BY <1>6, <3>1 DEF Extends
      <4>2. FrontOf(h.block[v]) = h.place[v][FrontAt(h, v)] /\ mem.front[h.block[v]] = h.place[v][LeftAt(h, v)]
        BY <1>9, <3>1 DEF ConsInv
      <4> QED
        BY <1>4, <1>5, <1>10, <3>1, <4>1, <4>2
    <3>2. CASE v = g.l /\ g.l = h.l + 1
      <4>1. g.first[v] = pushed /\ v # g.m /\ ~(v < g.f) /\ v # g.f
        BY <1>2, <1>3, <3>2 DEF Extends
      <4>2. FrontAt(g, v)' = pushed /\ LeftAt(g, v)' = pushed
        BY <4>1 DEF FrontAt, LeftAt
      <4>3. g.l # h.l
        BY <1>2, <3>2
      <4> QED
        BY <1>4, <1>5, <3>2, <4>2, <4>3
    <3>3. g.l = h.l \/ g.l = h.l + 1
      BY DEF Extends
    <3>4. v \in h.m .. h.l \/ (v = g.l /\ g.l = h.l + 1)
      BY <1>2, <1>3, <3>3
    <3> QED
      BY <3>1, <3>2, <3>4
  <2> QED
    BY <1>4, <1>9, <2>1, <2>2, <2>3 DEF ConsInv
<1>12. h.block[h.f] \in 0 .. blocks - 1
  <2>1. h.f \in h.m .. h.l
    BY <1>2
  <2> QED
    BY <1>1, <2>1, VisitFacts
<1>13. localTail'[h.block[h.f]] = localTail[h.block[h.f]]
  BY <1>12 DEF Enqueues
<1>14. ShadowTailInv(g)'
  <2>1. PICK y \in Nat : /\ localTail[h.block[h.f]] = h.place[h.f][y]
                         /\ popped <= y /\ y <= published /\ y <= h.first[h.f + 1]
    BY DEF Inv, ShadowTailInv
  <2>2. y <= g.first[g.f + 1]
    BY <1>3, <1>7, <1>8, <2>1
  <2> QED
    BY <1>3, <1>4, <1>7, <1>13, <2>1, <2>2 DEF ShadowTailInv
<1>15. Ordered(Pc)'
  BY <1>4 DEF Inv, Ordered
<1>16. ConsumedInv(g)'
  <2>1. ASSUME NEW i \in 1 .. Len(Pc'), NEW x, x = Pc'[i] PROVE \E v \in g.m .. g.f : Consumed(g, x, v)'
    <3>1. PICK v \in h.m .. h.f : Consumed(h, x, v)
      BY <1>4, <2>1 DEF Inv, ConsumedInv
    <3>2. v \in 0 .. h.l /\ v \in g.m .. g.f
      BY <1>2, <1>3
    <3>3. g.block[v] = h.block[v] /\ g.place[v] = h.place[v] /\ g.first[v] = h.first[v]
      BY <3>2 DEF Extends
    <3>4. x.of \in removed .. popped - 1 => x.of \in Nat
      BY <1>8
    <3>5. x.var = "front" => In(g, v, x.of)
      BY <1>1, <3>1, <3>2, <3>4 DEF Consumed
    <3>6. Consumed(g, x, v)'
      BY <1>3, <1>4, <3>1, <3>3, <3>5 DEF Consumed, In
    <3> QED
      BY <3>2, <3>6
  <2> QED
    BY <2>1 DEF ConsumedInv, Consumed
<1>17. ToRemoveInv(g)'
  <2>1. \A v \in h.m + 1 .. h.f : v \in 0 .. h.l
    BY <1>2
  <2>2. \A v \in h.m + 1 .. h.f : g.first[v] = h.first[v]
    BY <2>1 DEF Extends
  <2> QED
    BY <1>3, <1>4, <2>2 DEF Inv, ToRemoveInv
<1>18. CallInv(g)'
  <2>1. CallInv(h)
    BY DEF Inv
  <2>2. h.f < h.t => /\ g.first[g.f + 1] = h.first[h.f + 1]
                     /\ g.block[g.f + 1] = h.block[h.f + 1]
    <3>1. h.f < h.t => h.f + 1 \in 0 .. h.l
      BY <1>2
    <3> QED
      BY <1>3, <3>1 DEF Extends
  <2>3. CASE deqPc # "take"
    BY <1>3, <1>4, <2>1, <2>2, <2>3 DEF CallInv
  <2>4. CASE deqPc = "take"
    <3>1. PICK v \in h.f .. h.t :
            /\ block_ = h.block[v] /\ front_ = h.place[v][popped] /\ In(h, v, popped)
            /\ popped < published
            /\ op = "remove" => v = h.f /\ localTail[block_] # front_
      BY <2>1, <2>4 DEF CallInv
    <3>2. v \in 0 .. h.l
      BY <1>2
    <3>3. g.block[v] = h.block[v] /\ g.place[v] = h.place[v]
      BY <3>2 DEF Extends
    <3>4. In(g, v, popped)
      BY <1>1, <1>8, <3>1, <3>2
    <3>5. In(g, v, popped)'
      BY <1>4, <3>4 DEF In
    <3>6. op = "remove" => v = g.f /\ localTail'[block_] # front_
      BY <1>3, <1>13, <3>1
    <3> QED
      BY <1>3, <1>4, <2>4, <3>1, <3>3, <3>5, <3>6 DEF CallInv
  <2> QED
    BY <2>3, <2>4
<1> QED
  BY <1>5, <1>11, <1>14, <1>15, <1>16, <1>17, <1>18

\* Two sequences, one after the other.
LEMMA Appended ==
  ASSUME NEW S, NEW p \in Seq(S), NEW q \in Seq(S), NEW r, r = p \o q
  PROVE  /\ r \in Seq(S) /\ Len(p) \in Nat /\ Len(q) \in Nat /\ Len(r) = Len(p) + Len(q)
         /\ \A i \in 1 .. Len(p) : i \in 1 .. Len(r) /\ r[i] = p[i]
         /\ \A j \in 1 .. Len(q) : Len(p) + j \in 1 .. Len(r) /\ r[Len(p) + j] = q[j]
         /\ \A i \in 1 .. Len(r) : \/ i \in 1 .. Len(p)
                                   \/ i > Len(p) /\ i - Len(p) \in 1 .. Len(q) /\ r[i] = q[i - Len(p)]
<1>1. /\ r \in Seq(S) /\ Len(r) = Len(p) + Len(q)
      /\ Len(p) \in Nat /\ Len(q) \in Nat
      /\ \A j \in 1 .. Len(p) : r[j] = p[j]
      /\ \A j \in 1 .. Len(q) : r[Len(p) + j] = q[j]
      /\ \A j \in 1 .. Len(r) : j > Len(p) => r[j] = q[j - Len(p)] /\ j - Len(p) \in 1 .. Len(q)
  BY AppendFacts
<1> QED
  BY <1>1

\* Stores that come after those in a buffer keep it in order.
LEMMA OrderedAppended ==
  ASSUME NEW S, NEW p \in Seq(S), NEW q \in Seq(S), NEW r, r = p \o q, Ordered(p), Ordered(q),
         \A i \in 1 .. Len(p), j \in 1 .. Len(q) : Before(p[i], q[j])
  PROVE  Ordered(r)
<1>1. /\ Len(p) \in Nat /\ Len(q) \in Nat /\ Len(r) = Len(p) + Len(q)
      /\ \A i \in 1 .. Len(p) : i \in 1 .. Len(r) /\ r[i] = p[i]
      /\ \A i \in 1 .. Len(r) : \/ i \in 1 .. Len(p)
                                \/ i > Len(p) /\ i - Len(p) \in 1 .. Len(q) /\ r[i] = q[i - Len(p)]
  BY Appended
<1>2. ASSUME NEW i \in 1 .. Len(r), NEW j \in 1 .. Len(r), i < j PROVE Before(r[i], r[j])
  <2>1. CASE i \in 1 .. Len(p) /\ j \in 1 .. Len(p)
    BY <1>1, <1>2, <2>1 DEF Ordered
  <2>2. CASE i \in 1 .. Len(p) /\ j > Len(p)
    <3>1. j - Len(p) \in 1 .. Len(q) /\ r[j] = q[j - Len(p)] /\ r[i] = p[i]
      BY <1>1, <2>2
    <3> QED
      BY <2>2, <3>1
  <2>3. CASE i > Len(p) /\ j > Len(p)
    <3>1. /\ j - Len(p) \in 1 .. Len(q) /\ r[j] = q[j - Len(p)]
          /\ i - Len(p) \in 1 .. Len(q) /\ r[i] = q[i - Len(p)]
          /\ i - Len(p) < j - Len(p)
      BY <1>1, <1>2, <2>3
    <3> QED
      BY <3>1 DEF Ordered
  <2> QED
    BY <1>1, <1>2, <2>1, <2>2, <2>3
<1> QED
  BY <1>2 DEF Ordered

\* The stores of an element more are what the invariant says of stores.
LEMMA StoresGrown ==
  ASSUME TypeInv, NEW h \in History, NEW g \in History, NEW q \in Seq(AnyStore),
         Inv(h), Extends(g, h), Enqueues(g, h, q), StoresOf(g, h, q)
  PROVE  Ordered(Pp)' /\ ProducedInv(g)' /\ ToPublishInv(g)'
<1> PICK p : p = Pp
  OBVIOUS
<1> PICK r : r = Pp'
  OBVIOUS
<1>1. /\ Shorthands(h) /\ VisitInv(h) /\ pushed \in Nat
      /\ g.l \in Nat /\ h.l <= g.l /\ g.l <= h.l + 1
      /\ \A v \in Nat : h.first[v] \in Nat /\ g.first[v] \in Nat
      /\ h.first[h.l + 1] = pushed
      /\ \A v \in 0 .. h.l, n \in Nat : In(h, v, n) => In(g, v, n)
      /\ In(g, g.l, pushed)
  BY ExtendsFacts
<1>2. h.m \in Nat /\ h.t \in Nat /\ h.l \in Nat /\ h.t <= h.l /\ g.t = h.t
      /\ published \in Nat /\ published <= pushed /\ pushed' = pushed + 1 /\ published' = published
      /\ pushed \in Nat
  BY <1>1, Counts DEF Shorthands, Extends, Enqueues
<1>3. /\ Len(p) \in Nat /\ Len(q) \in Nat /\ Len(r) = Len(p) + Len(q)
      /\ \A i \in 1 .. Len(p) : i \in 1 .. Len(r) /\ r[i] = p[i]
      /\ \A j \in 1 .. Len(q) : Len(p) + j \in 1 .. Len(r) /\ r[Len(p) + j] = q[j]
      /\ \A i \in 1 .. Len(r) : \/ i \in 1 .. Len(p)
                                \/ i > Len(p) /\ i - Len(p) \in 1 .. Len(q) /\ r[i] = q[i - Len(p)]
      /\ r = p \o q /\ p \in Seq(AnyStore)
  <2>1. p \in Seq(AnyStore) /\ r = p \o q
    BY DEF TypeInv, Pp, Threads, Enqueues
  <2> QED
    BY <2>1, Appended
<1>4. /\ Ordered(p)
      /\ \A i \in 1 .. Len(p) : /\ p[i].of \in published .. pushed - 1
                                /\ \E v \in h.t .. h.l : In(h, v, p[i].of) /\ Produced(h, p[i], v)
      /\ \A n \in published .. pushed - 1 : \E i \in 1 .. Len(p) :
           /\ p[i].of = n
           /\ \/ p[i].var = "block"
              \/ p[i].var = "tail" /\ \A v \in h.t + 1 .. h.l : h.first[v] # n
  BY DEF Inv, ProducedInv, ToPublishInv
<1>5. Ordered(r)
  <2>1. ASSUME NEW i \in 1 .. Len(p), NEW j \in 1 .. Len(q) PROVE Before(p[i], q[j])
    <3>1. q[j].of = pushed
      BY DEF StoresOf
    <3>2. p[i].of < pushed
      <4>1. p[i].of \in published .. pushed - 1
        BY <1>4
      <4> QED
        BY <1>2, <4>1
    <3> QED
      BY <3>1, <3>2 DEF Before
  <2> QED
    BY <1>3, <1>4, <2>1, OrderedAppended DEF StoresOf
<1>6. ASSUME NEW i \in 1 .. Len(r)
      PROVE  /\ r[i].of \in published .. pushed
             /\ \E v \in g.t .. g.l : In(g, v, r[i].of) /\ Produced(g, r[i], v)
  <2>1. CASE i \in 1 .. Len(p)
    <3>1. r[i] = p[i] /\ p[i].of \in published .. pushed - 1 /\ p[i].of \in Nat /\ p[i].of \in published .. pushed
      <4>1. r[i] = p[i]
        BY <1>3, <2>1
      <4>2. p[i].of \in published .. pushed - 1
        BY <1>4, <2>1
      <4> QED
        BY <1>2, <4>1, <4>2
    <3>2. PICK v \in h.t .. h.l : In(h, v, p[i].of) /\ Produced(h, p[i], v)
      BY <1>4, <2>1
    <3>3. v \in 0 .. h.l /\ v \in g.t .. g.l
      BY <1>1, <1>2
    <3>4. In(g, v, p[i].of)
      BY <1>1, <3>1, <3>2, <3>3
    <3>5. g.block[v] = h.block[v] /\ g.place[v] = h.place[v] /\ g.first[v] = h.first[v]
      BY <3>3 DEF Extends
    <3>6. v > h.t => g.block[v - 1] = h.block[v - 1]
      <4>1. v > h.t => v - 1 \in 0 .. h.l
        BY <1>2
      <4> QED
        BY <4>1 DEF Extends
    <3>7. Produced(g, p[i], v)
      BY <1>2, <3>2, <3>5, <3>6 DEF Produced
    <3> QED
      BY <3>1, <3>3, <3>4, <3>7
  <2>2. CASE i > Len(p) /\ i - Len(p) \in 1 .. Len(q) /\ r[i] = q[i - Len(p)]
    <3>1. r[i].of = pushed /\ Produced(g, r[i], g.l)
      BY <2>2 DEF StoresOf
    <3>2. g.l \in g.t .. g.l /\ pushed \in published .. pushed
      BY <1>1, <1>2
    <3> QED
      BY <1>1, <3>1, <3>2
  <2> QED
    BY <1>3, <2>1, <2>2
<1>7. ProducedInv(g)'
  <2>1. pushed' - 1 = pushed
    BY <1>1, <1>2
  <2> QED
    BY <1>2, <1>6, <2>1 DEF ProducedInv, In
<1>8. ASSUME NEW n \in published .. pushed
      PROVE  \E i \in 1 .. Len(r) :
               /\ r[i].of = n
               /\ \/ r[i].var = "block"
                  \/ r[i].var = "tail" /\ \A v \in g.t + 1 .. g.l : g.first[v] # n
  <2>1. CASE n \in published .. pushed - 1
    <3>1. PICK i \in 1 .. Len(p) : /\ p[i].of = n
                                   /\ \/ p[i].var = "block"
                                      \/ p[i].var = "tail" /\ \A v \in h.t + 1 .. h.l : h.first[v] # n
      BY <1>4, <2>1
    <3>2. ASSUME NEW v \in g.t + 1 .. g.l, \A w \in h.t + 1 .. h.l : h.first[w] # n PROVE g.first[v] # n
      <4>1. CASE v \in h.t + 1 .. h.l
        <5>1. v \in 0 .. h.l
          BY <1>2, <4>1
        <5>2. g.first[v] = h.first[v]
          BY <5>1 DEF Extends
        <5> QED
          BY <3>2, <4>1, <5>2
      <4>2. CASE v = g.l /\ g.l = h.l + 1
        <5>1. g.first[v] = pushed
          BY <1>2, <4>2 DEF Extends
        <5> QED
          BY <1>1, <1>2, <2>1, <5>1
      <4>3. v \in h.t + 1 .. h.l \/ (v = g.l /\ g.l = h.l + 1)
        <5>1. g.l = h.l \/ g.l = h.l + 1
          BY DEF Extends
        <5> QED
          BY <1>2, <5>1
      <4> QED
        BY <4>1, <4>2, <4>3
    <3> QED
      BY <1>3, <3>1, <3>2
  <2>2. CASE n = pushed
    <3>1. PICK j \in 1 .. Len(q) : q[j].of = pushed /\ q[j].var = IF g.l = h.l THEN "tail" ELSE "block"
      BY DEF StoresOf
    <3>2. Len(p) + j \in 1 .. Len(r) /\ r[Len(p) + j] = q[j]
      BY <1>3
    <3>3. ASSUME g.l = h.l, NEW v \in g.t + 1 .. g.l PROVE g.first[v] # pushed
      <4>1. v \in 0 .. h.l /\ 0 < h.l /\ v + 1 \in 0 .. h.l + 1 /\ h.l + 1 \in 0 .. h.l + 1
            /\ v + 1 <= h.l + 1 /\ v \in Nat /\ v + 1 \in Nat
        BY <1>2, <3>3
      <4>2. h.first[v] < h.first[v + 1]
        BY <1>1, <4>1 DEF VisitInv
      <4>3. h.first[v + 1] <= h.first[h.l + 1]
        BY <1>1, <4>1 DEF VisitInv
      <4>4. g.first[v] = h.first[v]
        BY <4>1 DEF Extends
      <4>5. h.first[v] \in Nat /\ h.first[v + 1] \in Nat
        BY <1>1, <4>1
      <4> QED
        BY <1>1, <4>2, <4>3, <4>4, <4>5
    <3> QED
      BY <2>2, <3>1, <3>2, <3>3
  <2> QED
    BY <1>1, <1>2, <2>1, <2>2
<1>9. ToPublishInv(g)'
  <2>1. published' .. pushed' - 1 = published .. pushed
    BY <1>2
  <2>2. \A n \in published' .. pushed' - 1 : \E i \in 1 .. Len(r) :
          /\ r[i].of = n
          /\ \/ r[i].var = "block"
             \/ r[i].var = "tail" /\ \A v \in g.t + 1 .. g.l : g.first[v] # n
    BY <1>8, <2>1
  <2> QED
    BY <2>2 DEF ToPublishInv
<1>10. Ordered(Pp)'
  BY <1>5 DEF Ordered
<1> QED
  BY <1>7, <1>9, <1>10

\* An element more is alive in its slot, and in memory or about to be.
LEMMA DataGrown ==
  ASSUME TypeInv, NEW h \in History, NEW g \in History, NEW q \in Seq(AnyStore),
         Inv(h), Extends(g, h), Enqueues(g, h, q), StoresOf(g, h, q),
         \/ mem'.data[<<g.block[g.l], g.place[g.l][pushed]>>] = pushed
         \/ \E j \in 1 .. Len(q) : q[j].var = "data"
  PROVE  DataInv(g)' /\ LiveInv(g)'
<1> PICK p : p = Pp
  OBVIOUS
<1> PICK r : r = Pp'
  OBVIOUS
<1>1. /\ Shorthands(h) /\ VisitInv(h) /\ pushed \in Nat
      /\ g.l \in Nat /\ h.l <= g.l /\ g.l <= h.l + 1
      /\ \A v \in 0 .. h.l, n \in Nat : In(h, v, n) => In(g, v, n)
      /\ In(g, g.l, pushed)
      /\ \A v \in 0 .. g.l, n \in Nat : In(g, v, n) =>
              (v \in 0 .. h.l /\ In(h, v, n)) \/ (v = g.l /\ n = pushed)
  BY ExtendsFacts
<1>2. h.m \in Nat /\ h.f \in Nat /\ h.l \in Nat /\ h.f <= h.l /\ h.m <= h.f /\ g.f = h.f
      /\ popped \in Nat /\ popped <= pushed /\ pushed' = pushed + 1 /\ popped' = popped
  BY <1>1, Counts DEF Shorthands, Extends, Enqueues, consumerVars
<1>3. /\ \A i \in 1 .. Len(p) : i \in 1 .. Len(r) /\ r[i] = p[i]
      /\ \A j \in 1 .. Len(q) : Len(p) + j \in 1 .. Len(r) /\ r[Len(p) + j] = q[j]
  <2>1. p \in Seq(AnyStore) /\ r = p \o q
    BY DEF TypeInv, Pp, Threads, Enqueues
  <2> QED
    BY <2>1, Appended
<1>4. live' = live \cup {<<g.block[g.l], g.place[g.l][pushed]>>}
  BY DEF Enqueues
<1>5. \A v \in h.f .. h.l : v \in 0 .. h.l /\ v \in g.f .. g.l /\ v \in h.m .. h.l
  BY <1>1, <1>2
<1>6. \A v \in 0 .. h.l : g.block[v] = h.block[v] /\ g.place[v] = h.place[v]
  BY DEF Extends
<1>7. ASSUME NEW v \in g.f .. g.l, NEW n \in Nat, In(g, v, n), popped <= n
      PROVE  /\ <<g.block[v], g.place[v][n]>> \in live'
             /\ \/ mem'.data[<<g.block[v], g.place[v][n]>>] = n
                \/ \E i \in 1 .. Len(r) : r[i].var = "data" /\ r[i].of = n
  <2>1. v \in 0 .. g.l
    BY <1>2
  <2>2. CASE v \in 0 .. h.l /\ In(h, v, n)
    <3>1. v \in h.f .. h.l /\ v \in h.m .. h.l
      BY <1>2, <2>2
    <3>2. /\ <<h.block[v], h.place[v][n]>> \in live
          /\ \/ mem.data[<<h.block[v], h.place[v][n]>>] = n
             \/ \E i \in 1 .. Len(p) : p[i].var = "data" /\ p[i].of = n
      BY <1>7, <2>2, <3>1 DEF Inv, DataInv
    <3>3. /\ h.block[v] \in 0 .. blocks - 1 /\ h.place[v][n] \in Nat
          /\ <<h.block[v], h.place[v][n]>> \in Slots
      BY <1>1, <3>1, VisitFacts
    <3>4. mem'.data[<<h.block[v], h.place[v][n]>>] = mem.data[<<h.block[v], h.place[v][n]>>]
      BY <3>3 DEF Enqueues
    <3> QED
      BY <1>3, <1>4, <1>6, <2>2, <3>2, <3>4
  <2>3. CASE v = g.l /\ n = pushed
    <3>1. \A j \in 1 .. Len(q) : q[j].of = pushed
      BY DEF StoresOf
    <3> QED
      BY <1>3, <1>4, <2>3, <3>1
  <2> QED
    BY <1>1, <1>7, <2>1, <2>2, <2>3
<1>8. DataInv(g)'
  BY <1>2, <1>7 DEF DataInv, In
<1>9. ASSUME NEW s \in live'
      PROVE  \E v \in g.f .. g.l : \E n \in Nat :
               In(g, v, n) /\ popped <= n /\ s = <<g.block[v], g.place[v][n]>>
  <2>1. CASE s \in live
    <3>1. PICK v \in h.f .. h.l, n \in Nat :
            In(h, v, n) /\ popped <= n /\ s = <<h.block[v], h.place[v][n]>>
      BY <2>1 DEF Inv, LiveInv
    <3> QED
      BY <1>1, <1>5, <1>6, <3>1
  <2>2. CASE s = <<g.block[g.l], g.place[g.l][pushed]>>
    <3>1. g.l \in g.f .. g.l
      BY <1>1, <1>2
    <3> QED
      BY <1>1, <1>2, <2>2, <3>1
  <2> QED
    BY <1>4, <2>1, <2>2
<1>10. LiveInv(g)'
  BY <1>2, <1>9 DEF LiveInv, In
<1> QED
  BY <1>8, <1>10

\* What the producer sees after the step.
ViewsOf(g, h, q) ==
  /\ TailBlock' = g.block[g.l]
  /\ TailOf(g.block[g.l])' = g.place[g.l][pushed + 1]
  /\ \A v \in h.m .. h.l : v < g.l => TailOf(h.block[v])' = TailOf(h.block[v])
  /\ \A v \in h.m .. h.l - 1 : NextOf(h.block[v])' = NextOf(h.block[v])
  /\ g.l # h.l => /\ NextOf(h.block[h.l])' = g.block[g.l]
                  /\ \/ mem'.tail[g.block[g.l]] = g.place[g.l][pushed + 1]
                     \/ \E j \in 1 .. Len(q) : q[j].var = "tail"

\* The indices that the producer sees, with an element more.
LEMMA ProdGrown ==
  ASSUME TypeInv, NEW h \in History, NEW g \in History, NEW q \in Seq(AnyStore),
         Inv(h), Extends(g, h), Enqueues(g, h, q), StoresOf(g, h, q), ViewsOf(g, h, q),
         pushed + 1 - LeftAt(g, g.l) < blockSize'[g.block[g.l]]
  PROVE  ProdInv(g)' /\ RoomInv(g)'
<1> PICK p : p = Pp
  OBVIOUS
<1> PICK r : r = Pp'
  OBVIOUS
<1>1. /\ Shorthands(h) /\ VisitInv(h) /\ pushed \in Nat
      /\ g.l \in Nat /\ h.l <= g.l /\ g.l <= h.l + 1
      /\ \A v \in Nat : h.first[v] \in Nat /\ g.first[v] \in Nat
      /\ h.first[h.l + 1] = pushed
      /\ g.first[g.l] <= pushed
      /\ \A v \in 0 .. h.l : h.first[v + 1] <= g.first[v + 1]
      /\ \A v \in 0 .. h.l : v < g.l => g.first[v + 1] = h.first[v + 1]
  BY ExtendsFacts
<1>2. h.m \in Nat /\ h.t \in Nat /\ h.l \in Nat /\ h.m <= h.t /\ h.t <= h.l /\ g.t = h.t /\ g.m = h.m
      /\ g.first[g.l + 1] = pushed + 1
  BY <1>1 DEF Shorthands, Extends
<1>3. /\ \A i \in 1 .. Len(p) : i \in 1 .. Len(r) /\ r[i] = p[i]
      /\ \A j \in 1 .. Len(q) : Len(p) + j \in 1 .. Len(r) /\ r[Len(p) + j] = q[j]
  <2>1. p \in Seq(AnyStore) /\ r = p \o q
    BY DEF TypeInv, Pp, Threads, Enqueues
  <2> QED
    BY <2>1, Appended
<1>4. \A v \in h.m .. h.l : v \in 0 .. h.l /\ v \in Nat
  BY <1>2
<1>5. \A v \in 0 .. h.l : g.block[v] = h.block[v] /\ g.place[v] = h.place[v] /\ g.first[v] = h.first[v]
  BY DEF Extends
<1>6. g.l = h.l \/ g.l = h.l + 1
  BY DEF Extends
<1>7. ProdInv(h) /\ RoomInv(h)
  BY DEF Inv
<1>8. mem'.block = mem.block /\ pushed' = pushed + 1 /\ published' = published /\ removed' = removed
  BY DEF Enqueues
<1>9. \A v \in h.m .. h.l : /\ mem'.tail[h.block[v]] = mem.tail[h.block[v]]
                            /\ blockSize'[h.block[v]] = blockSize[h.block[v]]
  BY <1>1 DEF VisitInv, Enqueues
<1>10. TailBlock' = g.block[g.l] /\ mem'.block["tail"] = g.block[g.t]
  <2>1. h.t \in 0 .. h.l
    BY <1>2
  <2> QED
    BY <1>2, <1>5, <1>7, <1>8, <2>1 DEF ProdInv, ViewsOf
<1>11. ASSUME NEW v \in g.m .. g.l PROVE TailOf(g.block[v])' = g.place[v][g.first[v + 1]]
  <2>1. CASE v = g.l
    BY <1>2, <2>1 DEF ViewsOf
  <2>2. CASE v # g.l
    <3>1. v \in h.m .. h.l /\ v < g.l
      BY <1>1, <1>2, <1>6, <2>2
    <3>2. TailOf(h.block[v])' = TailOf(h.block[v])
      BY <3>1 DEF ViewsOf
    <3>3. TailOf(h.block[v]) = h.place[v][h.first[v + 1]]
      BY <1>7, <3>1 DEF ProdInv
    <3> QED
      BY <1>1, <1>4, <1>5, <3>1, <3>2, <3>3
  <2> QED
    BY <2>1, <2>2
<1>12. ASSUME NEW v \in g.m .. g.l - 1 PROVE NextOf(g.block[v])' = g.block[v + 1]
  <2>1. CASE v \in h.m .. h.l - 1
    <3>1. v \in 0 .. h.l /\ v + 1 \in 0 .. h.l
      BY <1>2, <2>1
    <3>2. NextOf(h.block[v])' = h.block[v + 1]
      BY <1>7, <2>1 DEF ProdInv, ViewsOf
    <3> QED
      BY <1>5, <3>1, <3>2
  <2>2. CASE v = h.l /\ g.l = h.l + 1
    <3>1. g.l # h.l /\ h.l \in 0 .. h.l
      BY <1>2, <2>2
    <3> QED
      BY <1>5, <2>2, <3>1 DEF ViewsOf
  <2> QED
    BY <1>2, <1>6, <2>1, <2>2
<1>13. /\ g.first[g.t] <= published /\ published <= g.first[g.t + 1]
       /\ g.t = 0 \/ g.first[g.t] < published
  <2>1. h.t \in 0 .. h.l /\ h.t + 1 \in Nat /\ h.t \in Nat
    BY <1>2
  <2>2. h.first[h.t + 1] <= g.first[h.t + 1]
    BY <1>1, <2>1
  <2>3. g.first[h.t] = h.first[h.t]
    BY <1>5, <2>1
  <2>4. h.first[h.t + 1] \in Nat /\ g.first[h.t + 1] \in Nat /\ published \in Nat
    BY <1>1, <2>1 DEF TypeInv
  <2> QED
    BY <1>2, <1>7, <2>2, <2>3, <2>4 DEF ProdInv
<1>14. ASSUME NEW v \in g.m .. g.t
       PROVE mem'.tail[g.block[v]] = g.place[v][IF v < g.t THEN g.first[v + 1] ELSE published]
  <2>1. v \in h.m .. h.l /\ v \in 0 .. h.l /\ (v < h.t => v < g.l) /\ v \in h.m .. h.t
    BY <1>1, <1>2
  <2>2. mem.tail[h.block[v]] = h.place[v][IF v < h.t THEN h.first[v + 1] ELSE published]
    BY <1>7, <2>1 DEF ProdInv
  <2>3. v < h.t => g.first[v + 1] = h.first[v + 1]
    BY <1>1, <2>1
  <2> QED
    BY <1>2, <1>5, <1>9, <2>1, <2>2, <2>3
<1>15. ASSUME NEW v \in g.t + 1 .. g.l
       PROVE  \/ mem'.tail[g.block[v]] = g.place[v][g.first[v] + 1]
              \/ \E i \in 1 .. Len(r) : r[i].var = "tail" /\ r[i].of = g.first[v]
  <2>1. CASE v \in h.t + 1 .. h.l
    <3>1. v \in h.m .. h.l /\ v \in 0 .. h.l
      BY <1>2, <2>1
    <3>2. \/ mem.tail[h.block[v]] = h.place[v][h.first[v] + 1]
          \/ \E i \in 1 .. Len(p) : p[i].var = "tail" /\ p[i].of = h.first[v]
      BY <1>7, <2>1 DEF ProdInv
    <3> QED
      BY <1>3, <1>5, <1>9, <3>1, <3>2
  <2>2. CASE v = g.l /\ g.l = h.l + 1
    <3>1. g.l # h.l /\ g.first[v] = pushed
      BY <1>2, <2>2 DEF Extends
    <3>2. \A j \in 1 .. Len(q) : q[j].of = pushed
      BY DEF StoresOf
    <3>3. \/ mem'.tail[g.block[g.l]] = g.place[g.l][pushed + 1]
          \/ \E j \in 1 .. Len(q) : q[j].var = "tail"
      BY <3>1 DEF ViewsOf
    <3> QED
      BY <1>3, <2>2, <3>1, <3>2, <3>3
  <2> QED
    BY <1>2, <1>6, <2>1, <2>2
<1>16. ProdInv(g)'
  BY <1>8, <1>10, <1>11, <1>12, <1>13, <1>14, <1>15 DEF ProdInv
<1>17. \A v \in Nat : LeftAt(g, v)' = LeftAt(g, v)
  BY <1>8 DEF LeftAt
<1>18. ASSUME NEW v \in g.m .. g.l PROVE g.first[v + 1] - LeftAt(g, v) < blockSize'[g.block[v]]
  <2>1. CASE v = g.l
    <3>1. g.first[v + 1] = pushed + 1 /\ LeftAt(g, v) = LeftAt(g, g.l) /\ g.block[v] = g.block[g.l]
      BY <1>2, <2>1
    <3>2. pushed \in Nat /\ LeftAt(g, g.l) \in Nat
      BY <1>1 DEF LeftAt, TypeInv
    <3> QED
      BY <3>1, <3>2
  <2>2. CASE v # g.l
    <3>1. v \in h.m .. h.l /\ v < g.l /\ v \in 0 .. h.l
      BY <1>1, <1>2, <1>6, <2>2
    <3>2. g.first[v + 1] = h.first[v + 1] /\ LeftAt(g, v) = LeftAt(h, v)
      BY <1>1, <1>2, <1>5, <3>1 DEF LeftAt
    <3>3. h.first[v + 1] - LeftAt(h, v) < blockSize[h.block[v]]
      BY <1>7, <3>1 DEF RoomInv
    <3> QED
      BY <1>5, <1>9, <3>1, <3>2, <3>3
  <2> QED
    BY <2>1, <2>2
<1>19. RoomInv(g)'
  <2>1. \A v \in g.m .. g.l : v \in Nat
    BY <1>2, HistoryFacts
  <2> QED
    BY <1>17, <1>18, <2>1 DEF RoomInv
<1> QED
  BY <1>16, <1>19

\* What the producer sees after more stores of its own.
LEMMA ProducerViews ==
  ASSUME TypeInv, NEW q \in Seq(AnyStore), Pp' = Pp \o q
  PROVE  /\ NoneTo(q, "block", "tail") /\ mem'.block = mem.block => TailBlock' = TailBlock
         /\ \A k : LastTo(q, k, "block", "tail") => TailBlock' = q[k].value
         /\ \A b : NoneTo(q, "tail", b) /\ mem'.tail[b] = mem.tail[b] => TailOf(b)' = TailOf(b)
         /\ \A b, k : LastTo(q, k, "tail", b) => TailOf(b)' = q[k].value
         /\ \A b : NoneTo(q, "next", b) /\ mem'.next[b] = mem.next[b] => NextOf(b)' = NextOf(b)
         /\ \A b, k : LastTo(q, k, "next", b) => NextOf(b)' = q[k].value
<1> PICK p : p = Pp
  OBVIOUS
<1> PICK later : later = mem'
  OBVIOUS
<1>1. p \in Seq(AnyStore)
  BY DEF TypeInv, Pp, Threads
<1>2. ASSUME NEW var, NEW at, NoneTo(q, var, at), later[var][at] = mem[var][at]
      PROVE  View(later, p \o q, var, at) = View(mem, p, var, at)
  <2>1. View(later, p \o q, var, at) = View(later, p, var, at)
    BY <1>1, <1>2, ViewAppendOther
  <2>2. View(later, p, var, at) = View(mem, p, var, at)
    BY <1>2 DEF View
  <2> QED
    BY <2>1, <2>2
<1>3. ASSUME NEW var, NEW at, NEW k, LastTo(q, k, var, at)
      PROVE  View(later, p \o q, var, at) = q[k].value
  BY <1>1, <1>3, ViewAppendTo
<1>4. TailBlock = View(mem, p, "block", "tail") /\ TailBlock' = View(later, p \o q, "block", "tail")
  BY DEF TailBlock, Own, Pp
<1>5. \A b : TailOf(b) = View(mem, p, "tail", b) /\ TailOf(b)' = View(later, p \o q, "tail", b)
  BY DEF TailOf, Own, Pp
<1>6. \A b : NextOf(b) = View(mem, p, "next", b) /\ NextOf(b)' = View(later, p \o q, "next", b)
  BY DEF NextOf, Own, Pp
<1>7. NoneTo(q, "block", "tail") /\ later.block = mem.block => TailBlock' = TailBlock
  BY <1>2, <1>4
<1>8. \A k : LastTo(q, k, "block", "tail") => TailBlock' = q[k].value
  BY <1>3, <1>4
<1>9. ASSUME NEW b, NoneTo(q, "tail", b), later.tail[b] = mem.tail[b] PROVE TailOf(b)' = TailOf(b)
  <2>1. later["tail"][b] = mem["tail"][b]
    BY <1>9
  <2>2. View(later, p \o q, "tail", b) = View(mem, p, "tail", b)
    BY <1>2, <1>9, <2>1
  <2> QED
    BY <1>5, <2>2
<1>10. \A b, k : LastTo(q, k, "tail", b) => TailOf(b)' = q[k].value
  BY <1>3, <1>5
<1>11. ASSUME NEW b, NoneTo(q, "next", b), later.next[b] = mem.next[b] PROVE NextOf(b)' = NextOf(b)
  <2>1. later["next"][b] = mem["next"][b]
    BY <1>11
  <2>2. View(later, p \o q, "next", b) = View(mem, p, "next", b)
    BY <1>2, <1>11, <2>1
  <2> QED
    BY <1>6, <2>2
<1>12. \A b, k : LastTo(q, k, "next", b) => NextOf(b)' = q[k].value
  BY <1>3, <1>6
<1> QED
  BY <1>7, <1>8, <1>9, <1>10, <1>11, <1>12

\* Two stores.
LEMMA Two ==
  ASSUME NEW S, NEW a \in S, NEW b \in S, NEW q, q = <<a>> \o <<b>>
  PROVE  q \in Seq(S) /\ Len(q) = 2 /\ q[1] = a /\ q[2] = b
         /\ \A j \in 1 .. Len(q) : j = 1 \/ j = 2
<1>1. q \in Seq(S) /\ Len(q) = 2 /\ q[1] = a /\ q[2] = b
  BY ConcatProperties
<1>2. \A j \in 1 .. 2 : j = 1 \/ j = 2
  OBVIOUS
<1> QED
  BY <1>1, <1>2

\* Three stores.
LEMMA Three ==
  ASSUME NEW S, NEW a \in S, NEW b \in S, NEW c \in S, NEW q, q = <<a>> \o <<b, c>>
  PROVE  q \in Seq(S) /\ Len(q) = 3 /\ q[1] = a /\ q[2] = b /\ q[3] = c
         /\ \A j \in 1 .. Len(q) : j = 1 \/ j = 2 \/ j = 3
<1>1. q \in Seq(S) /\ Len(q) = 3 /\ q[1] = a /\ q[2] = b /\ q[3] = c
  BY ConcatProperties
<1>2. \A j \in 1 .. 3 : j = 1 \/ j = 2 \/ j = 3
  OBVIOUS
<1> QED
  BY <1>1, <1>2

\* A step of the producer that makes no block keeps the types.
LEMMA ProducerTypes ==
  ASSUME TypeInv, UNCHANGED <<consumerVars, published, removed, shape>>, mem' = mem,
         UNCHANGED <<blocks, blockSize, largestBlockSize, localTail>>,
         localFront' \in [Blocks -> Nat], pending' \in [Threads -> Seq(AnyStore)],
         enqPc' \in {"idle", "next", "reuse"}, pushed' \in Nat
  PROVE  TypeInv'
BY DEF TypeInv, MaxBlockSize, Size, consumerVars

\* The stores of an element into a block.
HereStored(b, slot, d, s, q) ==
  /\ d = Store("data", <<b, slot>>, pushed, pushed)
  /\ s = Store("tail", b, After(b, slot), pushed)
  /\ q = <<d>> \o <<s>>

\* They go to the buffer; what the producer sees then.
LEMMA HereStores ==
  ASSUME TypeInv, NEW h \in History, Inv(h), NEW b, b = TailBlock, NEW slot, slot = TailOf(b),
         NEW d, NEW s, NEW q, HereStored(b, slot, d, s, q), Stores("producer", q), mem' = mem
  PROVE  /\ d.var = "data" /\ d.at = <<b, slot>> /\ d.value = pushed /\ d.of = pushed
         /\ s.var = "tail" /\ s.at = b /\ s.value = h.place[h.l][pushed + 1] /\ s.of = pushed
         /\ q \in Seq(AnyStore) /\ Len(q) = 2 /\ q[1] = d /\ q[2] = s
         /\ \A j \in 1 .. Len(q) : j = 1 \/ j = 2
         /\ pending' \in [Threads -> Seq(AnyStore)] /\ Pp' = Pp \o q /\ Pc' = Pc
         /\ TailBlock' = TailBlock /\ TailOf(b)' = h.place[h.l][pushed + 1]
         /\ \A c : c # b => TailOf(c)' = TailOf(c)
         /\ \A c : NextOf(c)' = NextOf(c)
<1>a2. /\ b = h.block[h.l] /\ b \in Blocks /\ b \in Nat /\ b < blocks
      /\ slot = h.place[h.l][pushed] /\ After(b, slot) = h.place[h.l][pushed + 1]
      /\ h.first[h.l] \in Nat /\ h.first[h.l] <= pushed
      /\ \A n \in Nat : /\ h.place[h.l][n] \in Nat
                        /\ <<h.block[h.l], h.place[h.l][n]>> \in Slots
  BY TailFacts
<1>0. /\ d = Store("data", <<b, slot>>, pushed, pushed)
      /\ s = Store("tail", b, After(b, slot), pushed)
      /\ q = <<d>> \o <<s>>
  BY DEF HereStored
<1>1. pushed \in Nat /\ Stores("producer", q)
  BY DEF TypeInv
<1>13. mem' = mem
  OBVIOUS
<1>2. /\ d.var = "data" /\ d.at = <<b, slot>> /\ d.value = pushed /\ d.of = pushed
      /\ s.var = "tail" /\ s.at = b /\ s.value = h.place[h.l][pushed + 1] /\ s.of = pushed
  BY <1>0, <1>a2 DEF Store
<1>3. d \in AnyStore /\ s \in AnyStore
  <2>1. <<b, slot>> \in Slots
    BY <1>a2, <1>1
  <2>2. pushed + 1 \in Nat
    BY <1>1
  <2>3. h.place[h.l][pushed + 1] \in Nat
    BY <1>a2, <2>2
  <2> QED
    BY <1>0, <1>a2, <1>1, <2>1, <2>3 DEF AnyStore, Store
<1>4. /\ q \in Seq(AnyStore) /\ Len(q) = 2 /\ q[1] = d /\ q[2] = s
      /\ \A j \in 1 .. Len(q) : j = 1 \/ j = 2
  BY <1>0, <1>3, Two
<1>5. pending' \in [Threads -> Seq(AnyStore)] /\ Pp' = Pp \o q /\ Pc' = Pc
  BY <1>1, <1>4, StoresFacts DEF Pp, Pc, Threads
<1>14. /\ TailBlock' = TailBlock /\ TailOf(b)' = h.place[h.l][pushed + 1]
       /\ \A c : c # b => TailOf(c)' = TailOf(c)
       /\ \A c : NextOf(c)' = NextOf(c)
  <2>1. LastTo(q, 2, "tail", b)
    BY <1>2, <1>4 DEF LastTo, Is
  <2>2. NoneTo(q, "block", "tail") /\ \A c : NoneTo(q, "next", c)
    BY <1>2, <1>4 DEF NoneTo, Is
  <2>3. \A c : c # b => NoneTo(q, "tail", c)
    BY <1>2, <1>4 DEF NoneTo, Is
  <2>4. q[2].value = h.place[h.l][pushed + 1]
    BY <1>2, <1>4
  <2>5. TailBlock' = TailBlock
    BY <1>4, <1>5, <1>13, <2>2, ProducerViews
  <2>6. TailOf(b)' = h.place[h.l][pushed + 1]
    <3>1. \A c, k : LastTo(q, k, "tail", c) => TailOf(c)' = q[k].value
      BY <1>4, <1>5, ProducerViews
    <3> QED
      BY <2>1, <2>4, <3>1
  <2>7. \A c : c # b => TailOf(c)' = TailOf(c)
    BY <1>4, <1>5, <1>13, <2>3, ProducerViews
  <2>8. \A c : NextOf(c)' = NextOf(c)
    BY <1>4, <1>5, <1>13, <2>2, ProducerViews
  <2> QED
    BY <2>5, <2>6, <2>7, <2>8
<1> QED
  BY <1>2, <1>4, <1>5, <1>14

\* An element goes into the tail block, or throws.
LEMMA HereStep ==
  ASSUME TypeInv, NEW h \in History, Inv(h), EnqueueHere,
         UNCHANGED <<consumerVars, published, removed, shape>>
  PROVE  TypeInv' /\ \E g \in History : Inv(g)'
<1> PICK b : b = TailBlock
  OBVIOUS
<1> PICK slot : slot = TailOf(b)
  OBVIOUS
<1>1. /\ FrontLooked /\ HasRoom /\ enqPc = "idle" /\ enqPc' = "idle" /\ UNCHANGED growVars
      /\ \/ Construct(b, slot, <<Store("tail", b, After(b, slot), pushed)>>)
         \/ UNCHANGED <<pending, live, pushed>>
  BY DEF EnqueueHere, NoElement
<1>2. /\ b = h.block[h.l] /\ b \in Blocks /\ b \in Nat /\ b < blocks
      /\ slot = h.place[h.l][pushed] /\ After(b, slot) = h.place[h.l][pushed + 1]
      /\ h.first[h.l] \in Nat /\ h.first[h.l] <= pushed
      /\ \A n \in Nat : /\ h.place[h.l][n] \in Nat
                        /\ <<h.block[h.l], h.place[h.l][n]>> \in Slots
  BY TailFacts
<1>3. /\ localFront' \in [Blocks -> Nat]
      /\ \A c \in Blocks : c # h.block[h.l] => localFront'[c] = localFront[c]
  BY <1>1, Room
<1>4. PICK z \in Nat : /\ localFront'[h.block[h.l]] = h.place[h.l][z]
                       /\ h.first[h.l] <= z /\ z <= LeftAt(h, h.l)
                       /\ pushed - z < blockSize[h.block[h.l]]
                       /\ pushed + 1 - z < blockSize[h.block[h.l]]
  BY <1>1, Room
<1>5. \A c \in Blocks : c >= blocks => localFront'[c] = localFront[c]
  <2>1. blocks \in Nat /\ \A c \in Blocks : c \in Nat
    BY MadeBlocks DEF TypeInv
  <2> QED
    BY <1>2, <1>3, <2>1
<1>6. CASE UNCHANGED <<pending, live, pushed>>
  <2>1. ShadowFrontInv(h)'
    BY <1>1, <1>4, <1>6 DEF ShadowFrontInv, LeftAt, growVars, blockVars
  <2>2. ReuseInv(h)'
    BY <1>1 DEF ReuseInv
  <2> QED
    BY <1>1, <1>3, <1>5, <1>6, <2>1, <2>2, QuietStep
<1>7. CASE Construct(b, slot, <<Store("tail", b, After(b, slot), pushed)>>)
  <2>0. PICK d, s, q : HereStored(b, slot, d, s, q)
    BY DEF HereStored
  <2>1. /\ Stores("producer", q) /\ live' = live \cup {<<b, slot>>}
        /\ pushed' = pushed + 1 /\ pushed \in Nat
    BY <1>7, <2>0 DEF Construct, HereStored, TypeInv
  <2>13. mem' = mem /\ UNCHANGED <<blocks, blockSize, largestBlockSize, localTail>>
    BY <1>1 DEF growVars, blockVars
  <2>2. /\ d.var = "data" /\ d.at = <<b, slot>> /\ d.value = pushed /\ d.of = pushed
        /\ s.var = "tail" /\ s.at = b /\ s.value = h.place[h.l][pushed + 1] /\ s.of = pushed
        /\ q \in Seq(AnyStore) /\ Len(q) = 2 /\ q[1] = d /\ q[2] = s
        /\ \A j \in 1 .. Len(q) : j = 1 \/ j = 2
        /\ pending' \in [Threads -> Seq(AnyStore)] /\ Pp' = Pp \o q /\ Pc' = Pc
        /\ TailBlock' = TailBlock /\ TailOf(b)' = h.place[h.l][pushed + 1]
        /\ \A c : c # b => TailOf(c)' = TailOf(c)
        /\ \A c : NextOf(c)' = NextOf(c)
    BY <2>0, <2>1, <2>13, HereStores
  <2>6. /\ Shorthands(h) /\ VisitInv(h) /\ h.l \in Nat /\ h.m \in Nat /\ h.m <= h.l
    BY Counts DEF Shorthands
  <2>7. PICK g \in History :
          /\ g.block = h.block /\ g.place = h.place /\ g.kept = h.kept
          /\ g.m = h.m /\ g.f = h.f /\ g.t = h.t /\ g.l = h.l
          /\ g.first = [h.first EXCEPT ![h.l + 1] = pushed + 1]
    <3> DEFINE g == [h EXCEPT !.first = [h.first EXCEPT ![h.l + 1] = pushed + 1]]
    <3>0. pushed \in Nat /\ h.l \in Nat
      BY <2>1, <2>6
    <3>1. h.first \in [Nat -> Nat] /\ h.l + 1 \in Nat /\ pushed + 1 \in Nat
      BY <3>0, HistoryFacts
    <3>2. [h.first EXCEPT ![h.l + 1] = pushed + 1] \in [Nat -> Nat]
      BY <3>1
    <3>3. g \in History
      BY <3>2 DEF History
    <3> QED
      BY <3>3 DEF History
  <2>8. g.first[h.l + 1] = pushed + 1 /\ \A v \in 0 .. h.l : g.first[v] = h.first[v]
    <3>1. h.first \in [Nat -> Nat]
      BY HistoryFacts
    <3> QED
      BY <2>6, <2>7, <3>1
  <2>9. Extends(g, h)
    BY <2>7, <2>8 DEF Extends
  <2>10. In(g, h.l, pushed)
    BY <1>2, <2>1, <2>6, <2>8 DEF In
  <2>11. Enqueues(g, h, q)
    <3>1. blocks' \in Nat /\ blocks <= blocks'
      BY <1>1 DEF growVars, blockVars, TypeInv
    <3> QED
      BY <1>1, <1>2, <2>1, <2>2, <2>7, <3>1 DEF Enqueues, growVars, blockVars
  <2>12. StoresOf(g, h, q)
    <3>1. Ordered(q)
      BY <2>1, <2>2 DEF Ordered, Before, Rank
    <3>2. Produced(g, d, g.l) /\ Produced(g, s, g.l)
      BY <1>2, <2>2, <2>7 DEF Produced
    <3>3. \A j \in 1 .. Len(q) : q[j].of = pushed /\ Produced(g, q[j], g.l)
      BY <2>2, <3>2
    <3>4. 2 \in 1 .. Len(q) /\ q[2].var = "tail"
      BY <2>2
    <3> QED
      BY <2>7, <3>1, <3>3, <3>4 DEF StoresOf
  <2>15. ViewsOf(g, h, q)
    <3>1. ASSUME NEW v \in h.m .. h.l, v < h.l PROVE h.block[v] # b
      <4>1. h.l \in h.m .. h.l /\ v # h.l
        BY <2>6, <3>1
      <4> QED
        BY <1>2, <2>6, <4>1 DEF VisitInv
    <3> QED
      BY <1>2, <2>7, <2>2, <3>1 DEF ViewsOf
  <2>16. VisitInv(g)'
    <3>1. h.kept \subseteq g.kept /\ g.kept \subseteq 0 .. blocks' - 1 /\ g.l = h.l
      BY <2>6, <2>7, <2>13 DEF VisitInv
    <3> QED
      BY <2>9, <2>11, <3>1, VisitGrown
  <2>17. /\ ConsInv(g)' /\ ShadowTailInv(g)' /\ Ordered(Pc)' /\ ConsumedInv(g)' /\ ToRemoveInv(g)'
         /\ CallInv(g)'
         /\ \A c : FrontOf(c)' = FrontOf(c)
    BY <2>7, <2>9, <2>11, ConsumerGrown
  <2>18. Ordered(Pp)' /\ ProducedInv(g)' /\ ToPublishInv(g)'
    BY <2>2, <2>9, <2>11, <2>12, StoresGrown
  <2>19. DataInv(g)' /\ LiveInv(g)'
    <3>1. 1 \in 1 .. Len(q) /\ q[1].var = "data"
      BY <2>2
    <3> QED
      BY <2>2, <2>9, <2>11, <2>12, <3>1, DataGrown
  <2>20. LeftAt(g, h.l) = LeftAt(h, h.l)
    <3>1. h.l \in 0 .. h.l
      BY <2>6
    <3> QED
      BY <2>7, <2>8, <3>1 DEF LeftAt
  <2>21. ProdInv(g)' /\ RoomInv(g)'
    <3>1. LeftAt(h, h.l) \in Nat /\ blockSize[h.block[h.l]] \in Nat
      BY TailFacts
    <3>2. pushed + 1 - LeftAt(h, h.l) < blockSize[h.block[h.l]]
      BY <1>4, <2>1, <3>1
    <3>3. pushed + 1 - LeftAt(g, g.l) < blockSize'[g.block[g.l]]
      BY <2>7, <2>13, <2>20, <3>2
    <3> QED
      BY <2>2, <2>9, <2>11, <2>12, <2>15, <3>3, ProdGrown
  <2>22. ShadowFrontInv(g)'
    <3>1. LeftAt(g, h.l)' = LeftAt(h, h.l)
      BY <2>20 DEF LeftAt
    <3>2. g.first[g.l] = h.first[h.l]
      BY <2>6, <2>7, <2>8
    <3> QED
      BY <1>4, <2>1, <2>7, <2>13, <3>1, <3>2 DEF ShadowFrontInv
  <2>23. SpareInv(g)'
    <3>1. ASSUME NEW c \in g.kept, Spare(g, c)
          PROVE  Spare(h, c) /\ TailOf(c)' = TailOf(c)
      <4>1. h.l \in h.m .. h.l
        BY <2>6
      <4>2. Spare(h, c)
        BY <2>7, <3>1 DEF Spare
      <4>3. c # b
        BY <1>2, <4>1, <4>2 DEF Spare
      <4> QED
        BY <2>2, <4>2, <4>3
    <3>2. \A c : Spare(g, c)' = Spare(g, c)
      BY DEF Spare
    <3> QED
      BY <2>7, <2>13, <2>17, <3>1, <3>2 DEF Inv, SpareInv
  <2>24. CircleInv(g)'
    BY <2>7, <2>2 DEF Inv, CircleInv
  <2>25. KeptInv(g)' /\ ToComeInv'
    BY <1>5, <2>7, <2>13 DEF Inv, KeptInv, ToComeInv, MaxBlockSize, Size
  <2>26. ReuseInv(g)'
    BY <1>1 DEF ReuseInv
  <2>27. TypeInv'
    <3>1. pushed' \in Nat
      BY <2>1
    <3> QED
      BY <1>1, <1>3, <2>2, <2>13, <3>1, ProducerTypes
  <2>28. Inv(g)'
    BY <2>16, <2>17, <2>18, <2>19, <2>21, <2>22, <2>23, <2>24, <2>25, <2>26 DEF Inv
  <2> QED
    BY <2>27, <2>28
<1> QED
  BY <1>1, <1>6, <1>7

\* A history with one more visit, to block b, from element n on.
OneMore(g, h, b, r, n, kept) ==
  /\ g.m = h.m /\ g.f = h.f /\ g.t = h.t /\ g.l = h.l + 1 /\ g.kept = kept
  /\ g.block[g.l] = b /\ g.place[g.l] = r /\ g.first[g.l] = n /\ g.first[g.l + 1] = n + 1
  /\ g.first[h.l + 1] = n
  /\ \A v \in 0 .. h.l :
       g.block[v] = h.block[v] /\ g.first[v] = h.first[v] /\ g.place[v] = h.place[v]

\* A history can be given one more visit.
LEMMA NewVisit ==
  ASSUME NEW h \in History, NEW b \in Nat, NEW r \in [Nat -> Nat], NEW n \in Nat, NEW kept \in SUBSET Nat,
         h.first[h.l + 1] = n
  PROVE  \E g \in History : OneMore(g, h, b, r, n, kept)
<1> DEFINE block == [h.block EXCEPT ![h.l + 1] = b]
<1> DEFINE first == [h.first EXCEPT ![h.l + 2] = n + 1]
<1> DEFINE place == [h.place EXCEPT ![h.l + 1] = r]
<1> DEFINE g == [h EXCEPT !.l = h.l + 1, !.kept = kept, !.block = block, !.first = first, !.place = place]
<1>1. h.l \in Nat /\ h.l + 1 \in Nat /\ h.l + 2 \in Nat /\ n + 1 \in Nat /\ h.l + 2 = (h.l + 1) + 1
  <2>1. h.l \in Nat
    BY HistoryFacts
  <2> QED
    BY <2>1
<1>2. h.block \in [Nat -> Nat] /\ h.first \in [Nat -> Nat]
  BY HistoryFacts
<1>3. h.place \in [Nat -> [Nat -> Nat]]
  BY HistoryFacts
<1>4. block \in [Nat -> Nat] /\ block[h.l + 1] = b /\ \A v \in 0 .. h.l : block[v] = h.block[v]
  BY <1>1, <1>2
<1>5. /\ first \in [Nat -> Nat] /\ first[h.l + 1] = n /\ first[h.l + 2] = n + 1
      /\ \A v \in 0 .. h.l : first[v] = h.first[v]
  BY <1>1, <1>2
<1>6. place \in [Nat -> [Nat -> Nat]] /\ place[h.l + 1] = r /\ \A v \in 0 .. h.l : place[v] = h.place[v]
  <2>1. place \in [Nat -> [Nat -> Nat]]
    BY <1>1, <1>3
  <2>2. place[h.l + 1] = r
    BY <1>1, <1>3
  <2>3. ASSUME NEW v \in 0 .. h.l PROVE place[v] = h.place[v]
    <3>1. v \in Nat /\ v # h.l + 1
      BY <1>1
    <3> QED
      BY <1>3, <3>1
  <2> QED
    BY <2>1, <2>2, <2>3
<1> HIDE DEF block, first, place
<1>7. g \in History
  BY <1>1, <1>4, <1>5, <1>6 DEF History
<1>8. /\ g.m = h.m /\ g.f = h.f /\ g.t = h.t /\ g.l = h.l + 1 /\ g.kept = kept
      /\ g.block = block /\ g.first = first /\ g.place = place
  BY DEF History
<1> HIDE DEF g
<1> QED
  BY <1>1, <1>4, <1>5, <1>6, <1>7, <1>8 DEF OneMore

\* The block after the tail block is not in use and empty.
LEMMA ReuseFacts ==
  ASSUME TypeInv, NEW h \in History, Inv(h), enqPc = "reuse", NEW b, b = NextOf(TailBlock)
  PROVE  /\ b = NextOf(h.block[h.l]) /\ b \in Nat /\ b \in Blocks /\ b \in 0 .. blocks - 1 /\ b \in h.kept
         /\ b # h.block[h.l] /\ \A v \in h.m .. h.l : h.block[v] # b
         /\ FrontOf(b) = TailOf(b) /\ mem.front[b] = TailOf(b)
         /\ blockSize[b] \in Nat /\ blockSize[b] >= 2
         /\ TailOf(b) \in 0 .. blockSize[b] - 1 /\ <<b, TailOf(b)>> \in Slots
         /\ h.first[h.l] < pushed
<1>1. TailBlock = h.block[h.l] /\ h.block[h.l] \in h.kept
  BY TailFacts
<1>2. b = NextOf(h.block[h.l]) /\ b \in h.kept
  BY <1>1 DEF Inv, CircleInv
<1>3. \A v \in h.m .. h.l : h.block[v] # b
  BY <1>2 DEF Inv, ReuseInv
<1>4. h.l \in h.m .. h.l
  BY Counts DEF Shorthands
<1>5. FrontOf(b) = TailOf(b) /\ mem.front[b] = FrontOf(b) /\ FrontOf(b) \in 0 .. blockSize[b] - 1
  BY <1>2, <1>3 DEF Inv, SpareInv, Spare
<1>6. b \in 0 .. blocks - 1 /\ blocks \in Nat
  BY <1>2 DEF Inv, VisitInv, TypeInv
<1>7. b \in Nat /\ b \in Blocks
  BY <1>6, MadeBlocks
<1>8. blockSize[b] \in Nat /\ 2 <= blockSize[b] /\ blockSize[b] <= 2 * MaxBlockSize
  BY <1>6, <1>7 DEF TypeInv
<1>9. shape \in Shapes /\ MaxBlockSize = shape[1] /\ shape[1] \in Nat
  BY ShapeFacts DEF TypeInv, MaxBlockSize
<1>10. TailOf(b) \in 0 .. 2 * MaxBlockSize - 1
  BY <1>5, <1>8, <1>9
<1>11. <<b, TailOf(b)>> \in Slots
  BY <1>7, <1>10, MadeBlocks
<1>12. h.first[h.l] < pushed
  BY DEF Inv, ReuseInv
<1> QED
  BY <1>2, <1>3, <1>4, <1>5, <1>6, <1>7, <1>8, <1>11, <1>12

\* The stores of the first element of a block and of the block.
ReuseStored(b, slot, d, s, k, q) ==
  /\ d = Store("data", <<b, slot>>, pushed, pushed)
  /\ s = Store("tail", b, After(b, slot), pushed)
  /\ k = Store("block", "tail", b, pushed)
  /\ q = <<d>> \o <<s, k>>

\* What they are, and what the producer sees when they are in its buffer.
ReuseSeen(b, slot, d, s, k, q) ==
  /\ d.var = "data" /\ d.at = <<b, slot>> /\ d.value = pushed /\ d.of = pushed
  /\ s.var = "tail" /\ s.at = b /\ s.value = After(b, slot) /\ s.of = pushed
  /\ k.var = "block" /\ k.at = "tail" /\ k.value = b /\ k.of = pushed
  /\ q \in Seq(AnyStore) /\ Len(q) = 3 /\ q[1] = d /\ q[2] = s /\ q[3] = k
  /\ \A j \in 1 .. Len(q) : j = 1 \/ j = 2 \/ j = 3
  /\ pending' \in [Threads -> Seq(AnyStore)] /\ Pp' = Pp \o q /\ Pc' = Pc
  /\ TailBlock' = b /\ TailOf(b)' = After(b, slot)
  /\ \A c : c # b => TailOf(c)' = TailOf(c)
  /\ \A c : NextOf(c)' = NextOf(c)

\* They go to the buffer; what the producer sees then.
LEMMA ReuseStores ==
  ASSUME TypeInv, NEW h \in History, Inv(h), enqPc = "reuse",
         NEW b, b = NextOf(TailBlock), NEW slot, slot = TailOf(b),
         NEW d, NEW s, NEW k, NEW q, ReuseStored(b, slot, d, s, k, q), Stores("producer", q), mem' = mem
  PROVE  ReuseSeen(b, slot, d, s, k, q)
<1>0. /\ d = Store("data", <<b, slot>>, pushed, pushed)
      /\ s = Store("tail", b, After(b, slot), pushed)
      /\ k = Store("block", "tail", b, pushed)
      /\ q = <<d>> \o <<s, k>>
  BY DEF ReuseStored
<1>1. /\ b \in Nat /\ b \in Blocks /\ blockSize[b] \in Nat /\ blockSize[b] >= 2
      /\ slot \in 0 .. blockSize[b] - 1 /\ <<b, slot>> \in Slots /\ pushed \in Nat
  BY ReuseFacts DEF TypeInv
<1>2. After(b, slot) \in Nat
  <2>1. blockSize[b] \in Nat \ {0} /\ slot + 1 \in Int
    BY <1>1
  <2>2. (slot + 1) % blockSize[b] \in 0 .. blockSize[b] - 1
    BY <2>1, DivMod
  <2> QED
    BY <1>1, <2>2 DEF After
<1>3. /\ d.var = "data" /\ d.at = <<b, slot>> /\ d.value = pushed /\ d.of = pushed
      /\ s.var = "tail" /\ s.at = b /\ s.value = After(b, slot) /\ s.of = pushed
      /\ k.var = "block" /\ k.at = "tail" /\ k.value = b /\ k.of = pushed
  BY <1>0 DEF Store
<1>4. d \in AnyStore /\ s \in AnyStore /\ k \in AnyStore
  BY <1>0, <1>1, <1>2 DEF AnyStore, Store
<1>5. /\ q \in Seq(AnyStore) /\ Len(q) = 3 /\ q[1] = d /\ q[2] = s /\ q[3] = k
      /\ \A j \in 1 .. Len(q) : j = 1 \/ j = 2 \/ j = 3
  BY <1>0, <1>4, Three
<1>6. pending' \in [Threads -> Seq(AnyStore)] /\ Pp' = Pp \o q /\ Pc' = Pc
  BY <1>5, StoresFacts DEF Pp, Pc, Threads
<1>7. LastTo(q, 2, "tail", b) /\ LastTo(q, 3, "block", "tail")
  BY <1>3, <1>5 DEF LastTo, Is
<1>8. \A c : NoneTo(q, "next", c)
  BY <1>3, <1>5 DEF NoneTo, Is
<1>9. \A c : c # b => NoneTo(q, "tail", c)
  BY <1>3, <1>5 DEF NoneTo, Is
<1>10. q[2].value = After(b, slot) /\ q[3].value = b
  BY <1>3, <1>5
<1>11. TailBlock' = b
  <2>1. \A j : LastTo(q, j, "block", "tail") => TailBlock' = q[j].value
    BY <1>5, <1>6, ProducerViews
  <2> QED
    BY <1>7, <1>10, <2>1
<1>12. TailOf(b)' = After(b, slot)
  <2>1. \A c, j : LastTo(q, j, "tail", c) => TailOf(c)' = q[j].value
    BY <1>5, <1>6, ProducerViews
  <2> QED
    BY <1>7, <1>10, <2>1
<1>13. \A c : c # b => TailOf(c)' = TailOf(c)
  BY <1>5, <1>6, <1>9, ProducerViews
<1>14. \A c : NextOf(c)' = NextOf(c)
  BY <1>5, <1>6, <1>8, ProducerViews
<1> QED
  BY <1>3, <1>5, <1>6, <1>11, <1>12, <1>13, <1>14 DEF ReuseSeen

\* A ring in which element n takes slot s.
RingThrough(size, s, n) == \E r \in [Nat -> Nat] : IsRing(r, size) /\ r[n] = s

LEMMA RingThroughSlot ==
  ASSUME NEW size, size \in Nat, size >= 2, NEW s, s \in 0 .. size - 1, NEW n, n \in Nat
  PROVE  RingThrough(size, s, n)
BY RingFrom DEF RingThrough

LEMMA PairOfThree ==
  ASSUME NEW i, NEW j, i \in 1 .. 3, j \in 1 .. 3, i < j
  PROVE  (i = 1 /\ j = 2) \/ (i = 1 /\ j = 3) \/ (i = 2 /\ j = 3)
OBVIOUS

\* The next block becomes the tail block, with an element, unless it throws.
LEMMA ReuseStep ==
  ASSUME TypeInv, NEW h \in History, Inv(h), EnqueueReuse,
         UNCHANGED <<consumerVars, published, removed, shape>>
  PROVE  TypeInv' /\ \E g \in History : Inv(g)'
<1> PICK b : b = NextOf(TailBlock)
  OBVIOUS
<1> PICK slot : slot = TailOf(b)
  OBVIOUS
<1>1. /\ enqPc = "reuse" /\ enqPc' = "idle" /\ localFront' = [localFront EXCEPT ![b] = mem.front[b]]
      /\ \/ Construct(b, slot, Enter(b, slot))
         \/ UNCHANGED <<pending, live, pushed>>
  BY DEF EnqueueReuse, NoElement, EnqueueReturn
<1>2. /\ b = NextOf(h.block[h.l]) /\ b \in Nat /\ b \in Blocks /\ b \in 0 .. blocks - 1 /\ b \in h.kept
      /\ b # h.block[h.l] /\ \A v \in h.m .. h.l : h.block[v] # b
      /\ FrontOf(b) = slot /\ mem.front[b] = slot
      /\ blockSize[b] \in Nat /\ blockSize[b] >= 2
      /\ slot \in 0 .. blockSize[b] - 1 /\ <<b, slot>> \in Slots
      /\ h.first[h.l] < pushed
  BY <1>1, ReuseFacts
<1>3. mem' = mem /\ UNCHANGED <<blocks, blockSize, largestBlockSize, localTail>>
  BY DEF EnqueueReuse, growVars, blockVars
<1>4. /\ Shorthands(h) /\ VisitInv(h) /\ h.l \in Nat /\ h.m \in Nat /\ h.t \in Nat /\ h.m <= h.l /\ h.t <= h.l
      /\ pushed \in Nat /\ h.first[h.l + 1] = pushed /\ blocks \in Nat
      /\ h.block[h.l] \in Blocks /\ TailBlock = h.block[h.l]
  <2>1. Shorthands(h) /\ VisitInv(h) /\ pushed \in Nat
    BY Counts
  <2>2. h.first[h.l + 1] = pushed /\ h.block[h.l] \in Blocks /\ TailBlock = h.block[h.l]
    BY TailFacts
  <2>3. h.l \in Nat /\ h.m \in Nat /\ h.t \in Nat /\ h.m <= h.l /\ h.t <= h.l
    BY <2>1 DEF Shorthands
  <2>4. blocks \in Nat
    BY DEF TypeInv
  <2> QED
    BY <2>1, <2>2, <2>3, <2>4
<1>5. /\ localFront' \in [Blocks -> Nat] /\ localFront'[b] = slot
      /\ \A c : c \in Blocks /\ c # b => localFront'[c] = localFront[c]
  <2>1. localFront \in [Blocks -> Nat] /\ slot \in Nat
    BY <1>2 DEF TypeInv
  <2> QED
    BY <1>1, <1>2, <2>1
<1>6. \A c \in Blocks : c >= blocks => localFront'[c] = localFront[c]
  <2>1. \A c \in Blocks : c \in Nat
    BY MadeBlocks
  <2> QED
    BY <1>2, <1>4, <1>5, <2>1
<1>7. CASE UNCHANGED <<pending, live, pushed>>
  <2>1. localFront'[h.block[h.l]] = localFront[h.block[h.l]]
    BY <1>2, <1>4, <1>5
  <2>2. ShadowFrontInv(h)'
    BY <1>3, <1>7, <2>1 DEF Inv, ShadowFrontInv, LeftAt
  <2>3. ReuseInv(h)'
    BY <1>1 DEF ReuseInv
  <2>4. UNCHANGED growVars
    BY DEF EnqueueReuse
  <2> QED
    BY <1>1, <1>5, <1>6, <1>7, <2>2, <2>3, <2>4, QuietStep
<1>8. CASE Construct(b, slot, Enter(b, slot))
  <2>0a. PICK d, s, k, q : ReuseStored(b, slot, d, s, k, q)
    BY DEF ReuseStored
  <2>0. PICK r \in [Nat -> Nat] : IsRing(r, blockSize[b]) /\ r[pushed] = slot
    <3>1. /\ blockSize[b] \in Nat /\ blockSize[b] >= 2 /\ slot \in 0 .. blockSize[b] - 1
          /\ pushed \in Nat
      BY <1>2, <1>4
    <3>2. RingThrough(blockSize[b], slot, pushed)
      BY <3>1, RingThroughSlot
    <3> QED
      BY Zenon, <3>2 DEF RingThrough
  <2>1. /\ Stores("producer", q) /\ live' = live \cup {<<b, slot>>}
        /\ pushed' = pushed + 1
    BY <1>8, <2>0a DEF Construct, Enter, ReuseStored
  <2>2. After(b, slot) = r[pushed + 1] /\ r[pushed + 1] \in Nat
    <3>1. pushed + 1 \in Nat
      BY <1>4
    <3>2. r[pushed + 1] = (r[pushed] + 1) % blockSize[b]
      BY <1>4, <2>0 DEF IsRing
    <3> QED
      BY <2>0, <3>1, <3>2 DEF After
  <2>4. /\ d.var = "data" /\ d.at = <<b, slot>> /\ d.value = pushed /\ d.of = pushed
        /\ s.var = "tail" /\ s.at = b /\ s.value = After(b, slot) /\ s.of = pushed
        /\ k.var = "block" /\ k.at = "tail" /\ k.value = b /\ k.of = pushed
        /\ q \in Seq(AnyStore) /\ Len(q) = 3 /\ q[1] = d /\ q[2] = s /\ q[3] = k
        /\ \A j \in 1 .. Len(q) : j = 1 \/ j = 2 \/ j = 3
        /\ pending' \in [Threads -> Seq(AnyStore)] /\ Pp' = Pp \o q /\ Pc' = Pc
        /\ TailBlock' = b /\ TailOf(b)' = After(b, slot)
        /\ \A c : c # b => TailOf(c)' = TailOf(c)
        /\ \A c : NextOf(c)' = NextOf(c)
    <3>1. enqPc = "reuse"
      BY <1>1
    <3>2. mem' = mem /\ Stores("producer", q)
      BY <1>3, <2>1
    <3>3. ReuseSeen(b, slot, d, s, k, q)
      BY <2>0a, <3>1, <3>2, ReuseStores
    <3> QED
      BY <3>3 DEF ReuseSeen
  <2>3. /\ d.var = "data" /\ d.at = <<b, slot>> /\ d.value = pushed /\ d.of = pushed
        /\ s.var = "tail" /\ s.at = b /\ s.value = r[pushed + 1] /\ s.of = pushed
        /\ k.var = "block" /\ k.at = "tail" /\ k.value = b /\ k.of = pushed
    BY <2>2, <2>4
  <2>5. /\ q \in Seq(AnyStore) /\ Len(q) = 3 /\ q[1] = d /\ q[2] = s /\ q[3] = k
        /\ \A j \in 1 .. Len(q) : j = 1 \/ j = 2 \/ j = 3
    BY <2>4
  <2>6. pending' \in [Threads -> Seq(AnyStore)] /\ Pp' = Pp \o q /\ Pc' = Pc
    BY <2>4
  <2>7. PICK g \in History : OneMore(g, h, b, r, pushed, h.kept)
    <3>1. h.kept \in SUBSET Nat
      BY HistoryFacts
    <3> QED
      BY <1>2, <1>4, <3>1, NewVisit
  <2>7a. /\ g.m = h.m /\ g.f = h.f /\ g.t = h.t /\ g.l = h.l + 1 /\ g.kept = h.kept
         /\ g.block[g.l] = b /\ g.place[g.l] = r /\ g.first[g.l] = pushed /\ g.first[g.l + 1] = pushed + 1
         /\ g.first[h.l + 1] = pushed
         /\ \A v \in 0 .. h.l :
              g.block[v] = h.block[v] /\ g.first[v] = h.first[v] /\ g.place[v] = h.place[v]
    BY <2>7 DEF OneMore
  <2>8. g.l # h.l /\ g.l \in Nat /\ g.l # g.m /\ g.l > g.t
    BY <1>4, <2>7a
  <2>9. Extends(g, h)
    BY <1>2, <2>7a DEF Extends
  <2>10. Enqueues(g, h, q)
    <3>1. live' = live \cup {<<g.block[g.l], g.place[g.l][pushed]>>}
      BY <2>0, <2>1, <2>7a
    <3>2. blocks' \in Nat /\ blocks <= blocks'
      BY <1>3, <1>4
    <3> QED
      BY <1>3, <2>1, <2>6, <3>1, <3>2 DEF Enqueues
  <2>11. StoresOf(g, h, q)
    <3>1. Ordered(q)
      <4>1. d.of = s.of /\ s.of = k.of
        BY <2>3
      <4>2. Rank(d.var) < Rank(s.var) /\ Rank(s.var) < Rank(k.var) /\ Rank(d.var) < Rank(k.var)
        BY <2>3 DEF Rank
      <4>3. Before(d, s) /\ Before(s, k) /\ Before(d, k)
        BY <4>1, <4>2 DEF Before
      <4>4. ASSUME NEW i \in 1 .. Len(q), NEW j \in 1 .. Len(q), i < j PROVE Before(q[i], q[j])
        <5>1. (i = 1 /\ j = 2) \/ (i = 1 /\ j = 3) \/ (i = 2 /\ j = 3)
          <6>1. i \in 1 .. 3 /\ j \in 1 .. 3
            BY <2>5
          <6> QED
            BY <4>4, <6>1, PairOfThree
        <5> QED
          BY <2>5, <4>3, <5>1
      <4> QED
        BY <4>4 DEF Ordered
    <3>2. Produced(g, d, g.l) /\ Produced(g, s, g.l) /\ Produced(g, k, g.l)
      BY <2>0, <2>3, <2>7a, <2>8 DEF Produced
    <3>3. \A j \in 1 .. Len(q) : q[j].of = pushed /\ Produced(g, q[j], g.l)
      BY <2>3, <2>5, <3>2
    <3>4. 3 \in 1 .. Len(q) /\ q[3].var = "block"
      BY <2>3, <2>5
    <3> QED
      BY <2>8, <3>1, <3>3, <3>4 DEF StoresOf
  <2>12. /\ TailBlock' = b /\ TailOf(b)' = r[pushed + 1]
         /\ \A c : c # b => TailOf(c)' = TailOf(c)
         /\ \A c : NextOf(c)' = NextOf(c)
    BY <2>2, <2>4
  <2>13. ViewsOf(g, h, q)
    <3>1. 2 \in 1 .. Len(q) /\ q[2].var = "tail"
      BY <2>3, <2>5
    <3> QED
      BY <1>2, <2>7a, <2>12, <3>1 DEF ViewsOf
  <2>14. VisitInv(g)'
    <3>1. /\ h.kept \subseteq g.kept /\ g.kept \subseteq 0 .. blocks' - 1 /\ g.block[g.l] \in g.kept
          /\ IsRing(g.place[g.l], blockSize'[g.block[g.l]])
          /\ \A v \in h.m .. h.l : h.block[v] # g.block[g.l]
      BY <1>2, <1>3, <1>4, <2>0, <2>7a DEF VisitInv
    <3> QED
      BY <2>9, <2>10, <3>1, VisitGrown
  <2>15. /\ ConsInv(g)' /\ ShadowTailInv(g)' /\ Ordered(Pc)' /\ ConsumedInv(g)' /\ ToRemoveInv(g)'
         /\ CallInv(g)'
         /\ \A c : FrontOf(c)' = FrontOf(c)
    <3>1. FrontOf(g.block[g.l]) = g.place[g.l][pushed] /\ mem.front[g.block[g.l]] = g.place[g.l][pushed]
      BY <1>2, <2>0, <2>7a
    <3> QED
      BY <2>9, <2>10, <3>1, ConsumerGrown
  <2>16. Ordered(Pp)' /\ ProducedInv(g)' /\ ToPublishInv(g)'
    BY <2>5, <2>9, <2>10, <2>11, StoresGrown
  <2>17. DataInv(g)' /\ LiveInv(g)'
    <3>1. 1 \in 1 .. Len(q) /\ q[1].var = "data"
      BY <2>3, <2>5
    <3> QED
      BY <2>5, <2>9, <2>10, <2>11, <3>1, DataGrown
  <2>18. LeftAt(g, g.l) = pushed /\ LeftAt(g, g.l)' = pushed
    BY <2>7a, <2>8 DEF LeftAt
  <2>19. ProdInv(g)' /\ RoomInv(g)'
    <3>1. pushed + 1 - LeftAt(g, g.l) < blockSize'[g.block[g.l]]
      BY <1>2, <1>3, <1>4, <2>7a, <2>18
    <3> QED
      BY <2>5, <2>9, <2>10, <2>11, <2>13, <3>1, ProdGrown
  <2>20. ShadowFrontInv(g)'
    <3>1. localFront'[g.block[g.l]] = g.place[g.l][pushed]
      BY <1>5, <2>0, <2>7a
    <3>2. g.first[g.l] <= pushed /\ pushed <= LeftAt(g, g.l)'
      BY <1>4, <2>7a, <2>18
    <3>3. pushed' - pushed < blockSize'[g.block[g.l]]
      BY <1>2, <1>3, <1>4, <2>1, <2>7a
    <3> QED
      BY <1>4, <3>1, <3>2, <3>3 DEF ShadowFrontInv
  <2>21. SpareInv(g)'
    <3>1. ASSUME NEW c \in g.kept, Spare(g, c)
          PROVE  Spare(h, c) /\ TailOf(c)' = TailOf(c)
      <4>1. g.l \in g.m .. g.l /\ \A v \in h.m .. h.l : v \in g.m .. g.l /\ v \in 0 .. h.l
        BY <1>4, <2>7a
      <4>2. Spare(h, c)
        BY <2>7a, <3>1, <4>1 DEF Spare
      <4>3. c # b
        BY <2>7a, <3>1, <4>1 DEF Spare
      <4> QED
        BY <2>12, <4>2, <4>3
    <3>2. \A c : Spare(g, c)' = Spare(g, c)
      BY DEF Spare
    <3> QED
      BY <1>3, <2>7a, <2>15, <3>1, <3>2 DEF Inv, SpareInv
  <2>22. CircleInv(g)'
    BY <2>7a, <2>12 DEF Inv, CircleInv
  <2>23. KeptInv(g)' /\ ToComeInv'
    BY <1>3, <1>6, <2>7a DEF Inv, KeptInv, ToComeInv, MaxBlockSize, Size
  <2>24. ReuseInv(g)'
    BY <1>1 DEF ReuseInv
  <2>25. TypeInv'
    <3>1. pushed' \in Nat
      BY <1>4, <2>1
    <3> QED
      BY <1>1, <1>3, <1>5, <2>6, <3>1, ProducerTypes
  <2>26. Inv(g)'
    BY <2>14, <2>15, <2>16, <2>17, <2>19, <2>20, <2>21, <2>22, <2>23, <2>24 DEF Inv
  <2> QED
    BY <2>25, <2>26
<1> QED
  BY <1>1, <1>7, <1>8

\* A new block is no smaller than the others and no larger than may be.
LEMMA NewSize ==
  ASSUME TypeInv
  PROVE  NewBlockSize \in Nat /\ 2 <= NewBlockSize /\ NewBlockSize <= 2 * MaxBlockSize
<1>1. MaxBlockSize \in Nat
  BY ShapeFacts DEF TypeInv, MaxBlockSize
<1>2. largestBlockSize \in Nat /\ 2 <= largestBlockSize /\ largestBlockSize <= 2 * MaxBlockSize
  BY DEF TypeInv
<1> QED
  BY <1>1, <1>2 DEF NewBlockSize

\* A new block that the element does not get into is lost.
LEMMA LostStep ==
  ASSUME TypeInv, NEW h \in History, Inv(h), EnqueueGrow, NoElement, UNCHANGED <<mem, localTail>>,
         UNCHANGED <<consumerVars, published, removed, shape>>
  PROVE  TypeInv' /\ Inv(h)'
<1> PICK size : size = NewBlockSize
  OBVIOUS
<1>1. /\ blocks' = blocks + 1 /\ blockSize' = [blockSize EXCEPT ![blocks] = size]
      /\ largestBlockSize' = size /\ mem' = mem /\ localFront' = localFront /\ localTail' = localTail
      /\ pending' = pending /\ Pp' = Pp /\ Pc' = Pc /\ enqPc' = "idle"
      /\ blocks < InitialBlockCount(MaxBlockSize, Size) + MaxNew
      /\ UNCHANGED <<deqPc, op, block_, front_, popped, publishedAtStart>>
      /\ UNCHANGED <<live, published, removed, shape, pushed>>
  BY DEF EnqueueGrow, EnqueueReturn, NoElement, consumerVars, Pp, Pc
<1>2. /\ size \in Nat /\ 2 <= size /\ size <= 2 * MaxBlockSize
      /\ blocks \in Nat /\ blocks \in Blocks /\ \A c \in Blocks : c \in Nat
  BY <1>1, NewSize, MadeBlocks DEF TypeInv
<1>3. /\ blockSize' \in [Blocks -> Nat] /\ blockSize'[blocks] = size
      /\ \A c \in 0 .. blocks - 1 : c \in Blocks /\ blockSize'[c] = blockSize[c]
  <2>1. \A c \in 0 .. blocks - 1 : c # blocks /\ c \in Blocks
    BY <1>2, MadeBlocks
  <2>2. blockSize \in [Blocks -> Nat]
    BY DEF TypeInv
  <2> QED
    BY <1>1, <1>2, <2>1, <2>2
<1>4. TypeInv'
  <2>1. /\ MaxBlockSize' = MaxBlockSize /\ Size' = Size /\ MaxNew \in Nat
        /\ InitialBlockCount(MaxBlockSize, Size) \in Nat
    BY <1>1, ShapeFacts, SizeAssumption DEF MaxBlockSize, Size, TypeInv
  <2>2. /\ blocks' \in Nat /\ blocks' > 0 /\ InitialBlockCount(MaxBlockSize, Size) <= blocks'
        /\ blocks' <= InitialBlockCount(MaxBlockSize, Size) + MaxNew
    BY <1>1, <1>2, <2>1 DEF TypeInv
  <2>3. \A c \in 0 .. blocks' - 1 : 2 <= blockSize'[c] /\ blockSize'[c] <= 2 * MaxBlockSize
    <3>1. \A c \in 0 .. blocks' - 1 : c \in 0 .. blocks - 1 \/ c = blocks
      BY <1>1, <1>2
    <3> QED
      BY <1>2, <1>3, <3>1 DEF TypeInv
  <2> QED
    BY <1>1, <1>2, <1>3, <2>1, <2>2, <2>3 DEF TypeInv
<1>5. /\ Shorthands(h) /\ VisitInv(h)
      /\ \A v \in h.m .. h.l : h.block[v] \in 0 .. blocks - 1
      /\ h.l \in h.m .. h.l /\ h.kept \subseteq 0 .. blocks - 1
  <2>1. Shorthands(h) /\ VisitInv(h)
    BY Counts
  <2> QED
    BY <2>1, VisitFacts DEF Shorthands, VisitInv
<1>6. /\ TailBlock' = TailBlock /\ FrontBlock' = FrontBlock
      /\ \A b : TailOf(b)' = TailOf(b) /\ NextOf(b)' = NextOf(b) /\ FrontOf(b)' = FrontOf(b)
  BY <1>1, ProducerSees, ConsumerSees
<1>7. VisitInv(h)'
  <2>1. h.kept \subseteq 0 .. blocks' - 1
    BY <1>1, <1>2, <1>5
  <2>2. \A v \in h.m .. h.l : blockSize'[h.block[v]] = blockSize[h.block[v]]
    BY <1>3, <1>5
  <2> QED
    BY <1>1, <1>5, <2>1, <2>2 DEF VisitInv
<1>8. RoomInv(h)' /\ ShadowFrontInv(h)'
  <2>1. \A v \in h.m .. h.l : blockSize'[h.block[v]] = blockSize[h.block[v]]
    BY <1>3, <1>5
  <2> QED
    BY <1>1, <1>5, <2>1 DEF Inv, RoomInv, ShadowFrontInv, LeftAt
<1>9. SpareInv(h)'
  BY <1>1, <1>3, <1>5, <1>6 DEF Inv, SpareInv, Spare
<1>10. ProdInv(h)' /\ CircleInv(h)'
  BY <1>1, <1>6 DEF Inv, ProdInv, CircleInv
<1>11. KeptInv(h)'
  <2>1. InitialBlockCount(MaxBlockSize, Size) <= blocks /\ InitialBlockCount(MaxBlockSize, Size) \in Nat
    BY ShapeFacts DEF TypeInv, MaxBlockSize, Size
  <2>2. mem.data[<<blocks, 0>>] = -1
    BY <1>2 DEF Inv, ToComeInv
  <2>3. \A c : c \in 0 .. blocks' - 1 <=> c \in 0 .. blocks - 1 \/ c = blocks
    BY <1>1, <1>2
  <2>4. ~(blocks < InitialBlockCount(MaxBlockSize, Size))
    BY <1>2, <2>1
  <2>5. h.kept = {b \in 0 .. blocks' - 1 :
              b < InitialBlockCount(MaxBlockSize, Size) \/ mem.data[<<b, 0>>] # -1}
    BY <2>2, <2>3, <2>4 DEF Inv, KeptInv
  <2> QED
    BY <1>1, <2>5 DEF KeptInv, MaxBlockSize, Size
<1>12. ToComeInv'
  BY <1>1, <1>2 DEF Inv, ToComeInv
<1>13. ConsInv(h)'
  BY <1>1, <1>6 DEF Inv, ConsInv, FrontAt, LeftAt
<1>14. ShadowTailInv(h)' /\ CallInv(h)'
  BY <1>1 DEF Inv, ShadowTailInv, CallInv, In
<1>15. Ordered(Pp)' /\ Ordered(Pc)'
  BY <1>1 DEF Inv, Ordered
<1>16. ProducedInv(h)' /\ ToPublishInv(h)'
  BY <1>1 DEF Inv, ProducedInv, ToPublishInv
<1>17. ConsumedInv(h)' /\ ToRemoveInv(h)'
  BY <1>1 DEF Inv, ConsumedInv, Consumed, ToRemoveInv
<1>18. DataInv(h)' /\ LiveInv(h)'
  BY <1>1 DEF Inv, DataInv, LiveInv
<1>19. ReuseInv(h)'
  BY <1>1 DEF ReuseInv
<1> QED
  BY <1>4, <1>7, <1>8, <1>9, <1>10, <1>11, <1>12, <1>13, <1>14, <1>15, <1>16, <1>17, <1>18, <1>19 DEF Inv

\* Two stores, written as one sequence.
LEMMA Pair ==
  ASSUME NEW S, NEW a \in S, NEW b \in S, NEW q, q = <<a, b>>
  PROVE  q \in Seq(S) /\ Len(q) = 2 /\ q[1] = a /\ q[2] = b
         /\ \A j \in 1 .. Len(q) : j = 1 \/ j = 2
OBVIOUS

\* No store is on its way to a block to come.
LEMMA NoneToCome ==
  ASSUME TypeInv, NEW h \in History, Inv(h)
  PROVE  NoneTo(Pp, "next", blocks) /\ NoneTo(Pp, "tail", blocks) /\ NoneTo(Pc, "front", blocks)
<1>1. Shorthands(h) /\ VisitInv(h) /\ blocks \in Nat
  BY Counts DEF TypeInv
<1>2. \A v \in h.m .. h.l : h.block[v] \in 0 .. blocks - 1
  BY <1>1, VisitFacts
<1>3. \A v \in h.m .. h.l : h.block[v] # blocks
  BY <1>1, <1>2
<1>4. ASSUME NEW i \in 1 .. Len(Pp), Pp[i].var \in {"next", "tail"} PROVE Pp[i].at # blocks
  <2>1. PICK v \in h.t .. h.l : Produced(h, Pp[i], v)
    BY DEF Inv, ProducedInv
  <2>2. \/ Pp[i].at = h.block[v]
        \/ v > h.t /\ Pp[i].at = h.block[v - 1]
    BY <1>4, <2>1 DEF Produced
  <2>3. v \in h.m .. h.l /\ (v > h.t => v - 1 \in h.m .. h.l)
    BY <1>1 DEF Shorthands
  <2> QED
    BY <1>3, <2>2, <2>3
<1>5. ASSUME NEW i \in 1 .. Len(Pc), Pc[i].var = "front" PROVE Pc[i].at # blocks
  <2>1. PICK v \in h.m .. h.f : Consumed(h, Pc[i], v)
    BY DEF Inv, ConsumedInv
  <2>2. Pc[i].at = h.block[v]
    BY <1>5, <2>1 DEF Consumed
  <2>3. v \in h.m .. h.l
    BY <1>1 DEF Shorthands
  <2> QED
    BY <1>3, <2>2, <2>3
<1> QED
  BY <1>4, <1>5 DEF NoneTo, Is

\* What memory is after a new block with its element was put together.
PutTogether(b, nx, n) ==
  mem' = [mem EXCEPT !.data[<<b, 0>>] = n, !.tail[b] = 1, !.next[b] = nx]

\* What each variable is in memory then.
LEMMA GrowMemory ==
  ASSUME TypeInv, NEW b \in Blocks, NEW nx \in Nat, NEW n \in Nat, PutTogether(b, nx, n)
  PROVE  /\ mem' \in [block: [{"front", "tail"} -> Nat], front: [Blocks -> Nat], tail: [Blocks -> Nat],
                      next: [Blocks -> Nat], data: [Slots -> Int]]
         /\ mem'.block = mem.block /\ mem'.front = mem.front
         /\ mem'.tail[b] = 1 /\ \A c \in Blocks : c # b => mem'.tail[c] = mem.tail[c]
         /\ mem'.next[b] = nx /\ \A c \in Blocks : c # b => mem'.next[c] = mem.next[c]
         /\ mem'.data[<<b, 0>>] = n /\ \A s \in Slots : s # <<b, 0>> => mem'.data[s] = mem.data[s]
<1>1. /\ mem \in [block: [{"front", "tail"} -> Nat], front: [Blocks -> Nat], tail: [Blocks -> Nat],
                  next: [Blocks -> Nat], data: [Slots -> Int]]
      /\ <<b, 0>> \in Slots
  BY MadeBlocks DEF TypeInv
<1>2. /\ mem'.block = mem.block /\ mem'.front = mem.front
      /\ mem'.data = [mem.data EXCEPT ![<<b, 0>>] = n]
      /\ mem'.tail = [mem.tail EXCEPT ![b] = 1] /\ mem'.next = [mem.next EXCEPT ![b] = nx]
      /\ mem' = [block |-> mem'.block, front |-> mem'.front, tail |-> mem'.tail, next |-> mem'.next,
                 data |-> mem'.data]
  BY <1>1 DEF PutTogether
<1>3. mem'.tail \in [Blocks -> Nat] /\ mem'.next \in [Blocks -> Nat] /\ mem'.data \in [Slots -> Int]
  BY <1>1, <1>2
<1>4. mem'.block \in [{"front", "tail"} -> Nat] /\ mem'.front \in [Blocks -> Nat]
  BY <1>1, <1>2
<1>5. mem' \in [block: [{"front", "tail"} -> Nat], front: [Blocks -> Nat], tail: [Blocks -> Nat],
                next: [Blocks -> Nat], data: [Slots -> Int]]
  BY <1>2, <1>3, <1>4
<1>6. mem'.tail[b] = 1 /\ \A c \in Blocks : c # b => mem'.tail[c] = mem.tail[c]
  BY <1>1, <1>2
<1>7. mem'.next[b] = nx /\ \A c \in Blocks : c # b => mem'.next[c] = mem.next[c]
  BY <1>1, <1>2
<1>8. mem'.data[<<b, 0>>] = n /\ \A s \in Slots : s # <<b, 0>> => mem'.data[s] = mem.data[s]
  BY <1>1, <1>2
<1> QED
  BY <1>2, <1>5, <1>6, <1>7, <1>8

\* The stores that link a new block and make it the tail block.
GrowStored(b, end, a, k, q) ==
  /\ a = Store("next", end, b, pushed)
  /\ k = Store("block", "tail", b, pushed)
  /\ q = <<a, k>>

\* What they are, and what the producer sees when they are in its buffer.
GrowSeen(b, nx, end, a, k, q) ==
  /\ a.var = "next" /\ a.at = end /\ a.value = b /\ a.of = pushed
  /\ k.var = "block" /\ k.at = "tail" /\ k.value = b /\ k.of = pushed
  /\ q \in Seq(AnyStore) /\ Len(q) = 2 /\ q[1] = a /\ q[2] = k
  /\ \A j \in 1 .. Len(q) : j = 1 \/ j = 2
  /\ pending' \in [Threads -> Seq(AnyStore)] /\ Pp' = Pp \o q /\ Pc' = Pc
  /\ TailBlock' = b /\ TailOf(b)' = 1 /\ NextOf(end)' = b /\ NextOf(b)' = nx
  /\ \A c \in Blocks : c # b => TailOf(c)' = TailOf(c)
  /\ \A c \in Blocks : c # b /\ c # end => NextOf(c)' = NextOf(c)

\* They go to the buffer; what the producer sees then.
LEMMA GrowStores ==
  ASSUME TypeInv, NEW h \in History, Inv(h), NEW b, b = blocks, b \in Blocks,
         NEW nx \in Nat, PutTogether(b, nx, pushed),
         NEW a, NEW k, NEW q, GrowStored(b, h.block[h.l], a, k, q), Stores("producer", q)
  PROVE  GrowSeen(b, nx, h.block[h.l], a, k, q)
<1>b0. /\ a = Store("next", h.block[h.l], b, pushed)
       /\ k = Store("block", "tail", b, pushed)
       /\ q = <<a, k>>
  BY DEF GrowStored
<1>b1. /\ pushed \in Nat /\ h.block[h.l] \in Blocks /\ h.block[h.l] # b /\ b \in Nat
  <2>1. h.block[h.l] \in Blocks /\ h.block[h.l] \in Nat /\ h.block[h.l] < blocks
    BY TailFacts
  <2>2. pushed \in Nat /\ blocks \in Nat
    BY DEF TypeInv
  <2> QED
    BY <2>1, <2>2
<1>b4. /\ mem'.block = mem.block
       /\ mem'.tail[b] = 1 /\ \A c \in Blocks : c # b => mem'.tail[c] = mem.tail[c]
       /\ mem'.next[b] = nx /\ \A c \in Blocks : c # b => mem'.next[c] = mem.next[c]
  BY <1>b1, GrowMemory
<1>b6. /\ a.var = "next" /\ a.at = h.block[h.l] /\ a.value = b /\ a.of = pushed
       /\ k.var = "block" /\ k.at = "tail" /\ k.value = b /\ k.of = pushed
  BY <1>b0 DEF Store
<1>b7. a \in AnyStore /\ k \in AnyStore
  BY <1>b0, <1>b1 DEF AnyStore, Store
<1>b8. q \in Seq(AnyStore) /\ Len(q) = 2 /\ q[1] = a /\ q[2] = k
       /\ \A j \in 1 .. Len(q) : j = 1 \/ j = 2
  BY <1>b0, <1>b7, Pair
<1>b9. pending' \in [Threads -> Seq(AnyStore)] /\ Pp' = Pp \o q /\ Pc' = Pc
  BY <1>b8, StoresFacts DEF Pp, Pc, Threads
<1>1. LastTo(q, 1, "next", h.block[h.l]) /\ LastTo(q, 2, "block", "tail")
  BY <1>b6, <1>b8 DEF LastTo, Is
<1>2. \A c : c # h.block[h.l] => NoneTo(q, "next", c)
  BY <1>b6, <1>b8 DEF NoneTo, Is
<1>3. \A c : NoneTo(q, "tail", c)
  BY <1>b6, <1>b8 DEF NoneTo, Is
<1>4. q[1].value = b /\ q[2].value = b
  BY <1>b6, <1>b8
<1>5. TailBlock' = b
  <2>1. \A j : LastTo(q, j, "block", "tail") => TailBlock' = q[j].value
    BY <1>b8, <1>b9, ProducerViews
  <2> QED
    BY <1>1, <1>4, <2>1
<1>6. NextOf(h.block[h.l])' = b
  <2>1. \A c, j : LastTo(q, j, "next", c) => NextOf(c)' = q[j].value
    BY <1>b8, <1>b9, ProducerViews
  <2>2. PICK c : c = h.block[h.l]
    OBVIOUS
  <2>3. NextOf(c)' = b
    BY <1>1, <1>4, <2>1, <2>2
  <2> QED
    BY <2>2, <2>3
<1>7. \A c \in Blocks : c # b => TailOf(c)' = TailOf(c)
  <2>1. \A c : NoneTo(q, "tail", c) /\ mem'.tail[c] = mem.tail[c] => TailOf(c)' = TailOf(c)
    BY <1>b8, <1>b9, ProducerViews
  <2> QED
    BY <1>b4, <1>3, <2>1
<1>8. \A c \in Blocks : c # b /\ c # h.block[h.l] => NextOf(c)' = NextOf(c)
  <2>1. \A c : NoneTo(q, "next", c) /\ mem'.next[c] = mem.next[c] => NextOf(c)' = NextOf(c)
    BY <1>b8, <1>b9, ProducerViews
  <2> QED
    BY <1>b4, <1>2, <2>1
<1>9. NoneTo(Pp', "next", b) /\ NoneTo(Pp', "tail", b)
  <2> PICK p : p = Pp
    OBVIOUS
  <2> PICK z : z = Pp'
    OBVIOUS
  <2>1. p \in Seq(AnyStore) /\ z = p \o q
    BY <1>b9 DEF TypeInv, Pp, Threads
  <2>2. \A i \in 1 .. Len(z) : \/ i \in 1 .. Len(p) /\ z[i] = p[i]
                               \/ i - Len(p) \in 1 .. Len(q) /\ z[i] = q[i - Len(p)]
    <3>1. q \in Seq(AnyStore)
      BY <1>b8
    <3>2. /\ \A i \in 1 .. Len(p) : z[i] = p[i]
          /\ \A i \in 1 .. Len(z) : \/ i \in 1 .. Len(p)
                                    \/ i - Len(p) \in 1 .. Len(q) /\ z[i] = q[i - Len(p)]
      BY <2>1, <3>1, Appended
    <3> QED
      BY <3>2
  <2>3. NoneTo(p, "next", b) /\ NoneTo(p, "tail", b)
    BY NoneToCome
  <2>4. NoneTo(q, "next", b) /\ NoneTo(q, "tail", b)
    <3>1. b # h.block[h.l]
      BY <1>b1
    <3> QED
      BY <1>2, <1>3, <3>1
  <2>5. NoneTo(z, "next", b) /\ NoneTo(z, "tail", b)
    BY <2>2, <2>3, <2>4 DEF NoneTo
  <2> QED
    BY <2>5
<1>10. NextOf(b)' = nx /\ TailOf(b)' = 1
  <2>1. NextOf(b)' = View(mem', Pp', "next", b) /\ TailOf(b)' = View(mem', Pp', "tail", b)
    BY DEF NextOf, TailOf, Own, Pp
  <2>2. Pp' \in Seq(AnyStore)
    BY <1>b9 DEF Pp, Threads
  <2>3. View(mem', Pp', "next", b) = mem'.next[b] /\ View(mem', Pp', "tail", b) = mem'.tail[b]
    BY <1>9, <2>2, ViewNone
  <2> QED
    BY <1>b4, <2>1, <2>3
<1> QED
  BY <1>5, <1>6, <1>7, <1>8, <1>10, <1>b6, <1>b8, <1>b9 DEF GrowSeen

\* A new block is linked with an element in it, or lost.
LEMMA GrowStep ==
  ASSUME TypeInv, NEW h \in History, Inv(h), EnqueueGrow,
         UNCHANGED <<consumerVars, published, removed, shape>>
  PROVE  TypeInv' /\ \E g \in History : Inv(g)'
<1> PICK b : b = blocks
  OBVIOUS
<1> PICK nx : nx = NextOf(TailBlock)
  OBVIOUS
<1> PICK size : size = NewBlockSize
  OBVIOUS
<1>1. /\ enqPc = "next" /\ blocks < InitialBlockCount(MaxBlockSize, Size) + MaxNew
      /\ blocks' = b + 1 /\ blockSize' = [blockSize EXCEPT ![b] = size]
      /\ largestBlockSize' = size /\ enqPc' = "idle" /\ localFront' = localFront
      /\ \/ /\ mem' = [mem EXCEPT !.data[<<b, 0>>] = pushed, !.tail[b] = 1, !.next[b] = nx]
            /\ localTail' = [localTail EXCEPT ![b] = 1]
            /\ Stores("producer", Insert(b))
            /\ live' = live \cup {<<b, 0>>}
            /\ pushed' = pushed + 1
         \/ NoElement /\ UNCHANGED <<mem, localTail>>
  BY DEF EnqueueGrow, EnqueueReturn
<1>2. CASE NoElement /\ UNCHANGED <<mem, localTail>>
  BY <1>2, LostStep
<1>3. ASSUME mem' = [mem EXCEPT !.data[<<b, 0>>] = pushed, !.tail[b] = 1, !.next[b] = nx],
             localTail' = [localTail EXCEPT ![b] = 1], Stores("producer", Insert(b)),
             live' = live \cup {<<b, 0>>}, pushed' = pushed + 1
      PROVE  TypeInv' /\ \E g \in History : Inv(g)'
  <2>1. /\ size \in Nat /\ 2 <= size /\ size <= 2 * MaxBlockSize
        /\ b \in Nat /\ b \in Blocks /\ \A c \in Blocks : c \in Nat /\ <<b, 0>> \in Slots
    BY <1>1, NewSize, MadeBlocks DEF TypeInv
  <2>2. /\ Shorthands(h) /\ VisitInv(h) /\ h.l \in Nat /\ h.m \in Nat /\ h.t \in Nat /\ h.m <= h.l
        /\ h.t <= h.l /\ pushed \in Nat /\ h.first[h.l + 1] = pushed
        /\ h.block[h.l] \in Blocks /\ TailBlock = h.block[h.l] /\ h.block[h.l] \in h.kept
        /\ h.first[h.l] < pushed
    <3>1. Shorthands(h) /\ VisitInv(h) /\ pushed \in Nat
      BY Counts
    <3>2. h.first[h.l + 1] = pushed /\ h.block[h.l] \in Blocks /\ TailBlock = h.block[h.l]
          /\ h.block[h.l] \in h.kept
      BY TailFacts
    <3>3. h.l \in Nat /\ h.m \in Nat /\ h.t \in Nat /\ h.m <= h.l /\ h.t <= h.l
      BY <3>1 DEF Shorthands
    <3>4. h.first[h.l] < pushed
      BY <1>1 DEF Inv, ReuseInv
    <3> QED
      BY <3>1, <3>2, <3>3, <3>4
  <2>3. /\ h.kept \subseteq 0 .. b - 1 /\ b \notin h.kept /\ nx \in h.kept /\ nx \in Nat
        /\ \A v \in h.m .. h.l : h.block[v] # b /\ h.block[v] \in 0 .. b - 1 /\ h.block[v] \in h.kept
        /\ \A c \in 0 .. b - 1 : c \in Blocks /\ c # b
    <3>1. h.kept \subseteq 0 .. b - 1
      BY <2>2 DEF VisitInv
    <3>2. nx \in h.kept
      BY <2>2 DEF Inv, CircleInv
    <3>3. \A v \in h.m .. h.l : h.block[v] \in h.kept
      BY <2>2 DEF VisitInv
    <3>4. \A c \in 0 .. b - 1 : c \in Blocks /\ c # b /\ c \in Nat
      BY <2>1, MadeBlocks
    <3> QED
      BY <3>1, <3>2, <3>3, <3>4
  <2>4. /\ mem' \in [block: [{"front", "tail"} -> Nat], front: [Blocks -> Nat], tail: [Blocks -> Nat],
                     next: [Blocks -> Nat], data: [Slots -> Int]]
        /\ mem'.block = mem.block /\ mem'.front = mem.front
        /\ mem'.tail[b] = 1 /\ \A c \in Blocks : c # b => mem'.tail[c] = mem.tail[c]
        /\ mem'.next[b] = nx /\ \A c \in Blocks : c # b => mem'.next[c] = mem.next[c]
        /\ mem'.data[<<b, 0>>] = pushed
        /\ \A s \in Slots : s # <<b, 0>> => mem'.data[s] = mem.data[s]
    <3>1. b \in Blocks /\ nx \in Nat /\ pushed \in Nat
      BY <2>1, <2>2, <2>3
    <3>2. PutTogether(b, nx, pushed)
      BY <1>3 DEF PutTogether
    <3> QED
      BY <3>1, <3>2, GrowMemory
  <2>5. /\ blockSize' \in [Blocks -> Nat] /\ blockSize'[b] = size
        /\ \A c \in 0 .. b - 1 : blockSize'[c] = blockSize[c]
        /\ localTail' \in [Blocks -> Nat] /\ \A c \in 0 .. b - 1 : localTail'[c] = localTail[c]
    BY <1>1, <1>3, <2>1, <2>3 DEF TypeInv
  <2>5a. PICK a, k, q : GrowStored(b, h.block[h.l], a, k, q)
    BY DEF GrowStored
  <2>5b. Stores("producer", q)
    BY <1>3, <2>2, <2>5a DEF Insert, GrowStored
  <2>5c. GrowSeen(b, nx, h.block[h.l], a, k, q)
    <3>1. b \in Blocks /\ nx \in Nat
      BY <2>1, <2>3
    <3>2. PutTogether(b, nx, pushed)
      BY <1>3 DEF PutTogether
    <3> QED
      BY <2>5a, <2>5b, <3>1, <3>2, GrowStores
  <2>6. /\ a.var = "next" /\ a.at = h.block[h.l] /\ a.value = b /\ a.of = pushed
        /\ k.var = "block" /\ k.at = "tail" /\ k.value = b /\ k.of = pushed
    BY <2>5c DEF GrowSeen
  <2>8. q \in Seq(AnyStore) /\ Len(q) = 2 /\ q[1] = a /\ q[2] = k
        /\ \A j \in 1 .. Len(q) : j = 1 \/ j = 2
    BY <2>5c DEF GrowSeen
  <2>9. pending' \in [Threads -> Seq(AnyStore)] /\ Pp' = Pp \o q /\ Pc' = Pc
    BY <2>5c DEF GrowSeen
  <2>10. PICK r \in [Nat -> Nat] : IsRing(r, size) /\ r[pushed] = 0
    <3>1. 0 \in 0 .. size - 1 /\ size >= 2
      BY <2>1
    <3>2. size \in Nat /\ pushed \in Nat
      BY <2>1, <2>2
    <3> QED
      BY <3>1, <3>2, RingFrom
  <2>11. r[pushed + 1] = 1
    <3>1. r[pushed + 1] = (0 + 1) % size
      BY <2>2, <2>10 DEF IsRing
    <3> QED
      BY <2>1, <3>1
  <2>12. PICK g \in History : OneMore(g, h, b, r, pushed, h.kept \cup {b})
    <3>1. h.kept \cup {b} \in SUBSET Nat
      BY <2>1, HistoryFacts
    <3> QED
      BY <2>1, <2>2, <3>1, NewVisit
  <2>13. /\ g.m = h.m /\ g.f = h.f /\ g.t = h.t /\ g.l = h.l + 1 /\ g.kept = h.kept \cup {b}
         /\ g.block[g.l] = b /\ g.place[g.l] = r /\ g.first[g.l] = pushed /\ g.first[g.l + 1] = pushed + 1
         /\ g.first[h.l + 1] = pushed
         /\ \A v \in 0 .. h.l :
              g.block[v] = h.block[v] /\ g.first[v] = h.first[v] /\ g.place[v] = h.place[v]
    BY <2>12 DEF OneMore
  <2>14. g.l # h.l /\ g.l \in Nat /\ g.l # g.m /\ g.l > g.t /\ g.l - 1 = h.l /\ h.l \in 0 .. h.l
    BY <2>2, <2>13
  <2>15. Extends(g, h)
    BY <2>2, <2>13 DEF Extends
  <2>16. Enqueues(g, h, q)
    <3>1. live' = live \cup {<<g.block[g.l], g.place[g.l][pushed]>>}
      BY <1>3, <2>10, <2>13
    <3>2. blocks' \in Nat /\ blocks <= blocks'
      BY <1>1, <2>1
    <3>3. \A c \in 0 .. b - 1, n \in Nat : <<c, n>> \in Slots => mem'.data[<<c, n>>] = mem.data[<<c, n>>]
      <4>1. \A c \in 0 .. b - 1 : \A n : <<c, n>> # <<b, 0>>
        BY <2>3
      <4> QED
        BY <2>4, <4>1
    <3>4. \A c \in 0 .. blocks - 1 :
            /\ mem'.tail[c] = mem.tail[c] /\ blockSize'[c] = blockSize[c]
            /\ localTail'[c] = localTail[c]
            /\ \A n \in Nat : <<c, n>> \in Slots => mem'.data[<<c, n>>] = mem.data[<<c, n>>]
      BY <2>3, <2>4, <2>5, <3>3
    <3>5. pushed' = pushed + 1 /\ mem'.block = mem.block /\ mem'.front = mem.front
      BY <1>3, <2>4
    <3>6. Pp' = Pp \o q /\ Pc' = Pc
      BY <2>9
    <3> QED
      BY <3>1, <3>2, <3>4, <3>5, <3>6 DEF Enqueues
  <2>17. StoresOf(g, h, q)
    <3>1. Ordered(q)
      <4>1. q[1].of = q[2].of /\ Rank(q[1].var) < Rank(q[2].var)
        BY <2>6, <2>8 DEF Rank
      <4>2. \A i, j \in 1 .. Len(q) : i < j => i = 1 /\ j = 2
        BY <2>8
      <4> QED
        BY <4>1, <4>2 DEF Ordered, Before
    <3>2. Produced(g, a, g.l) /\ Produced(g, k, g.l)
      BY <2>6, <2>13, <2>14 DEF Produced
    <3>3. \A j \in 1 .. Len(q) : q[j].of = pushed /\ Produced(g, q[j], g.l)
      BY <2>6, <2>8, <3>2
    <3>4. 2 \in 1 .. Len(q) /\ q[2].var = "block"
      BY <2>6, <2>8
    <3> QED
      BY <2>14, <3>1, <3>3, <3>4 DEF StoresOf
  <2>18. /\ TailBlock' = b /\ TailOf(b)' = 1 /\ NextOf(h.block[h.l])' = b /\ NextOf(b)' = nx
         /\ \A c \in Blocks : c # b => TailOf(c)' = TailOf(c)
         /\ \A c \in Blocks : c # b /\ c # h.block[h.l] => NextOf(c)' = NextOf(c)
    BY <2>5c DEF GrowSeen
  <2>19. ViewsOf(g, h, q)
    <3>1. \A v \in h.m .. h.l : TailOf(h.block[v])' = TailOf(h.block[v])
      BY <2>3, <2>18
    <3>2. ASSUME NEW v \in h.m .. h.l - 1 PROVE NextOf(h.block[v])' = NextOf(h.block[v])
      <4>1. v \in h.m .. h.l /\ h.l \in h.m .. h.l /\ v # h.l
        BY <2>2
      <4>2. h.block[v] # h.block[h.l]
        BY <2>2, <4>1 DEF VisitInv
      <4>3. h.block[v] \in Blocks /\ h.block[v] # b
        BY <2>3, <4>1
      <4> PICK c : c = h.block[v]
        OBVIOUS
      <4>4. NextOf(c)' = NextOf(c)
        BY <2>18, <4>2, <4>3
      <4> QED
        BY <4>4
    <3> QED
      BY <2>4, <2>11, <2>13, <2>18, <3>1, <3>2 DEF ViewsOf
  <2>20. VisitInv(g)'
    <3>1. /\ h.kept \subseteq g.kept /\ g.block[g.l] \in g.kept
          /\ IsRing(g.place[g.l], blockSize'[g.block[g.l]])
          /\ \A v \in h.m .. h.l : h.block[v] # g.block[g.l]
      BY <2>3, <2>5, <2>10, <2>13
    <3>2. g.kept \subseteq 0 .. blocks' - 1
      <4>1. 0 .. b - 1 \subseteq 0 .. blocks' - 1 /\ b \in 0 .. blocks' - 1
        BY <1>1, <2>1
      <4> QED
        BY <2>3, <2>13, <4>1
    <3> QED
      BY <2>15, <2>16, <3>1, <3>2, VisitGrown
  <2>21. FrontOf(b) = 0 /\ mem.front[b] = 0 /\ localFront[b] = 0
    <3>1. mem.front[b] = 0 /\ localFront[b] = 0
      BY <2>1 DEF Inv, ToComeInv
    <3>2. NoneTo(Pc, "front", b)
      BY NoneToCome
    <3>3. Pc \in Seq(AnyStore) /\ FrontOf(b) = View(mem, Pc, "front", b)
      BY DEF TypeInv, Pc, Threads, FrontOf, Own
    <3> QED
      BY <3>1, <3>2, <3>3, ViewNone
  <2>22. /\ ConsInv(g)' /\ ShadowTailInv(g)' /\ Ordered(Pc)' /\ ConsumedInv(g)' /\ ToRemoveInv(g)'
         /\ CallInv(g)'
         /\ \A c : FrontOf(c)' = FrontOf(c)
    <3>1. FrontOf(g.block[g.l]) = g.place[g.l][pushed] /\ mem.front[g.block[g.l]] = g.place[g.l][pushed]
      BY <2>10, <2>13, <2>21
    <3> QED
      BY <2>15, <2>16, <3>1, ConsumerGrown
  <2>23. Ordered(Pp)' /\ ProducedInv(g)' /\ ToPublishInv(g)'
    BY <2>8, <2>15, <2>16, <2>17, StoresGrown
  <2>24. DataInv(g)' /\ LiveInv(g)'
    <3>1. mem'.data[<<g.block[g.l], g.place[g.l][pushed]>>] = pushed
      BY <2>4, <2>10, <2>13
    <3> QED
      BY <2>8, <2>15, <2>16, <2>17, <3>1, DataGrown
  <2>25. LeftAt(g, g.l) = pushed /\ LeftAt(g, g.l)' = pushed
    BY <2>13, <2>14 DEF LeftAt
  <2>26. ProdInv(g)' /\ RoomInv(g)'
    <3>1. pushed + 1 - LeftAt(g, g.l) < blockSize'[g.block[g.l]]
      BY <2>1, <2>2, <2>5, <2>13, <2>25
    <3> QED
      BY <2>8, <2>15, <2>16, <2>17, <2>19, <3>1, ProdGrown
  <2>27. ShadowFrontInv(g)'
    <3>1. localFront'[g.block[g.l]] = g.place[g.l][pushed]
      BY <1>1, <2>10, <2>13, <2>21
    <3>2. g.first[g.l] <= pushed /\ pushed <= LeftAt(g, g.l)'
      BY <2>2, <2>13, <2>25
    <3>3. pushed' - pushed < blockSize'[g.block[g.l]]
      BY <1>3, <2>1, <2>2, <2>5, <2>13
    <3> QED
      BY <2>2, <3>1, <3>2, <3>3 DEF ShadowFrontInv
  <2>28. SpareInv(g)'
    <3>1. ASSUME NEW c \in g.kept, Spare(g, c)
          PROVE  /\ c \in h.kept /\ Spare(h, c) /\ TailOf(c)' = TailOf(c)
                 /\ blockSize'[c] = blockSize[c]
      <4>1. g.l \in g.m .. g.l /\ \A v \in h.m .. h.l : v \in g.m .. g.l /\ v \in 0 .. h.l
        BY <2>2, <2>13
      <4>2. c # b
        BY <2>13, <3>1, <4>1 DEF Spare
      <4>3. c \in h.kept
        BY <2>13, <3>1, <4>2
      <4>4. Spare(h, c)
        BY <2>13, <3>1, <4>1, <4>3 DEF Spare
      <4>5. c \in 0 .. b - 1 /\ c \in Blocks
        BY <2>3, <4>3
      <4> QED
        BY <2>5, <2>18, <4>2, <4>3, <4>4, <4>5
    <3>2. \A c : Spare(g, c)' = Spare(g, c)
      BY DEF Spare
    <3> QED
      BY <2>4, <2>22, <3>1, <3>2 DEF Inv, SpareInv
  <2>29. CircleInv(g)'
    <3>1. CircleInv(h)
      BY DEF Inv
    <3>2. \A c \in h.kept : c # h.block[h.l] => NextOf(c)' = NextOf(c) /\ NextOf(c) \in h.kept
      BY <2>3, <2>18, <3>1 DEF CircleInv
    <3>3. \A c \in h.kept : c # h.block[h.l] => NextOf(c) # nx
      BY <2>2, <3>1 DEF CircleInv
    <3>4. \A c \in g.kept : NextOf(c)' \in g.kept
      BY <2>3, <2>13, <2>18, <3>2
    <3>5. ASSUME NEW c \in g.kept, NEW d \in g.kept, NextOf(c)' = NextOf(d)' PROVE c = d
      <4>1. \A e \in g.kept : e = b \/ e \in h.kept
        BY <2>13
      <4>2. CASE c \in h.kept /\ c # h.block[h.l] /\ d \in h.kept /\ d # h.block[h.l]
        BY <3>1, <3>2, <3>5, <4>2 DEF CircleInv
      <4> QED
        BY <2>3, <2>18, <3>2, <3>3, <3>5, <4>1, <4>2
    <3> QED
      BY <3>4, <3>5 DEF CircleInv
  <2>30. KeptInv(g)'
    <3>1. InitialBlockCount(MaxBlockSize, Size) <= b /\ InitialBlockCount(MaxBlockSize, Size) \in Nat
      BY ShapeFacts DEF TypeInv, MaxBlockSize, Size
    <3>2. \A c \in 0 .. b - 1 : mem'.data[<<c, 0>>] = mem.data[<<c, 0>>]
      <4>1. \A c \in 0 .. b - 1 : <<c, 0>> \in Slots /\ <<c, 0>> # <<b, 0>>
        BY <2>3, MadeBlocks
      <4> QED
        BY <2>4, <4>1
    <3>3. \A c : c \in 0 .. blocks' - 1 <=> c \in 0 .. b - 1 \/ c = b
      BY <1>1, <2>1
    <3>4. mem'.data[<<b, 0>>] # -1
      BY <2>2, <2>4
    <3>5. g.kept = {c \in 0 .. blocks' - 1 :
               c < InitialBlockCount(MaxBlockSize, Size) \/ mem'.data[<<c, 0>>] # -1}
      BY <2>13, <3>2, <3>3, <3>4 DEF Inv, KeptInv
    <3> QED
      BY <3>5 DEF KeptInv, MaxBlockSize, Size
  <2>31. ToComeInv'
    <3>1. ASSUME NEW c \in Blocks, c >= blocks'
          PROVE  localFront'[c] = 0 /\ mem'.front[c] = 0 /\ mem'.data[<<c, 0>>] = -1
      <4>1. c >= b /\ c # b
        BY <1>1, <2>1, <3>1
      <4>2. <<c, 0>> \in Slots /\ <<c, 0>> # <<b, 0>>
        BY <4>1, MadeBlocks
      <4> QED
        BY <1>1, <2>4, <4>1, <4>2 DEF Inv, ToComeInv
    <3> QED
      BY <3>1 DEF ToComeInv
  <2>32. ReuseInv(g)'
    BY <1>1 DEF ReuseInv
  <2>33. TypeInv'
    <3>1. /\ MaxBlockSize' = MaxBlockSize /\ Size' = Size /\ MaxNew \in Nat
          /\ InitialBlockCount(MaxBlockSize, Size) \in Nat
      BY <1>1, ShapeFacts, SizeAssumption DEF MaxBlockSize, Size, TypeInv
    <3>2. /\ blocks' \in Nat /\ blocks' > 0 /\ InitialBlockCount(MaxBlockSize, Size) <= blocks'
          /\ blocks' <= InitialBlockCount(MaxBlockSize, Size) + MaxNew
      <4>1. /\ InitialBlockCount(MaxBlockSize, Size) <= b /\ blocks' = b + 1 /\ b \in Nat
            /\ b < InitialBlockCount(MaxBlockSize, Size) + MaxNew
        BY <1>1, <2>1 DEF TypeInv
      <4> QED
        BY <3>1, <4>1
    <3>3. \A c \in 0 .. blocks' - 1 : 2 <= blockSize'[c] /\ blockSize'[c] <= 2 * MaxBlockSize
      <4>1. \A c \in 0 .. blocks' - 1 : c \in 0 .. b - 1 \/ c = b
        BY <1>1, <2>1
      <4> QED
        BY <2>1, <2>5, <4>1 DEF TypeInv
    <3>4. pushed' \in Nat
      BY <1>3, <2>2
    <3> QED
      BY <1>1, <2>1, <2>4, <2>5, <2>9, <3>1, <3>2, <3>3, <3>4 DEF TypeInv, consumerVars
  <2>34. Inv(g)'
    BY <2>20, <2>22, <2>23, <2>24, <2>26, <2>27, <2>28, <2>29, <2>30, <2>31, <2>32 DEF Inv
  <2> QED
    BY <2>33, <2>34
<1> QED
  BY <1>1, <1>2, <1>3
------------------------------------------------------------------------------
(***************************************************************************)
(* Memory. The store that reaches it is the oldest of its thread, so the   *)
(* invariant says what it is for: data, an index, a link or an end of the  *)
(* queue; and as memory has it an end moves on to the next element or      *)
(* visit.                                                                  *)
(***************************************************************************)

Memory == [block: [{"front", "tail"} -> Nat], front: [Blocks -> Nat], tail: [Blocks -> Nat],
           next: [Blocks -> Nat], data: [Slots -> Int]]

\* A store reaches memory.
Arrival(n, m, s) == n = [m EXCEPT ![s.var][s.at] = s.value]

\* It changes one variable.
LEMMA Arrives ==
  ASSUME NEW s \in AnyStore, NEW m \in Memory, NEW n, Arrival(n, m, s)
  PROVE  /\ n \in Memory
         /\ \A at \in {"front", "tail"} :
              n.block[at] = IF Is(s, "block", at) THEN s.value ELSE m.block[at]
         /\ \A at \in Blocks : n.front[at] = IF Is(s, "front", at) THEN s.value ELSE m.front[at]
         /\ \A at \in Blocks : n.tail[at] = IF Is(s, "tail", at) THEN s.value ELSE m.tail[at]
         /\ \A at \in Blocks : n.next[at] = IF Is(s, "next", at) THEN s.value ELSE m.next[at]
         /\ \A at \in Slots : n.data[at] = IF Is(s, "data", at) THEN s.value ELSE m.data[at]
<1>1. s.var \in {"block", "front", "tail", "next", "data"} /\ s.value \in Nat
  BY DEF AnyStore
<1>2. n \in Memory
  <2>1. CASE s.var = "data"
    <3>1. n = [m EXCEPT !.data = [m.data EXCEPT ![s.at] = s.value]]
      BY <2>1 DEF Arrival
    <3>2. [m.data EXCEPT ![s.at] = s.value] \in [Slots -> Int]
      <4>1. s.value \in Int /\ m.data \in [Slots -> Int]
        BY <1>1 DEF Memory
      <4> QED
        BY <4>1
    <3> QED
      BY <3>1, <3>2 DEF Memory
  <2>2. CASE s.var = "block"
    <3>1. n = [m EXCEPT !.block = [m.block EXCEPT ![s.at] = s.value]]
      BY <2>2 DEF Arrival
    <3>2. [m.block EXCEPT ![s.at] = s.value] \in [{"front", "tail"} -> Nat]
      BY <1>1 DEF Memory
    <3> QED
      BY <3>1, <3>2 DEF Memory
  <2>3. CASE s.var = "front"
    <3>1. n = [m EXCEPT !.front = [m.front EXCEPT ![s.at] = s.value]]
      BY <2>3 DEF Arrival
    <3>2. [m.front EXCEPT ![s.at] = s.value] \in [Blocks -> Nat]
      BY <1>1 DEF Memory
    <3> QED
      BY <3>1, <3>2 DEF Memory
  <2>4. CASE s.var = "tail"
    <3>1. n = [m EXCEPT !.tail = [m.tail EXCEPT ![s.at] = s.value]]
      BY <2>4 DEF Arrival
    <3>2. [m.tail EXCEPT ![s.at] = s.value] \in [Blocks -> Nat]
      BY <1>1 DEF Memory
    <3> QED
      BY <3>1, <3>2 DEF Memory
  <2>5. CASE s.var = "next"
    <3>1. n = [m EXCEPT !.next = [m.next EXCEPT ![s.at] = s.value]]
      BY <2>5 DEF Arrival
    <3>2. [m.next EXCEPT ![s.at] = s.value] \in [Blocks -> Nat]
      BY <1>1 DEF Memory
    <3> QED
      BY <3>1, <3>2 DEF Memory
  <2> QED
    BY <1>1, <2>1, <2>2, <2>3, <2>4, <2>5
<1>3. \A at \in {"front", "tail"} : n.block[at] = IF Is(s, "block", at) THEN s.value ELSE m.block[at]
  BY <1>1 DEF Is, Memory, Arrival
<1>4. \A at \in Blocks : n.front[at] = IF Is(s, "front", at) THEN s.value ELSE m.front[at]
  BY <1>1 DEF Is, Memory, Arrival
<1>5. \A at \in Blocks : n.tail[at] = IF Is(s, "tail", at) THEN s.value ELSE m.tail[at]
  BY <1>1 DEF Is, Memory, Arrival
<1>6. \A at \in Blocks : n.next[at] = IF Is(s, "next", at) THEN s.value ELSE m.next[at]
  BY <1>1 DEF Is, Memory, Arrival
<1>7. \A at \in Slots : n.data[at] = IF Is(s, "data", at) THEN s.value ELSE m.data[at]
  BY <1>1 DEF Is, Memory, Arrival
<1> QED
  BY <1>2, <1>3, <1>4, <1>5, <1>6, <1>7

\* A buffer without its oldest store.
LEMMA TailOfBuffer ==
  ASSUME NEW S, NEW p \in Seq(S), p # <<>>, NEW r, r = Tail(p)
  PROVE  /\ r \in Seq(S) /\ 1 \in 1 .. Len(p) /\ Head(p) = p[1] /\ p[1] \in S
         /\ \A i \in 1 .. Len(p) : i = 1 \/ (i > 1 /\ i - 1 \in 1 .. Len(r) /\ r[i - 1] = p[i])
         /\ \A i \in 1 .. Len(r) : i + 1 \in 1 .. Len(p) /\ i + 1 > 1 /\ r[i] = p[i + 1]
<1>1. Len(p) \in Nat /\ Len(p) > 0
  OBVIOUS
<1>2. r \in Seq(S) /\ Len(r) = Len(p) - 1
  BY <1>1
<1>3. \A i \in 1 .. Len(r) : r[i] = p[i + 1]
  BY <1>1
<1> QED
  BY <1>1, <1>2, <1>3

\* A buffer without its oldest store is still in order, and that store came before the rest.
LEMMA OrderedTail ==
  ASSUME NEW S, NEW p \in Seq(S), p # <<>>, NEW r, r = Tail(p), Ordered(p)
  PROVE  Ordered(r) /\ \A i \in 1 .. Len(r) : Before(p[1], r[i])
<1>1. /\ 1 \in 1 .. Len(p)
      /\ \A i \in 1 .. Len(r) : i + 1 \in 1 .. Len(p) /\ i + 1 > 1 /\ r[i] = p[i + 1]
  BY TailOfBuffer
<1>2. \A i, j \in 1 .. Len(p) : i < j => Before(p[i], p[j])
  BY DEF Ordered
<1>3. ASSUME NEW i \in 1 .. Len(r) PROVE Before(p[1], r[i])
  BY <1>1, <1>2
<1>4. ASSUME NEW i \in 1 .. Len(r), NEW j \in 1 .. Len(r), i < j PROVE Before(r[i], r[j])
  <2>1. i + 1 < j + 1
    BY <1>4
  <2> QED
    BY <1>1, <1>2, <2>1
<1> QED
  BY <1>3, <1>4 DEF Ordered

\* The oldest store of a thread reaches memory, and no thread notices by its own view.
LEMMA DrainFacts ==
  ASSUME TypeInv, NEW t \in Threads, Drain(t), NEW s, s = Head(pending[t])
  PROVE  /\ s \in AnyStore /\ pending[t] # <<>> /\ pending[t] \in Seq(AnyStore)
         /\ mem \in Memory /\ Arrival(mem', mem, s)
         /\ pending' \in [Threads -> Seq(AnyStore)] /\ pending'[t] = Tail(pending[t])
         /\ \A u \in Threads : u # t => pending'[u] = pending[u]
         /\ published' = IF (s.var = "tail" /\ s.at = mem.block["tail"]) \/ Is(s, "block", "tail")
                           THEN published + 1 ELSE published
         /\ removed' = IF s.var = "front" THEN removed + 1 ELSE removed
         /\ UNCHANGED <<producerVars, blockVars, consumerVars, shape, localTail, live>>
<1>1. /\ pending[t] # <<>> /\ Arrival(mem', mem, s)
      /\ pending' = [pending EXCEPT ![t] = Tail(pending[t])]
      /\ published' = IF (s.var = "tail" /\ s.at = mem.block["tail"]) \/ Is(s, "block", "tail")
                        THEN published + 1 ELSE published
      /\ removed' = IF s.var = "front" THEN removed + 1 ELSE removed
      /\ UNCHANGED <<producerVars, blockVars, consumerVars, shape, localTail, live>>
  BY DEF Drain, Is, Arrival
<1>2. pending \in [Threads -> Seq(AnyStore)] /\ pending[t] \in Seq(AnyStore) /\ mem \in Memory
  BY DEF TypeInv, Memory
<1>3. s \in AnyStore /\ Tail(pending[t]) \in Seq(AnyStore)
  BY <1>1, <1>2, TailOfBuffer
<1> QED
  BY <1>1, <1>2, <1>3

\* What the oldest store of the producer leaves as it was.
ProducerDrains(s) ==
  /\ s \in AnyStore /\ 1 \in 1 .. Len(Pp) /\ s = Pp[1] /\ s = Head(Pp)
  /\ Pp \in Seq(AnyStore) /\ Pp # <<>> /\ Pp' = Tail(Pp)
  /\ mem' \in Memory /\ pending' \in [Threads -> Seq(AnyStore)] /\ Pc' = Pc
  /\ \A i \in 1 .. Len(Pp) : i = 1 \/ (i > 1 /\ i - 1 \in 1 .. Len(Pp') /\ Pp'[i - 1] = Pp[i])
  /\ \A i \in 1 .. Len(Pp') : i + 1 \in 1 .. Len(Pp) /\ i + 1 > 1 /\ Pp'[i] = Pp[i + 1]
  /\ Ordered(Pp') /\ \A i \in 1 .. Len(Pp') : Before(s, Pp'[i])
  /\ UNCHANGED <<producerVars, blockVars, consumerVars, shape, localTail, live>>

\* The oldest store of the producer reaches memory: what it leaves alone, and the counts.
LEMMA ProducerDrainFacts ==
  ASSUME TypeInv, NEW h \in History, Inv(h), Drain("producer"), NEW s, s = Head(Pp)
  PROVE  /\ ProducerDrains(s)
         /\ Arrival(mem', mem, s)
         /\ published' = IF (s.var = "tail" /\ s.at = mem.block["tail"]) \/ Is(s, "block", "tail")
                           THEN published + 1 ELSE published
         /\ removed' = IF s.var = "front" THEN removed + 1 ELSE removed
<1> PICK p : p = Pp
  OBVIOUS
<1> PICK r : r = Pp'
  OBVIOUS
<1>1. "producer" \in Threads /\ "consumer" \in Threads
  BY DEF Threads
<1>2. /\ s \in AnyStore /\ p # <<>> /\ p \in Seq(AnyStore)
      /\ mem \in Memory /\ Arrival(mem', mem, s)
      /\ pending' \in [Threads -> Seq(AnyStore)] /\ r = Tail(p) /\ Pc' = Pc
      /\ published' = IF (s.var = "tail" /\ s.at = mem.block["tail"]) \/ Is(s, "block", "tail")
                        THEN published + 1 ELSE published
      /\ removed' = IF s.var = "front" THEN removed + 1 ELSE removed
      /\ UNCHANGED <<producerVars, blockVars, consumerVars, shape, localTail, live>>
  BY <1>1, DrainFacts DEF Pp, Pc
<1>3. mem' \in Memory
  BY <1>2, Arrives
<1>4. /\ 1 \in 1 .. Len(p) /\ Head(p) = p[1]
      /\ \A i \in 1 .. Len(p) : i = 1 \/ (i > 1 /\ i - 1 \in 1 .. Len(r) /\ r[i - 1] = p[i])
      /\ \A i \in 1 .. Len(r) : i + 1 \in 1 .. Len(p) /\ i + 1 > 1 /\ r[i] = p[i + 1]
  BY <1>2, TailOfBuffer
<1>5. Ordered(p)
  BY DEF Inv
<1>6. Ordered(r) /\ \A i \in 1 .. Len(r) : Before(p[1], r[i])
  BY <1>2, <1>5, OrderedTail
<1> QED
  BY <1>2, <1>3, <1>4, <1>6 DEF ProducerDrains

\* It is a store for the first element that is not published, and of one of two visits.
LEMMA ProducerHead ==
  ASSUME TypeInv, NEW h \in History, Inv(h), 1 \in 1 .. Len(Pp), NEW s, s = Pp[1]
  PROVE  /\ s.of = published /\ published < pushed
         /\ \E v \in h.t .. h.l : /\ In(h, v, published) /\ Produced(h, s, v)
                                  /\ v = h.t \/ (v = h.t + 1 /\ published = h.first[v])
<1>1. PICK v \in h.t .. h.l : In(h, v, s.of) /\ Produced(h, s, v)
  BY DEF Inv, ProducedInv
<1>2. s.of \in published .. pushed - 1
  BY DEF Inv, ProducedInv
<1>3. published \in Nat /\ pushed \in Nat /\ h.t \in Nat /\ h.l \in Nat /\ h.t <= h.l
  BY Counts DEF Shorthands
<1>4. published < pushed /\ published \in published .. pushed - 1 /\ s.of \in Nat
  BY <1>2, <1>3
<1>5. PICK i \in 1 .. Len(Pp) : Pp[i].of = published
  BY <1>4 DEF Inv, ToPublishInv
<1>6. s.of = published
  <2>1. CASE i = 1
    BY <1>5, <2>1
  <2>2. CASE i > 1
    <3>1. Before(s, Pp[i])
      BY <2>2 DEF Inv, Ordered
    <3>2. s.of < published \/ s.of = published
      BY <1>5, <3>1 DEF Before
    <3> QED
      BY <1>2, <1>3, <3>2
  <2>3. i = 1 \/ i > 1
    OBVIOUS
  <2> QED
    BY <2>1, <2>2, <2>3
<1>7. v = h.t \/ (v = h.t + 1 /\ published = h.first[v])
  <2>1. VisitInv(h) /\ ProdInv(h)
    BY DEF Inv
  <2>2. published <= h.first[h.t + 1]
    BY <2>1 DEF ProdInv
  <2>3. h.first[v] <= published
    BY <1>1, <1>6 DEF In
  <2>4. \A w \in Nat : h.first[w] \in Nat
    BY HistoryFacts
  <2>5. v \in Nat /\ h.t <= v /\ v <= h.l
    BY <1>3
  <2>6. CASE v = h.t
    BY <2>6
  <2>7. CASE v = h.t + 1
    BY <1>3, <2>2, <2>3, <2>4, <2>5, <2>7
  <2>8. CASE v > h.t + 1
    <3>1. /\ h.t + 1 \in 0 .. h.l /\ 0 < h.l /\ h.t + 2 \in 0 .. h.l + 1 /\ v \in 0 .. h.l + 1
          /\ h.t + 2 <= v /\ (h.t + 1) + 1 = h.t + 2 /\ h.t + 1 \in Nat /\ h.t + 2 \in Nat
      BY <1>3, <2>5, <2>8
    <3>2. h.first[h.t + 1] < h.first[h.t + 2]
      BY <2>1, <3>1 DEF VisitInv
    <3>3. h.first[h.t + 2] <= h.first[v]
      BY <2>1, <3>1 DEF VisitInv
    <3>4. h.first[h.t + 1] \in Nat /\ h.first[h.t + 2] \in Nat /\ h.first[v] \in Nat
      BY <2>4, <2>5, <3>1
    <3>5. published \in Nat
      BY <1>3
    <3> QED
      BY <2>2, <2>3, <3>2, <3>3, <3>4, <3>5
  <2> QED
    BY <1>3, <2>5, <2>6, <2>7, <2>8
<1> QED
  BY <1>1, <1>4, <1>6, <1>7

\* The same history, with another visit as the last one published.
Later(g, h) ==
  /\ g.block = h.block /\ g.first = h.first /\ g.place = h.place /\ g.kept = h.kept
  /\ g.m = h.m /\ g.f = h.f /\ g.l = h.l /\ h.t <= g.t /\ g.t <= g.l

\* What the oldest store of the producer is to memory, if it is not of the element itself.
Reaches(s) ==
  /\ mem'.block["front"] = mem.block["front"] /\ mem'.front = mem.front
  /\ mem'.block["tail"] = IF s.var = "block" THEN s.value ELSE mem.block["tail"]
  /\ \A b \in Blocks : mem'.tail[b] = IF Is(s, "tail", b) THEN s.value ELSE mem.tail[b]
  /\ \A x \in Slots : mem'.data[x] = IF Is(s, "data", x) THEN s.value ELSE mem.data[x]

\* What it is to memory, and that no thread notices by its view.
LEMMA ProducerReaches ==
  ASSUME TypeInv, NEW h \in History, Inv(h), NEW s, ProducerDrains(s),
         Arrival(mem', mem, s), NEW v, Produced(h, s, v)
  PROVE  /\ Reaches(s)
         /\ TailBlock' = TailBlock /\ FrontBlock' = FrontBlock
         /\ \A b \in Blocks : /\ TailOf(b)' = TailOf(b) /\ NextOf(b)' = NextOf(b)
                              /\ FrontOf(b)' = FrontOf(b)
<1> PICK later : later = mem'
  OBVIOUS
<1> PICK p : p = Pp
  OBVIOUS
<1>1. /\ s \in AnyStore /\ mem \in Memory /\ Arrival(later, mem, s)
      /\ p \in Seq(AnyStore) /\ p # <<>> /\ s = Head(p) /\ Pp' = Tail(p) /\ Pc' = Pc
  BY DEF ProducerDrains, TypeInv, Memory
<1>2. /\ later \in Memory
      /\ \A at \in {"front", "tail"} :
           later.block[at] = IF Is(s, "block", at) THEN s.value ELSE mem.block[at]
      /\ \A at \in Blocks : later.front[at] = IF Is(s, "front", at) THEN s.value ELSE mem.front[at]
      /\ \A at \in Blocks : later.tail[at] = IF Is(s, "tail", at) THEN s.value ELSE mem.tail[at]
      /\ \A at \in Blocks : later.next[at] = IF Is(s, "next", at) THEN s.value ELSE mem.next[at]
      /\ \A at \in Slots : later.data[at] = IF Is(s, "data", at) THEN s.value ELSE mem.data[at]
  BY <1>1, Arrives
<1>3. s.var # "front" /\ (s.var = "block" => s.at = "tail")
  BY DEF Produced
<1>4. later.front = mem.front
  <2>1. later.front \in [Blocks -> Nat] /\ mem.front \in [Blocks -> Nat]
    BY <1>1, <1>2 DEF Memory
  <2>2. \A b \in Blocks : later.front[b] = mem.front[b]
    BY <1>2, <1>3 DEF Is
  <2> QED
    BY <2>1, <2>2
<1>5. Reaches(s)
  BY <1>2, <1>3, <1>4 DEF Reaches, Is
<1>6. ASSUME NEW var, NEW at, later[var][at] = IF Is(s, var, at) THEN s.value ELSE mem[var][at]
      PROVE  View(later, Tail(p), var, at) = View(mem, p, var, at)
  <2>1. later[var][at] = IF Is(Head(p), var, at) THEN Head(p).value ELSE mem[var][at]
    BY <1>1, <1>6
  <2>2. p \in Seq(AnyStore) /\ p # <<>>
    BY <1>1
  <2> QED
    BY <2>1, <2>2, ViewDrain
<1>7. TailBlock = View(mem, p, "block", "tail") /\ TailBlock' = View(later, Tail(p), "block", "tail")
  BY <1>1 DEF TailBlock, Own, Pp
<1>8. \A b : TailOf(b) = View(mem, p, "tail", b) /\ TailOf(b)' = View(later, Tail(p), "tail", b)
  BY <1>1 DEF TailOf, Own, Pp
<1>9. \A b : NextOf(b) = View(mem, p, "next", b) /\ NextOf(b)' = View(later, Tail(p), "next", b)
  BY <1>1 DEF NextOf, Own, Pp
<1>10. TailBlock' = TailBlock
  <2>1. later["block"]["tail"] = IF Is(s, "block", "tail") THEN s.value ELSE mem["block"]["tail"]
    BY <1>2
  <2> QED
    BY <1>6, <1>7, <2>1
<1>11. ASSUME NEW b \in Blocks PROVE TailOf(b)' = TailOf(b)
  <2>1. later["tail"][b] = IF Is(s, "tail", b) THEN s.value ELSE mem["tail"][b]
    BY <1>2
  <2> QED
    BY <1>6, <1>8, <2>1
<1>12. ASSUME NEW b \in Blocks PROVE NextOf(b)' = NextOf(b)
  <2>1. later["next"][b] = IF Is(s, "next", b) THEN s.value ELSE mem["next"][b]
    BY <1>2
  <2> QED
    BY <1>6, <1>9, <2>1
<1>13. /\ FrontBlock = View(mem, Pc, "block", "front") /\ FrontBlock' = View(later, Pc, "block", "front")
       /\ \A b : FrontOf(b) = View(mem, Pc, "front", b) /\ FrontOf(b)' = View(later, Pc, "front", b)
  BY <1>1 DEF FrontBlock, FrontOf, Own, Pc
<1>14. FrontBlock' = FrontBlock
  <2>1. later["block"]["front"] = mem["block"]["front"]
    BY <1>5 DEF Reaches
  <2> QED
    BY <1>13, <2>1 DEF View
<1>15. ASSUME NEW b \in Blocks PROVE FrontOf(b)' = FrontOf(b)
  <2>1. later["front"][b] = mem["front"][b]
    BY <1>4
  <2> QED
    BY <1>13, <2>1 DEF View
<1> QED
  BY <1>5, <1>10, <1>11, <1>12, <1>14, <1>15

\* The parts of the invariant that the oldest store of the producer is nothing to.
DrainRest(g) ==
  /\ VisitInv(g) /\ ConsInv(g) /\ ShadowTailInv(g) /\ RoomInv(g) /\ ShadowFrontInv(g)
  /\ SpareInv(g) /\ CircleInv(g) /\ Ordered(Pp) /\ Ordered(Pc) /\ ConsumedInv(g) /\ ToRemoveInv(g)
  /\ LiveInv(g) /\ CallInv(g) /\ ReuseInv(g)

\* It keeps the parts of the invariant that it is nothing to.
LEMMA ProducerDrainRest ==
  ASSUME TypeInv, NEW h \in History, NEW g \in History, Inv(h), Later(g, h), NEW s, ProducerDrains(s),
         Reaches(s), FrontBlock' = FrontBlock, TailBlock' = TailBlock,
         \A b \in Blocks : /\ TailOf(b)' = TailOf(b) /\ NextOf(b)' = NextOf(b)
                           /\ FrontOf(b)' = FrontOf(b),
         removed' = removed, published' \in Nat, published <= published', published' <= pushed
  PROVE  TypeInv' /\ DrainRest(g)'
<1>1. /\ mem' \in Memory /\ pending' \in [Threads -> Seq(AnyStore)] /\ Pc' = Pc
      /\ UNCHANGED <<localFront, enqPc, pushed, blocks, blockSize, largestBlockSize>>
      /\ UNCHANGED <<deqPc, op, block_, front_, popped, publishedAtStart, shape, localTail, live>>
  BY DEF ProducerDrains, producerVars, blockVars, consumerVars
<1>2. TypeInv'
  BY <1>1 DEF TypeInv, Memory, MaxBlockSize, Size
<1>3. /\ Shorthands(h) /\ VisitInv(h)
      /\ h.kept \subseteq Blocks
      /\ \A v \in h.m .. h.l : h.block[v] \in Blocks
      /\ pushed \in Nat /\ published \in Nat /\ popped \in Nat
      /\ h.m \in Nat /\ h.f \in Nat /\ h.t \in Nat /\ h.l \in Nat /\ h.m <= h.f /\ h.f <= h.t
  <2>1. Shorthands(h) /\ VisitInv(h)
    BY Counts
  <2>2. h.kept \subseteq Blocks
    BY <2>1, MadeBlocks DEF VisitInv
  <2>3. \A v \in h.m .. h.l : h.block[v] \in Blocks
    BY <2>1, VisitFacts
  <2> QED
    BY <2>1, <2>2, <2>3, Counts DEF Shorthands
<1>4. /\ g.block = h.block /\ g.first = h.first /\ g.place = h.place /\ g.kept = h.kept
      /\ g.m = h.m /\ g.f = h.f /\ g.l = h.l /\ h.t <= g.t /\ g.t <= g.l /\ g.t \in Nat
  BY HistoryFacts DEF Later
<1>5. VisitInv(g)'
  <2>1. g.f <= g.t
    BY <1>3, <1>4
  <2> QED
    BY <1>1, <1>3, <1>4, <2>1 DEF VisitInv
<1>6. ConsInv(g)'
  <2>1. ConsInv(h)
    BY DEF Inv
  <2>2. \A v \in h.m .. h.l : /\ mem'.front[h.block[v]] = mem.front[h.block[v]]
                              /\ FrontOf(h.block[v])' = FrontOf(h.block[v])
    BY <1>3 DEF Reaches
  <2>3. \A v : FrontAt(g, v)' = FrontAt(h, v) /\ LeftAt(g, v)' = LeftAt(h, v)
    BY <1>1, <1>4 DEF FrontAt, LeftAt
  <2>4. popped <= published'
    <3>1. popped <= published
      BY <2>1 DEF ConsInv
    <3> QED
      BY <1>3, <3>1
  <2>5. mem'.block["front"] = mem.block["front"]
    BY DEF Reaches
  <2>6. /\ FrontBlock' = g.block[g.f] /\ mem'.block["front"] = g.block[g.m]
        /\ g.first[g.f] <= popped /\ popped <= g.first[g.f + 1]
        /\ g.first[g.m] <= removed /\ removed <= g.first[g.m + 1] /\ removed <= popped
    BY <1>4, <2>1, <2>5 DEF ConsInv
  <2>7. \A v \in g.m .. g.l : /\ FrontOf(g.block[v])' = g.place[v][FrontAt(g, v)']
                              /\ mem'.front[g.block[v]] = g.place[v][LeftAt(g, v)']
    BY <1>4, <2>1, <2>2, <2>3 DEF ConsInv
  <2>8. published' <= pushed' /\ popped' = popped /\ removed' = removed
    BY <1>1
  <2> QED
    BY <2>4, <2>6, <2>7, <2>8 DEF ConsInv
<1>7. ShadowTailInv(g)'
  <2>1. PICK y \in Nat : /\ localTail[h.block[h.f]] = h.place[h.f][y]
                         /\ popped <= y /\ y <= published /\ y <= h.first[h.f + 1]
    BY DEF Inv, ShadowTailInv
  <2>2. y <= published'
    BY <1>3, <2>1
  <2> QED
    BY <1>1, <1>4, <2>1, <2>2 DEF ShadowTailInv
<1>8. RoomInv(g)' /\ ShadowFrontInv(g)'
  <2>1. \A v : LeftAt(g, v)' = LeftAt(h, v)
    BY <1>1, <1>4 DEF LeftAt
  <2> QED
    BY <1>1, <1>4, <2>1 DEF Inv, RoomInv, ShadowFrontInv
<1>9. SpareInv(g)'
  <2>1. \A b \in h.kept : /\ mem'.front[b] = mem.front[b] /\ TailOf(b)' = TailOf(b)
                          /\ FrontOf(b)' = FrontOf(b)
    BY <1>3 DEF Reaches
  <2>2. \A b : Spare(g, b)' = Spare(h, b)
    BY <1>4 DEF Spare
  <2> QED
    BY <1>1, <1>4, <2>1, <2>2 DEF Inv, SpareInv
<1>10. CircleInv(g)'
  BY <1>3, <1>4 DEF Inv, CircleInv
<1>11. Ordered(Pp)' /\ Ordered(Pc)'
  BY <1>1 DEF Inv, Ordered, ProducerDrains
<1>12. ConsumedInv(g)'
  <2>1. \A s1, v : Consumed(h, s1, v) => Consumed(g, s1, v)'
    BY <1>1, <1>4 DEF Consumed, In
  <2>2. ConsumedInv(h)
    BY DEF Inv
  <2> QED
    BY <1>1, <1>4, <2>1, <2>2 DEF ConsumedInv
<1>13. ToRemoveInv(g)'
  BY <1>1, <1>4 DEF Inv, ToRemoveInv
<1>14. LiveInv(g)'
  <2>1. LiveInv(h)
    BY DEF Inv
  <2>2. \A v, n : In(g, v, n)' <=> In(h, v, n)
    BY <1>4 DEF In
  <2> QED
    BY <1>1, <1>4, <2>1, <2>2 DEF LiveInv
<1>15. CallInv(g)'
  <2>1. h.f < h.t => g.f < g.t
    BY <1>3, <1>4
  <2>2. \A v \in h.f .. h.t : v \in g.f .. g.t
    BY <1>3, <1>4
  <2>3. popped < published => popped < published'
    BY <1>3
  <2> QED
    BY <1>1, <1>4, <2>1, <2>2, <2>3 DEF Inv, CallInv, In
<1>16. ReuseInv(g)'
  <2>1. h.block[h.l] \in Blocks
    BY <1>3 DEF Shorthands
  <2> QED
    BY <1>1, <1>4, <2>1 DEF Inv, ReuseInv
<1> QED
  BY <1>2, <1>5, <1>6, <1>7, <1>8, <1>9, <1>10, <1>11, <1>12, <1>13, <1>14, <1>15, <1>16 DEF DrainRest

\* A store of an element's data is where the element is found from now on.
LEMMA DataDrained ==
  ASSUME TypeInv, NEW h \in History, NEW g \in History, Inv(h), Later(g, h), NEW s, ProducerDrains(s),
         Reaches(s), s.of = published, NEW v \in h.t .. h.l, In(h, v, published), Produced(h, s, v)
  PROVE  DataInv(g)' /\ KeptInv(g)' /\ ToComeInv'
<1> PICK p : p = Pp
  OBVIOUS
<1> PICK r : r = Pp'
  OBVIOUS
<1>1. /\ Shorthands(h) /\ VisitInv(h) /\ RoomInv(h)
      /\ pushed \in Nat /\ published \in Nat /\ popped \in Nat /\ removed \in Nat
      /\ removed <= popped /\ popped <= published
      /\ h.m \in Nat /\ h.f \in Nat /\ h.t \in Nat /\ h.l \in Nat /\ h.m <= h.f /\ h.f <= h.t /\ h.t <= h.l
      /\ blocks \in Nat
  BY Counts DEF Inv, Shorthands, TypeInv
<1>2. v \in h.m .. h.l /\ v \in 0 .. h.l
  BY <1>1
<1>3. /\ UNCHANGED <<blocks, popped, live, localFront, shape>>
      /\ g.block = h.block /\ g.first = h.first /\ g.place = h.place /\ g.kept = h.kept
      /\ g.f = h.f /\ g.l = h.l
  BY DEF ProducerDrains, producerVars, blockVars, consumerVars, Later
<1>4. /\ 1 \in 1 .. Len(p) /\ s = p[1]
      /\ \A i \in 1 .. Len(p) : i = 1 \/ (i > 1 /\ i - 1 \in 1 .. Len(r) /\ r[i - 1] = p[i])
  BY DEF ProducerDrains
<1>5. s.var = "data" => s.at = <<h.block[v], h.place[v][published]>> /\ s.value = published
  BY DEF Produced
<1>6. \A x \in Slots : mem'.data[x] = IF s.var = "data" /\ s.at = x THEN published ELSE mem.data[x]
  BY <1>5 DEF Reaches, Is
<1>7. ASSUME NEW w \in h.f .. h.l, NEW n \in Nat, In(h, w, n), popped <= n
      PROVE  /\ <<h.block[w], h.place[w][n]>> \in live
             /\ \/ mem'.data[<<h.block[w], h.place[w][n]>>] = n
                \/ \E i \in 1 .. Len(r) : r[i].var = "data" /\ r[i].of = n
  <2>1. w \in h.m .. h.l /\ w \in 0 .. h.l
    BY <1>1
  <2>2. /\ <<h.block[w], h.place[w][n]>> \in live
        /\ \/ mem.data[<<h.block[w], h.place[w][n]>>] = n
           \/ \E i \in 1 .. Len(p) : p[i].var = "data" /\ p[i].of = n
    BY <1>7 DEF Inv, DataInv
  <2>3. <<h.block[w], h.place[w][n]>> \in Slots
    BY <1>1, <2>1, VisitFacts
  <2>4. CASE mem.data[<<h.block[w], h.place[w][n]>>] = n
    <3>1. SUFFICES ASSUME s.var = "data", s.at = <<h.block[w], h.place[w][n]>> PROVE n = published
      BY <1>6, <2>2, <2>3, <2>4
    <3>2. h.block[w] = h.block[v] /\ h.place[w][n] = h.place[v][published]
      BY <1>5, <3>1
    <3>3. w = v
      BY <1>1, <1>2, <2>1, <3>2 DEF VisitInv
    <3>4. LeftAt(h, v) <= n /\ LeftAt(h, v) <= published /\ n <= h.first[v + 1]
          /\ published <= h.first[v + 1]
      <4>1. h.first[v] \in Nat /\ h.first[v + 1] \in Nat
        BY <1>1, <1>2, VisitFacts
      <4>2. h.first[v] <= n /\ n < h.first[v + 1] /\ h.first[v] <= published /\ published < h.first[v + 1]
        BY <1>7, <3>3 DEF In
      <4> QED
        BY <1>1, <1>7, <4>1, <4>2 DEF LeftAt
    <3>5. h.place[v][n] = h.place[v][published]
      BY <3>2, <3>3
    <3>6. CASE n <= published
      BY <1>1, <1>2, <3>4, <3>5, <3>6, Apart
    <3>7. CASE published <= n
      BY <1>1, <1>2, <3>4, <3>5, <3>7, Apart
    <3> QED
      BY <1>1, <3>6, <3>7
  <2>5. ASSUME NEW i \in 1 .. Len(p), p[i].var = "data", p[i].of = n
        PROVE  \/ mem'.data[<<h.block[w], h.place[w][n]>>] = n
               \/ \E j \in 1 .. Len(r) : r[j].var = "data" /\ r[j].of = n
    <3>1. CASE i = 1
      <4>1. n = published /\ s.var = "data"
        BY <1>4, <2>5, <3>1
      <4>2. w = v
        BY <1>1, <1>2, <1>7, <2>1, <4>1, OneVisit
      <4> QED
        BY <1>5, <1>6, <2>3, <4>1, <4>2
    <3>2. CASE i # 1
      BY <1>4, <2>5, <3>2
    <3> QED
      BY <3>1, <3>2
  <2> QED
    BY <2>2, <2>4, <2>5
<1>8. DataInv(g)'
  <2>1. \A w, n : In(g, w, n)' <=> In(h, w, n)
    BY <1>3 DEF In
  <2> QED
    BY <1>3, <1>7, <2>1 DEF DataInv
<1>9. \A c \in Blocks : <<c, 0>> \in Slots
  BY MadeBlocks
<1>10. h.block[v] \in h.kept /\ h.block[v] \in 0 .. blocks - 1
  BY <1>1, <1>2, VisitFacts
<1>11. KeptInv(g)'
  <2>1. ASSUME NEW c \in 0 .. blocks - 1
        PROVE  c \in h.kept <=> c < InitialBlockCount(MaxBlockSize, Size) \/ mem'.data[<<c, 0>>] # -1
    <3>1. c \in h.kept <=> c < InitialBlockCount(MaxBlockSize, Size) \/ mem.data[<<c, 0>>] # -1
      BY DEF Inv, KeptInv
    <3>2. <<c, 0>> \in Slots
      BY <1>9, MadeBlocks
    <3>3. CASE s.var = "data" /\ s.at = <<c, 0>>
      <4>1. c = h.block[v] /\ mem'.data[<<c, 0>>] = published
        BY <1>5, <1>6, <3>2, <3>3
      <4>2. published # -1
        BY <1>1
      <4> QED
        BY <1>10, <4>1, <4>2
    <3>4. CASE ~(s.var = "data" /\ s.at = <<c, 0>>)
      BY <1>6, <3>1, <3>2, <3>4
    <3> QED
      BY <3>3, <3>4
  <2>2. h.kept \subseteq 0 .. blocks - 1
    BY <1>1 DEF VisitInv
  <2>3. h.kept = {c \in 0 .. blocks - 1 :
                    c < InitialBlockCount(MaxBlockSize, Size) \/ mem'.data[<<c, 0>>] # -1}
    BY <2>1, <2>2
  <2> QED
    BY <1>3, <2>3 DEF KeptInv, MaxBlockSize, Size
<1>12. ToComeInv'
  <2>1. ASSUME NEW c \in Blocks, c >= blocks
        PROVE  localFront[c] = 0 /\ mem'.front[c] = 0 /\ mem'.data[<<c, 0>>] = -1
    <3>1. localFront[c] = 0 /\ mem.front[c] = 0 /\ mem.data[<<c, 0>>] = -1
      BY <2>1 DEF Inv, ToComeInv
    <3>2. c # h.block[v]
      BY <1>1, <1>10, <2>1
    <3>3. ~(s.var = "data" /\ s.at = <<c, 0>>)
      BY <1>5, <3>2
    <3> QED
      BY <1>6, <1>9, <3>1, <3>3 DEF Reaches
  <2> QED
    BY <1>3, <2>1 DEF ToComeInv
<1> QED
  BY <1>8, <1>11, <1>12

\* The stores left in the buffer, after one that publishes nothing.
LEMMA QuietDrained ==
  ASSUME TypeInv, NEW h \in History, Inv(h), NEW s, ProducerDrains(s), s.of = published,
         published' = published, NEW v \in h.t .. h.l, In(h, v, published), Produced(h, s, v),
         \/ s.var \in {"data", "next"}
         \/ s.var = "tail" /\ v > h.t /\ h.first[v] = published
  PROVE  ProducedInv(h)' /\ ToPublishInv(h)'
<1> PICK p : p = Pp
  OBVIOUS
<1> PICK r : r = Pp'
  OBVIOUS
<1>1. /\ 1 \in 1 .. Len(p) /\ s = p[1] /\ pushed' = pushed
      /\ \A i \in 1 .. Len(p) : i = 1 \/ (i > 1 /\ i - 1 \in 1 .. Len(r) /\ r[i - 1] = p[i])
      /\ \A i \in 1 .. Len(r) : i + 1 \in 1 .. Len(p) /\ i + 1 > 1 /\ r[i] = p[i + 1]
  BY DEF ProducerDrains, producerVars
<1>2. \A i \in 1 .. Len(r) : /\ r[i].of \in published .. pushed - 1
                             /\ \E w \in h.t .. h.l : In(h, w, r[i].of) /\ Produced(h, r[i], w)
  BY <1>1 DEF Inv, ProducedInv
<1>3. ProducedInv(h)'
  <2>1. \A i \in 1 .. Len(r) : /\ r[i].of \in published' .. pushed' - 1
                               /\ \E w \in h.t .. h.l : In(h, w, r[i].of)' /\ Produced(h, r[i], w)'
    <3>1. \A n, w : In(h, w, n)' <=> In(h, w, n)
      BY DEF In
    <3>2. \A st, w : Produced(h, st, w)' <=> Produced(h, st, w)
      BY DEF Produced
    <3> QED
      BY <1>1, <1>2, <3>1, <3>2
  <2> QED
    BY <2>1 DEF ProducedInv
<1>4. ASSUME NEW n \in published .. pushed - 1
      PROVE  \E i \in 1 .. Len(r) :
               /\ r[i].of = n
               /\ \/ r[i].var = "block"
                  \/ r[i].var = "tail" /\ \A w \in h.t + 1 .. h.l : h.first[w] # n
  <2>1. PICK i \in 1 .. Len(p) :
               /\ p[i].of = n
               /\ \/ p[i].var = "block"
                  \/ p[i].var = "tail" /\ \A w \in h.t + 1 .. h.l : h.first[w] # n
    BY DEF Inv, ToPublishInv
  <2>2. i # 1
    <3>1. CASE s.var \in {"data", "next"}
      BY <1>1, <2>1, <3>1
    <3>2. CASE s.var = "tail" /\ v > h.t /\ h.first[v] = published
      <4>1. v \in h.t + 1 .. h.l
        <5>1. h.t \in Nat /\ h.l \in Nat
          BY Counts DEF Shorthands
        <5> QED
          BY <3>2, <5>1
      <4> QED
        BY <1>1, <2>1, <3>2, <4>1
    <3> QED
      BY <3>1, <3>2
  <2> QED
    BY <1>1, <2>1, <2>2
<1>5. ToPublishInv(h)'
  BY <1>1, <1>4 DEF ToPublishInv
<1> QED
  BY <1>3, <1>5

\* The stores left in the buffer, after one that publishes an element.
LEMMA PublishDrained ==
  ASSUME TypeInv, NEW h \in History, NEW g \in History, Inv(h), Later(g, h), NEW s, ProducerDrains(s),
         s.of = published, published' = published + 1,
         NEW v \in h.t .. h.l, In(h, v, published), Produced(h, s, v), g.t = v,
         \/ s.var = "tail" /\ v = h.t
         \/ s.var = "block" /\ v = h.t + 1 /\ h.first[v] = published
  PROVE  ProducedInv(g)' /\ ToPublishInv(g)'
<1> PICK p : p = Pp
  OBVIOUS
<1> PICK r : r = Pp'
  OBVIOUS
<1>1. /\ 1 \in 1 .. Len(p) /\ s = p[1] /\ pushed' = pushed
      /\ \A i \in 1 .. Len(p) : i = 1 \/ (i > 1 /\ i - 1 \in 1 .. Len(r) /\ r[i - 1] = p[i])
      /\ \A i \in 1 .. Len(r) : i + 1 \in 1 .. Len(p) /\ i + 1 > 1 /\ r[i] = p[i + 1]
      /\ \A i \in 1 .. Len(r) : Before(s, r[i])
  BY DEF ProducerDrains, producerVars
<1>2. /\ VisitInv(h) /\ pushed \in Nat /\ published \in Nat
      /\ h.t \in Nat /\ h.l \in Nat /\ h.t <= h.l
  BY Counts DEF Shorthands
<1>3. /\ g.block = h.block /\ g.first = h.first /\ g.place = h.place /\ g.l = h.l
  BY DEF Later
<1>4. ASSUME NEW i \in 1 .. Len(r)
      PROVE  /\ r[i].of \in published + 1 .. pushed - 1
             /\ \E w \in g.t .. g.l : In(g, w, r[i].of) /\ Produced(g, r[i], w)
  <2> PICK x : x = r[i]
    OBVIOUS
  <2>1. x.of \in published .. pushed - 1 /\ Before(s, x)
    BY <1>1 DEF Inv, ProducedInv
  <2>2. PICK w \in h.t .. h.l : In(h, w, x.of) /\ Produced(h, x, w)
    BY <1>1 DEF Inv, ProducedInv
  <2>3. x.of # published
    <3>1. SUFFICES ASSUME x.of = published PROVE FALSE
      OBVIOUS
    <3>2. Rank(s.var) < Rank(x.var)
      BY <1>2, <2>1, <3>1 DEF Before
    <3>3. w \in 0 .. h.l /\ v \in 0 .. h.l
      BY <1>2
    <3>4. w = v
      BY <1>2, <2>2, <3>1, <3>3, OneVisit
    <3>5. x.var \in {"data", "tail", "next", "block"} /\ (x.var = "block" => w > h.t)
      BY <2>2 DEF Produced
    <3>6. CASE s.var = "tail" /\ v = h.t
      <4>1. x.var = "block"
        BY <3>2, <3>5, <3>6 DEF Rank
      <4> QED
        BY <1>2, <3>4, <3>5, <3>6, <4>1
    <3>7. CASE s.var = "block"
      BY <3>2, <3>5, <3>7 DEF Rank
    <3> QED
      BY <3>6, <3>7
  <2>4. x.of \in published + 1 .. pushed - 1 /\ x.of \in Nat
    BY <1>2, <2>1, <2>3
  <2>5. w \in g.t .. g.l /\ w \in Nat
    <3>1. w >= v
      <4>1. SUFFICES ASSUME v = h.t + 1, w = h.t, h.first[v] = published PROVE FALSE
        BY <1>2
      <4>2. x.of < h.first[v]
        BY <2>2, <4>1 DEF In
      <4> QED
        BY <1>2, <2>4, <4>1, <4>2
    <3> QED
      BY <1>2, <1>3, <3>1
  <2>6. w > h.t /\ x.of = h.first[w] => w > g.t
    <3>1. SUFFICES ASSUME w > h.t, x.of = h.first[w], w = g.t PROVE FALSE
      BY <1>2, <2>5
    <3>2. h.first[v] = published
      BY <1>2, <3>1
    <3> QED
      BY <2>3, <3>1, <3>2
  <2>7. In(g, w, x.of) /\ Produced(g, x, w)
    BY <1>3, <2>2, <2>6 DEF In, Produced
  <2> QED
    BY <2>4, <2>5, <2>7
<1>5. ProducedInv(g)'
  <2>1. /\ \A x, w : Produced(g, x, w)' <=> Produced(g, x, w)
        /\ \A x, w : In(g, w, x)' <=> In(g, w, x)
    BY DEF Produced, In
  <2> QED
    BY <1>1, <1>4, <2>1 DEF ProducedInv
<1>6. ASSUME NEW n \in published + 1 .. pushed - 1
      PROVE  \E i \in 1 .. Len(r) :
               /\ r[i].of = n
               /\ \/ r[i].var = "block"
                  \/ r[i].var = "tail" /\ \A w \in g.t + 1 .. g.l : h.first[w] # n
  <2>1. n \in published .. pushed - 1 /\ n # published
    BY <1>2
  <2>2. PICK i \in 1 .. Len(p) :
               /\ p[i].of = n
               /\ \/ p[i].var = "block"
                  \/ p[i].var = "tail" /\ \A w \in h.t + 1 .. h.l : h.first[w] # n
    BY <2>1 DEF Inv, ToPublishInv
  <2>3. i # 1
    BY <1>1, <2>1, <2>2
  <2>4. \A w \in g.t + 1 .. g.l : w \in h.t + 1 .. h.l
    BY <1>2, <1>3
  <2> QED
    BY <1>1, <2>2, <2>3, <2>4
<1>7. ToPublishInv(g)'
  <2>1. published' .. pushed' - 1 = published + 1 .. pushed - 1 /\ g.first = h.first
    BY <1>1, <1>3
  <2>2. ASSUME NEW n \in published' .. pushed' - 1
        PROVE  \E i \in 1 .. Len(r) :
                 /\ r[i].of = n
                 /\ \/ r[i].var = "block"
                    \/ r[i].var = "tail" /\ \A w \in g.t + 1 .. g.l : g.first[w] # n
    <3>1. n \in published + 1 .. pushed - 1
      BY <2>1
    <3>2. PICK i \in 1 .. Len(r) :
            /\ r[i].of = n
            /\ \/ r[i].var = "block"
               \/ r[i].var = "tail" /\ \A w \in g.t + 1 .. g.l : h.first[w] # n
      BY <1>6, <3>1
    <3>3. \/ r[i].var = "block"
          \/ r[i].var = "tail" /\ \A w \in g.t + 1 .. g.l : g.first[w] # n
      BY <2>1, <3>2
    <3> QED
      BY <3>2, <3>3
  <2> QED
    BY <2>2 DEF ToPublishInv
<1> QED
  BY <1>5, <1>7

\* What the tail of the tail block in memory is, and the tails ahead of it.
Tails(h, p, m, n) ==
  /\ \A v \in h.m .. h.t :
       m.tail[h.block[v]] = h.place[v][IF v < h.t THEN h.first[v + 1] ELSE n]
  /\ \A v \in h.t + 1 .. h.l :
       \/ m.tail[h.block[v]] = h.place[v][h.first[v] + 1]
       \/ \E i \in 1 .. Len(p) : p[i].var = "tail" /\ p[i].of = h.first[v]

\* The tails in memory are part of ProdInv.
LEMMA ProdTails ==
  ASSUME NEW h \in History
  PROVE  ProdInv(h) <=>
           /\ TailBlock = h.block[h.l] /\ mem.block["tail"] = h.block[h.t]
           /\ \A v \in h.m .. h.l : TailOf(h.block[v]) = h.place[v][h.first[v + 1]]
           /\ \A v \in h.m .. h.l - 1 : NextOf(h.block[v]) = h.block[v + 1]
           /\ h.first[h.t] <= published /\ published <= h.first[h.t + 1]
           /\ h.t = 0 \/ h.first[h.t] < published
           /\ Tails(h, Pp, mem, published)
BY DEF ProdInv, Tails

\* The tails in memory after the oldest store of the producer reached it.
LEMMA TailsDrained ==
  ASSUME TypeInv, NEW h \in History, NEW g \in History, Inv(h), Later(g, h), NEW s, ProducerDrains(s),
         Reaches(s), s.of = published, published' \in Nat,
         NEW v \in h.t .. h.l, In(h, v, published), Produced(h, s, v),
         \/ s.var \in {"data", "next"} /\ g.t = h.t /\ published' = published
         \/ s.var = "tail" /\ v = h.t /\ g.t = h.t /\ published' = published + 1
         \/ s.var = "tail" /\ v = h.t + 1 /\ h.first[v] = published /\ g.t = h.t /\ published' = published
         \/ s.var = "block" /\ v = h.t + 1 /\ h.first[v] = published /\ g.t = v /\ published' = published + 1
  PROVE  Tails(g, Pp', mem', published')
<1> PICK p : p = Pp
  OBVIOUS
<1> PICK r : r = Pp'
  OBVIOUS
<1> PICK m : m = mem'
  OBVIOUS
<1>1. /\ VisitInv(h) /\ published \in Nat
      /\ h.m \in Nat /\ h.t \in Nat /\ h.l \in Nat /\ h.t <= h.l /\ h.m <= h.t
      /\ Tails(h, p, mem, published) /\ published <= h.first[h.t + 1]
  <2>1. ProdInv(h)
    BY DEF Inv
  <2>2. Tails(h, p, mem, published) /\ published <= h.first[h.t + 1]
    BY <2>1, ProdTails
  <2>3. VisitInv(h) /\ published \in Nat /\ Shorthands(h)
    BY Counts
  <2>4. h.m \in Nat /\ h.t \in Nat /\ h.l \in Nat /\ h.t <= h.l /\ h.m <= h.t
    BY <2>3 DEF Shorthands
  <2> QED
    BY <2>2, <2>3, <2>4
<1>2. /\ 1 \in 1 .. Len(p) /\ s = p[1]
      /\ \A i \in 1 .. Len(p) : i = 1 \/ (i > 1 /\ i - 1 \in 1 .. Len(r) /\ r[i - 1] = p[i])
      /\ \A i \in 1 .. Len(r) : Before(s, r[i])
  BY DEF ProducerDrains
<1>3. /\ g.block = h.block /\ g.first = h.first /\ g.place = h.place /\ g.l = h.l /\ g.m = h.m
  BY DEF Later
<1>4. /\ \A w \in h.m .. h.l : h.block[w] \in Blocks
      /\ \A w \in Nat : h.first[w] \in Nat
      /\ \A w, x \in h.m .. h.l : h.block[w] = h.block[x] => w = x
      /\ v \in h.m .. h.l /\ v \in Nat
  <2>1. \A w \in h.m .. h.l : h.block[w] \in Blocks
    BY <1>1, VisitFacts
  <2>2. \A w \in Nat : h.first[w] \in Nat
    BY HistoryFacts
  <2>3. \A w, x \in h.m .. h.l : h.block[w] = h.block[x] => w = x
    BY <1>1 DEF VisitInv
  <2>4. v \in h.m .. h.l /\ v \in Nat
    BY <1>1
  <2> QED
    BY <2>1, <2>2, <2>3, <2>4
<1>5. ASSUME NEW w \in h.m .. h.l
      PROVE  m.tail[h.block[w]] = IF s.var = "tail" /\ w = v THEN h.place[v][published + 1]
                                  ELSE mem.tail[h.block[w]]
  <2>1. m.tail[h.block[w]] = IF s.var = "tail" /\ s.at = h.block[w] THEN s.value ELSE mem.tail[h.block[w]]
    BY <1>4 DEF Reaches, Is
  <2>2. s.var = "tail" => s.at = h.block[v] /\ s.value = h.place[v][published + 1]
    BY DEF Produced
  <2>3. s.var = "tail" => (s.at = h.block[w] <=> w = v)
    BY <1>4, <2>2
  <2> QED
    BY <2>1, <2>2, <2>3
<1>6. \A w \in h.t + 1 .. h.l : w # v => h.first[w] # published
  <2>1. ASSUME NEW w \in h.t + 1 .. h.l, h.first[w] = published PROVE w = v
    <3>1. w \in 0 .. h.l /\ v \in 0 .. h.l /\ 0 < h.l
      BY <1>1
    <3>2. h.first[w] < h.first[w + 1]
      BY <1>1, <3>1 DEF VisitInv
    <3>3. In(h, w, published)
      BY <1>1, <2>1, <3>2 DEF In
    <3> QED
      BY <1>1, <3>1, <3>3, OneVisit
  <2> QED
    BY <2>1
<1>7. ASSUME NEW w \in h.t + 1 .. h.l, w # v \/ s.var \in {"data", "next"}
      PROVE  \/ m.tail[h.block[w]] = h.place[w][h.first[w] + 1]
             \/ \E i \in 1 .. Len(r) : r[i].var = "tail" /\ r[i].of = h.first[w]
  <2>1. w \in h.m .. h.l
    BY <1>1
  <2>2. m.tail[h.block[w]] = mem.tail[h.block[w]]
    BY <1>5, <1>7, <2>1
  <2>3. \/ mem.tail[h.block[w]] = h.place[w][h.first[w] + 1]
        \/ \E i \in 1 .. Len(p) : p[i].var = "tail" /\ p[i].of = h.first[w]
    BY <1>1 DEF Tails
  <2>4. ASSUME NEW i \in 1 .. Len(p), p[i].var = "tail", p[i].of = h.first[w]
        PROVE  \E j \in 1 .. Len(r) : r[j].var = "tail" /\ r[j].of = h.first[w]
    <3>1. i # 1
      BY <1>2, <1>6, <1>7, <2>4
    <3> QED
      BY <1>2, <2>4, <3>1
  <2> QED
    BY <2>2, <2>3, <2>4
<1>8. \A w \in h.m .. h.t :
        mem.tail[h.block[w]] = h.place[w][IF w < h.t THEN h.first[w + 1] ELSE published]
  BY <1>1 DEF Tails
<1>9. CASE s.var \in {"data", "next"} /\ g.t = h.t /\ published' = published
  <2>1. \A w \in h.m .. h.t : w \in h.m .. h.l
    BY <1>1
  <2> QED
    BY <1>3, <1>5, <1>7, <1>8, <1>9, <2>1 DEF Tails
<1>10. CASE s.var = "tail" /\ v = h.t /\ g.t = h.t /\ published' = published + 1
  <2>1. ASSUME NEW w \in h.m .. h.t
        PROVE  m.tail[h.block[w]] = h.place[w][IF w < h.t THEN h.first[w + 1] ELSE published']
    <3>1. w \in h.m .. h.l
      BY <1>1
    <3>2. CASE w = h.t
      BY <1>1, <1>5, <1>10, <3>1, <3>2
    <3>3. CASE w # h.t
      <4>1. w < h.t
        BY <1>1, <3>3
      <4> QED
        BY <1>5, <1>8, <1>10, <3>1, <3>3, <4>1
    <3> QED
      BY <3>2, <3>3
  <2>2. \A w \in h.t + 1 .. h.l : w # v
    BY <1>1, <1>10
  <2> QED
    BY <1>3, <1>7, <1>10, <2>1, <2>2 DEF Tails
<1>11. CASE s.var = "tail" /\ v = h.t + 1 /\ h.first[v] = published /\ g.t = h.t /\ published' = published
  <2>1. \A w \in h.m .. h.t : w \in h.m .. h.l /\ w # v
    BY <1>1, <1>11
  <2>2. m.tail[h.block[v]] = h.place[v][h.first[v] + 1]
    BY <1>4, <1>5, <1>11
  <2>3. \A w \in h.t + 1 .. h.l :
          \/ m.tail[h.block[w]] = h.place[w][h.first[w] + 1]
          \/ \E i \in 1 .. Len(r) : r[i].var = "tail" /\ r[i].of = h.first[w]
    BY <1>7, <2>2
  <2>4. \A w \in h.m .. h.t : m.tail[h.block[w]] = mem.tail[h.block[w]]
    BY <1>5, <2>1
  <2> QED
    BY <1>3, <1>8, <1>11, <2>3, <2>4 DEF Tails
<1>12. CASE s.var = "block" /\ v = h.t + 1 /\ h.first[v] = published /\ g.t = v
            /\ published' = published + 1
  <2>1. mem.tail[h.block[v]] = h.place[v][published + 1]
    <3>1. v \in h.t + 1 .. h.l
      BY <1>1, <1>4, <1>12
    <3>2. \/ mem.tail[h.block[v]] = h.place[v][h.first[v] + 1]
          \/ \E i \in 1 .. Len(p) : p[i].var = "tail" /\ p[i].of = h.first[v]
      BY <1>1, <3>1 DEF Tails
    <3>3. ASSUME NEW i \in 1 .. Len(p), p[i].var = "tail", p[i].of = published PROVE FALSE
      <4>1. i # 1
        BY <1>2, <1>12, <3>3
      <4>2. i - 1 \in 1 .. Len(r) /\ r[i - 1] = p[i]
        BY <1>2, <4>1
      <4>3. Before(s, p[i])
        BY <1>2, <4>2
      <4>4. Rank(s.var) < Rank(p[i].var)
        BY <1>1, <3>3, <4>3 DEF Before
      <4> QED
        BY <1>12, <3>3, <4>4 DEF Rank
    <3> QED
      BY <1>12, <3>2, <3>3
  <2>2. ASSUME NEW w \in h.m .. v
        PROVE  m.tail[h.block[w]] = h.place[w][IF w < v THEN h.first[w + 1] ELSE published']
    <3>1. w \in h.m .. h.l
      BY <1>1, <1>4
    <3>2. m.tail[h.block[w]] = mem.tail[h.block[w]]
      BY <1>5, <1>12, <3>1
    <3>3. CASE w = v
      BY <1>4, <1>12, <2>1, <3>2, <3>3
    <3>4. CASE w = h.t
      <4>1. w < v /\ ~(w < h.t) /\ w \in h.m .. h.t /\ w + 1 = v
        BY <1>1, <1>12, <3>4
      <4> QED
        BY <1>8, <1>12, <3>2, <4>1
    <3>5. CASE w # v /\ w # h.t
      <4>1. w < v /\ w < h.t /\ w \in h.m .. h.t
        BY <1>1, <1>12, <3>5
      <4> QED
        BY <1>8, <1>12, <3>2, <4>1
    <3> QED
      BY <3>3, <3>4, <3>5
  <2>3. \A w \in v + 1 .. h.l : w \in h.t + 1 .. h.l /\ w # v
    BY <1>1, <1>4, <1>12
  <2> QED
    BY <1>3, <1>7, <1>12, <2>2, <2>3 DEF Tails
<1> QED
  BY <1>9, <1>10, <1>11, <1>12

\* The rest of what is known of the producer, and where the end of the queue is.
LEMMA ProdDrained ==
  ASSUME TypeInv, NEW h \in History, NEW g \in History, Inv(h), Later(g, h), NEW s, ProducerDrains(s),
         Reaches(s), TailBlock' = TailBlock,
         \A b \in Blocks : TailOf(b)' = TailOf(b) /\ NextOf(b)' = NextOf(b),
         Tails(g, Pp', mem', published'),
         mem'.block["tail"] = h.block[g.t],
         h.first[g.t] <= published', published' <= h.first[g.t + 1], h.first[g.t] < published' \/ g.t = 0
  PROVE  ProdInv(g)'
<1>1. /\ g.block = h.block /\ g.first = h.first /\ g.place = h.place /\ g.l = h.l /\ g.m = h.m
  BY DEF Later
<1>2. \A v \in h.m .. h.l : h.block[v] \in Blocks
  BY Counts, VisitFacts
<1>3. \A v \in h.m .. h.l : TailOf(h.block[v])' = TailOf(h.block[v])
  BY <1>2
<1>4. \A v \in h.m .. h.l - 1 : NextOf(h.block[v])' = NextOf(h.block[v])
  <2>1. \A v \in h.m .. h.l - 1 : v \in h.m .. h.l
    BY HistoryFacts
  <2> QED
    BY <1>2, <2>1
<1>5. ProdInv(h)
  BY DEF Inv
<1>6. /\ TailBlock' = g.block[g.l]
      /\ \A v \in g.m .. g.l : TailOf(g.block[v])' = g.place[v][g.first[v + 1]]
      /\ \A v \in g.m .. g.l - 1 : NextOf(g.block[v])' = g.block[v + 1]
  BY <1>1, <1>3, <1>4, <1>5 DEF ProdInv
<1> QED
  BY <1>1, <1>6 DEF ProdInv, Tails

\* A store of the producer reaches memory.
LEMMA ProducerDrainStep ==
  ASSUME TypeInv, NEW h \in History, Inv(h), Drain("producer")
  PROVE  TypeInv' /\ \E g \in History : Inv(g)'
<1> PICK s : s = Head(Pp)
  OBVIOUS
<1>1. /\ ProducerDrains(s) /\ Arrival(mem', mem, s)
      /\ published' = IF (s.var = "tail" /\ s.at = mem.block["tail"]) \/ Is(s, "block", "tail")
                        THEN published + 1 ELSE published
      /\ removed' = IF s.var = "front" THEN removed + 1 ELSE removed
  BY ProducerDrainFacts
<1>2. 1 \in 1 .. Len(Pp) /\ s = Pp[1]
  BY <1>1 DEF ProducerDrains
<1>3. PICK v \in h.t .. h.l : /\ In(h, v, published) /\ Produced(h, s, v)
                              /\ v = h.t \/ (v = h.t + 1 /\ published = h.first[v])
  BY <1>2, ProducerHead
<1>4. s.of = published /\ published < pushed
  BY <1>2, ProducerHead
<1>5. /\ Reaches(s) /\ TailBlock' = TailBlock /\ FrontBlock' = FrontBlock
      /\ \A b \in Blocks : /\ TailOf(b)' = TailOf(b) /\ NextOf(b)' = NextOf(b)
                           /\ FrontOf(b)' = FrontOf(b)
  BY <1>1, <1>3, ProducerReaches
<1>6. /\ s.var \in {"data", "tail", "next", "block"} /\ removed' = removed
      /\ s.var = "tail" => s.at = h.block[v]
      /\ s.var = "next" => v > h.t
      /\ s.var = "block" => v > h.t /\ s.at = "tail" /\ s.value = h.block[v]
  BY <1>1, <1>3 DEF Produced
<1>7. /\ Shorthands(h) /\ VisitInv(h) /\ ProdInv(h)
      /\ pushed \in Nat /\ published \in Nat /\ h.m \in Nat /\ h.t \in Nat /\ h.l \in Nat
      /\ h.m <= h.t /\ h.t <= h.l /\ v \in Nat /\ h.t <= v /\ v <= h.l /\ h.t \in h.m .. h.l
      /\ v \in h.m .. h.l
  <2>1. Shorthands(h) /\ VisitInv(h) /\ pushed \in Nat /\ published \in Nat
    BY Counts
  <2>2. /\ h.m \in Nat /\ h.t \in Nat /\ h.l \in Nat /\ h.m <= h.t /\ h.t <= h.l
        /\ h.t \in h.m .. h.l
    BY <2>1 DEF Shorthands
  <2> QED
    BY <2>1, <2>2 DEF Inv
<1>8. /\ mem.block["tail"] = h.block[h.t] /\ h.first[h.t] <= published
      /\ published <= h.first[h.t + 1] /\ (h.first[h.t] < published \/ h.t = 0)
      /\ h.first[h.t] \in Nat /\ h.first[h.t + 1] \in Nat /\ h.first[v] \in Nat /\ h.first[v + 1] \in Nat
  <2>1. \A w \in Nat : h.first[w] \in Nat
    BY HistoryFacts
  <2>2. h.first[h.t] \in Nat /\ h.first[h.t + 1] \in Nat /\ h.first[v] \in Nat /\ h.first[v + 1] \in Nat
    BY <1>7, <2>1
  <2> QED
    BY <1>7, <2>2 DEF ProdInv
<1>9. h.first[v] <= published /\ published + 1 <= h.first[v + 1]
  BY <1>3, <1>7, <1>8 DEF In
<1>10. ASSUME NEW g \in History, Later(g, h), published' \in Nat, published <= published',
              published' <= pushed, ProdInv(g)', ProducedInv(g)', ToPublishInv(g)'
       PROVE  TypeInv' /\ Inv(g)'
  <2>1. TypeInv' /\ DrainRest(g)'
    BY <1>1, <1>5, <1>6, <1>10, ProducerDrainRest
  <2>2. DataInv(g)' /\ KeptInv(g)' /\ ToComeInv'
    BY <1>1, <1>3, <1>4, <1>5, <1>10, DataDrained
  <2> QED
    BY <1>10, <2>1, <2>2 DEF Inv, DrainRest
<1>11. Later(h, h)
  BY <1>7 DEF Later
<1>12. mem'.block["tail"] = IF s.var = "block" THEN s.value ELSE mem.block["tail"]
  BY <1>5 DEF Reaches
<1>13. CASE s.var \in {"data", "next"}
  <2>1. published' = published /\ mem'.block["tail"] = h.block[h.t]
    BY <1>1, <1>8, <1>12, <1>13 DEF Is
  <2>2. Tails(h, Pp', mem', published')
    BY <1>1, <1>3, <1>4, <1>5, <1>7, <1>11, <1>13, <2>1, TailsDrained
  <2>3. ProdInv(h)'
    BY <1>1, <1>5, <1>8, <1>11, <2>1, <2>2, ProdDrained
  <2>4. ProducedInv(h)' /\ ToPublishInv(h)'
    BY <1>1, <1>3, <1>4, <1>13, <2>1, QuietDrained
  <2>5. published' \in Nat /\ published <= published' /\ published' <= pushed
    BY <1>4, <1>7, <2>1
  <2> QED
    BY <1>10, <1>11, <2>3, <2>4, <2>5
<1>14. CASE s.var = "tail" /\ v = h.t
  <2>1. published' = published + 1 /\ mem'.block["tail"] = h.block[h.t]
    BY <1>1, <1>6, <1>8, <1>12, <1>14
  <2>2. Tails(h, Pp', mem', published')
    BY <1>1, <1>3, <1>4, <1>5, <1>7, <1>11, <1>14, <2>1, TailsDrained
  <2>3. /\ h.first[h.t] <= published' /\ published' <= h.first[h.t + 1]
        /\ h.first[h.t] < published'
    BY <1>7, <1>8, <1>9, <1>14, <2>1
  <2>4. ProdInv(h)'
    BY <1>1, <1>5, <1>11, <2>1, <2>2, <2>3, ProdDrained
  <2>5. ProducedInv(h)' /\ ToPublishInv(h)'
    BY <1>1, <1>3, <1>4, <1>11, <1>14, <2>1, PublishDrained
  <2>6. published' \in Nat /\ published <= published' /\ published' <= pushed
    BY <1>4, <1>7, <2>1
  <2> QED
    BY <1>10, <1>11, <2>4, <2>5, <2>6
<1>15. CASE s.var = "tail" /\ v # h.t
  <2>1. v = h.t + 1 /\ h.first[v] = published
    BY <1>3, <1>15
  <2>2. h.block[v] # h.block[h.t]
    BY <1>7, <1>15 DEF VisitInv
  <2>3. published' = published /\ mem'.block["tail"] = h.block[h.t]
    BY <1>1, <1>6, <1>8, <1>12, <1>15, <2>2 DEF Is
  <2>4. Tails(h, Pp', mem', published')
    BY <1>1, <1>3, <1>4, <1>5, <1>7, <1>11, <1>15, <2>1, <2>3, TailsDrained
  <2>5. ProdInv(h)'
    BY <1>1, <1>5, <1>8, <1>11, <2>3, <2>4, ProdDrained
  <2>6. ProducedInv(h)' /\ ToPublishInv(h)'
    <3>1. s.var = "tail" /\ v > h.t /\ h.first[v] = published
      BY <1>7, <1>15, <2>1
    <3> QED
      BY <1>1, <1>3, <1>4, <2>3, <3>1, QuietDrained
  <2>7. published' \in Nat /\ published <= published' /\ published' <= pushed
    BY <1>4, <1>7, <2>3
  <2> QED
    BY <1>10, <1>11, <2>5, <2>6, <2>7
<1>16. CASE s.var = "block"
  <2>1. v = h.t + 1 /\ h.first[v] = published
    BY <1>3, <1>6, <1>7, <1>16
  <2>2. PICK g \in History : Later(g, h) /\ g.t = v
    <3>1. PICK g \in History : /\ g.block = h.block /\ g.first = h.first /\ g.place = h.place
                               /\ g.kept = h.kept /\ g.m = h.m /\ g.f = h.f /\ g.t = v /\ g.l = h.l
      <4> DEFINE g == [h EXCEPT !.t = v]
      <4>1. g \in History
        BY <1>7 DEF History
      <4> QED
        BY <4>1 DEF History
    <3> QED
      BY <1>7, <3>1 DEF Later
  <2>3. published' = published + 1 /\ mem'.block["tail"] = h.block[g.t]
    BY <1>1, <1>6, <1>12, <1>16, <2>2 DEF Is
  <2>4. published' \in Nat /\ published <= published' /\ published' <= pushed
    BY <1>4, <1>7, <2>3
  <2>5. Tails(g, Pp', mem', published')
    BY <1>1, <1>3, <1>4, <1>5, <1>16, <2>1, <2>2, <2>3, <2>4, TailsDrained
  <2>6. /\ h.first[g.t] <= published' /\ published' <= h.first[g.t + 1]
        /\ h.first[g.t] < published'
    BY <1>7, <1>8, <1>9, <2>2, <2>3
  <2>7. ProdInv(g)'
    BY <1>1, <1>5, <2>2, <2>3, <2>5, <2>6, ProdDrained
  <2>8. ProducedInv(g)' /\ ToPublishInv(g)'
    BY <1>1, <1>3, <1>4, <1>16, <2>1, <2>2, <2>3, PublishDrained
  <2> QED
    BY <1>10, <2>2, <2>4, <2>7, <2>8
<1> QED
  BY <1>6, <1>13, <1>14, <1>15, <1>16

\* What the oldest store of the consumer leaves as it was.
ConsumerDrains(s) ==
  /\ s \in AnyStore /\ 1 \in 1 .. Len(Pc) /\ s = Pc[1] /\ s = Head(Pc)
  /\ Pc \in Seq(AnyStore) /\ Pc # <<>> /\ Pc' = Tail(Pc)
  /\ mem' \in Memory /\ pending' \in [Threads -> Seq(AnyStore)] /\ Pp' = Pp
  /\ \A i \in 1 .. Len(Pc) : i = 1 \/ (i > 1 /\ i - 1 \in 1 .. Len(Pc') /\ Pc'[i - 1] = Pc[i])
  /\ \A i \in 1 .. Len(Pc') : i + 1 \in 1 .. Len(Pc) /\ i + 1 > 1 /\ Pc'[i] = Pc[i + 1]
  /\ Ordered(Pc') /\ \A i \in 1 .. Len(Pc') : Before(s, Pc'[i])
  /\ UNCHANGED <<producerVars, blockVars, consumerVars, shape, localTail, live>>

\* The oldest store of the consumer reaches memory: what it leaves alone, and the counts.
LEMMA ConsumerDrainFacts ==
  ASSUME TypeInv, NEW h \in History, Inv(h), Drain("consumer"), NEW s, s = Head(Pc)
  PROVE  /\ ConsumerDrains(s)
         /\ Arrival(mem', mem, s)
         /\ published' = IF (s.var = "tail" /\ s.at = mem.block["tail"]) \/ Is(s, "block", "tail")
                           THEN published + 1 ELSE published
         /\ removed' = IF s.var = "front" THEN removed + 1 ELSE removed
<1> PICK p : p = Pc
  OBVIOUS
<1> PICK r : r = Pc'
  OBVIOUS
<1>1. "producer" \in Threads /\ "consumer" \in Threads
  BY DEF Threads
<1>2. /\ s \in AnyStore /\ p # <<>> /\ p \in Seq(AnyStore)
      /\ mem \in Memory /\ Arrival(mem', mem, s)
      /\ pending' \in [Threads -> Seq(AnyStore)] /\ r = Tail(p) /\ Pp' = Pp
      /\ published' = IF (s.var = "tail" /\ s.at = mem.block["tail"]) \/ Is(s, "block", "tail")
                        THEN published + 1 ELSE published
      /\ removed' = IF s.var = "front" THEN removed + 1 ELSE removed
      /\ UNCHANGED <<producerVars, blockVars, consumerVars, shape, localTail, live>>
  BY <1>1, DrainFacts DEF Pp, Pc
<1>3. mem' \in Memory
  BY <1>2, Arrives
<1>4. /\ 1 \in 1 .. Len(p) /\ Head(p) = p[1]
      /\ \A i \in 1 .. Len(p) : i = 1 \/ (i > 1 /\ i - 1 \in 1 .. Len(r) /\ r[i - 1] = p[i])
      /\ \A i \in 1 .. Len(r) : i + 1 \in 1 .. Len(p) /\ i + 1 > 1 /\ r[i] = p[i + 1]
  BY <1>2, TailOfBuffer
<1>5. Ordered(p)
  BY DEF Inv
<1>6. Ordered(r) /\ \A i \in 1 .. Len(r) : Before(p[1], r[i])
  BY <1>2, <1>5, OrderedTail
<1> QED
  BY <1>2, <1>3, <1>4, <1>6 DEF ConsumerDrains

\* The visits of the consumer's that have begun have elements; they begin one after another.
LEMMA FirstsGrow ==
  ASSUME NEW h \in History, VisitInv(h), NEW v \in h.m .. h.l, NEW w \in h.m .. h.l, v < w
  PROVE  /\ h.first[v] \in Nat /\ h.first[v + 1] \in Nat /\ h.first[w] \in Nat
         /\ h.first[v] < h.first[v + 1] /\ h.first[v + 1] <= h.first[w]
<1>1. /\ h.m \in Nat /\ h.l \in Nat /\ \A x \in Nat : h.first[x] \in Nat
  BY HistoryFacts
<1>2. /\ v \in 0 .. h.l /\ 0 < h.l /\ v + 1 \in 0 .. h.l + 1 /\ w \in 0 .. h.l + 1 /\ v + 1 <= w
      /\ v \in Nat /\ v + 1 \in Nat /\ w \in Nat
  BY <1>1
<1> QED
  BY <1>1, <1>2 DEF VisitInv

\* It gives a slot of the first block back, or makes the next block the first.
LEMMA ConsumerHead ==
  ASSUME TypeInv, NEW h \in History, Inv(h), 1 \in 1 .. Len(Pc), NEW s, s = Pc[1]
  PROVE  \/ /\ s.var = "front" /\ s.at = h.block[h.m] /\ s.value = h.place[h.m][removed + 1]
            /\ s.of = removed /\ removed < popped /\ In(h, h.m, removed)
         \/ /\ s.var = "block" /\ s.at = "front" /\ s.value = h.block[h.m + 1]
            /\ h.m < h.f /\ removed = h.first[h.m + 1] /\ s.of = removed
<1>1. PICK v \in h.m .. h.f : Consumed(h, s, v)
  BY DEF Inv, ConsumedInv
<1>2. /\ Shorthands(h) /\ VisitInv(h) /\ removed \in Nat /\ popped \in Nat
      /\ h.m \in Nat /\ h.f \in Nat /\ h.l \in Nat /\ h.m <= h.f /\ h.f <= h.l
      /\ \A x \in Nat : h.first[x] \in Nat
      /\ removed <= h.first[h.m + 1] /\ h.first[h.f] <= popped
  <2>1. Shorthands(h) /\ VisitInv(h) /\ removed \in Nat /\ popped \in Nat
    BY Counts
  <2>2. h.m \in Nat /\ h.f \in Nat /\ h.l \in Nat /\ h.m <= h.f /\ h.f <= h.l
    <3>1. h.m \in Nat /\ h.f \in Nat /\ h.t \in Nat /\ h.l \in Nat /\ h.m <= h.f /\ h.f <= h.t /\ h.t <= h.l
      BY <2>1 DEF Shorthands
    <3> QED
      BY <3>1
  <2>3. \A x \in Nat : h.first[x] \in Nat
    BY HistoryFacts
  <2> QED
    BY <2>1, <2>2, <2>3 DEF Inv, ConsInv
<1>3. ASSUME NEW i \in 1 .. Len(Pc)
      PROVE  i = 1 \/ s.of < Pc[i].of \/ (s.of = Pc[i].of /\ Rank(s.var) < Rank(Pc[i].var))
  <2>1. i = 1 \/ i > 1
    OBVIOUS
  <2> QED
    BY <2>1 DEF Inv, Ordered, Before
<1>4. v \in Nat /\ h.m <= v /\ v <= h.f /\ v \in h.m .. h.l
  BY <1>1, <1>2
<1>5. CASE s.var = "front"
  <2>1. /\ In(h, v, s.of) /\ s.of \in removed .. popped - 1
        /\ s.at = h.block[v] /\ s.value = h.place[v][s.of + 1]
    BY <1>1, <1>5 DEF Consumed
  <2>2. removed < popped /\ removed \in removed .. popped - 1 /\ s.of \in Nat
    BY <1>2, <2>1
  <2>3. s.of = removed
    <3>1. PICK i \in 1 .. Len(Pc) : Pc[i].of = removed /\ Pc[i].var = "front"
      BY <2>2 DEF Inv, ToRemoveInv
    <3>2. s.of <= removed
      BY <1>2, <1>3, <2>2, <3>1
    <3> QED
      BY <1>2, <2>1, <3>2
  <2>4. v = h.m
    <3>1. SUFFICES ASSUME v > h.m PROVE FALSE
      BY <1>2, <1>4
    <3>2. /\ h.m \in h.m .. h.l /\ v \in h.m + 1 .. h.f
      BY <1>2, <1>4, <3>1
    <3>3. h.first[h.m + 1] <= h.first[v] /\ h.first[h.m + 1] \in Nat /\ h.first[v] \in Nat
      BY <1>2, <1>4, <3>1, <3>2, FirstsGrow
    <3>4. h.first[v] <= removed
      BY <2>1, <2>3 DEF In
    <3>5. h.first[v] = removed
      BY <1>2, <3>3, <3>4
    <3>6. PICK i \in 1 .. Len(Pc) : Pc[i].of = removed /\ Pc[i].var = "block"
      BY <3>2, <3>5 DEF Inv, ToRemoveInv
    <3>7. i # 1
      BY <1>5, <3>6
    <3>8. Rank(s.var) < Rank(Pc[i].var)
      <4>1. s.of < Pc[i].of \/ Rank(s.var) < Rank(Pc[i].var)
        BY <1>3, <3>7
      <4>2. removed \in Nat
        BY <1>2
      <4> QED
        BY <2>3, <3>6, <4>1, <4>2
    <3> QED
      BY <1>5, <3>6, <3>8 DEF Rank
  <2> QED
    BY <1>5, <2>1, <2>2, <2>3, <2>4
<1>6. CASE s.var = "block"
  <2>1. s.at = "front" /\ v > h.m /\ s.of = h.first[v] /\ s.value = h.block[v]
    BY <1>1, <1>6 DEF Consumed
  <2>2. h.m < h.f /\ h.m + 1 \in h.m + 1 .. h.f /\ h.m + 1 \in h.m .. h.l /\ h.f \in h.m .. h.l
        /\ h.m \in h.m .. h.l /\ h.m + 1 \in Nat /\ h.m + 1 <= v
    BY <1>2, <1>4, <2>1
  <2>3. PICK i \in 1 .. Len(Pc) : Pc[i].of = h.first[h.m + 1] /\ Pc[i].var = "block"
    BY <2>2 DEF Inv, ToRemoveInv
  <2>4. h.first[v] <= h.first[h.m + 1]
    <3>1. h.first[v] \in Nat /\ h.first[h.m + 1] \in Nat
      BY <1>2, <1>4, <2>2
    <3> QED
      BY <1>3, <2>1, <2>3, <3>1
  <2>5. v = h.m + 1
    <3>1. SUFFICES ASSUME h.m + 1 < v PROVE FALSE
      BY <1>4, <2>2
    <3>2. /\ h.first[h.m + 1] \in Nat /\ h.first[(h.m + 1) + 1] \in Nat /\ h.first[v] \in Nat
          /\ h.first[h.m + 1] < h.first[(h.m + 1) + 1] /\ h.first[(h.m + 1) + 1] <= h.first[v]
      BY <1>2, <1>4, <2>2, <3>1, FirstsGrow
    <3> QED
      BY <2>4, <3>2
  <2>6. removed = h.first[h.m + 1]
    <3>1. SUFFICES ASSUME removed < h.first[h.m + 1] PROVE FALSE
      BY <1>2, <2>2
    <3>2. h.first[h.m + 1] \in Nat /\ h.first[h.f] \in Nat /\ h.first[h.m + 1] <= h.first[h.f]
      BY <1>2, <2>2, FirstsGrow
    <3>3. removed < popped /\ removed \in removed .. popped - 1
      <4>1. h.first[h.f] <= popped /\ popped \in Nat /\ removed \in Nat
        BY <1>2
      <4>2. removed < popped
        BY <3>1, <3>2, <4>1
      <4> QED
        BY <4>1, <4>2
    <3>4. PICK j \in 1 .. Len(Pc) : Pc[j].of = removed /\ Pc[j].var = "front"
      BY <3>3 DEF Inv, ToRemoveInv
    <3>5. j # 1
      BY <1>6, <3>4
    <3>6. s.of <= removed
      <4>1. s.of = h.first[h.m + 1] /\ s.of \in Nat
        BY <2>1, <2>5, <3>2
      <4>2. s.of < removed \/ s.of = removed
        BY <1>3, <3>4, <3>5
      <4> QED
        BY <1>2, <4>1, <4>2
    <3> QED
      BY <1>2, <2>1, <2>5, <3>1, <3>2, <3>6
  <2> QED
    BY <1>6, <2>1, <2>2, <2>5, <2>6
<1> QED
  BY <1>1, <1>5, <1>6 DEF Consumed

\* What the oldest store of the consumer is to memory, and that no thread notices by its view.
LEMMA ConsumerReaches ==
  ASSUME TypeInv, NEW h \in History, Inv(h), NEW s, ConsumerDrains(s), Arrival(mem', mem, s),
         s.var = "front" \/ (s.var = "block" /\ s.at = "front")
  PROVE  /\ mem'.tail = mem.tail /\ mem'.data = mem.data /\ mem'.block["tail"] = mem.block["tail"]
         /\ mem'.block["front"] = IF s.var = "block" THEN s.value ELSE mem.block["front"]
         /\ \A b \in Blocks : mem'.front[b] = IF Is(s, "front", b) THEN s.value ELSE mem.front[b]
         /\ TailBlock' = TailBlock /\ FrontBlock' = FrontBlock
         /\ \A b \in Blocks : /\ TailOf(b)' = TailOf(b) /\ NextOf(b)' = NextOf(b)
                              /\ FrontOf(b)' = FrontOf(b)
<1> PICK later : later = mem'
  OBVIOUS
<1> PICK p : p = Pc
  OBVIOUS
<1>1. /\ s \in AnyStore /\ mem \in Memory /\ Arrival(later, mem, s)
      /\ p \in Seq(AnyStore) /\ p # <<>> /\ s = Head(p) /\ Pc' = Tail(p) /\ Pp' = Pp
  BY DEF ConsumerDrains, TypeInv, Memory
<1>2. /\ later \in Memory
      /\ \A at \in {"front", "tail"} :
           later.block[at] = IF Is(s, "block", at) THEN s.value ELSE mem.block[at]
      /\ \A at \in Blocks : later.front[at] = IF Is(s, "front", at) THEN s.value ELSE mem.front[at]
      /\ \A at \in Blocks : later.tail[at] = IF Is(s, "tail", at) THEN s.value ELSE mem.tail[at]
      /\ \A at \in Blocks : later.next[at] = IF Is(s, "next", at) THEN s.value ELSE mem.next[at]
      /\ \A at \in Slots : later.data[at] = IF Is(s, "data", at) THEN s.value ELSE mem.data[at]
  BY <1>1, Arrives
<1>3. s.var \notin {"tail", "data", "next"}
  OBVIOUS
<1>4. later.tail = mem.tail
  <2>1. later.tail \in [Blocks -> Nat] /\ mem.tail \in [Blocks -> Nat]
    BY <1>1, <1>2 DEF Memory
  <2>2. \A b \in Blocks : later.tail[b] = mem.tail[b]
    BY <1>2, <1>3 DEF Is
  <2> QED
    BY <2>1, <2>2
<1>5. later.next = mem.next
  <2>1. later.next \in [Blocks -> Nat] /\ mem.next \in [Blocks -> Nat]
    BY <1>1, <1>2 DEF Memory
  <2>2. \A b \in Blocks : later.next[b] = mem.next[b]
    BY <1>2, <1>3 DEF Is
  <2> QED
    BY <2>1, <2>2
<1>6. later.data = mem.data
  <2>1. later.data \in [Slots -> Int] /\ mem.data \in [Slots -> Int]
    BY <1>1, <1>2 DEF Memory
  <2>2. \A b \in Slots : later.data[b] = mem.data[b]
    BY <1>2, <1>3 DEF Is
  <2> QED
    BY <2>1, <2>2
<1>7. /\ later.block["tail"] = mem.block["tail"]
      /\ later.block["front"] = IF s.var = "block" THEN s.value ELSE mem.block["front"]
  BY <1>2 DEF Is
<1>8. ASSUME NEW var, NEW at, later[var][at] = IF Is(s, var, at) THEN s.value ELSE mem[var][at]
      PROVE  View(later, Tail(p), var, at) = View(mem, p, var, at)
  <2>1. later[var][at] = IF Is(Head(p), var, at) THEN Head(p).value ELSE mem[var][at]
    BY <1>1, <1>8
  <2>2. p \in Seq(AnyStore) /\ p # <<>>
    BY <1>1
  <2> QED
    BY <2>1, <2>2, ViewDrain
<1>9. /\ FrontBlock = View(mem, p, "block", "front") /\ FrontBlock' = View(later, Tail(p), "block", "front")
      /\ \A b : FrontOf(b) = View(mem, p, "front", b) /\ FrontOf(b)' = View(later, Tail(p), "front", b)
  BY <1>1 DEF FrontBlock, FrontOf, Own, Pc
<1>10. FrontBlock' = FrontBlock
  <2>1. later["block"]["front"] = IF Is(s, "block", "front") THEN s.value ELSE mem["block"]["front"]
    BY <1>2
  <2> QED
    BY <1>8, <1>9, <2>1
<1>11. ASSUME NEW b \in Blocks PROVE FrontOf(b)' = FrontOf(b)
  <2>1. later["front"][b] = IF Is(s, "front", b) THEN s.value ELSE mem["front"][b]
    BY <1>2
  <2> QED
    BY <1>8, <1>9, <2>1
<1>12. /\ TailBlock = View(mem, Pp, "block", "tail") /\ TailBlock' = View(later, Pp, "block", "tail")
       /\ \A b : TailOf(b) = View(mem, Pp, "tail", b) /\ TailOf(b)' = View(later, Pp, "tail", b)
       /\ \A b : NextOf(b) = View(mem, Pp, "next", b) /\ NextOf(b)' = View(later, Pp, "next", b)
  BY <1>1 DEF TailBlock, TailOf, NextOf, Own, Pp
<1>13. TailBlock' = TailBlock
  <2>1. later["block"]["tail"] = mem["block"]["tail"]
    BY <1>7
  <2> QED
    BY <1>12, <2>1 DEF View
<1>14. ASSUME NEW b \in Blocks PROVE TailOf(b)' = TailOf(b) /\ NextOf(b)' = NextOf(b)
  <2>1. later["tail"][b] = mem["tail"][b] /\ later["next"][b] = mem["next"][b]
    BY <1>4, <1>5
  <2> QED
    BY <1>12, <2>1 DEF View
<1> QED
  BY <1>2, <1>4, <1>6, <1>7, <1>10, <1>11, <1>13, <1>14

\* The same history, with another visit as the first in memory.
Behind(g, h) ==
  /\ g.block = h.block /\ g.first = h.first /\ g.place = h.place /\ g.kept = h.kept
  /\ g.f = h.f /\ g.t = h.t /\ g.l = h.l /\ h.m <= g.m /\ g.m <= g.f

\* What stays as it was, wherever the first visit is.
BehindRest(g) ==
  /\ VisitInv(g) /\ ShadowTailInv(g) /\ ProdInv(g) /\ CircleInv(g) /\ KeptInv(g)
  /\ Ordered(Pp) /\ ProducedInv(g) /\ ToPublishInv(g) /\ Ordered(Pc)
  /\ DataInv(g) /\ LiveInv(g) /\ CallInv(g) /\ ReuseInv(g)

\* It keeps the parts of the invariant that it is nothing to.
LEMMA ConsumerDrainRest ==
  ASSUME TypeInv, NEW h \in History, NEW g \in History, Inv(h), Behind(g, h), NEW s, ConsumerDrains(s),
         mem'.tail = mem.tail, mem'.data = mem.data, mem'.block["tail"] = mem.block["tail"],
         TailBlock' = TailBlock,
         \A b \in Blocks : TailOf(b)' = TailOf(b) /\ NextOf(b)' = NextOf(b),
         published' = published, removed' \in Nat
  PROVE  TypeInv' /\ BehindRest(g)'
<1>1. /\ mem' \in Memory /\ pending' \in [Threads -> Seq(AnyStore)] /\ Pp' = Pp
      /\ UNCHANGED <<localFront, enqPc, pushed, blocks, blockSize, largestBlockSize>>
      /\ UNCHANGED <<deqPc, op, block_, front_, popped, publishedAtStart, shape, localTail, live>>
  BY DEF ConsumerDrains, producerVars, blockVars, consumerVars
<1>2. TypeInv'
  BY <1>1 DEF TypeInv, Memory, MaxBlockSize, Size
<1>3. /\ Shorthands(h) /\ VisitInv(h)
      /\ h.kept \subseteq Blocks
      /\ \A v \in h.m .. h.l : h.block[v] \in Blocks
      /\ h.m \in Nat /\ h.f \in Nat /\ h.t \in Nat /\ h.l \in Nat /\ h.m <= h.f /\ h.f <= h.t
      /\ h.t <= h.l
  <2>1. Shorthands(h) /\ VisitInv(h)
    BY Counts
  <2>2. h.kept \subseteq Blocks
    BY <2>1, MadeBlocks DEF VisitInv
  <2>3. \A v \in h.m .. h.l : h.block[v] \in Blocks
    BY <2>1, VisitFacts
  <2> QED
    BY <2>1, <2>2, <2>3 DEF Shorthands
<1>4. /\ g.block = h.block /\ g.first = h.first /\ g.place = h.place /\ g.kept = h.kept
      /\ g.f = h.f /\ g.t = h.t /\ g.l = h.l /\ h.m <= g.m /\ g.m <= g.f /\ g.m \in Nat
  BY HistoryFacts DEF Behind
<1>5. \A v \in g.m .. g.l : v \in h.m .. h.l
  BY <1>3, <1>4
<1>6. VisitInv(g)'
  BY <1>1, <1>3, <1>4, <1>5 DEF VisitInv
<1>7. ShadowTailInv(g)'
  BY <1>1, <1>4 DEF Inv, ShadowTailInv
<1>8. ProdInv(g)'
  <2>1. ProdInv(h)
    BY DEF Inv
  <2>2. \A v \in g.m .. g.l : TailOf(h.block[v])' = TailOf(h.block[v])
    BY <1>3, <1>5
  <2>3. \A v \in g.m .. g.l - 1 : v \in h.m .. h.l - 1 /\ NextOf(h.block[v])' = NextOf(h.block[v])
    <3>1. \A v \in g.m .. g.l - 1 : v \in h.m .. h.l - 1 /\ v \in h.m .. h.l
      BY <1>3, <1>4
    <3> QED
      BY <1>3, <3>1
  <2>4. \A v \in g.m .. g.t : v \in h.m .. h.t
    BY <1>3, <1>4
  <2> QED
    BY <1>1, <1>4, <1>5, <2>1, <2>2, <2>3, <2>4 DEF ProdInv
<1>9. CircleInv(g)'
  BY <1>3, <1>4 DEF Inv, CircleInv
<1>10. KeptInv(g)'
  BY <1>1, <1>4 DEF Inv, KeptInv, MaxBlockSize, Size
<1>11. Ordered(Pp)' /\ Ordered(Pc)'
  BY <1>1 DEF Inv, Ordered, ConsumerDrains
<1>12. ProducedInv(g)'
  <2>1. \A n, w : In(h, w, n) <=> In(g, w, n)'
    BY <1>4 DEF In
  <2>2. \A st, w : Produced(h, st, w) <=> Produced(g, st, w)'
    BY <1>4 DEF Produced
  <2>3. ProducedInv(h)
    BY DEF Inv
  <2> QED
    BY <1>1, <1>4, <2>1, <2>2, <2>3 DEF ProducedInv
<1>13. ToPublishInv(g)'
  BY <1>1, <1>4 DEF Inv, ToPublishInv
<1>14. DataInv(g)'
  BY <1>1, <1>4 DEF Inv, DataInv, In
<1>15. LiveInv(g)'
  <2>1. LiveInv(h)
    BY DEF Inv
  <2>2. \A v, n : In(g, v, n)' <=> In(h, v, n)
    BY <1>4 DEF In
  <2> QED
    BY <1>1, <1>4, <2>1, <2>2 DEF LiveInv
<1>16. CallInv(g)'
  BY <1>1, <1>4 DEF Inv, CallInv, In
<1>17. ReuseInv(g)'
  <2>1. h.block[h.l] \in Blocks
    BY <1>3 DEF Shorthands
  <2> QED
    BY <1>1, <1>4, <1>5, <2>1 DEF Inv, ReuseInv
<1> QED
  BY <1>2, <1>6, <1>7, <1>8, <1>9, <1>10, <1>11, <1>12, <1>13, <1>14, <1>15, <1>16, <1>17 DEF BehindRest

\* A slot of the first block is given back.
LEMMA SlotBack ==
  ASSUME TypeInv, NEW h \in History, Inv(h), NEW s, ConsumerDrains(s),
         s.var = "front", s.at = h.block[h.m], s.value = h.place[h.m][removed + 1],
         s.of = removed, removed < popped, In(h, h.m, removed), removed' = removed + 1,
         published' = published,
         mem'.block["front"] = mem.block["front"],
         \A b \in Blocks : mem'.front[b] = IF Is(s, "front", b) THEN s.value ELSE mem.front[b],
         mem'.data = mem.data,
         FrontBlock' = FrontBlock,
         \A b \in Blocks : TailOf(b)' = TailOf(b) /\ FrontOf(b)' = FrontOf(b)
  PROVE  /\ ConsInv(h)' /\ RoomInv(h)' /\ ShadowFrontInv(h)' /\ SpareInv(h)' /\ ToComeInv'
         /\ ConsumedInv(h)' /\ ToRemoveInv(h)'
<1> PICK p : p = Pc
  OBVIOUS
<1> PICK r : r = Pc'
  OBVIOUS
<1>1. UNCHANGED <<localFront, pushed, blocks, blockSize, popped>>
  BY DEF ConsumerDrains, producerVars, blockVars, consumerVars
<1>2. /\ 1 \in 1 .. Len(p) /\ s = p[1]
      /\ \A i \in 1 .. Len(p) : i = 1 \/ (i > 1 /\ i - 1 \in 1 .. Len(r) /\ r[i - 1] = p[i])
      /\ \A i \in 1 .. Len(r) : i + 1 \in 1 .. Len(p) /\ i + 1 > 1 /\ r[i] = p[i + 1]
      /\ \A i \in 1 .. Len(r) : Before(s, r[i])
  BY DEF ConsumerDrains
<1>3. /\ VisitInv(h) /\ ConsInv(h)
      /\ pushed \in Nat /\ published \in Nat /\ popped \in Nat /\ removed \in Nat
      /\ h.m \in Nat /\ h.f \in Nat /\ h.l \in Nat /\ h.m \in h.m .. h.l /\ h.l \in h.m .. h.l
      /\ h.m <= h.f
      /\ \A v \in Nat : h.first[v] \in Nat
      /\ \A v \in h.m .. h.l : /\ h.block[v] \in Blocks /\ h.block[v] < blocks
                               /\ blockSize[h.block[v]] \in Nat
      /\ \A v \in h.m .. h.l : h.block[v] = h.block[h.m] => v = h.m
  <2>1. /\ Shorthands(h) /\ VisitInv(h)
        /\ pushed \in Nat /\ published \in Nat /\ popped \in Nat /\ removed \in Nat
    BY Counts
  <2>2. /\ h.m \in Nat /\ h.f \in Nat /\ h.l \in Nat /\ h.m \in h.m .. h.l /\ h.l \in h.m .. h.l
        /\ h.m <= h.f
    BY <2>1 DEF Shorthands
  <2>3. \A v \in Nat : h.first[v] \in Nat
    BY HistoryFacts
  <2>4. \A v \in h.m .. h.l : /\ h.block[v] \in Blocks /\ h.block[v] < blocks
                              /\ blockSize[h.block[v]] \in Nat
    <3>1. \A v \in h.m .. h.l : /\ h.block[v] \in 0 .. blocks - 1 /\ h.block[v] \in Blocks
                                /\ blockSize[h.block[v]] \in Nat
      BY <2>1, VisitFacts
    <3>2. blocks \in Nat
      BY DEF TypeInv
    <3> QED
      BY <3>1, <3>2
  <2>5. \A v \in h.m .. h.l : h.block[v] = h.block[h.m] => v = h.m
    BY <2>1, <2>2 DEF VisitInv
  <2> QED
    BY <2>1, <2>2, <2>3, <2>4, <2>5 DEF Inv
<1>4. /\ h.first[h.m] <= removed /\ removed + 1 <= h.first[h.m + 1] /\ removed + 1 <= popped
      /\ removed + 1 \in Nat
  BY <1>3 DEF In
<1>5. \A v : LeftAt(h, v)' = IF v = h.m THEN removed + 1 ELSE LeftAt(h, v)
  BY <1>1 DEF LeftAt
<1>6. ConsInv(h)'
  <2>1. \A v : FrontAt(h, v)' = FrontAt(h, v)
    BY <1>1 DEF FrontAt
  <2>2. \A v \in h.m .. h.l : mem'.front[h.block[v]] = h.place[v][LeftAt(h, v)']
    <3>1. ASSUME NEW v \in h.m .. h.l PROVE mem'.front[h.block[v]] = h.place[v][LeftAt(h, v)']
      <4>1. CASE v = h.m
        BY <1>3, <1>5, <4>1 DEF Is
      <4>2. CASE v # h.m
        <5>1. mem'.front[h.block[v]] = mem.front[h.block[v]]
          BY <1>3, <4>2 DEF Is
        <5> QED
          BY <1>3, <1>5, <4>2, <5>1 DEF ConsInv
      <4> QED
        BY <4>1, <4>2
    <3> QED
      BY <3>1
  <2>3. \A v \in h.m .. h.l : FrontOf(h.block[v])' = h.place[v][FrontAt(h, v)']
    BY <1>3, <2>1 DEF ConsInv
  <2> QED
    BY <1>1, <1>3, <1>4, <2>2, <2>3 DEF ConsInv
<1>7. \A v \in h.m .. h.l : LeftAt(h, v) \in Nat /\ LeftAt(h, v)' \in Nat /\ LeftAt(h, v) <= LeftAt(h, v)'
  BY <1>3, <1>4, <1>5 DEF LeftAt
<1>8. RoomInv(h)'
  <2>1. ASSUME NEW v \in h.m .. h.l PROVE h.first[v + 1] - LeftAt(h, v)' < blockSize[h.block[v]]
    <3>1. h.first[v + 1] - LeftAt(h, v) < blockSize[h.block[v]]
      BY DEF Inv, RoomInv
    <3>2. h.first[v + 1] \in Nat
      BY <1>3
    <3> QED
      BY <1>3, <1>7, <3>1, <3>2
  <2> QED
    BY <1>1, <2>1 DEF RoomInv
<1>9. ShadowFrontInv(h)'
  <2>1. PICK z \in Nat : /\ localFront[h.block[h.l]] = h.place[h.l][z]
                         /\ h.first[h.l] <= z /\ z <= LeftAt(h, h.l)
                         /\ pushed - z < blockSize[h.block[h.l]]
    BY DEF Inv, ShadowFrontInv
  <2>2. z <= LeftAt(h, h.l)'
    BY <1>3, <1>7, <2>1
  <2> QED
    BY <1>1, <2>1, <2>2 DEF ShadowFrontInv
<1>10. SpareInv(h)'
  <2>1. ASSUME NEW b \in h.kept, Spare(h, b)
        PROVE  mem'.front[b] = mem.front[b] /\ TailOf(b)' = TailOf(b) /\ FrontOf(b)' = FrontOf(b)
    <3>1. b \in Blocks
      BY <1>3, MadeBlocks DEF VisitInv
    <3>2. b # h.block[h.m]
      BY <1>3, <2>1 DEF Spare
    <3> QED
      BY <3>1, <3>2 DEF Is
  <2>2. \A b : Spare(h, b)' = Spare(h, b)
    BY DEF Spare
  <2> QED
    BY <1>1, <2>1, <2>2 DEF Inv, SpareInv
<1>11. ToComeInv'
  <2>1. ASSUME NEW c \in Blocks, c >= blocks PROVE mem'.front[c] = mem.front[c]
    <3>1. c # h.block[h.m]
      <4>1. blocks \in Nat /\ c \in Nat /\ h.block[h.m] < blocks /\ h.block[h.m] \in Nat
        BY <1>3, MadeBlocks DEF TypeInv
      <4> QED
        BY <2>1, <4>1
    <3> QED
      BY <3>1 DEF Is
  <2> QED
    BY <1>1, <2>1 DEF Inv, ToComeInv
<1>12. ASSUME NEW i \in 1 .. Len(r) PROVE \E v \in h.m .. h.f : Consumed(h, r[i], v)'
  <2> PICK x : x = r[i]
    OBVIOUS
  <2>1. PICK v \in h.m .. h.f : Consumed(h, x, v)
    BY <1>2 DEF Inv, ConsumedInv
  <2>2. x.var = "front" => x.of # removed
    <3>1. Before(s, x)
      BY <1>2
    <3>2. x.of = removed => Rank(s.var) < Rank(x.var)
      BY <1>3, <3>1 DEF Before
    <3> QED
      BY <3>2 DEF Rank
  <2>3. x.var = "front" /\ x.of \in removed .. popped - 1 => x.of \in removed' .. popped' - 1
    BY <1>1, <1>3, <2>2
  <2>4. Consumed(h, x, v)'
    BY <2>1, <2>3 DEF Consumed, In
  <2> QED
    BY <2>4 DEF Consumed
<1>13. ConsumedInv(h)'
  BY <1>12 DEF ConsumedInv, Consumed
<1>14. ToRemoveInv(h)'
  <2>1. ASSUME NEW n \in removed + 1 .. popped - 1
        PROVE  \E i \in 1 .. Len(r) : r[i].of = n /\ r[i].var = "front"
    <3>1. n \in removed .. popped - 1 /\ n # removed
      BY <1>3
    <3>2. PICK i \in 1 .. Len(p) : p[i].of = n /\ p[i].var = "front"
      BY <3>1 DEF Inv, ToRemoveInv
    <3>3. i # 1
      BY <1>2, <3>1, <3>2
    <3>4. i - 1 \in 1 .. Len(r) /\ r[i - 1] = p[i]
      BY <1>2, <3>3
    <3> QED
      BY <3>2, <3>4
  <2>2. ASSUME NEW v \in h.m + 1 .. h.f
        PROVE  \E i \in 1 .. Len(r) : r[i].of = h.first[v] /\ r[i].var = "block"
    <3>1. PICK i \in 1 .. Len(p) : p[i].of = h.first[v] /\ p[i].var = "block"
      BY DEF Inv, ToRemoveInv
    <3>2. i # 1
      BY <1>2, <3>1
    <3>3. i - 1 \in 1 .. Len(r) /\ r[i - 1] = p[i]
      BY <1>2, <3>2
    <3> QED
      BY <3>1, <3>3
  <2> QED
    BY <1>1, <2>1, <2>2 DEF ToRemoveInv
<1> QED
  BY <1>6, <1>8, <1>9, <1>10, <1>11, <1>13, <1>14

\* The first block is left for the next.
LEMMA BlockLeft ==
  ASSUME TypeInv, NEW h \in History, NEW g \in History, Inv(h), Behind(g, h), g.m = h.m + 1,
         NEW s, ConsumerDrains(s),
         s.var = "block", h.m < h.f, removed = h.first[h.m + 1], s.of = removed, removed' = removed,
         published' = published,
         mem'.block["front"] = h.block[h.m + 1],
         \A b \in Blocks : mem'.front[b] = mem.front[b],
         mem'.data = mem.data,
         FrontBlock' = FrontBlock,
         \A b \in Blocks : TailOf(b)' = TailOf(b) /\ FrontOf(b)' = FrontOf(b)
  PROVE  /\ ConsInv(g)' /\ RoomInv(g)' /\ ShadowFrontInv(g)' /\ SpareInv(g)' /\ ToComeInv'
         /\ ConsumedInv(g)' /\ ToRemoveInv(g)'
<1> PICK p : p = Pc
  OBVIOUS
<1> PICK r : r = Pc'
  OBVIOUS
<1>1. UNCHANGED <<localFront, pushed, blocks, blockSize, popped>>
  BY DEF ConsumerDrains, producerVars, blockVars, consumerVars
<1>2. /\ 1 \in 1 .. Len(p) /\ s = p[1]
      /\ \A i \in 1 .. Len(p) : i = 1 \/ (i > 1 /\ i - 1 \in 1 .. Len(r) /\ r[i - 1] = p[i])
      /\ \A i \in 1 .. Len(r) : i + 1 \in 1 .. Len(p) /\ i + 1 > 1 /\ r[i] = p[i + 1]
      /\ \A i \in 1 .. Len(r) : Before(s, r[i])
  BY DEF ConsumerDrains
<1>3. /\ VisitInv(h) /\ ConsInv(h) /\ ProdInv(h)
      /\ pushed \in Nat /\ published \in Nat /\ popped \in Nat /\ removed \in Nat
      /\ h.m \in Nat /\ h.f \in Nat /\ h.l \in Nat /\ h.m <= h.f /\ h.f <= h.l
      /\ h.m \in h.m .. h.l /\ h.m + 1 \in h.m .. h.l /\ h.m + 1 \in Nat
      /\ \A v \in Nat : h.first[v] \in Nat
      /\ \A v \in h.m .. h.l : h.block[v] \in Blocks
  <2>1. /\ Shorthands(h) /\ VisitInv(h)
        /\ pushed \in Nat /\ published \in Nat /\ popped \in Nat /\ removed \in Nat
    BY Counts
  <2>2. h.m \in Nat /\ h.f \in Nat /\ h.t \in Nat /\ h.l \in Nat /\ h.m <= h.f /\ h.f <= h.t /\ h.t <= h.l
    BY <2>1 DEF Shorthands
  <2>3. \A v \in Nat : h.first[v] \in Nat
    BY HistoryFacts
  <2>4. \A v \in h.m .. h.l : h.block[v] \in Blocks
    BY <2>1, VisitFacts
  <2>5. h.f <= h.l /\ h.m \in h.m .. h.l /\ h.m + 1 \in h.m .. h.l /\ h.m + 1 \in Nat
    BY <2>2
  <2> QED
    BY <2>1, <2>2, <2>3, <2>4, <2>5 DEF Inv
<1>4. /\ g.block = h.block /\ g.first = h.first /\ g.place = h.place /\ g.kept = h.kept
      /\ g.f = h.f /\ g.t = h.t /\ g.l = h.l /\ g.m = h.m + 1
  BY DEF Behind
<1>5. \A v \in g.m .. g.l : v \in h.m .. h.l /\ v # h.m /\ v \in Nat
  BY <1>3, <1>4
<1>6. \A v \in g.m .. g.l : LeftAt(g, v) = LeftAt(h, v) /\ LeftAt(g, v)' = LeftAt(h, v)
  BY <1>4, <1>5 DEF LeftAt
<1>7. ConsInv(g)'
  <2>1. \A v : FrontAt(g, v)' = FrontAt(h, v)
    BY <1>1, <1>4 DEF FrontAt
  <2>2. \A v \in g.m .. g.l : /\ FrontOf(h.block[v])' = h.place[v][FrontAt(h, v)]
                              /\ mem'.front[h.block[v]] = h.place[v][LeftAt(h, v)]
    BY <1>3, <1>5 DEF ConsInv
  <2>3. h.first[g.m] <= removed /\ removed <= h.first[g.m + 1]
    <3>1. h.m + 1 \in 0 .. h.l + 1 /\ (h.m + 1) + 1 \in 0 .. h.l + 1 /\ h.m + 1 <= (h.m + 1) + 1
      BY <1>3
    <3>2. h.first[h.m + 1] <= h.first[(h.m + 1) + 1]
      BY <1>3, <3>1 DEF VisitInv
    <3> QED
      BY <1>3, <1>4, <3>2
  <2>4. \A v \in g.m .. g.l : mem'.front[g.block[v]] = g.place[v][LeftAt(g, v)']
    BY <1>4, <1>6, <2>2
  <2>5. \A v \in g.m .. g.l : FrontOf(g.block[v])' = g.place[v][FrontAt(g, v)']
    BY <1>4, <2>1, <2>2
  <2>6. FrontBlock' = g.block[g.f] /\ mem'.block["front"] = g.block[g.m]
    BY <1>3, <1>4 DEF ConsInv
  <2> QED
    BY <1>1, <1>3, <1>4, <2>3, <2>4, <2>5, <2>6 DEF ConsInv
<1>8. RoomInv(g)'
  <2>1. \A v \in g.m .. g.l : h.first[v + 1] - LeftAt(g, v)' < blockSize[h.block[v]]
    BY <1>5, <1>6 DEF Inv, RoomInv
  <2> QED
    BY <1>1, <1>4, <2>1 DEF RoomInv
<1>9. ShadowFrontInv(g)'
  <2>1. PICK z \in Nat : /\ localFront[h.block[h.l]] = h.place[h.l][z]
                         /\ h.first[h.l] <= z /\ z <= LeftAt(h, h.l)
                         /\ pushed - z < blockSize[h.block[h.l]]
    BY DEF Inv, ShadowFrontInv
  <2>2. h.l \in g.m .. g.l
    BY <1>3, <1>4
  <2>3. z <= LeftAt(g, g.l)'
    BY <1>4, <1>6, <2>1, <2>2
  <2> QED
    BY <1>1, <1>4, <2>1, <2>3 DEF ShadowFrontInv
<1>10. SpareInv(g)'
  <2>1. ASSUME NEW b \in h.kept, Spare(g, b)
        PROVE  /\ FrontOf(b)' = TailOf(b)' /\ mem'.front[b] = FrontOf(b)'
               /\ FrontOf(b)' \in 0 .. blockSize[b] - 1
    <3>1. b \in Blocks
      BY <1>3, MadeBlocks DEF VisitInv
    <3>2. FrontOf(b)' = FrontOf(b) /\ TailOf(b)' = TailOf(b) /\ mem'.front[b] = mem.front[b]
      BY <3>1
    <3>3. CASE b = h.block[h.m]
      <4>1. TailOf(b) = h.place[h.m][h.first[h.m + 1]]
        BY <1>3, <3>3 DEF ProdInv
      <4>2. FrontOf(b) = h.place[h.m][FrontAt(h, h.m)] /\ mem.front[b] = h.place[h.m][LeftAt(h, h.m)]
        BY <1>3, <3>3 DEF ConsInv
      <4>3. FrontAt(h, h.m) = h.first[h.m + 1] /\ LeftAt(h, h.m) = h.first[h.m + 1]
        BY DEF FrontAt, LeftAt
      <4>4. h.place[h.m][h.first[h.m + 1]] \in 0 .. blockSize[h.block[h.m]] - 1
        BY <1>3, VisitFacts
      <4> QED
        BY <3>2, <3>3, <4>1, <4>2, <4>3, <4>4
    <3>4. CASE b # h.block[h.m]
      <4>1. \A v \in h.m .. h.l : v = h.m \/ v \in g.m .. g.l
        BY <1>3, <1>4
      <4>2. Spare(h, b)
        BY <1>4, <2>1, <3>4, <4>1 DEF Spare
      <4> QED
        BY <3>2, <4>2 DEF Inv, SpareInv
    <3> QED
      BY <3>3, <3>4
  <2>2. \A b : Spare(g, b)' = Spare(g, b)
    BY DEF Spare
  <2> QED
    BY <1>1, <1>4, <2>1, <2>2 DEF SpareInv
<1>11. ToComeInv'
  BY <1>1 DEF Inv, ToComeInv
<1>12. ASSUME NEW i \in 1 .. Len(r) PROVE \E v \in g.m .. g.f : Consumed(g, r[i], v)'
  <2> PICK x : x = r[i]
    OBVIOUS
  <2>1. PICK v \in h.m .. h.f : Consumed(h, x, v)
    BY <1>2 DEF Inv, ConsumedInv
  <2>2. v \in Nat /\ h.m <= v /\ v <= h.f
    BY <1>3
  <2>3. CASE x.var = "front"
    <3>1. In(h, v, x.of) /\ x.of \in removed .. popped - 1
      BY <2>1, <2>3 DEF Consumed
    <3>2. v # h.m
      <4>1. SUFFICES ASSUME v = h.m PROVE FALSE
        OBVIOUS
      <4>2. x.of < h.first[h.m + 1] /\ x.of \in Int /\ removed <= x.of
        BY <1>3, <3>1, <4>1 DEF In
      <4> QED
        BY <1>3, <4>2
    <3>3. v \in g.m .. g.f
      BY <1>3, <1>4, <2>2, <3>2
    <3>4. Consumed(g, x, v)'
      BY <1>1, <1>4, <2>1, <2>3 DEF Consumed, In
    <3> QED
      BY <3>3, <3>4 DEF Consumed
  <2>4. CASE x.var = "block"
    <3>1. x.at = "front" /\ v > h.m /\ x.of = h.first[v] /\ x.value = h.block[v]
      BY <2>1, <2>4 DEF Consumed
    <3>2. v # h.m + 1
      <4>1. SUFFICES ASSUME v = h.m + 1 PROVE FALSE
        OBVIOUS
      <4>2. x.of = removed /\ Before(s, x)
        BY <1>2, <3>1, <4>1
      <4>3. Rank(s.var) < Rank(x.var)
        BY <1>3, <4>2 DEF Before
      <4> QED
        BY <2>4, <4>3 DEF Rank
    <3>3. v \in g.m .. g.f /\ v > g.m
      BY <1>3, <1>4, <2>2, <3>1, <3>2
    <3>4. Consumed(g, x, v)'
      BY <1>4, <2>4, <3>1, <3>3 DEF Consumed
    <3> QED
      BY <3>3, <3>4 DEF Consumed
  <2> QED
    BY <2>1, <2>3, <2>4 DEF Consumed
<1>13. ConsumedInv(g)'
  BY <1>12 DEF ConsumedInv, Consumed
<1>14. ToRemoveInv(g)'
  <2>1. ASSUME NEW n \in removed .. popped - 1
        PROVE  \E i \in 1 .. Len(r) : r[i].of = n /\ r[i].var = "front"
    <3>1. PICK i \in 1 .. Len(p) : p[i].of = n /\ p[i].var = "front"
      BY DEF Inv, ToRemoveInv
    <3>2. i # 1
      BY <1>2, <3>1
    <3>3. i - 1 \in 1 .. Len(r) /\ r[i - 1] = p[i]
      BY <1>2, <3>2
    <3> QED
      BY <3>1, <3>3
  <2>2. ASSUME NEW v \in g.m + 1 .. g.f
        PROVE  \E i \in 1 .. Len(r) : r[i].of = h.first[v] /\ r[i].var = "block"
    <3>1. v \in h.m + 1 .. h.f /\ v \in h.m .. h.l /\ v > h.m + 1
      BY <1>3, <1>4
    <3>2. PICK i \in 1 .. Len(p) : p[i].of = h.first[v] /\ p[i].var = "block"
      BY <3>1 DEF Inv, ToRemoveInv
    <3>3. h.first[h.m + 1] < h.first[v]
      <4>1. /\ h.first[h.m + 1] \in Nat /\ h.first[(h.m + 1) + 1] \in Nat /\ h.first[v] \in Nat
            /\ h.first[h.m + 1] < h.first[(h.m + 1) + 1] /\ h.first[(h.m + 1) + 1] <= h.first[v]
        BY <1>3, <3>1, FirstsGrow
      <4> QED
        BY <4>1
    <3>4. i # 1
      <4>1. h.first[h.m + 1] \in Nat /\ h.first[v] \in Nat
        BY <1>3, <3>1
      <4> QED
        BY <1>2, <3>2, <3>3, <4>1
    <3>5. i - 1 \in 1 .. Len(r) /\ r[i - 1] = p[i]
      BY <1>2, <3>4
    <3> QED
      BY <3>2, <3>5
  <2> QED
    BY <1>1, <1>4, <2>1, <2>2 DEF ToRemoveInv
<1> QED
  BY <1>7, <1>8, <1>9, <1>10, <1>11, <1>13, <1>14

\* A store of the consumer reaches memory.
LEMMA ConsumerDrainStep ==
  ASSUME TypeInv, NEW h \in History, Inv(h), Drain("consumer")
  PROVE  TypeInv' /\ \E g \in History : Inv(g)'
<1> PICK s : s = Head(Pc)
  OBVIOUS
<1>1. /\ ConsumerDrains(s) /\ Arrival(mem', mem, s)
      /\ published' = IF (s.var = "tail" /\ s.at = mem.block["tail"]) \/ Is(s, "block", "tail")
                        THEN published + 1 ELSE published
      /\ removed' = IF s.var = "front" THEN removed + 1 ELSE removed
  BY ConsumerDrainFacts
<1>2. 1 \in 1 .. Len(Pc) /\ s = Pc[1]
  BY <1>1 DEF ConsumerDrains
<1>3. \/ /\ s.var = "front" /\ s.at = h.block[h.m] /\ s.value = h.place[h.m][removed + 1]
         /\ s.of = removed /\ removed < popped /\ In(h, h.m, removed)
      \/ /\ s.var = "block" /\ s.at = "front" /\ s.value = h.block[h.m + 1]
         /\ h.m < h.f /\ removed = h.first[h.m + 1] /\ s.of = removed
  BY <1>2, ConsumerHead
<1>4. s.var = "front" \/ (s.var = "block" /\ s.at = "front")
  BY <1>3
<1>5. /\ mem'.tail = mem.tail /\ mem'.data = mem.data /\ mem'.block["tail"] = mem.block["tail"]
      /\ mem'.block["front"] = IF s.var = "block" THEN s.value ELSE mem.block["front"]
      /\ \A b \in Blocks : mem'.front[b] = IF Is(s, "front", b) THEN s.value ELSE mem.front[b]
      /\ TailBlock' = TailBlock /\ FrontBlock' = FrontBlock
      /\ \A b \in Blocks : /\ TailOf(b)' = TailOf(b) /\ NextOf(b)' = NextOf(b)
                           /\ FrontOf(b)' = FrontOf(b)
  BY <1>1, <1>4, ConsumerReaches
<1>6. published' = published
  BY <1>1, <1>4 DEF Is
<1>7. removed \in Nat /\ removed' \in Nat
  <2>1. removed \in Nat
    BY Counts
  <2> QED
    BY <1>1, <2>1
<1>8. h.m \in Nat /\ h.f \in Nat /\ h.m <= h.f
  BY Counts DEF Shorthands
<1>9. ASSUME NEW g \in History, Behind(g, h),
             ConsInv(g)', RoomInv(g)', ShadowFrontInv(g)', SpareInv(g)', ToComeInv',
             ConsumedInv(g)', ToRemoveInv(g)'
      PROVE  TypeInv' /\ Inv(g)'
  <2>1. TypeInv' /\ BehindRest(g)'
    BY <1>1, <1>5, <1>6, <1>7, <1>9, ConsumerDrainRest
  <2> QED
    BY <1>9, <2>1 DEF Inv, BehindRest
<1>10. CASE s.var = "front"
  <2>1. Behind(h, h)
    BY <1>8 DEF Behind
  <2>2. /\ s.at = h.block[h.m] /\ s.value = h.place[h.m][removed + 1]
        /\ s.of = removed /\ removed < popped /\ In(h, h.m, removed) /\ removed' = removed + 1
        /\ mem'.block["front"] = mem.block["front"]
    BY <1>1, <1>3, <1>5, <1>10
  <2>3. /\ ConsInv(h)' /\ RoomInv(h)' /\ ShadowFrontInv(h)' /\ SpareInv(h)' /\ ToComeInv'
        /\ ConsumedInv(h)' /\ ToRemoveInv(h)'
    BY <1>1, <1>5, <1>6, <1>10, <2>2, SlotBack
  <2> QED
    BY <1>9, <2>1, <2>3
<1>11. CASE s.var = "block"
  <2>1. /\ s.value = h.block[h.m + 1] /\ h.m < h.f /\ removed = h.first[h.m + 1] /\ s.of = removed
        /\ removed' = removed /\ mem'.block["front"] = h.block[h.m + 1]
    BY <1>1, <1>3, <1>5, <1>11
  <2>2. PICK g \in History : Behind(g, h) /\ g.m = h.m + 1
    <3> DEFINE g == [h EXCEPT !.m = h.m + 1]
    <3>4. h.m + 1 \in Nat
      BY <1>8
    <3>1. g \in History
      BY <3>4 DEF History
    <3>2. h.m + 1 <= h.f /\ h.m <= h.m + 1
      BY <1>8, <2>1
    <3>3. /\ g.block = h.block /\ g.first = h.first /\ g.place = h.place /\ g.kept = h.kept
          /\ g.f = h.f /\ g.t = h.t /\ g.l = h.l /\ g.m = h.m + 1
      BY DEF History
    <3> HIDE DEF g
    <3> QED
      BY <3>1, <3>2, <3>3 DEF Behind
  <2>3. \A b \in Blocks : mem'.front[b] = mem.front[b]
    BY <1>5, <1>11 DEF Is
  <2>4. /\ ConsInv(g)' /\ RoomInv(g)' /\ ShadowFrontInv(g)' /\ SpareInv(g)' /\ ToComeInv'
        /\ ConsumedInv(g)' /\ ToRemoveInv(g)'
    BY <1>1, <1>5, <1>6, <1>11, <2>1, <2>2, <2>3, BlockLeft
  <2> QED
    BY <1>9, <2>2, <2>4
<1> QED
  BY <1>4, <1>10, <1>11
------------------------------------------------------------------------------
(***************************************************************************)
(* The invariant holds at the start, and every step keeps it.              *)
(***************************************************************************)

\* The circle of blocks that the constructor links.
LEMMA CircleAtStart ==
  ASSUME NEW n \in Nat, n >= 1
  PROVE  /\ \A b \in 0 .. n - 1 : ((b + 1) % n) \in 0 .. n - 1
         /\ \A b, c \in 0 .. n - 1 : (b + 1) % n = (c + 1) % n => b = c
         /\ \A b \in 0 .. n - 1 : (b + 1) % n = IF b = n - 1 THEN 0 ELSE b + 1
<1>1. ASSUME NEW b \in 0 .. n - 1 PROVE (b + 1) % n = IF b = n - 1 THEN 0 ELSE b + 1
  <2>1. n \in Nat \ {0} /\ b \in Int
    OBVIOUS
  <2>2. CASE b = n - 1
    <3>1. b + 1 = n * 1 + 0 /\ 0 \in 0 .. n - 1
      BY <2>2
    <3> QED
      BY <2>1, <2>2, <3>1, ModUnique
  <2>3. CASE b # n - 1
    <3>1. b + 1 \in 0 .. n - 1
      BY <2>3
    <3> QED
      BY <2>1, <2>3, <3>1, ModSmall
  <2> QED
    BY <2>2, <2>3
<1> QED
  BY <1>1

\* What the constructor leaves has the types of TypeInv.
LEMMA InitTypes ==
  ASSUME Init, Size >= 1
  PROVE  /\ TypeInv
         /\ blocks = InitialBlockCount(MaxBlockSize, Size)
         /\ 0 .. blocks - 1 \subseteq Blocks /\ 0 \in Blocks
         /\ \A b \in Blocks : b \in Nat /\ <<b, 0>> \in Slots
         /\ \A b \in 0 .. blocks - 1 : blockSize[b] = largestBlockSize
<1>1. shape \in Shapes /\ MaxBlockSize = shape[1] /\ Size = shape[2]
      /\ blocks = InitialBlockCount(MaxBlockSize, Size)
      /\ largestBlockSize = FirstBlockSize(MaxBlockSize, Size)
  BY DEF Init, MaxBlockSize, Size
<1>2. /\ blocks \in Nat /\ blocks >= 1
      /\ largestBlockSize \in Nat /\ 2 <= largestBlockSize /\ largestBlockSize <= 2 * MaxBlockSize
      /\ MaxNew \in Nat /\ MaxBlockSize \in Nat /\ MaxBlockSize >= 2
  BY <1>1, ShapeFacts, SizeAssumption
<1>3. 0 .. blocks - 1 \subseteq Blocks
  <2>1. 0 .. InitialBlockCount(shape[1], shape[2]) + MaxNew - 1 \subseteq Blocks
    BY <1>1 DEF Blocks
  <2> QED
    BY <1>1, <1>2, <2>1
<1>4. \A b \in Blocks : b \in Nat
  BY DEF Blocks
<1>5. \A b \in Blocks : <<b, 0>> \in Slots
  <2>1. \A b \in Blocks, s \in 0 .. 2 * shape[1] - 1 : <<b, s>> \in Slots
    BY <1>1 DEF Slots
  <2> QED
    BY <1>1, <1>2, <2>1
<1>6. blockSize = [b \in Blocks |-> IF b < blocks THEN largestBlockSize ELSE 0]
  BY DEF Init
<1>7. \A b \in 0 .. blocks - 1 : blockSize[b] = largestBlockSize
  BY <1>2, <1>3, <1>6
<1>8. mem \in [block: [{"front", "tail"} -> Nat], front: [Blocks -> Nat], tail: [Blocks -> Nat],
              next: [Blocks -> Nat], data: [Slots -> Int]]
  <2>1. \A b \in Blocks : (IF b < blocks THEN (b + 1) % blocks ELSE 0) \in Nat
    <3>1. ASSUME NEW b \in Blocks PROVE (b + 1) % blocks \in Nat
      <4>1. blocks \in Nat \ {0} /\ b + 1 \in Int
        BY <1>2, <1>4
      <4>2. (b + 1) % blocks \in 0 .. blocks - 1
        BY <4>1, DivMod
      <4> QED
        BY <1>2, <4>2
    <3> QED
      BY <3>1
  <2> QED
    BY <2>1 DEF Init
<1>9. pending \in [Threads -> Seq(AnyStore)]
  BY DEF Init, Threads
<1>10. 0 \in Blocks
  BY <1>2, <1>3
<1>11. TypeInv
  <2>1. /\ blockSize \in [Blocks -> Nat]
        /\ \A b \in 0 .. blocks - 1 : 2 <= blockSize[b] /\ blockSize[b] <= 2 * MaxBlockSize
    BY <1>2, <1>6, <1>7
  <2>2. blocks <= InitialBlockCount(MaxBlockSize, Size) + MaxNew
        /\ InitialBlockCount(MaxBlockSize, Size) <= blocks
    BY <1>1, <1>2
  <2>3. localFront \in [Blocks -> Nat] /\ localTail \in [Blocks -> Nat]
    BY DEF Init
  <2>4. /\ enqPc = "idle" /\ deqPc = "idle" /\ block_ = 0 /\ front_ = 0
        /\ pushed = 0 /\ published = 0 /\ popped = 0 /\ removed = 0 /\ publishedAtStart = 0
    BY DEF Init
  <2>5. /\ enqPc \in {"idle", "next", "reuse"}
        /\ deqPc \in {"idle", "look", "again", "next", "advance", "take"}
        /\ (deqPc # "idle" => op \in {"remove", "peek"})
        /\ block_ \in Nat /\ front_ \in Nat
        /\ pushed \in Nat /\ published \in Nat /\ popped \in Nat /\ removed \in Nat
        /\ publishedAtStart \in Nat
    BY <2>4
  <2>6. /\ shape \in Shapes /\ Size >= 1 /\ blocks \in Nat /\ blocks > 0
        /\ largestBlockSize \in Nat /\ 2 <= largestBlockSize /\ largestBlockSize <= 2 * MaxBlockSize
    BY <1>1, <1>2
  <2> QED
    BY Zenon, <1>8, <1>9, <2>1, <2>2, <2>3, <2>5, <2>6 DEF TypeInv
<1> QED
  BY <1>1, <1>3, <1>4, <1>5, <1>7, <1>10, <1>11

\* The constructor establishes the invariant if its blocks have two slots, with a history of one visit without elements.
THEOREM InitInv == Init /\ Size >= 1 => IInv
<1> SUFFICES ASSUME Init, Size >= 1 PROVE IInv
  OBVIOUS
<1>1. /\ TypeInv
      /\ blocks = InitialBlockCount(MaxBlockSize, Size)
      /\ 0 .. blocks - 1 \subseteq Blocks /\ 0 \in Blocks
      /\ \A b \in Blocks : b \in Nat /\ <<b, 0>> \in Slots
      /\ \A b \in 0 .. blocks - 1 : blockSize[b] = largestBlockSize
  BY InitTypes
<1>2. blocks \in Nat /\ blocks >= 1 /\ largestBlockSize \in Nat /\ largestBlockSize >= 2
  BY <1>1 DEF TypeInv
<1>3. /\ mem.block["front"] = 0 /\ mem.block["tail"] = 0
      /\ \A b \in Blocks : mem.front[b] = 0 /\ mem.tail[b] = 0 /\ localFront[b] = 0 /\ localTail[b] = 0
      /\ \A b \in Blocks : mem.data[<<b, 0>>] = -1
      /\ \A b \in 0 .. blocks - 1 : mem.next[b] = (b + 1) % blocks
      /\ Pp = <<>> /\ Pc = <<>>
  <2>1. mem = [ block |-> [end \in {"front", "tail"} |-> 0],
                front |-> [b \in Blocks |-> 0],
                tail  |-> [b \in Blocks |-> 0],
                next  |-> [b \in Blocks |-> IF b < blocks THEN (b + 1) % blocks ELSE 0],
                data  |-> [s \in Slots |-> -1] ]
    BY DEF Init
  <2>2. mem.block["front"] = 0 /\ mem.block["tail"] = 0
    BY <2>1
  <2>3. \A b \in Blocks : mem.front[b] = 0 /\ mem.tail[b] = 0 /\ mem.data[<<b, 0>>] = -1
    BY <1>1, <2>1
  <2>4. \A b \in Blocks : localFront[b] = 0 /\ localTail[b] = 0
    BY DEF Init
  <2>5. \A b \in 0 .. blocks - 1 : mem.next[b] = (b + 1) % blocks
    BY <1>1, <1>2, <2>1
  <2>6. Pp = <<>> /\ Pc = <<>>
    BY DEF Init, Pp, Pc
  <2> QED
    BY <2>2, <2>3, <2>4, <2>5, <2>6
<1>4. /\ enqPc = "idle" /\ deqPc = "idle" /\ pushed = 0 /\ published = 0 /\ popped = 0
      /\ removed = 0 /\ live = {}
  BY DEF Init
<1>5. Len(Pp) = 0 /\ Len(Pc) = 0
  BY <1>3
<1>6. /\ FrontBlock = 0 /\ TailBlock = 0
      /\ \A b \in Blocks : FrontOf(b) = 0 /\ TailOf(b) = 0
      /\ \A b \in 0 .. blocks - 1 : NextOf(b) = (b + 1) % blocks
  <2>1. \A var, at : View(mem, <<>>, var, at) = mem[var][at]
    <3>1. \A var, at : {k \in DOMAIN <<>> : <<>>[k].var = var /\ <<>>[k].at = at} = {}
      OBVIOUS
    <3> QED
      BY <3>1 DEF View
  <2>2. pending["producer"] = <<>> /\ pending["consumer"] = <<>>
    BY <1>3 DEF Pp, Pc
  <2> QED
    BY <1>1, <1>3, <2>1, <2>2 DEF FrontBlock, TailBlock, FrontOf, TailOf, NextOf, Own
<1>7. PICK r \in [Nat -> Nat] : IsRing(r, largestBlockSize) /\ r[0] = 0
  <2>1. largestBlockSize >= 2 /\ 0 \in 0 .. largestBlockSize - 1 /\ 0 \in Nat
    BY <1>2
  <2> QED
    BY <1>2, <2>1, RingFrom
<1>8. PICK h \in History : /\ \A v \in Nat : h.block[v] = 0 /\ h.first[v] = 0 /\ h.place[v] = r
                           /\ h.kept = 0 .. blocks - 1
                           /\ h.m = 0 /\ h.f = 0 /\ h.t = 0 /\ h.l = 0
  <2> DEFINE h == [block |-> [v \in Nat |-> 0], first |-> [v \in Nat |-> 0],
                   place |-> [v \in Nat |-> r], kept |-> 0 .. blocks - 1,
                   m |-> 0, f |-> 0, t |-> 0, l |-> 0]
  <2>1. h \in History
    BY <1>2, <1>7 DEF History
  <2> QED
    BY <2>1
<1>9. h.m .. h.l = {0} /\ h.l + 1 = 1 /\ 0 .. h.l + 1 = {0, 1} /\ h.t + 1 .. h.l = {}
      /\ h.m .. h.l - 1 = {} /\ h.m .. h.t = {0} /\ h.f .. h.l = {0} /\ h.m + 1 .. h.f = {}
      /\ h.m .. h.f = {0} /\ h.t .. h.l = {0}
  BY <1>8
<1>10. h.block[0] = 0 /\ h.first[0] = 0 /\ h.first[1] = 0 /\ h.place[0] = r
  BY <1>8
<1>11. 0 \in 0 .. blocks - 1 /\ blockSize[0] = largestBlockSize
  BY <1>1, <1>2
<1>12. VisitInv(h)
  BY <1>4, <1>7, <1>8, <1>9, <1>10, <1>11 DEF VisitInv
<1>13. ConsInv(h) /\ ShadowTailInv(h) /\ RoomInv(h) /\ ShadowFrontInv(h)
  <2>1. FrontAt(h, 0) = 0 /\ LeftAt(h, 0) = 0
    BY <1>4, <1>8 DEF FrontAt, LeftAt
  <2>2. ConsInv(h)
    BY <1>1, <1>3, <1>4, <1>6, <1>7, <1>8, <1>9, <1>10, <2>1 DEF ConsInv
  <2>3. ShadowTailInv(h) /\ ShadowFrontInv(h)
    <3>1. h.block[h.f] = 0 /\ h.place[h.f] = r /\ h.block[h.l] = 0 /\ h.place[h.l] = r
          /\ h.first[h.f + 1] = 0 /\ h.first[h.l] = 0 /\ LeftAt(h, h.l) = 0 /\ 0 \in Nat
      BY <1>8, <1>9, <1>10, <2>1
    <3>2. localTail[0] = r[0] /\ localFront[0] = r[0]
      BY <1>1, <1>3, <1>7
    <3>3. 0 - 0 < blockSize[0]
      BY <1>2, <1>11
    <3> QED
      BY <1>4, <3>1, <3>2, <3>3 DEF ShadowTailInv, ShadowFrontInv
  <2>4. RoomInv(h)
    BY <1>2, <1>9, <1>10, <1>11, <2>1 DEF RoomInv
  <2> QED
    BY <2>2, <2>3, <2>4
<1>14. ProdInv(h)
  BY <1>1, <1>3, <1>4, <1>6, <1>7, <1>8, <1>9, <1>10 DEF ProdInv
<1>15. SpareInv(h) /\ CircleInv(h) /\ KeptInv(h) /\ ToComeInv
  <2>1. SpareInv(h)
    <3>1. ASSUME NEW b \in h.kept
          PROVE  FrontOf(b) = TailOf(b) /\ mem.front[b] = FrontOf(b) /\ FrontOf(b) \in 0 .. blockSize[b] - 1
      <4>1. b \in Blocks /\ blockSize[b] = largestBlockSize
        BY <1>1, <1>8
      <4>2. FrontOf(b) = 0 /\ TailOf(b) = 0 /\ mem.front[b] = 0
        BY <1>3, <1>6, <4>1
      <4>3. 0 \in 0 .. blockSize[b] - 1
        BY <1>2, <4>1
      <4> QED
        BY <4>2, <4>3
    <3> QED
      BY <3>1 DEF SpareInv
  <2>2. CircleInv(h)
    <3>1. /\ \A b \in 0 .. blocks - 1 : ((b + 1) % blocks) \in 0 .. blocks - 1
          /\ \A b, c \in 0 .. blocks - 1 : (b + 1) % blocks = (c + 1) % blocks => b = c
      BY <1>2, CircleAtStart
    <3>2. \A b \in h.kept : b \in 0 .. blocks - 1 /\ NextOf(b) = (b + 1) % blocks
      BY <1>6, <1>8
    <3>3. \A b \in h.kept : NextOf(b) \in h.kept
      BY <1>8, <3>1, <3>2
    <3>4. ASSUME NEW b \in h.kept, NEW c \in h.kept, NextOf(b) = NextOf(c) PROVE b = c
      BY <3>1, <3>2, <3>4
    <3> QED
      BY <3>3, <3>4 DEF CircleInv
  <2>3. KeptInv(h)
    <3>1. \A b \in 0 .. blocks - 1 : b < InitialBlockCount(MaxBlockSize, Size)
      BY <1>1, <1>2
    <3> QED
      BY <1>8, <3>1 DEF KeptInv
  <2>4. ToComeInv
    BY <1>1, <1>3 DEF ToComeInv
  <2> QED
    BY <2>1, <2>2, <2>3, <2>4
<1>16. /\ Ordered(Pp) /\ ProducedInv(h) /\ ToPublishInv(h)
       /\ Ordered(Pc) /\ ConsumedInv(h) /\ ToRemoveInv(h)
  BY <1>4, <1>5, <1>9 DEF Ordered, ProducedInv, ToPublishInv, ConsumedInv, ToRemoveInv
<1>17. DataInv(h) /\ LiveInv(h) /\ CallInv(h) /\ ReuseInv(h)
  BY <1>4, <1>9, <1>10 DEF DataInv, LiveInv, CallInv, ReuseInv, In
<1> QED
  BY <1>1, <1>12, <1>13, <1>14, <1>15, <1>16, <1>17 DEF IInv, Inv
------------------------------------------------------------------------------
\* The producer keeps the invariant, with the same history or one more element in it.
LEMMA EnqueueStep ==
  ASSUME TypeInv, NEW h \in History, Inv(h), Enqueue
  PROVE  TypeInv' /\ \E g \in History : Inv(g)'
<1>1. UNCHANGED <<consumerVars, published, removed, shape>>
  BY DEF Enqueue
<1>2. CASE EnqueueHere
  BY <1>1, <1>2, HereStep
<1>3. CASE EnqueueFull
  BY <1>1, <1>3, FullStep
<1>4. CASE EnqueueAhead
  BY <1>1, <1>4, AheadStep
<1>5. CASE EnqueueReuse
  BY <1>1, <1>5, ReuseStep
<1>6. CASE EnqueueGrow
  BY <1>1, <1>6, GrowStep
<1>7. CASE EnqueueRefused
  BY <1>1, <1>7, RefusedStep
<1> QED
  BY <1>2, <1>3, <1>4, <1>5, <1>6, <1>7 DEF Enqueue

\* So does the consumer.
LEMMA DequeueStep ==
  ASSUME TypeInv, NEW h \in History, Inv(h), Dequeue
  PROVE  TypeInv' /\ \E g \in History : Inv(g)'
<1>1. UNCHANGED <<producerVars, blockVars, mem, published, removed, shape>>
  BY DEF Dequeue
<1>2. CASE \E o \in {"remove", "peek"} : DequeueBegin(o)
  BY <1>1, <1>2, BeginStep
<1>3. CASE DequeueLook
  BY <1>1, <1>3, LookStep
<1>4. CASE DequeueAgain
  BY <1>1, <1>4, AgainStep
<1>5. CASE DequeueNext
  BY <1>1, <1>5, NextStep
<1>6. CASE DequeueAdvance
  BY <1>1, <1>6, AdvanceStep
<1>7. CASE DequeueTake
  BY <1>1, <1>7, TakeStep
<1>8. CASE DequeueLeave
  BY <1>1, <1>8, LeaveStep
<1> QED
  BY <1>2, <1>3, <1>4, <1>5, <1>6, <1>7, <1>8 DEF Dequeue

\* So does a step that changes nothing.
LEMMA StutterStep ==
  ASSUME TypeInv, NEW h \in History, Inv(h), UNCHANGED vars
  PROVE  TypeInv' /\ \E g \in History : Inv(g)'
<1>1. UNCHANGED <<consumerVars, growVars, pending, live, published, removed, shape, pushed>>
      /\ localFront' = localFront /\ enqPc' = enqPc
  BY DEF vars, producerVars
<1>2. localFront' \in [Blocks -> Nat] /\ enqPc' \in {"idle", "next", "reuse"}
  BY <1>1 DEF TypeInv
<1>3. ShadowFrontInv(h)' /\ ReuseInv(h)'
  <2>1. ShadowFrontInv(h) /\ ReuseInv(h)
    BY DEF Inv
  <2>2. mem' = mem /\ pending' = pending /\ blockSize' = blockSize /\ removed' = removed /\ pushed' = pushed
    BY <1>1 DEF growVars, blockVars
  <2> QED
    BY <1>1, <2>1, <2>2 DEF ShadowFrontInv, ReuseInv, LeftAt, NextOf, Own
<1> QED
  BY <1>1, <1>2, <1>3, QuietStep

\* Every step of either thread, and every store that reaches memory, keeps the invariant.
THEOREM StepInv == IInv /\ [Next]_vars => IInv'
<1> SUFFICES ASSUME TypeInv, NEW h \in History, Inv(h), [Next]_vars
             PROVE  TypeInv' /\ \E g \in History : Inv(g)'
  BY DEF IInv
<1>1. CASE Enqueue
  BY <1>1, EnqueueStep
<1>2. CASE Dequeue
  BY <1>2, DequeueStep
<1>3. CASE Drain("producer")
  BY <1>3, ProducerDrainStep
<1>4. CASE Drain("consumer")
  BY <1>4, ConsumerDrainStep
<1>5. CASE UNCHANGED vars
  BY <1>5, StutterStep
<1> QED
  BY <1>1, <1>2, <1>3, <1>4, <1>5 DEF Next

\* The invariant holds of every run of the queue: of every constructor argument but zero,
\* block size, number of blocks made and length of the store buffers.
THEOREM Invariance == Spec /\ Size >= 1 => []IInv
BY InitInv, StepInv, PTL DEF Spec

\* The element that the consumer is about to use is the oldest, whole and alive.
LEMMA TakesNextHolds ==
  ASSUME TypeInv, NEW h \in History, Inv(h)
  PROVE  TakesNext
<1> SUFFICES ASSUME deqPc = "take"
             PROVE  /\ <<block_, front_>> \in live
                    /\ mem.data[<<block_, front_>>] = popped
                    /\ popped < published
  BY DEF TakesNext
<1>1. /\ VisitInv(h) /\ ConsInv(h) /\ ProducedInv(h) /\ DataInv(h) /\ CallInv(h)
      /\ popped \in Nat /\ published \in Nat
      /\ h.m \in Nat /\ h.f \in Nat /\ h.t \in Nat /\ h.l \in Nat
  BY DEF Inv, TypeInv, History
<1>2. PICK v \in h.f .. h.t : /\ block_ = h.block[v] /\ front_ = h.place[v][popped]
                              /\ In(h, v, popped) /\ popped < published
  BY <1>1 DEF CallInv
<1>3. v \in h.f .. h.l
  BY <1>1, <1>2 DEF VisitInv
<1>4. /\ <<block_, front_>> \in live
      /\ \/ mem.data[<<block_, front_>>] = popped
         \/ \E i \in 1 .. Len(Pp) : Pp[i].var = "data" /\ Pp[i].of = popped
  <2>1. popped <= popped
    BY <1>1
  <2>2. /\ <<h.block[v], h.place[v][popped]>> \in live
        /\ \/ mem.data[<<h.block[v], h.place[v][popped]>>] = popped
           \/ \E i \in 1 .. Len(Pp) : Pp[i].var = "data" /\ Pp[i].of = popped
    BY Zenon, <1>1, <1>2, <1>3, <2>1 DEF DataInv
  <2> QED
    BY Zenon, <1>2, <2>2
<1>5. \A i \in 1 .. Len(Pp) : Pp[i].of \in published .. pushed - 1
  BY <1>1 DEF ProducedInv
<1>6. ~ \E i \in 1 .. Len(Pp) : Pp[i].var = "data" /\ Pp[i].of = popped
  <2>1. ASSUME NEW i \in 1 .. Len(Pp), Pp[i].of = popped PROVE FALSE
    BY <1>1, <1>2, <1>5, <2>1
  <2> QED
    BY <2>1
<1> QED
  BY <1>2, <1>4, <1>6

\* The asserts of the code.
LEMMA AssertsHoldHolds ==
  ASSUME TypeInv, NEW h \in History, Inv(h)
  PROVE  AssertsHold
<1>1. /\ VisitInv(h) /\ ConsInv(h) /\ ProdInv(h) /\ SpareInv(h) /\ CircleInv(h)
      /\ RoomInv(h) /\ CallInv(h) /\ ReuseInv(h)
      /\ popped \in Nat /\ published \in Nat
      /\ h.m \in Nat /\ h.f \in Nat /\ h.t \in Nat /\ h.l \in Nat
      /\ h.block \in [Nat -> Nat] /\ h.first \in [Nat -> Nat] /\ h.place \in [Nat -> [Nat -> Nat]]
  BY DEF Inv, TypeInv, History
<1>4. h.m <= h.f /\ h.f <= h.t /\ h.t <= h.l
      /\ h.m \in Nat /\ h.f \in Nat /\ h.t \in Nat /\ h.l \in Nat
  <2>1. h.m <= h.f /\ h.f <= h.t /\ h.t <= h.l
    BY <1>1 DEF VisitInv
  <2> QED
    BY <1>1, <2>1
<1>2. ASSUME enqPc = "reuse" PROVE mem.front[NextOf(TailBlock)] = TailOf(NextOf(TailBlock))
  <2>1. TailBlock = h.block[h.l] /\ h.l \in h.m .. h.l
    <3>1. h.l \in h.m .. h.l
      BY <1>4
    <3>2. TailBlock = h.block[h.l]
      BY <1>1 DEF ProdInv
    <3> QED
      BY <3>1, <3>2
  <2>2. h.block[h.l] \in h.kept /\ NextOf(TailBlock) \in h.kept
    BY <1>1, <2>1 DEF VisitInv, CircleInv
  <2>3. Spare(h, NextOf(TailBlock))
    BY <1>1, <1>2, <2>1, <2>2 DEF Spare, ReuseInv
  <2> QED
    BY <1>1, <2>2, <2>3 DEF SpareInv
<1>3. ASSUME deqPc = "advance" PROVE FrontOf(block_) # mem.tail[block_]
  <2>1. h.f < h.t /\ popped = h.first[h.f + 1] /\ block_ = h.block[h.f + 1]
    BY <1>1, <1>3 DEF CallInv
  <2> PICK w : w = h.f + 1
    OBVIOUS
  <2>2. w \in Nat /\ w \in h.m .. h.l /\ w \in h.m .. h.t /\ w # h.f /\ ~(w < h.f) /\ w > h.m
        /\ w \in 0 .. h.l /\ w + 1 \in Nat /\ 0 < h.l /\ w # h.m
    BY <1>4, <2>1
  <2>3. FrontOf(block_) = h.place[w][h.first[w]]
    BY <1>1, <2>1, <2>2 DEF ConsInv, FrontAt
  <2> PICK y : y = IF w < h.t THEN h.first[w + 1] ELSE published
    OBVIOUS
  <2>4. mem.tail[block_] = h.place[w][y]
    BY <1>1, <2>1, <2>2 DEF ProdInv
  <2>5. h.first[w] < h.first[w + 1]
    BY <1>1, <2>2 DEF VisitInv
  <2>6. h.first[w] \in Nat /\ h.first[w + 1] \in Nat /\ y \in Nat
    BY <1>1, <2>2
  <2>7. h.first[w] < y /\ y <= h.first[w + 1]
    <3>1. CASE w < h.t
      BY <2>5, <2>6, <3>1
    <3>2. CASE ~(w < h.t)
      <4>1. w = h.t /\ h.t # 0
        BY <1>4, <2>1, <3>2
      <4>2. h.first[h.t] < published /\ published <= h.first[h.t + 1]
        BY <1>1, <4>1 DEF ProdInv
      <4> QED
        BY <3>2, <4>1, <4>2
    <3> QED
      BY <3>1, <3>2
  <2>8. h.first[w + 1] - h.first[w] < blockSize[h.block[w]]
    BY <1>1, <2>2 DEF RoomInv, LeftAt
  <2>9. h.block[w] \in 0 .. blocks - 1
    BY <1>1, <2>2 DEF VisitInv
  <2>10. blockSize[h.block[w]] \in Nat
    BY <2>9, MadeBlocks DEF TypeInv
  <2>11. IsRing(h.place[w], blockSize[h.block[w]])
    BY <1>1, <2>2 DEF VisitInv
  <2>12. h.place[w][h.first[w]] = h.place[w][y] => y - h.first[w] >= blockSize[h.block[w]]
    BY <2>6, <2>7, <2>11 DEF IsRing
  <2> QED
    BY <2>3, <2>4, <2>6, <2>7, <2>8, <2>10, <2>12
<1>5. ASSUME deqPc = "take" PROVE front_ # mem.tail[block_]
  <2>1. PICK v \in h.f .. h.t : /\ block_ = h.block[v] /\ front_ = h.place[v][popped]
                                /\ In(h, v, popped) /\ popped < published
    BY <1>1, <1>5 DEF CallInv
  <2>2. v \in Nat /\ v \in h.m .. h.l /\ v \in h.m .. h.t /\ v \in 0 .. h.l /\ v + 1 \in Nat
    BY <1>4, <2>1
  <2> PICK y : y = IF v < h.t THEN h.first[v + 1] ELSE published
    OBVIOUS
  <2>3. mem.tail[block_] = h.place[v][y]
    BY <1>1, <2>1, <2>2 DEF ProdInv
  <2>4. /\ h.first[v] \in Nat /\ h.first[v + 1] \in Nat /\ y \in Nat
        /\ h.first[v] <= popped /\ popped < h.first[v + 1]
    BY <1>1, <2>1, <2>2 DEF In
  <2>5. popped < y /\ y <= h.first[v + 1]
    <3>1. CASE v < h.t
      BY <2>4, <3>1
    <3>2. CASE ~(v < h.t)
      <4>1. v = h.t
        BY <1>4, <2>1, <3>2
      <4>2. published <= h.first[h.t + 1]
        BY <1>1 DEF ProdInv
      <4> QED
        BY <2>1, <3>2, <4>1, <4>2
    <3> QED
      BY <3>1, <3>2
  <2>6. LeftAt(h, v) \in Nat /\ LeftAt(h, v) <= popped
    <3>1. removed \in Nat /\ removed <= popped
      BY <1>1 DEF ConsInv, TypeInv
    <3> QED
      BY <2>4, <3>1 DEF LeftAt
  <2>7. h.first[v + 1] - LeftAt(h, v) < blockSize[h.block[v]]
    BY <1>1, <2>2 DEF RoomInv
  <2>8. h.block[v] \in 0 .. blocks - 1
    BY <1>1, <2>2 DEF VisitInv
  <2>9. blockSize[h.block[v]] \in Nat
    BY <2>8, MadeBlocks DEF TypeInv
  <2>10. IsRing(h.place[v], blockSize[h.block[v]])
    BY Zenon, <1>1, <2>2 DEF VisitInv
  <2>11. h.place[v][popped] = h.place[v][y] => y - popped >= blockSize[h.block[v]]
    BY <1>1, <2>4, <2>5, <2>10 DEF IsRing
  <2>12. y - popped < blockSize[h.block[v]]
    <3>1. popped \in Nat
      BY <1>1
    <3>2. \A first, left, size \in Nat :
            left <= popped /\ y <= first /\ first - left < size => y - popped < size
      BY <2>4, <3>1
    <3> QED
      BY <2>4, <2>5, <2>6, <2>7, <2>9, <3>2
  <2> QED
    BY <1>1, <2>1, <2>3, <2>4, <2>9, <2>11, <2>12
<1> QED
  BY <1>2, <1>3, <1>5 DEF AssertsHold

\* Unless the constructor was given zero, what try_dequeue, pop and peek use is the oldest
\* element, complete and alive, whichever way they found it: no block is skipped, nothing
\* is read before it is in memory.
THEOREM TakesNextTheorem == Spec /\ Size >= 1 => []TakesNext
<1>1. IInv => TakesNext
  BY TakesNextHolds DEF IInv
<1> QED
  BY <1>1, Invariance, PTL

\* The asserts of inner_enqueue and of the dequeues never fail, unless the constructor was
\* given zero.
THEOREM AssertsHoldTheorem == Spec /\ Size >= 1 => []AssertsHold
<1>1. IInv => AssertsHold
  BY AssertsHoldHolds DEF IInv
<1> QED
  BY <1>1, Invariance, PTL

\* A call that finds the queue empty.
LEMMA EmptyStep ==
  ASSUME TypeInv, NEW h \in History, Inv(h), [Next]_vars, deqPc = "look", deqPc' = "idle"
  PROVE  publishedAtStart = popped
<1>1. CASE DequeueLook /\ Dequeue
  <2>1. UNCHANGED <<producerVars, blockVars, mem, published, removed, shape>>
    BY <1>1 DEF Dequeue
  <2> QED
    BY <1>1, <2>1, LookStep
<1>2. CASE Dequeue /\ ~DequeueLook
  BY <1>2 DEF Dequeue, DequeueBegin, DequeueAgain, DequeueNext, DequeueAdvance, DequeueTake, DequeueLeave
<1>3. CASE Enqueue \/ (\E t \in {"producer", "consumer"} : Drain(t)) \/ UNCHANGED vars
  <2>1. deqPc' = deqPc
    BY <1>3 DEF Enqueue, Drain, vars, consumerVars
  <2> QED
    BY <2>1
<1> QED
  BY <1>1, <1>2, <1>3 DEF Next

\* Unless the constructor was given zero, a dequeue that finds the queue empty returns that
\* only if every element enqueued in memory before it began was taken, wherever the
\* producer has moved on to.
THEOREM EmptyIsTrueTheorem == Spec /\ Size >= 1 => EmptyIsTrue
<1>1. IInv /\ [Next]_vars => [deqPc = "look" /\ deqPc' = "idle" => publishedAtStart = popped]_vars
  BY EmptyStep DEF IInv
<1> QED
  BY <1>1, Invariance, PTL DEF Spec, EmptyIsTrue
------------------------------------------------------------------------------
(***************************************************************************)
(* The blocks kept. The links of the producer make one circle of all       *)
(* blocks but those that are lost: a new block is put in between, and      *)
(* nothing is ever taken out.                                              *)
(***************************************************************************)

\* The blocks that are not lost.
Kept ==
  {b \in 0 .. blocks - 1 : b < InitialBlockCount(MaxBlockSize, Size) \/ mem.data[<<b, 0>>] # -1}

\* A function goes round all of a set before it is where it was.
Round(S, next) ==
  \A T \in SUBSET S : T # {} /\ (\A b \in T : next[b] \in T) => T = S

NextOn(S) == [b \in S |-> NextOf(b)]

\* The producer's links make one circle of the blocks.
OneCircle == Round(Kept, NextOn(Kept))

\* A circle stays one when an element is put in.
LEMMA RoundGrows ==
  ASSUME NEW S, NEW next \in [S -> S], Round(S, next), NEW t \in S, NEW b, b \notin S,
         NEW more, more[t] = b, more[b] = next[t], \A c \in S : c # t => more[c] = next[c]
  PROVE  Round(S \cup {b}, more)
<1> SUFFICES ASSUME NEW T \in SUBSET (S \cup {b}), T # {}, \A c \in T : more[c] \in T
             PROVE  T = S \cup {b}
  BY DEF Round
<1> DEFINE R == T \ {b}
<1>1. R \subseteq S
  OBVIOUS
<1>2. R # {}
  <2>1. SUFFICES ASSUME T = {b} PROVE FALSE
    OBVIOUS
  <2>2. next[t] \in T /\ next[t] \in S
    BY <2>1
  <2> QED
    BY <2>1, <2>2
<1>3. ASSUME NEW c \in R PROVE next[c] \in R
  <2>1. c \in S /\ c \in T /\ next[c] \in S /\ next[c] # b
    BY <1>1
  <2>2. CASE c # t
    BY <2>1, <2>2
  <2>3. CASE c = t
    <3>1. b \in T
      BY <2>1, <2>3
    <3>2. next[t] \in T
      BY <3>1
    <3> QED
      BY <2>1, <2>3, <3>2
  <2> QED
    BY <2>2, <2>3
<1>4. R = S
  BY <1>1, <1>2, <1>3 DEF Round
<1>5. b \in T
  <2>1. t \in T
    BY <1>4
  <2> QED
    BY <2>1
<1> QED
  BY <1>4, <1>5

\* A walk of so many steps round a circle, and where it gets.
GoesRound(n, S, next, a, f) ==
  /\ n \in Nat /\ S \subseteq 0 .. n - 1 /\ next \in [S -> S] /\ Round(S, next)
  /\ a \in S /\ IsWalk(f, n, S, a, next)

GetsTo(n, f, S) == (\A k \in 0 .. n : f[k] \in S) /\ \A b \in S : \E k \in 0 .. n : f[k] = b

\* A circle is gone round from anywhere in no more steps than it has blocks.
LEMMA RoundWalk ==
  ASSUME NEW n, NEW S, NEW next, NEW a, NEW f, GoesRound(n, S, next, a, f)
  PROVE  GetsTo(n, f, S)
<1> USE DEF GetsTo
<1>0. /\ n \in Nat /\ S \subseteq 0 .. n - 1 /\ next \in [S -> S] /\ Round(S, next)
      /\ a \in S /\ IsWalk(f, n, S, a, next)
  BY DEF GoesRound
<1> DEFINE R == {f[k] : k \in 0 .. n}
<1>1. f \in [0 .. n -> S] /\ \A k \in 0 .. n : f[k] = IF k = 0 THEN a ELSE next[f[k - 1]]
  BY <1>0 DEF IsWalk
<1>2. \A k \in 0 .. n - 1 : k + 1 \in 0 .. n /\ f[k + 1] = next[f[k]]
  <2>1. \A k \in 0 .. n - 1 : k + 1 \in 0 .. n /\ k + 1 # 0 /\ (k + 1) - 1 = k
    BY <1>0
  <2> QED
    BY <1>1, <2>1
<1>3. PICK i \in 0 .. n, j \in 0 .. n : i < j /\ f[i] = f[j]
  <2> PICK A : A = 0 .. n
    OBVIOUS
  <2> PICK B : B = 0 .. n - 1
    OBVIOUS
  <2>1. IsFiniteSet(A) /\ Cardinality(A) = n + 1
    BY <1>0, FS_Interval
  <2>2. IsFiniteSet(B) /\ Cardinality(B) = n
    <3>1. n - 1 \in Int /\ 0 \in Int /\ (IF 0 > n - 1 THEN 0 ELSE n - 1 - 0 + 1) = n
      BY <1>0
    <3>2. IsFiniteSet(0 .. n - 1) /\ Cardinality(0 .. n - 1) = IF 0 > n - 1 THEN 0 ELSE n - 1 - 0 + 1
      BY <3>1, FS_Interval
    <3> QED
      BY <3>1, <3>2
  <2>3. f \in [A -> B] /\ Cardinality(B) < Cardinality(A)
    <3>1. Cardinality(B) < Cardinality(A)
      BY <1>0, <2>1, <2>2
    <3>2. f \in [A -> B]
      BY <1>0, <1>1
    <3> QED
      BY <3>1, <3>2
  <2>4. \E i, j \in A : i # j /\ f[i] = f[j]
    BY <2>1, <2>2, <2>3, FS_PigeonHole
  <2>5. \A i, j \in 0 .. n : i # j => i < j \/ j < i
    BY <1>0
  <2> QED
    BY <2>4, <2>5
<1> DEFINE T == {f[k] : k \in i .. j - 1}
<1>4. T \subseteq S /\ T # {} /\ T \subseteq R
  <2>1. \A k \in i .. j - 1 : k \in 0 .. n
    BY <1>0, <1>3
  <2>2. i \in i .. j - 1
    BY <1>0, <1>3
  <2> QED
    BY <1>1, <2>1, <2>2
<1>5. ASSUME NEW k \in i .. j - 1 PROVE next[f[k]] \in T
  <2>1. k \in 0 .. n - 1 /\ f[k + 1] = next[f[k]]
    BY <1>0, <1>2, <1>3
  <2>2. k + 1 \in i .. j - 1 \/ k + 1 = j
    BY <1>0, <1>3
  <2>3. i \in i .. j - 1
    BY <1>0, <1>3
  <2> QED
    BY <1>3, <2>1, <2>2, <2>3
<1>6. T = S
  BY <1>0, <1>4, <1>5 DEF Round
<1>7. R \subseteq S
  BY <1>1
<1> QED
  BY <1>4, <1>6, <1>7

\* The circle of the history is that of the links.
LEMMA KeptFacts ==
  ASSUME TypeInv, NEW h \in History, Inv(h)
  PROVE  /\ h.kept = Kept /\ Kept \subseteq 0 .. blocks - 1 /\ Kept \subseteq Blocks /\ blocks \in Nat
         /\ FrontBlock \in Kept /\ TailBlock \in Kept /\ mem.block["front"] \in Kept
         /\ \A b \in Kept : NextOf(b) \in Kept
         /\ NextOn(Kept) \in [Kept -> Kept]
         /\ \A v \in h.m .. h.l : h.block[v] \in Kept
<1>1. h.kept = Kept
  BY DEF Inv, KeptInv, Kept
<1>2. Kept \subseteq 0 .. blocks - 1 /\ Kept \subseteq Blocks /\ blocks \in Nat
  BY MadeBlocks DEF Kept, TypeInv
<1>3. \A b \in Kept : NextOf(b) \in Kept
  BY <1>1 DEF Inv, CircleInv
<1>4. \A v \in h.m .. h.l : h.block[v] \in Kept
  BY <1>1 DEF Inv, VisitInv
<1>5. /\ FrontBlock = h.block[h.f] /\ TailBlock = h.block[h.l] /\ mem.block["front"] = h.block[h.m]
      /\ h.m \in h.m .. h.l /\ h.f \in h.m .. h.l /\ h.l \in h.m .. h.l
  BY Counts DEF Inv, ConsInv, ProdInv, Shorthands
<1>6. NextOn(Kept) \in [Kept -> Kept]
  BY <1>3 DEF NextOn
<1> QED
  BY <1>1, <1>2, <1>3, <1>4, <1>5, <1>6

\* Going round from the front block meets every block but those that are lost.
LEMMA BlocksReached ==
  ASSUME TypeInv, NEW h \in History, Inv(h), OneCircle
  PROVE  BlocksKept
<1> PICK S : S = Kept
  OBVIOUS
<1> PICK next : next = NextOn(Kept)
  OBVIOUS
<1> PICK a : a = FrontBlock
  OBVIOUS
<1>1. /\ S \subseteq 0 .. blocks - 1 /\ blocks \in Nat /\ a \in S /\ next \in [S -> S] /\ Round(S, next)
      /\ \A b \in S : next[b] = NextOf(b)
  BY KeptFacts DEF OneCircle, NextOn
<1> DEFINE IsCircle(f) == f = [k \in 0 .. blocks |-> IF k = 0 THEN a ELSE NextOf(f[k - 1])]
<1> DEFINE circle == CHOOSE f : IsCircle(f)
<1>2. \E f : IsCircle(f)
  <2>1. PICK f : IsWalk(f, blocks, S, a, next)
    BY <1>1, WalkExists
  <2>2. f \in [0 .. blocks -> S] /\ \A k \in 0 .. blocks : f[k] = IF k = 0 THEN a ELSE next[f[k - 1]]
    BY <2>1 DEF IsWalk
  <2>3. \A k \in 0 .. blocks : k # 0 => k - 1 \in 0 .. blocks
    BY <1>1
  <2>4. \A k \in 0 .. blocks : f[k] = IF k = 0 THEN a ELSE NextOf(f[k - 1])
    BY <1>1, <2>2, <2>3
  <2>5. IsCircle(f)
    BY <2>2, <2>4
  <2> QED
    BY <2>5
<1>3. IsCircle(circle)
  BY <1>2
<1>4. BlocksKept <=> {circle[k] : k \in 0 .. blocks} =
        (0 .. blocks - 1) \ {b \in InitialBlockCount(MaxBlockSize, Size) .. blocks - 1 :
                               mem.data[<<b, 0>>] = -1}
  BY DEF BlocksKept
<1> HIDE DEF circle
<1>5. IsWalk(circle, blocks, S, a, next)
  <2> DEFINE T == {n \in Nat : n <= blocks => circle[n] \in S}
  <2>1. 0 \in T
    BY <1>1, <1>3
  <2>2. ASSUME NEW n \in Nat, n \in T PROVE n + 1 \in T
    <3>1. SUFFICES ASSUME n + 1 <= blocks PROVE circle[n + 1] \in S
      BY <2>2
    <3>2. n \in 0 .. blocks /\ n + 1 \in 0 .. blocks /\ n + 1 # 0 /\ (n + 1) - 1 = n
      BY <1>1, <2>2, <3>1
    <3>3. circle[n + 1] = NextOf(circle[n]) /\ circle[n] \in S
      BY <1>1, <1>3, <2>2, <3>2
    <3> QED
      BY <1>1, <3>3
  <2>3. T = Nat
    <3> HIDE DEF T
    <3>1. T \subseteq Nat
      BY DEF T
    <3> QED
      BY <2>1, <2>2, <3>1, SetInduction
  <2>4. \A k \in 0 .. blocks : circle[k] \in S
    <3>1. \A k \in 0 .. blocks : k \in T /\ k <= blocks
      BY <1>1, <2>3
    <3> QED
      BY <3>1
  <2>5. \A k \in 0 .. blocks : circle[k] = IF k = 0 THEN a ELSE next[circle[k - 1]]
    <3>1. \A k \in 0 .. blocks : k # 0 => k - 1 \in 0 .. blocks
      BY <1>1
    <3> QED
      BY <1>1, <1>3, <2>4, <3>1
  <2>6. circle \in [0 .. blocks -> S]
    BY <1>3, <2>4
  <2> QED
    BY <2>5, <2>6 DEF IsWalk
<1>6. {circle[k] : k \in 0 .. blocks} = S
  <2>1. GoesRound(blocks, S, next, a, circle)
    BY <1>1, <1>5 DEF GoesRound
  <2>2. GetsTo(blocks, circle, S)
    BY <2>1, RoundWalk
  <2> QED
    BY <2>2 DEF GetsTo
<1>7. S = (0 .. blocks - 1) \ {b \in InitialBlockCount(MaxBlockSize, Size) .. blocks - 1 :
                                mem.data[<<b, 0>>] = -1}
  <2>1. InitialBlockCount(MaxBlockSize, Size) \in Nat /\ blocks \in Nat
    BY ShapeFacts DEF TypeInv, MaxBlockSize, Size
  <2>2. \A b \in 0 .. blocks - 1 : b < InitialBlockCount(MaxBlockSize, Size) <=>
                                   b \notin InitialBlockCount(MaxBlockSize, Size) .. blocks - 1
    BY <2>1
  <2> QED
    BY <2>2 DEF Kept
<1> QED
  BY <1>4, <1>6, <1>7

\* What a step leaves as it was: the blocks, the links and where the producer is.
LinksStay ==
  /\ Kept' = Kept /\ TailBlock' = TailBlock
  /\ \A c \in Blocks : TailOf(c)' = TailOf(c) /\ NextOf(c)' = NextOf(c)
  /\ \A c \in 0 .. blocks - 1 : blockSize'[c] = blockSize[c]
  /\ pushed' = pushed

\* What the producer may find of the consumer, in memory.
FrontsStay ==
  mem'.block["front"] = mem.block["front"] /\ mem'.front = mem.front /\ removed' = removed

\* A step that moves neither end of the queue, with the call of the producer where it was,
\* at its end, or at a full tail block.
Silent ==
  /\ LinksStay /\ FrontsStay
  /\ \/ enqPc' = "idle"
     \/ EnqueueFull
     \/ enqPc # "idle" /\ UNCHANGED removedAtStart

\* An element goes into the tail block, or into the next one, which becomes the tail block.
Entered(b) ==
  /\ FrontsStay /\ Kept' = Kept /\ pushed' = pushed + 1 /\ enqPc' = "idle"
  /\ \/ b = TailBlock /\ enqPc = "idle"
     \/ b = NextOf(TailBlock) /\ enqPc = "reuse"
  /\ TailBlock' = b
  /\ \A c \in Blocks : NextOf(c)' = NextOf(c) /\ (c # b => TailOf(c)' = TailOf(c))
  /\ \A c \in 0 .. blocks - 1 : blockSize'[c] = blockSize[c]

\* An element goes into a new block, after the tail block: it becomes the tail block.
Inserted(b, end) ==
  /\ FrontsStay /\ Kept' = Kept \cup {b} /\ b \notin Kept /\ pushed' = pushed + 1
  /\ enqPc = "next" /\ enqPc' = "idle" /\ end = TailBlock
  /\ TailBlock' = b /\ NextOf(end)' = b /\ NextOf(b)' = NextOf(end)
  /\ \A c \in Kept : TailOf(c)' = TailOf(c) /\ (c # end => NextOf(c)' = NextOf(c))
  /\ \A c \in 0 .. blocks - 1 : blockSize'[c] = blockSize[c]

\* In memory, a slot of the front block is given back, or the block is.
Advanced(h) ==
  /\ LinksStay /\ UNCHANGED <<enqPc, removedAtStart>>
  /\ \/ /\ mem'.block["front"] = mem.block["front"] /\ removed' = removed + 1
        /\ \A c \in Blocks : c # mem.block["front"] => mem'.front[c] = mem.front[c]
     \/ /\ mem'.block["front"] = h.block[h.m + 1] /\ mem'.front = mem.front
        /\ h.m < h.f /\ removed = h.first[h.m + 1] /\ removed' = removed

\* A step that stores nothing and makes no block leaves the links.
LEMMA NothingStored ==
  ASSUME TypeInv, mem' = mem, Pp' = Pp, UNCHANGED <<blocks, blockSize, shape, pushed, removed>>
  PROVE  LinksStay /\ FrontsStay
<1>1. /\ TailBlock' = TailBlock
      /\ \A b : TailOf(b)' = TailOf(b)
      /\ \A b : NextOf(b)' = NextOf(b)
  BY ProducerSees
<1>2. Kept' = Kept
  BY DEF Kept, MaxBlockSize, Size
<1> QED
  BY <1>1, <1>2 DEF LinksStay, FrontsStay

\* A block that is lost is no part of the circle.
LEMMA LostBlock ==
  ASSUME TypeInv, NEW h \in History, Inv(h), EnqueueGrow, NoElement, UNCHANGED <<mem, localTail>>,
         UNCHANGED <<consumerVars, published, removed, shape>>
  PROVE  LinksStay /\ FrontsStay /\ enqPc' = "idle"
<1>1. /\ blocks' = blocks + 1 /\ blockSize' = [blockSize EXCEPT ![blocks] = NewBlockSize]
      /\ mem' = mem /\ Pp' = Pp /\ enqPc' = "idle" /\ pushed' = pushed
      /\ blocks < InitialBlockCount(MaxBlockSize, Size) + MaxNew
  BY DEF EnqueueGrow, EnqueueReturn, NoElement, Pp
<1>2. /\ TailBlock' = TailBlock
      /\ \A b : TailOf(b)' = TailOf(b)
      /\ \A b : NextOf(b)' = NextOf(b)
  BY <1>1, ProducerSees
<1>3. /\ blocks \in Nat /\ blocks \in Blocks /\ InitialBlockCount(MaxBlockSize, Size) \in Nat
      /\ InitialBlockCount(MaxBlockSize, Size) <= blocks
  BY <1>1, MadeBlocks, ShapeFacts DEF TypeInv, MaxBlockSize, Size
<1>4. mem.data[<<blocks, 0>>] = -1
  BY <1>3 DEF Inv, ToComeInv
<1>5. Kept' = Kept
  <2>1. \A b : b \in 0 .. blocks' - 1 <=> b \in 0 .. blocks - 1 \/ b = blocks
    BY <1>1, <1>3
  <2>2. ~(blocks < InitialBlockCount(MaxBlockSize, Size))
    BY <1>3
  <2> QED
    BY <1>1, <1>4, <2>1, <2>2 DEF Kept, MaxBlockSize, Size
<1>6. \A c \in 0 .. blocks - 1 : blockSize'[c] = blockSize[c]
  <2>1. \A c \in 0 .. blocks - 1 : c # blocks /\ c \in Blocks
    BY <1>3, MadeBlocks
  <2>2. blockSize \in [Blocks -> Nat]
    BY DEF TypeInv
  <2> QED
    BY <1>1, <2>1, <2>2
<1> QED
  BY <1>1, <1>2, <1>5, <1>6 DEF LinksStay, FrontsStay

\* An element in the tail block.
LEMMA EnteredHere ==
  ASSUME TypeInv, NEW h \in History, Inv(h), EnqueueHere, removed' = removed, shape' = shape
  PROVE  Silent \/ Entered(TailBlock)
<1> PICK b : b = TailBlock
  OBVIOUS
<1> PICK slot : slot = TailOf(b)
  OBVIOUS
<1>1. /\ enqPc = "idle" /\ enqPc' = "idle" /\ mem' = mem /\ UNCHANGED <<blocks, blockSize>>
      /\ \/ Construct(b, slot, <<Store("tail", b, After(b, slot), pushed)>>)
         \/ UNCHANGED <<pending, live, pushed>>
  BY DEF EnqueueHere, NoElement, growVars, blockVars
<1>2. CASE UNCHANGED <<pending, live, pushed>>
  <2>1. Pp' = Pp
    BY <1>2 DEF Pp
  <2> QED
    BY <1>1, <1>2, <2>1, NothingStored DEF Silent
<1>3. CASE Construct(b, slot, <<Store("tail", b, After(b, slot), pushed)>>)
  <2>0. PICK d, s, q : HereStored(b, slot, d, s, q)
    BY DEF HereStored
  <2>1. Stores("producer", q) /\ pushed' = pushed + 1
    BY <1>3, <2>0 DEF Construct, HereStored
  <2>2. /\ TailBlock' = TailBlock
        /\ \A c : c # b => TailOf(c)' = TailOf(c)
        /\ \A c : NextOf(c)' = NextOf(c)
    BY <1>1, <2>0, <2>1, HereStores
  <2>3. Kept' = Kept
    BY <1>1 DEF Kept, MaxBlockSize, Size
  <2>4. FrontsStay
    BY <1>1 DEF FrontsStay
  <2> QED
    BY <1>1, <2>1, <2>2, <2>3, <2>4 DEF Entered
<1> QED
  BY <1>1, <1>2, <1>3

\* An element in the next block.
LEMMA EnteredNext ==
  ASSUME TypeInv, NEW h \in History, Inv(h), EnqueueReuse, removed' = removed, shape' = shape
  PROVE  Silent \/ Entered(NextOf(TailBlock))
<1> PICK b : b = NextOf(TailBlock)
  OBVIOUS
<1> PICK slot : slot = TailOf(b)
  OBVIOUS
<1>1. /\ enqPc = "reuse" /\ enqPc' = "idle" /\ mem' = mem /\ UNCHANGED <<blocks, blockSize>>
      /\ \/ Construct(b, slot, Enter(b, slot))
         \/ UNCHANGED <<pending, live, pushed>>
  BY DEF EnqueueReuse, NoElement, EnqueueReturn, growVars, blockVars
<1>2. CASE UNCHANGED <<pending, live, pushed>>
  <2>1. Pp' = Pp
    BY <1>2 DEF Pp
  <2> QED
    BY <1>1, <1>2, <2>1, NothingStored DEF Silent
<1>3. CASE Construct(b, slot, Enter(b, slot))
  <2>0. PICK d, s, k, q : ReuseStored(b, slot, d, s, k, q)
    BY DEF ReuseStored
  <2>1. Stores("producer", q) /\ pushed' = pushed + 1
    BY <1>3, <2>0 DEF Construct, ReuseStored, Enter
  <2>2. ReuseSeen(b, slot, d, s, k, q)
    BY <1>1, <2>0, <2>1, ReuseStores
  <2>3. /\ TailBlock' = b
        /\ \A c : c # b => TailOf(c)' = TailOf(c)
        /\ \A c : NextOf(c)' = NextOf(c)
    BY <2>2 DEF ReuseSeen
  <2>4. Kept' = Kept
    BY <1>1 DEF Kept, MaxBlockSize, Size
  <2>5. FrontsStay
    BY <1>1 DEF FrontsStay
  <2> QED
    BY <1>1, <2>1, <2>3, <2>4, <2>5 DEF Entered
<1> QED
  BY <1>1, <1>2, <1>3

\* A call that finds the tail block full, looks ahead or gives up.
LEMMA EnqueueSilent ==
  ASSUME TypeInv, EnqueueFull \/ EnqueueAhead \/ EnqueueRefused, removed' = removed, shape' = shape
  PROVE  Silent
<1>1. /\ mem' = mem /\ Pp' = Pp /\ UNCHANGED <<blocks, blockSize, shape, pushed, removed>>
      /\ EnqueueFull \/ enqPc' = "idle" \/ (enqPc # "idle" /\ UNCHANGED removedAtStart)
  BY DEF EnqueueFull, EnqueueAhead, EnqueueRefused, EnqueueReturn, NoElement, growVars, blockVars, Pp
<1>2. LinksStay /\ FrontsStay
  BY <1>1, NothingStored
<1> QED
  BY <1>1, <1>2 DEF Silent

\* The consumer's calls leave memory and the producer alone.
LEMMA DequeueSilent ==
  ASSUME TypeInv, Dequeue
  PROVE  Silent
<1>1. /\ mem' = mem /\ UNCHANGED <<blocks, blockSize, shape, pushed, removed, enqPc, removedAtStart>>
  BY DEF Dequeue, producerVars, blockVars
<1>2. Pp' = Pp
  <2>1. \A q : Stores("consumer", q) => Pp' = Pp
    <3>1. pending \in [Threads -> Seq(AnyStore)] /\ "producer" \in Threads
      BY DEF TypeInv, Threads
    <3> QED
      BY <3>1 DEF Stores, Pp
  <2>2. CASE UNCHANGED pending
    BY <2>2 DEF Pp
  <2>3. CASE DequeueAdvance
    BY <2>1, <2>3 DEF DequeueAdvance
  <2>4. CASE DequeueTake
    BY <2>1, <2>4 DEF DequeueTake
  <2> QED
    BY <2>2, <2>3, <2>4
       DEF Dequeue, DequeueBegin, DequeueLook, DequeueAgain, DequeueNext, DequeueLeave
<1>3. LinksStay /\ FrontsStay
  BY <1>1, <1>2, NothingStored
<1> QED
  BY <1>1, <1>3 DEF Silent

\* So does a step of nothing.
LEMMA StutterSilent ==
  ASSUME TypeInv, UNCHANGED vars
  PROVE  Silent
<1>1. /\ mem' = mem /\ Pp' = Pp
      /\ UNCHANGED <<blocks, blockSize, shape, pushed, removed, enqPc, removedAtStart>>
  BY DEF vars, producerVars, growVars, blockVars, Pp
<1>2. LinksStay /\ FrontsStay
  BY <1>1, NothingStored
<1> QED
  BY <1>1, <1>2 DEF Silent

\* A new block with an element in it, or lost.
LEMMA GrewStep ==
  ASSUME TypeInv, NEW h \in History, Inv(h), EnqueueGrow,
         UNCHANGED <<consumerVars, published, removed, shape>>
  PROVE  Silent \/ \E b, end : Inserted(b, end)
<1> PICK b : b = blocks
  OBVIOUS
<1> PICK nx : nx = NextOf(TailBlock)
  OBVIOUS
<1> PICK end : end = TailBlock
  OBVIOUS
<1>1. /\ enqPc = "next" /\ enqPc' = "idle" /\ blocks' = b + 1
      /\ blocks < InitialBlockCount(MaxBlockSize, Size) + MaxNew
      /\ blockSize' = [blockSize EXCEPT ![b] = NewBlockSize]
      /\ \/ /\ mem' = [mem EXCEPT !.data[<<b, 0>>] = pushed, !.tail[b] = 1, !.next[b] = nx]
            /\ Stores("producer", Insert(b))
            /\ pushed' = pushed + 1
         \/ NoElement /\ UNCHANGED <<mem, localTail>>
  BY DEF EnqueueGrow, EnqueueReturn
<1>2. CASE NoElement /\ UNCHANGED <<mem, localTail>>
  BY <1>2, LostBlock DEF Silent
<1>3. CASE /\ mem' = [mem EXCEPT !.data[<<b, 0>>] = pushed, !.tail[b] = 1, !.next[b] = nx]
           /\ Stores("producer", Insert(b))
           /\ pushed' = pushed + 1
  <2>1. /\ b \in Nat /\ b \in Blocks /\ pushed \in Nat /\ MaxBlockSize \in Nat
        /\ InitialBlockCount(MaxBlockSize, Size) \in Nat
        /\ InitialBlockCount(MaxBlockSize, Size) <= b
        /\ shape' = shape
    BY <1>1, MadeBlocks, ShapeFacts DEF TypeInv, MaxBlockSize, Size
  <2>2. end = h.block[h.l] /\ end \in Kept /\ nx \in Kept /\ Kept \subseteq 0 .. b - 1
        /\ h.kept = Kept
    <3>1. end = h.block[h.l] /\ end \in Kept /\ nx \in Kept /\ h.kept = Kept
      <4>1. h.l \in h.m .. h.l
        BY Counts DEF Shorthands
      <4>2. TailBlock = h.block[h.l]
        BY TailFacts
      <4> QED
        BY <4>1, <4>2, KeptFacts
    <3>2. Kept \subseteq 0 .. b - 1
      BY DEF Kept
    <3> QED
      BY <3>1, <3>2
  <2>3. nx \in Nat
    BY <2>1, <2>2
  <2>4. PutTogether(b, nx, pushed)
    BY <1>3 DEF PutTogether
  <2>5. PICK a, k, q : GrowStored(b, end, a, k, q)
    BY DEF GrowStored
  <2>6. Stores("producer", q)
    BY <1>3, <2>5 DEF Insert, GrowStored
  <2>7. GrowSeen(b, nx, end, a, k, q)
    BY <2>1, <2>2, <2>3, <2>4, <2>5, <2>6, GrowStores
  <2>8. /\ TailBlock' = b /\ NextOf(end)' = b /\ NextOf(b)' = nx
        /\ \A c \in Blocks : c # b => TailOf(c)' = TailOf(c)
        /\ \A c \in Blocks : c # b /\ c # end => NextOf(c)' = NextOf(c)
    BY <2>7 DEF GrowSeen
  <2>9. /\ mem'.block = mem.block /\ mem'.front = mem.front
        /\ mem'.data[<<b, 0>>] = pushed
        /\ \A s \in Slots : s # <<b, 0>> => mem'.data[s] = mem.data[s]
    BY <2>1, <2>3, <2>4, GrowMemory
  <2>10. \A c \in 0 .. b - 1 : c \in Blocks /\ c # b /\ <<c, 0>> \in Slots /\ <<c, 0>> # <<b, 0>>
    <3>1. b \in Nat
      BY <2>1
    <3>2. \A c \in 0 .. b - 1 : c # b
      BY <3>1
    <3>3. \A c \in 0 .. b - 1 : c \in Blocks
      BY MadeBlocks
    <3>4. \A c \in Blocks : <<c, 0>> \in Slots
      BY MadeBlocks
    <3> QED
      BY <3>2, <3>3, <3>4
  <2>11. FrontsStay
    BY <2>9 DEF FrontsStay
  <2>12. Kept' = Kept \cup {b}
    <3>1. \A c : c \in 0 .. blocks' - 1 <=> c \in 0 .. b - 1 \/ c = b
      BY <1>1, <2>1
    <3>2. mem'.data[<<b, 0>>] # -1
      BY <2>1, <2>9
    <3>3. \A c \in 0 .. b - 1 : mem'.data[<<c, 0>>] = mem.data[<<c, 0>>]
      BY <2>9, <2>10
    <3>4. Kept' = {c \in 0 .. blocks' - 1 : c < InitialBlockCount(MaxBlockSize, Size)
                                             \/ mem'.data[<<c, 0>>] # -1}
      BY <2>1 DEF Kept, MaxBlockSize, Size
    <3>5. Kept = {c \in 0 .. b - 1 : c < InitialBlockCount(MaxBlockSize, Size)
                                             \/ mem.data[<<c, 0>>] # -1}
      BY DEF Kept
    <3> QED
      BY <3>1, <3>2, <3>3, <3>4, <3>5
  <2>13. b \notin Kept
    BY <2>1, <2>2
  <2>14. \A c \in 0 .. b - 1 : blockSize'[c] = blockSize[c]
    <3>1. blockSize \in [Blocks -> Nat]
      BY DEF TypeInv
    <3> QED
      BY <1>1, <2>10, <3>1
  <2>15. \A c \in Kept : TailOf(c)' = TailOf(c) /\ (c # end => NextOf(c)' = NextOf(c))
    BY <2>2, <2>8, <2>10
  <2>16. Inserted(b, end)
    BY <1>1, <1>3, <2>8, <2>11, <2>12, <2>13, <2>14, <2>15 DEF Inserted
  <2> QED
    BY <2>16
<1> QED
  BY <1>1, <1>2, <1>3

\* No store of the producer moves an end of the queue or makes or loses a block.
LEMMA ProducerDrainSilent ==
  ASSUME TypeInv, NEW h \in History, Inv(h), Drain("producer")
  PROVE  Silent
<1> PICK s : s = Head(Pp)
  OBVIOUS
<1>1. /\ ProducerDrains(s) /\ Arrival(mem', mem, s)
      /\ removed' = IF s.var = "front" THEN removed + 1 ELSE removed
  BY ProducerDrainFacts
<1>2. 1 \in 1 .. Len(Pp) /\ s = Pp[1] /\ s \in AnyStore
  BY <1>1 DEF ProducerDrains
<1>3. PICK v \in h.t .. h.l : Produced(h, s, v)
  BY <1>2, ProducerHead
<1>4. /\ Reaches(s) /\ TailBlock' = TailBlock
      /\ \A c \in Blocks : TailOf(c)' = TailOf(c) /\ NextOf(c)' = NextOf(c)
  BY <1>1, <1>3, ProducerReaches
<1>5. UNCHANGED <<blocks, blockSize, shape, pushed, enqPc, removedAtStart>>
  BY <1>1 DEF ProducerDrains, producerVars, blockVars
<1>6. FrontsStay
  <2>1. s.var # "front"
    BY <1>3 DEF Produced
  <2> QED
    BY <1>1, <1>4, <2>1 DEF Reaches, FrontsStay
<1>7. Kept' = Kept
  <2>1. \A c \in 0 .. blocks - 1 : <<c, 0>> \in Slots
    BY MadeBlocks
  <2>2. \A x \in Slots : mem'.data[x] = IF Is(s, "data", x) THEN s.value ELSE mem.data[x]
    BY <1>4 DEF Reaches
  <2>3. ASSUME NEW c \in 0 .. blocks - 1, Is(s, "data", <<c, 0>>)
        PROVE  c \in Kept /\ s.value # -1
    <3>1. <<c, 0>> = <<h.block[v], h.place[v][s.of]>>
      BY <1>3, <2>3 DEF Produced, Is
    <3>2. v \in h.m .. h.l
      BY <1>3, Counts DEF Shorthands
    <3>3. h.block[v] \in Kept
      BY <3>2, KeptFacts
    <3>4. s.value \in Nat
      BY <1>2 DEF AnyStore
    <3> QED
      BY <3>1, <3>3, <3>4
  <2>4. \A c \in 0 .. blocks - 1 : c \in Kept' <=> c \in Kept
    <3>1. \A c \in 0 .. blocks - 1 : mem'.data[<<c, 0>>] = mem.data[<<c, 0>>]
                                     \/ (c \in Kept /\ mem'.data[<<c, 0>>] # -1)
      BY <2>1, <2>2, <2>3
    <3> QED
      BY <1>5, <3>1 DEF Kept, MaxBlockSize, Size
  <2> QED
    BY <1>5, <2>4 DEF Kept
<1>8. LinksStay
  BY <1>4, <1>5, <1>7 DEF LinksStay
<1> QED
  BY <1>5, <1>6, <1>8 DEF Silent

\* A store of the consumer gives back a slot of the front block, or the block.
LEMMA ConsumerDrainAdvances ==
  ASSUME TypeInv, NEW h \in History, Inv(h), Drain("consumer")
  PROVE  Advanced(h)
<1> PICK s : s = Head(Pc)
  OBVIOUS
<1>1. /\ ConsumerDrains(s) /\ Arrival(mem', mem, s)
      /\ removed' = IF s.var = "front" THEN removed + 1 ELSE removed
  BY ConsumerDrainFacts
<1>2. 1 \in 1 .. Len(Pc) /\ s = Pc[1]
  BY <1>1 DEF ConsumerDrains
<1>3. \/ s.var = "front" /\ s.at = h.block[h.m]
      \/ /\ s.var = "block" /\ s.at = "front" /\ s.value = h.block[h.m + 1]
         /\ h.m < h.f /\ removed = h.first[h.m + 1]
  BY <1>2, ConsumerHead
<1>4. /\ mem'.data = mem.data
      /\ mem'.block["front"] = IF s.var = "block" THEN s.value ELSE mem.block["front"]
      /\ \A b \in Blocks : mem'.front[b] = IF Is(s, "front", b) THEN s.value ELSE mem.front[b]
      /\ TailBlock' = TailBlock
      /\ \A b \in Blocks : TailOf(b)' = TailOf(b) /\ NextOf(b)' = NextOf(b)
  BY <1>1, <1>3, ConsumerReaches
<1>5. UNCHANGED <<blocks, blockSize, shape, pushed, enqPc, removedAtStart>>
  BY <1>1 DEF ConsumerDrains, producerVars, blockVars
<1>6. LinksStay
  <2>1. Kept' = Kept
    BY <1>4, <1>5 DEF Kept, MaxBlockSize, Size
  <2> QED
    BY <1>4, <1>5, <2>1 DEF LinksStay
<1>7. CASE s.var = "front" /\ s.at = h.block[h.m]
  <2>1. mem.block["front"] = h.block[h.m]
    BY DEF Inv, ConsInv
  <2>2. \A b \in Blocks : b # mem.block["front"] => mem'.front[b] = mem.front[b]
    BY <1>4, <1>7, <2>1 DEF Is
  <2>3. mem'.block["front"] = mem.block["front"] /\ removed' = removed + 1
    BY <1>1, <1>4, <1>7
  <2> QED
    BY <1>5, <1>6, <2>2, <2>3 DEF Advanced
<1>8. CASE /\ s.var = "block" /\ s.at = "front" /\ s.value = h.block[h.m + 1]
           /\ h.m < h.f /\ removed = h.first[h.m + 1]
  <2>1. mem'.front = mem.front
    <3>1. mem.front \in [Blocks -> Nat] /\ mem'.front \in [Blocks -> Nat]
      BY <1>1 DEF TypeInv, ConsumerDrains, Memory
    <3>2. \A b \in Blocks : mem'.front[b] = mem.front[b]
      BY <1>4, <1>8 DEF Is
    <3> QED
      BY <3>1, <3>2
  <2>2. removed' = removed
    BY <1>1, <1>8
  <2>3. mem'.block["front"] = h.block[h.m + 1]
    BY <1>4, <1>8
  <2> QED
    BY <1>5, <1>6, <1>8, <2>1, <2>2, <2>3 DEF Advanced
<1> QED
  BY <1>3, <1>7, <1>8

\* What a step does to the blocks: one of these four.
LEMMA StepEffect ==
  ASSUME TypeInv, NEW h \in History, Inv(h), [Next]_vars
  PROVE  Silent \/ (\E b : Entered(b)) \/ (\E b, end : Inserted(b, end)) \/ Advanced(h)
<1>1. CASE Enqueue
  <2>1. UNCHANGED <<consumerVars, published, removed, shape>>
    BY <1>1 DEF Enqueue
  <2>2. CASE EnqueueHere
    BY <2>1, <2>2, EnteredHere
  <2>3. CASE EnqueueReuse
    BY <2>1, <2>3, EnteredNext
  <2>4. CASE EnqueueGrow
    BY <2>1, <2>4, GrewStep
  <2>5. CASE EnqueueFull \/ EnqueueAhead \/ EnqueueRefused
    BY <2>1, <2>5, EnqueueSilent
  <2> QED
    BY <1>1, <2>2, <2>3, <2>4, <2>5 DEF Enqueue
<1>2. CASE Dequeue
  BY <1>2, DequeueSilent
<1>3. CASE Drain("producer")
  BY <1>3, ProducerDrainSilent
<1>4. CASE Drain("consumer")
  BY <1>4, ConsumerDrainAdvances
<1>5. CASE UNCHANGED vars
  BY <1>5, StutterSilent
<1> QED
  BY <1>1, <1>2, <1>3, <1>4, <1>5 DEF Next

\* The blocks that the constructor links are a circle.
LEMMA RoundAtStart ==
  ASSUME NEW n \in Nat, n >= 1, NEW next, \A b \in 0 .. n - 1 : next[b] = (b + 1) % n
  PROVE  Round(0 .. n - 1, next)
<1> SUFFICES ASSUME NEW T \in SUBSET (0 .. n - 1), T # {}, \A b \in T : next[b] \in T
             PROVE  T = 0 .. n - 1
  BY DEF Round
<1>1. \A b \in 0 .. n - 1 : (b + 1) % n = IF b = n - 1 THEN 0 ELSE b + 1
  BY CircleAtStart
<1>2. \A b \in T : b \in 0 .. n - 1 /\ (IF b = n - 1 THEN 0 ELSE b + 1) \in T
  BY <1>1
<1>3. ASSUME NEW x \in T, NEW y \in x .. n - 1 PROVE y \in T
  <2>1. x \in 0 .. n - 1
    BY <1>2
  <2> DEFINE U == {k \in Nat : x + k <= n - 1 => x + k \in T}
  <2>2. 0 \in U
    BY <2>1
  <2>3. ASSUME NEW k \in Nat, k \in U PROVE k + 1 \in U
    <3>1. SUFFICES ASSUME x + (k + 1) <= n - 1 PROVE x + (k + 1) \in T
      OBVIOUS
    <3>2. x + k \in T /\ x + k # n - 1 /\ x + (k + 1) = (x + k) + 1
      BY <2>1, <2>3, <3>1
    <3> QED
      BY <1>2, <3>2
  <2>4. Nat \subseteq U
    <3> HIDE DEF U
    <3> QED
      BY <2>2, <2>3, SetInduction
  <2>5. y - x \in Nat /\ x + (y - x) = y /\ y <= n - 1
    BY <2>1
  <2>6. y - x \in U
    BY <2>4, <2>5
  <2> QED
    BY <2>5, <2>6
<1>4. PICK x \in T : TRUE
  OBVIOUS
<1>5. n - 1 \in T
  <2>1. x \in 0 .. n - 1
    BY <1>2
  <2>2. n - 1 \in x .. n - 1
    BY <2>1
  <2> QED
    BY <1>3, <2>2
<1>6. 0 \in T
  BY <1>2, <1>5
<1> QED
  BY <1>3, <1>6

\* So the circle is one as the constructor returns.
LEMMA CircleInit ==
  ASSUME Init, Size >= 1
  PROVE  OneCircle
<1>1. /\ TypeInv /\ blocks = InitialBlockCount(MaxBlockSize, Size)
      /\ 0 .. blocks - 1 \subseteq Blocks
  BY InitTypes
<1>2. blocks \in Nat /\ blocks >= 1
  BY <1>1 DEF TypeInv
<1>3. \A b \in 0 .. blocks - 1 : NextOf(b) = (b + 1) % blocks
  <2>1. \A b \in 0 .. blocks - 1 : mem.next[b] = (b + 1) % blocks
    <3>1. mem.next = [b \in Blocks |-> IF b < blocks THEN (b + 1) % blocks ELSE 0]
      BY DEF Init
    <3>2. \A b \in 0 .. blocks - 1 : b < blocks /\ b \in Blocks
      BY <1>1, <1>2
    <3> QED
      BY <3>1, <3>2
  <2>2. pending["producer"] = <<>>
    BY DEF Init
  <2>3. \A b : NextOf(b) = mem.next[b]
    BY <2>2 DEF NextOf, Own, View
  <2> QED
    BY <2>1, <2>3
<1>4. Kept = 0 .. blocks - 1
  BY <1>1, <1>2 DEF Kept
<1>5. \A b \in 0 .. blocks - 1 : NextOn(Kept)[b] = (b + 1) % blocks
  BY <1>3, <1>4 DEF NextOn
<1> QED
  BY <1>2, <1>4, <1>5, RoundAtStart DEF OneCircle

\* The circle stays one.
LEMMA CircleStep ==
  ASSUME TypeInv, NEW h \in History, Inv(h), OneCircle, [Next]_vars
  PROVE  OneCircle'
<1>1. /\ Kept \subseteq Blocks /\ TailBlock \in Kept /\ NextOn(Kept) \in [Kept -> Kept]
      /\ \A c \in Kept : NextOn(Kept)[c] = NextOf(c)
  BY KeptFacts DEF NextOn
<1>2. CASE Kept' = Kept /\ \A c \in Blocks : NextOf(c)' = NextOf(c)
  <2>1. NextOn(Kept)' = NextOn(Kept)
    BY <1>1, <1>2 DEF NextOn
  <2> QED
    BY <1>2, <2>1 DEF OneCircle
<1>3. CASE \E b, end : Inserted(b, end)
  <2>1. PICK b, end : Inserted(b, end)
    BY <1>3
  <2> PICK S : S = Kept
    OBVIOUS
  <2> PICK next : next = NextOn(Kept)
    OBVIOUS
  <2> PICK more : more = NextOn(Kept)'
    OBVIOUS
  <2>2. /\ Kept' = S \cup {b} /\ b \notin S /\ end \in S
        /\ NextOf(end)' = b /\ NextOf(b)' = NextOf(end)
        /\ \A c \in S : c # end => NextOf(c)' = NextOf(c)
    BY <1>1, <2>1 DEF Inserted
  <2>3. \A c \in Kept' : more[c] = NextOf(c)'
    BY DEF NextOn
  <2>4. /\ more[end] = b /\ more[b] = next[end]
        /\ \A c \in S : c # end => more[c] = next[c]
    BY <1>1, <2>2, <2>3
  <2>5. next \in [S -> S] /\ Round(S, next)
    BY <1>1 DEF OneCircle
  <2>6. Round(S \cup {b}, more)
    BY <2>2, <2>4, <2>5, RoundGrows
  <2> QED
    BY <2>2, <2>6 DEF OneCircle
<1>4. Silent \/ (\E b : Entered(b)) \/ Advanced(h) => Kept' = Kept /\ \A c \in Blocks : NextOf(c)' = NextOf(c)
  BY DEF Silent, Entered, Advanced, LinksStay
<1> QED
  BY <1>2, <1>3, <1>4, StepEffect

\* The destructor reaches every block that was made but those whose first element threw:
\* whatever was put in, wherever the two ends are and whatever waits in the store buffers,
\* for every constructor argument but zero.
THEOREM BlocksKeptTheorem == Spec /\ Size >= 1 => []BlocksKept
<1>1. Init /\ Size >= 1 => OneCircle
  BY CircleInit
<1>2. IInv /\ OneCircle /\ [Next]_vars => OneCircle'
  BY CircleStep DEF IInv
<1>3. IInv /\ OneCircle => BlocksKept
  BY BlocksReached DEF IInv
<1> QED
  BY <1>1, <1>2, <1>3, Invariance, PTL DEF Spec
------------------------------------------------------------------------------
(***************************************************************************)
(* A refusal. Every block that the producer left and the consumer has not  *)
(* entered is full as memory has its front, so a producer that finds no    *)
(* block to go on to has the whole circle full.                            *)
(***************************************************************************)

\* No block is smaller than the first ones.
SizeInv ==
  /\ largestBlockSize >= FirstBlockSize(MaxBlockSize, Size)
  /\ \A b \in 0 .. blocks - 1 : blockSize[b] >= FirstBlockSize(MaxBlockSize, Size)

\* A block has no room, as memory has its front.
Full(b) == After(b, TailOf(b)) = mem.front[b]

\* The producer left a block full, and neither end touched it since: unless it is empty,
\* or the consumer is in it.
FullInv ==
  \A b \in Kept : b # TailBlock /\ b # mem.block["front"] /\ TailOf(b) # mem.front[b] => Full(b)

\* So it found the tail block as the call began.
StartInv ==
  enqPc # "idle" =>
    /\ TailBlock = mem.block["front"] \/ Full(TailBlock)
    /\ removedAtStart \in Nat /\ removedAtStart <= removed
    /\ pushed - removedAtStart >= blockSize[TailBlock] - 1

\* A new block is no smaller than the largest.
LEMMA SizeStep ==
  ASSUME TypeInv, SizeInv, [Next]_vars
  PROVE  SizeInv'
<1>1. CASE EnqueueGrow /\ shape' = shape
  <2> PICK b : b = blocks
    OBVIOUS
  <2> PICK n : n = NewBlockSize
    OBVIOUS
  <2>1. /\ blocks' = b + 1 /\ blockSize' = [blockSize EXCEPT ![b] = n] /\ largestBlockSize' = n
        /\ blocks < InitialBlockCount(MaxBlockSize, Size) + MaxNew
    BY <1>1 DEF EnqueueGrow
  <2>2. /\ b \in Nat /\ b \in Blocks /\ 0 .. blocks - 1 \subseteq Blocks
        /\ blockSize \in [Blocks -> Nat] /\ largestBlockSize \in Nat
        /\ FirstBlockSize(MaxBlockSize, Size) \in Nat
    BY <2>1, MadeBlocks, ShapeFacts DEF TypeInv, MaxBlockSize, Size
  <2>3. n >= largestBlockSize /\ n \in Nat
    BY <2>2 DEF NewBlockSize
  <2>4. n >= FirstBlockSize(MaxBlockSize, Size)
    BY <2>2, <2>3 DEF SizeInv
  <2>5. \A c \in 0 .. blocks' - 1 : c = b \/ c \in 0 .. blocks - 1
    BY <2>1, <2>2
  <2>6. \A c \in 0 .. blocks' - 1 : blockSize'[c] = n \/ (c \in 0 .. blocks - 1 /\ blockSize'[c] = blockSize[c])
    BY <2>1, <2>2, <2>5
  <2>7. \A c \in 0 .. blocks' - 1 : blockSize'[c] >= FirstBlockSize(MaxBlockSize, Size)
    BY <2>4, <2>6 DEF SizeInv
  <2> QED
    BY <1>1, <2>1, <2>4, <2>7 DEF SizeInv, MaxBlockSize, Size
<1>2. CASE UNCHANGED <<blockVars, shape>>
  BY <1>2 DEF SizeInv, blockVars, MaxBlockSize, Size
<1>3. (EnqueueGrow /\ shape' = shape) \/ UNCHANGED <<blockVars, shape>>
  BY DEF Next, Enqueue, EnqueueHere, EnqueueFull, EnqueueAhead, EnqueueReuse, EnqueueRefused,
         Dequeue, Drain, vars, growVars
<1> QED
  BY <1>1, <1>2, <1>3

\* What holds as the producer finds the tail block full.
LEMMA FullStart ==
  ASSUME TypeInv, NEW h \in History, Inv(h), EnqueueFull
  PROVE  /\ Full(TailBlock) /\ removedAtStart' = removed /\ removed \in Nat
         /\ pushed - removed >= blockSize[TailBlock] - 1
<1> PICK b : b = TailBlock
  OBVIOUS
<1>1. /\ b = h.block[h.l] /\ b \in Blocks
      /\ After(b, TailOf(b)) = h.place[h.l][pushed + 1]
      /\ mem.front[b] = h.place[h.l][LeftAt(h, h.l)]
      /\ blockSize[b] \in Nat /\ LeftAt(h, h.l) \in Nat /\ LeftAt(h, h.l) <= pushed
      /\ h.first[h.l] <= LeftAt(h, h.l) /\ h.first[h.l] \in Nat
  BY TailFacts
<1>2. After(b, TailOf(b)) = mem.front[b]
  <2>1. localFront' = [localFront EXCEPT ![b] = IF After(b, TailOf(b)) # @ THEN @ ELSE mem.front[b]]
        /\ ~HasRoom
    BY DEF EnqueueFull, FrontLooked
  <2>2. localFront \in [Blocks -> Nat]
    BY DEF TypeInv
  <2>3. localFront'[b] = IF After(b, TailOf(b)) # localFront[b] THEN localFront[b] ELSE mem.front[b]
    BY <1>1, <2>1, <2>2
  <2>4. After(b, TailOf(b)) = localFront'[b]
    BY <2>1 DEF HasRoom
  <2> QED
    BY <2>3, <2>4
<1>3. removedAtStart' = removed
  BY DEF EnqueueFull
<1>4. removed \in Nat /\ pushed \in Nat /\ h.l \in h.m .. h.l /\ h.l \in Nat /\ h.m \in Nat /\ h.m <= h.l
      /\ VisitInv(h) /\ ConsInv(h)
  BY Counts DEF Shorthands, Inv
<1>5. removed <= LeftAt(h, h.l)
  <2>1. CASE h.l = h.m
    BY <1>4, <2>1 DEF LeftAt
  <2>2. CASE h.l # h.m
    <3>1. h.m + 1 \in 0 .. h.l + 1 /\ h.l \in 0 .. h.l + 1 /\ h.m + 1 <= h.l
      BY <1>4, <2>2
    <3>2. h.first[h.m + 1] <= h.first[h.l]
      BY <1>4, <3>1 DEF VisitInv
    <3>3. removed <= h.first[h.m + 1] /\ h.first[h.m + 1] \in Nat
      BY <1>4, HistoryFacts DEF ConsInv
    <3> QED
      BY <1>1, <1>4, <3>2, <3>3
  <2> QED
    BY <2>1, <2>2
<1>6. pushed + 1 - LeftAt(h, h.l) >= blockSize[b]
  <2> PICK x : x = LeftAt(h, h.l)
    OBVIOUS
  <2>1. x \in Nat /\ x < pushed + 1 /\ pushed + 1 \in Nat
    BY <1>1, <1>4
  <2>2. h.place[h.l][x] = h.place[h.l][pushed + 1]
    BY <1>1, <1>2
  <2>3. IsRing(h.place[h.l], blockSize[b])
    BY <1>1, <1>4 DEF VisitInv
  <2>4. \A y, z \in Nat : y < z /\ h.place[h.l][y] = h.place[h.l][z] => z - y >= blockSize[b]
    BY <2>3 DEF IsRing
  <2> PICK u : u = pushed + 1
    OBVIOUS
  <2>5. x < u => u - x >= blockSize[b]
    BY <2>1, <2>2, <2>4
  <2>6. x \in Nat /\ u \in Nat /\ x < u /\ blockSize[b] \in Nat /\ pushed \in Nat
    BY <1>1, <1>4, <2>1
  <2>7. u - x >= blockSize[b]
    BY <2>5, <2>6
  <2> QED
    BY <2>6, <2>7
<1>7. pushed - removed >= blockSize[b] - 1
  BY <1>1, <1>4, <1>5, <1>6
<1> QED
  BY <1>2, <1>3, <1>4, <1>7 DEF Full

\* What the producer left and what it found hold while both ends go on.
LEMMA FullKept ==
  ASSUME TypeInv, NEW h \in History, Inv(h), FullInv, StartInv, [Next]_vars
  PROVE  FullInv' /\ StartInv'
<1>1. /\ Kept \subseteq Blocks /\ Kept \subseteq 0 .. blocks - 1 /\ TailBlock \in Kept
      /\ mem.block["front"] \in Kept
  BY KeptFacts
<1>2. removed \in Nat /\ pushed \in Nat
  BY DEF TypeInv
\* A block that nothing is done to is as full as it was.
<1>3. ASSUME NEW c \in Blocks, TailOf(c)' = TailOf(c), blockSize'[c] = blockSize[c], mem'.front[c] = mem.front[c]
      PROVE  Full(c)' <=> Full(c)
  BY <1>3 DEF Full, After
<1>4. CASE Silent
  <2>1. /\ Kept' = Kept /\ TailBlock' = TailBlock /\ pushed' = pushed
        /\ mem'.block["front"] = mem.block["front"] /\ mem'.front = mem.front /\ removed' = removed
        /\ \A c \in Blocks : TailOf(c)' = TailOf(c)
        /\ \A c \in 0 .. blocks - 1 : blockSize'[c] = blockSize[c]
    BY <1>4 DEF Silent, LinksStay, FrontsStay
  <2>2. \A c \in Kept : Full(c)' <=> Full(c)
    BY <1>1, <1>3, <2>1
  <2>3. FullInv'
    BY <1>1, <2>1, <2>2 DEF FullInv
  <2>4. StartInv'
    <3> PICK e : e = TailBlock
      OBVIOUS
    <3>1. e \in Kept /\ TailBlock' = e /\ (Full(e)' <=> Full(e)) /\ blockSize'[e] = blockSize[e]
      BY <1>1, <2>1, <2>2
    <3>2. CASE enqPc' = "idle"
      BY <3>2 DEF StartInv
    <3>3. CASE EnqueueFull
      <4>1. /\ Full(e) /\ removedAtStart' = removed
            /\ pushed - removed >= blockSize[e] - 1
        BY <3>3, FullStart
      <4>2. Full(e)' /\ removedAtStart' = removed' /\ removed' \in Nat
            /\ pushed' - removedAtStart' >= blockSize'[e] - 1
        BY <1>2, <2>1, <3>1, <4>1
      <4> QED
        BY <3>1, <4>2 DEF StartInv
    <3>4. CASE enqPc # "idle" /\ UNCHANGED removedAtStart
      BY <2>1, <3>1, <3>4 DEF StartInv
    <3> QED
      BY <1>4, <3>2, <3>3, <3>4 DEF Silent
  <2> QED
    BY <2>3, <2>4
<1>5. CASE \E b : Entered(b)
  <2>1. PICK b : Entered(b)
    BY <1>5
  <2> PICK e : e = TailBlock
    OBVIOUS
  <2>2. /\ Kept' = Kept /\ TailBlock' = b /\ enqPc' = "idle"
        /\ mem'.block["front"] = mem.block["front"] /\ mem'.front = mem.front
        /\ \A c \in Blocks : c # b => TailOf(c)' = TailOf(c)
        /\ \A c \in 0 .. blocks - 1 : blockSize'[c] = blockSize[c]
        /\ b = e \/ enqPc # "idle"
    BY <2>1 DEF Entered, FrontsStay
  <2>3. \A c \in Kept : c # b => (Full(c)' <=> Full(c)) /\ TailOf(c)' = TailOf(c)
    BY <1>1, <1>3, <2>2
  <2>4. b # e => e = mem.block["front"] \/ Full(e)
    BY <2>2 DEF StartInv
  <2>5. FullInv'
    BY <2>2, <2>3, <2>4 DEF FullInv
  <2> QED
    BY <2>2, <2>5 DEF StartInv
<1>6. CASE \E b, end : Inserted(b, end)
  <2>1. PICK b, e : Inserted(b, e)
    BY <1>6
  <2>2. /\ Kept' = Kept \cup {b} /\ b \notin Kept /\ TailBlock' = b /\ enqPc' = "idle" /\ e = TailBlock
        /\ mem'.block["front"] = mem.block["front"] /\ mem'.front = mem.front
        /\ \A c \in Kept : TailOf(c)' = TailOf(c)
        /\ \A c \in 0 .. blocks - 1 : blockSize'[c] = blockSize[c]
        /\ enqPc # "idle"
    BY <2>1 DEF Inserted, FrontsStay
  <2>3. \A c \in Kept : (Full(c)' <=> Full(c)) /\ TailOf(c)' = TailOf(c)
    BY <1>1, <1>3, <2>2
  <2>4. e = mem.block["front"] \/ Full(e)
    BY <2>2 DEF StartInv
  <2>5. FullInv'
    BY <2>2, <2>3, <2>4 DEF FullInv
  <2> QED
    BY <2>2, <2>5 DEF StartInv
<1>7. CASE Advanced(h)
  <2> PICK e : e = TailBlock
    OBVIOUS
  <2> PICK o : o = mem.block["front"]
    OBVIOUS
  <2>1. /\ Kept' = Kept /\ TailBlock' = e /\ pushed' = pushed
        /\ \A c \in Blocks : TailOf(c)' = TailOf(c)
        /\ \A c \in 0 .. blocks - 1 : blockSize'[c] = blockSize[c]
        /\ enqPc' = enqPc /\ removedAtStart' = removedAtStart
    BY <1>7 DEF Advanced, LinksStay
  <2>2. /\ removed' = removed \/ removed' = removed + 1
        /\ \A c \in Blocks : c # o => mem'.front[c] = mem.front[c]
        /\ \/ mem'.block["front"] = o
           \/ mem'.front = mem.front /\ h.m < h.f /\ removed = h.first[h.m + 1]
    BY <1>7 DEF Advanced
  <2>3. \A c \in Kept : c # o => (Full(c)' <=> Full(c))
    BY <1>1, <1>3, <2>1, <2>2
  <2>4. ASSUME mem'.block["front"] # o
        PROVE  TailOf(o) = mem.front[o] /\ o # e /\ mem'.front[o] = mem.front[o]
    <3>1. h.m < h.f /\ removed = h.first[h.m + 1] /\ mem'.front = mem.front
      BY <2>2, <2>4
    <3>2. /\ h.m \in h.m .. h.l /\ h.l \in h.m .. h.l /\ h.m \in Nat /\ h.f \in Nat /\ h.l \in Nat
          /\ h.f <= h.t /\ h.t <= h.l /\ h.t \in Nat
      BY Counts DEF Shorthands
    <3>3. o = h.block[h.m] /\ e = h.block[h.l]
      BY DEF Inv, ConsInv, ProdInv
    <3>4. TailOf(h.block[h.m]) = h.place[h.m][h.first[h.m + 1]]
      BY <3>2 DEF Inv, ProdInv
    <3>5. mem.front[h.block[h.m]] = h.place[h.m][removed]
      BY <3>2 DEF Inv, ConsInv, LeftAt
    <3>6. o # e
      <4>1. h.m # h.l
        BY <3>1, <3>2
      <4> QED
        BY <3>2, <3>3, <4>1 DEF Inv, VisitInv
    <3> QED
      BY <3>1, <3>3, <3>4, <3>5, <3>6
  <2>5. FullInv'
    <3>1. ASSUME NEW c \in Kept, c # e, c # mem'.block["front"], TailOf(c)' # mem'.front[c]
          PROVE  Full(c)'
      <4>1. TailOf(c)' = TailOf(c)
        BY <1>1, <2>1
      <4>2. c # o
        BY <2>4, <3>1, <4>1
      <4>3. mem'.front[c] = mem.front[c]
        BY <1>1, <2>2, <4>2
      <4>4. Full(c)
        BY <3>1, <4>1, <4>2, <4>3 DEF FullInv
      <4> QED
        BY <2>3, <4>2, <4>4
    <3> QED
      BY <2>1, <3>1 DEF FullInv
  <2>6. StartInv'
    <3>1. SUFFICES ASSUME enqPc # "idle" PROVE StartInv'
      BY <2>1 DEF StartInv
    <3>2. /\ e = o \/ Full(e)
          /\ removedAtStart \in Nat /\ removedAtStart <= removed
          /\ pushed - removedAtStart >= blockSize[e] - 1
      BY <3>1 DEF StartInv
    <3>3. e \in Kept /\ blockSize'[e] = blockSize[e]
      BY <1>1, <2>1
    <3>4. e = mem'.block["front"] \/ Full(e)'
      BY <2>3, <2>4, <3>2, <3>3
    <3>5. removedAtStart <= removed'
      BY <1>2, <2>2, <3>2
    <3> QED
      BY <2>1, <3>2, <3>3, <3>4, <3>5 DEF StartInv
  <2> QED
    BY <2>5, <2>6
<1> QED
  BY <1>4, <1>5, <1>6, <1>7, StepEffect

\* When the front block is next, the visits from front to tail are to all blocks.
LEMMA AllVisited ==
  ASSUME TypeInv, NEW h \in History, Inv(h), OneCircle, NextOf(TailBlock) = mem.block["front"]
  PROVE  \A b \in Kept : \E v \in h.m .. h.l : h.block[v] = b
<1> PICK S : S = Kept
  OBVIOUS
<1> PICK next : next = NextOn(Kept)
  OBVIOUS
<1> PICK T : T = {h.block[v] : v \in h.m .. h.l}
  OBVIOUS
<1>1. /\ Round(S, next) /\ \A b \in S : next[b] = NextOf(b)
      /\ \A v \in h.m .. h.l : h.block[v] \in S
  BY KeptFacts DEF OneCircle, NextOn
<1>2. /\ h.m \in Nat /\ h.l \in Nat /\ h.m \in h.m .. h.l /\ h.l \in h.m .. h.l
  BY Counts DEF Shorthands
<1>3. /\ NextOf(h.block[h.l]) = h.block[h.m]
      /\ \A v \in h.m .. h.l - 1 : NextOf(h.block[v]) = h.block[v + 1]
  BY DEF Inv, ConsInv, ProdInv
<1>4. ASSUME NEW v \in h.m .. h.l PROVE next[h.block[v]] \in T
  <2>1. next[h.block[v]] = NextOf(h.block[v])
    BY <1>1
  <2>2. CASE v = h.l
    BY <1>2, <1>3, <2>1, <2>2
  <2>3. CASE v # h.l
    <3>1. v \in h.m .. h.l - 1 /\ v + 1 \in h.m .. h.l
      BY <1>2, <2>3
    <3>2. next[h.block[v]] = h.block[v + 1]
      BY <1>3, <2>1, <3>1
    <3> QED
      BY <3>1, <3>2
  <2> QED
    BY <2>2, <2>3
<1>5. T \subseteq S /\ T # {} /\ \A b \in T : next[b] \in T
  BY <1>1, <1>2, <1>4
<1>6. T = S
  BY <1>1, <1>5 DEF Round
<1> QED
  BY <1>6

\* So there are as many visits as blocks that the constructor made, at least.
LEMMA VisitCount ==
  ASSUME TypeInv, NEW h \in History, Inv(h), OneCircle, NextOf(TailBlock) = mem.block["front"],
         NEW n \in Nat, n = InitialBlockCount(MaxBlockSize, Size)
  PROVE  h.l - h.m >= n - 1
<1> PICK A : A = 0 .. n - 1
  OBVIOUS
<1> PICK m \in Nat, l \in Nat : m = h.m /\ l = h.l
  BY HistoryFacts
<1> PICK B : B = m .. l
  OBVIOUS
<1> PICK block : block = h.block
  OBVIOUS
<1>1. \A b \in A : \E v \in B : block[v] = b
  <2>1. \A b \in A : b \in Kept
    <3>1. blocks \in Nat /\ n <= blocks
      BY DEF TypeInv
    <3> QED
      BY <3>1 DEF Kept
  <2> QED
    BY <2>1, AllVisited
<1>2. m <= l
  BY Counts DEF Shorthands
<1> DEFINE g == [b \in A |-> CHOOSE v \in B : block[v] = b]
<1>3. g \in [A -> B] /\ \A b \in A : block[g[b]] = b
  BY <1>1
<1> HIDE DEF g
<1>4. IsFiniteSet(A) /\ Cardinality(A) = n
  <2>1. n - 1 \in Int /\ 0 \in Int /\ (IF 0 > n - 1 THEN 0 ELSE n - 1 - 0 + 1) = n
    OBVIOUS
  <2>2. IsFiniteSet(0 .. n - 1) /\ Cardinality(0 .. n - 1) = IF 0 > n - 1 THEN 0 ELSE n - 1 - 0 + 1
    BY <2>1, FS_Interval
  <2> QED
    BY <2>1, <2>2
<1>5. IsFiniteSet(B) /\ Cardinality(B) = l - m + 1
  <2>1. m \in Int /\ l \in Int /\ (IF m > l THEN 0 ELSE l - m + 1) = l - m + 1
    BY <1>2
  <2>2. IsFiniteSet(m .. l) /\ Cardinality(m .. l) = IF m > l THEN 0 ELSE l - m + 1
    BY <2>1, FS_Interval
  <2> QED
    BY <2>1, <2>2
<1>6. ~(Cardinality(B) < Cardinality(A))
  <2>1. SUFFICES ASSUME Cardinality(B) < Cardinality(A) PROVE FALSE
    OBVIOUS
  <2>2. \E x, y \in A : x # y /\ g[x] = g[y]
    <3>1. IsFiniteSet(A) /\ IsFiniteSet(B) /\ g \in [A -> B]
      BY <1>3, <1>4, <1>5
    <3> QED
      BY <2>1, <3>1, FS_PigeonHole
  <2> QED
    BY <1>3, <2>2
<1> QED
  BY <1>4, <1>5, <1>6

\* Every visit but the first one fills its block.
LEMMA VisitsFull ==
  ASSUME TypeInv, NEW h \in History, Inv(h), FullInv, StartInv, enqPc # "idle",
         NEW v \in h.m + 1 .. h.l
  PROVE  h.first[v + 1] - h.first[v] >= blockSize[h.block[v]] - 1
<1> PICK b : b = h.block[v]
  OBVIOUS
<1> PICK x : x = h.first[v]
  OBVIOUS
<1> PICK y : y = h.first[v + 1]
  OBVIOUS
<1> PICK r : r = h.place[v]
  OBVIOUS
<1>1. /\ h.m \in Nat /\ h.l \in Nat /\ h.m \in h.m .. h.l /\ h.l \in h.m .. h.l
      /\ Shorthands(h) /\ VisitInv(h) /\ ConsInv(h) /\ ProdInv(h) /\ RoomInv(h)
  BY Counts DEF Shorthands, Inv
<1>2. v \in Nat /\ v \in h.m .. h.l /\ v # h.m /\ v \in 0 .. h.l /\ 0 < h.l
  BY <1>1
<1>3. /\ x \in Nat /\ y \in Nat /\ b \in Blocks /\ b \in Kept /\ blockSize[b] \in Nat
      /\ IsRing(r, blockSize[b]) /\ r[y + 1] = (r[y] + 1) % blockSize[b]
  <2>1. b \in Kept
    BY <1>2, KeptFacts
  <2>2. /\ x \in Nat /\ y \in Nat /\ b \in Blocks /\ blockSize[b] \in Nat
    BY <1>1, <1>2, VisitFacts
  <2>3. IsRing(r, blockSize[b])
    BY <1>1, <1>2 DEF VisitInv
  <2>4. r[y + 1] = (r[y] + 1) % blockSize[b]
    BY <2>2, <2>3 DEF IsRing
  <2> QED
    BY <2>1, <2>2, <2>3, <2>4
<1>4. x < y
  BY <1>1, <1>2 DEF VisitInv
<1>5. TailOf(b) = r[y]
  BY <1>1, <1>2 DEF ProdInv
<1>6. mem.front[b] = r[x] /\ y - x < blockSize[b]
  <2>1. LeftAt(h, v) = x
    BY <1>2 DEF LeftAt
  <2> QED
    BY <1>1, <1>2, <2>1 DEF ConsInv, RoomInv
<1>7. \A i, j \in Nat : i < j /\ r[i] = r[j] => j - i >= blockSize[b]
  BY <1>3 DEF IsRing
<1>8. b # mem.block["front"] /\ (b = TailBlock => v = h.l)
  <2>1. mem.block["front"] = h.block[h.m] /\ TailBlock = h.block[h.l]
    BY <1>1 DEF ConsInv, ProdInv
  <2> QED
    BY <1>1, <1>2, <2>1 DEF VisitInv
<1>9. r[y] # r[x]
  BY <1>3, <1>4, <1>6, <1>7
<1>10. Full(b)
  <2>1. CASE b = TailBlock
    BY <1>8, <2>1 DEF StartInv
  <2>2. CASE b # TailBlock
    BY <1>3, <1>5, <1>6, <1>8, <1>9, <2>2 DEF FullInv
  <2> QED
    BY <2>1, <2>2
<1>11. r[y + 1] = r[x]
  BY <1>3, <1>5, <1>6, <1>10 DEF Full, After
<1> PICK z : z = y + 1
  OBVIOUS
<1>12. z \in Nat /\ x < z /\ r[x] = r[z]
  BY <1>3, <1>4, <1>11
<1>13. z - x >= blockSize[b]
  BY <1>3, <1>7, <1>12
<1> QED
  BY <1>3, <1>12, <1>13

\* What a run of visits of at least so many elements each comes to.
LEMMA RunOfVisits ==
  ASSUME NEW first \in [Nat -> Nat], NEW size \in Nat, NEW a \in Nat, NEW b \in Nat, a <= b,
         \A v \in a + 1 .. b : first[v + 1] - first[v] >= size
  PROVE  first[b + 1] - first[a + 1] >= (b - a) * size
<1> DEFINE S == {k \in Nat : a + k <= b => first[a + k + 1] - first[a + 1] >= k * size}
<1>1. 0 \in S
  <2>1. a + 0 + 1 = a + 1 /\ 0 * size = 0 /\ first[a + 1] \in Nat
    OBVIOUS
  <2>2. first[a + 0 + 1] - first[a + 1] >= 0 * size
    BY <2>1
  <2> QED
    BY <2>2
<1>2. ASSUME NEW k \in Nat, k \in S PROVE k + 1 \in S
  <2>1. SUFFICES ASSUME a + (k + 1) <= b
                 PROVE  first[a + (k + 1) + 1] - first[a + 1] >= (k + 1) * size
    OBVIOUS
  <2>2. a + k <= b
    BY <2>1
  <2>3. first[a + k + 1] - first[a + 1] >= k * size
    BY <1>2, <2>2
  <2> PICK v : v = a + k + 1
    OBVIOUS
  <2>4. v \in a + 1 .. b /\ v \in Nat /\ a + (k + 1) + 1 = v + 1 /\ v + 1 \in Nat
    BY <2>1
  <2>5. first[v + 1] - first[v] >= size
    BY <2>4
  <2>6. (k + 1) * size = k * size + size /\ k * size \in Nat
    OBVIOUS
  <2>7. first[v] \in Nat /\ first[v + 1] \in Nat /\ first[a + 1] \in Nat
    BY <2>4
  <2>8. first[v] - first[a + 1] >= k * size
    BY <2>3
  <2>9. first[v + 1] - first[a + 1] >= k * size + size
    BY <2>5, <2>6, <2>7, <2>8
  <2> QED
    BY <2>4, <2>6, <2>9
<1>3. Nat \subseteq S
  <2> HIDE DEF S
  <2> QED
    BY <1>1, <1>2, SetInduction
<1>4. b - a \in Nat /\ a + (b - a) = b
  OBVIOUS
<1>5. b - a \in S
  BY <1>3, <1>4
<1> QED
  BY <1>4, <1>5

\* How many blocks a large queue begins with.
LEMMA CountOfBlocks ==
  ASSUME NEW max \in Nat, max >= 2, NEW size \in Nat, size >= 1, Large(max, size),
         NEW n \in Nat, n = InitialBlockCount(max, size)
  PROVE  (n - 1) * (max - 1) >= size
<1> PICK d \in Nat \ {0} : d = max - 1
  OBVIOUS
<1> PICK x \in Int : x = size + 2 * max - 3
  OBVIOUS
<1>1. n = x \div d
  BY DEF InitialBlockCount
<1>2. x = d * (x \div d) + (x % d) /\ x % d \in 0 .. d - 1
  BY DivMod
<1>3. x = d * n + (x % d)
  BY <1>1, <1>2
<1>4. x = size + 2 * d - 1
  OBVIOUS
<1>5. d * n >= size + d
  <2> PICK r : r = x % d
    OBVIOUS
  <2>1. r \in 0 .. d - 1 /\ x = d * n + r
    BY <1>2, <1>3
  <2> QED
    BY <1>4, <2>1
<1>6. (n - 1) * d = d * n - d
  OBVIOUS
<1>7. d * n \in Nat
  OBVIOUS
<1>8. (n - 1) * d >= size
  BY <1>5, <1>6, <1>7
<1> QED
  BY <1>8

\* A call that is refused found so many elements in the queue as it began.
LEMMA RefusedFull ==
  ASSUME TypeInv, NEW h \in History, Inv(h), OneCircle, SizeInv, FullInv, StartInv, EnqueueRefused
  PROVE  pushed - removedAtStart >= Size
<1> PICK e : e = TailBlock
  OBVIOUS
<1> PICK n : n = InitialBlockCount(MaxBlockSize, Size)
  OBVIOUS
<1> PICK max : max = MaxBlockSize
  OBVIOUS
<1>1. /\ max \in Nat /\ max >= 2 /\ Size \in Nat /\ Size >= 1 /\ n \in Nat
      /\ FirstBlockSize(max, Size) \in Nat
  BY ShapeFacts DEF TypeInv, MaxBlockSize, Size
<1>2. enqPc # "idle" /\ NextOf(TailBlock) = mem.block["front"]
  BY DEF EnqueueRefused, BlockAhead
<1>3. /\ removedAtStart \in Nat /\ removedAtStart <= removed
      /\ pushed - removedAtStart >= blockSize[e] - 1
  BY <1>2 DEF StartInv
<1>4. pushed \in Nat /\ removed \in Nat
  BY DEF TypeInv
<1>5. \A b \in 0 .. blocks - 1 : blockSize[b] >= FirstBlockSize(max, Size) /\ blockSize[b] \in Nat
  <2>1. \A b \in 0 .. blocks - 1 : blockSize[b] \in Nat
    BY MadeBlocks DEF TypeInv
  <2> QED
    BY <2>1 DEF SizeInv
<1>6. CASE ~Large(max, Size)
  <2>1. FirstBlockSize(max, Size) >= Size + 1
    BY <1>1, <1>6, CeilToPow2Above DEF FirstBlockSize
  <2>2. e \in 0 .. blocks - 1
    BY KeptFacts
  <2>3. blockSize[e] >= Size + 1 /\ blockSize[e] \in Nat
    BY <1>1, <1>5, <2>1, <2>2
  <2> QED
    BY <1>1, <1>3, <1>4, <2>3
<1>7. CASE Large(max, Size)
  <2> PICK m \in Nat, l \in Nat : m = h.m /\ l = h.l
    BY HistoryFacts
  <2> PICK first : first = h.first
    OBVIOUS
  <2> PICK d : d = max - 1
    OBVIOUS
  <2>1. d \in Nat /\ FirstBlockSize(max, Size) = d + 1
    BY <1>1, <1>7 DEF FirstBlockSize
  <2>2. first \in [Nat -> Nat] /\ m <= l /\ first[l + 1] = pushed /\ removed <= first[m + 1]
    BY Counts, HistoryFacts DEF Shorthands, Inv, VisitInv, ConsInv
  <2>3. l - m >= n - 1
    BY <1>1, <1>2, VisitCount
  <2>4. \A v \in m + 1 .. l : first[v + 1] - first[v] >= d
    <3>1. SUFFICES ASSUME NEW v \in m + 1 .. l PROVE first[v + 1] - first[v] >= d
      OBVIOUS
    <3>2. first[v + 1] - first[v] >= blockSize[h.block[v]] - 1
      BY <1>2, VisitsFull
    <3>3. h.block[v] \in 0 .. blocks - 1
      <4>1. v \in h.m .. h.l
        OBVIOUS
      <4> QED
        BY <4>1, KeptFacts
    <3>4. blockSize[h.block[v]] >= d + 1 /\ blockSize[h.block[v]] \in Nat
      BY <1>5, <2>1, <3>3
    <3>5. first[v + 1] \in Nat /\ first[v] \in Nat
      BY <2>2
    <3> QED
      BY <2>1, <3>2, <3>4, <3>5
  <2>5. first[l + 1] - first[m + 1] >= (l - m) * d
    BY <2>1, <2>2, <2>4, RunOfVisits
  <2>6. (n - 1) * d >= Size
    BY <1>1, <1>7, CountOfBlocks
  <2>7. (l - m) * d >= (n - 1) * d
    <3>1. \A x, y \in Int : x >= y => x * d >= y * d
      BY <2>1
    <3>2. l - m \in Int /\ n - 1 \in Int
      BY <1>1
    <3> QED
      BY <2>3, <3>1, <3>2
  <2>8. first[l + 1] - first[m + 1] >= Size
    <3>1. (l - m) * d \in Int /\ (n - 1) * d \in Int /\ first[l + 1] \in Nat /\ first[m + 1] \in Nat
      BY <1>1, <2>1, <2>2
    <3> QED
      BY <1>1, <2>5, <2>6, <2>7, <3>1
  <2>9. first[m + 1] \in Nat
    BY <2>2
  <2> QED
    BY <1>1, <1>3, <1>4, <2>2, <2>8, <2>9
<1> QED
  BY <1>6, <1>7

\* What the three parts are as the constructor returns.
LEMMA FullInit ==
  ASSUME Init, Size >= 1
  PROVE  SizeInv /\ FullInv /\ StartInv
<1>1. /\ TypeInv /\ 0 .. blocks - 1 \subseteq Blocks
      /\ \A b \in 0 .. blocks - 1 : blockSize[b] = largestBlockSize
  BY InitTypes
<1>2. largestBlockSize = FirstBlockSize(MaxBlockSize, Size) /\ largestBlockSize \in Nat /\ enqPc = "idle"
  BY <1>1 DEF Init, TypeInv
<1>3. SizeInv
  BY <1>1, <1>2 DEF SizeInv
<1>4. FullInv
  <2>1. \A b \in Blocks : TailOf(b) = mem.front[b]
    <3>1. pending["producer"] = <<>>
      BY DEF Init
    <3>2. \A b : TailOf(b) = mem.tail[b]
      BY <3>1 DEF TailOf, Own, View
    <3>3. \A b \in Blocks : mem.tail[b] = mem.front[b]
      BY DEF Init
    <3> QED
      BY <3>2, <3>3
  <2>2. Kept \subseteq Blocks
    BY <1>1 DEF Kept
  <2> QED
    BY <2>1, <2>2 DEF FullInv
<1> QED
  BY <1>2, <1>3, <1>4 DEF StartInv

\* Which steps are a call that is refused.
LEMMA RefusedStepIs ==
  ASSUME TypeInv, Next, enqPc = "next", enqPc' = "idle", pushed' = pushed, blocks' = blocks
  PROVE  EnqueueRefused
<1>1. blocks \in Nat
  BY DEF TypeInv
<1>2. CASE Enqueue
  BY <1>1, <1>2 DEF Enqueue, EnqueueHere, EnqueueFull, EnqueueAhead, EnqueueReuse, EnqueueGrow
<1>3. CASE Dequeue
  BY <1>3 DEF Dequeue, producerVars
<1>4. CASE \E t \in {"producer", "consumer"} : Drain(t)
  BY <1>4 DEF Drain, producerVars
<1> QED
  BY <1>2, <1>3, <1>4 DEF Next

\* try_enqueue is refused only if the queue held the elements that the constructor was
\* asked to have room for (one or more) as the call began, however many blocks there are and
\* wherever the consumer has gone since.
THEOREM RefusesOnlyWhenFullTheorem == Spec /\ Size >= 1 => RefusesOnlyWhenFull
<1> DEFINE Fills == IInv /\ OneCircle /\ SizeInv /\ FullInv /\ StartInv
<1>1. Init /\ Size >= 1 => Fills
  BY InitInv, CircleInit, FullInit
<1>2. Fills /\ [Next]_vars => Fills'
  <2>1. IInv /\ OneCircle /\ SizeInv /\ FullInv /\ StartInv /\ [Next]_vars
        => IInv' /\ OneCircle' /\ SizeInv' /\ FullInv' /\ StartInv'
    BY StepInv, CircleStep, SizeStep, FullKept DEF IInv
  <2> QED
    BY <2>1
<1>3. Fills /\ [Next]_vars =>
        [enqPc = "next" /\ enqPc' = "idle" /\ pushed' = pushed /\ blocks' = blocks =>
           pushed - removedAtStart >= Size]_vars
  BY RefusedFull, RefusedStepIs DEF IInv
<1> HIDE DEF Fills
<1>4. Spec /\ Size >= 1 => []Fills
  BY <1>1, <1>2, PTL DEF Spec
<1> QED
  BY <1>3, <1>4, PTL DEF Spec, RefusesOnlyWhenFull
------------------------------------------------------------------------------
(***************************************************************************)
(* Lifetimes. The live slots are those of the elements from popped to      *)
(* pushed, one each; and going round a quiet queue finds the blocks of the *)
(* visits with these elements, and other blocks empty.                     *)
(***************************************************************************)

\* An element of the queue belongs to a visit from the front one on.
LEMMA VisitOf ==
  ASSUME TypeInv, NEW h \in History, Inv(h), NEW n \in popped .. pushed - 1
  PROVE  \E v \in h.f .. h.l : In(h, v, n)
<1> PICK f \in Nat, l \in Nat : f = h.f /\ l = h.l
  BY HistoryFacts
<1> PICK first : first = h.first
  OBVIOUS
<1>1. /\ first \in [Nat -> Nat] /\ f <= l /\ first[l + 1] = pushed /\ first[f] <= popped
      /\ popped \in Nat /\ pushed \in Nat
  <2>1. first[l + 1] = pushed
    BY DEF Inv, VisitInv
  <2> QED
    BY <2>1, Counts, HistoryFacts DEF Shorthands
<1> DEFINE S == {v \in Nat : f <= v /\ n < first[v + 1]}
<1>2. l \in S
  BY <1>1
<1>3. S \subseteq Nat /\ S # {}
  BY <1>2
<1>4. PICK v \in S : \A w \in S : v <= w
  <2> HIDE DEF S
  <2> QED
    BY <1>3, LeastExists
<1>5. v \in Nat /\ f <= v /\ v <= l /\ n < first[v + 1] /\ n \in Nat
  BY <1>1, <1>2, <1>4
<1>6. first[v] <= n
  <2>1. CASE v = f
    BY <1>1, <1>5, <2>1
  <2>2. CASE v # f
    <3>1. v - 1 \in Nat /\ f <= v - 1 /\ (v - 1) + 1 = v /\ ~(v <= v - 1)
      BY <1>5, <2>2
    <3>2. v - 1 \notin S
      BY <1>4, <3>1
    <3>3. ~(n < first[v])
      BY <3>1, <3>2
    <3>4. first[v] \in Nat
      BY <1>1, <1>5
    <3> QED
      BY <1>5, <3>3, <3>4
  <2> QED
    BY <2>1, <2>2
<1>7. v \in h.f .. h.l
  BY <1>5
<1> QED
  BY <1>5, <1>6, <1>7 DEF In

\* What is known of an element that is in the queue.
LEMMA QueuedFacts ==
  ASSUME TypeInv, NEW h \in History, Inv(h), NEW v \in h.f .. h.l, NEW n \in Nat, In(h, v, n), popped <= n
  PROVE  /\ <<h.block[v], h.place[v][n]>> \in live /\ n \in popped .. pushed - 1
         /\ v \in h.m .. h.l /\ v \in 0 .. h.l /\ LeftAt(h, v) <= n /\ n <= h.first[v + 1]
<1>1. /\ Shorthands(h) /\ VisitInv(h) /\ DataInv(h) /\ RoomInv(h)
      /\ pushed \in Nat /\ popped \in Nat /\ removed \in Nat /\ removed <= popped
  BY Counts DEF Inv
<1>2. /\ h.m \in Nat /\ h.f \in Nat /\ h.l \in Nat /\ h.m <= h.f /\ v \in h.m .. h.l /\ v \in 0 .. h.l
      /\ v + 1 \in 0 .. h.l + 1 /\ h.l + 1 \in 0 .. h.l + 1 /\ v + 1 <= h.l + 1
  BY <1>1 DEF Shorthands
<1>3. <<h.block[v], h.place[v][n]>> \in live
  BY <1>1 DEF DataInv
<1>4. h.first[v] <= n /\ n < h.first[v + 1] /\ h.first[v] \in Nat /\ h.first[v + 1] \in Nat
  BY <1>2, HistoryFacts DEF In
<1>5. h.first[v + 1] <= pushed
  <2>1. h.first[v + 1] <= h.first[h.l + 1] /\ h.first[h.l + 1] = pushed
    BY <1>1, <1>2 DEF VisitInv
  <2> QED
    BY <2>1
<1>6. LeftAt(h, v) <= n
  BY <1>1, <1>4 DEF LeftAt
<1>7. n \in popped .. pushed - 1
  BY <1>1, <1>4, <1>5
<1> QED
  BY <1>2, <1>3, <1>4, <1>6, <1>7

\* There are as many objects as elements.
LEMMA LiveCount ==
  ASSUME TypeInv, NEW h \in History, Inv(h)
  PROVE  Cardinality(live) = pushed - popped
<1> PICK A : A = popped .. pushed - 1
  OBVIOUS
<1> PICK L : L = live
  OBVIOUS
<1>1. popped \in Nat /\ pushed \in Nat /\ popped <= pushed /\ Shorthands(h) /\ VisitInv(h) /\ RoomInv(h)
  BY Counts DEF Inv
<1> DEFINE Visit(n) == CHOOSE v \in h.f .. h.l : In(h, v, n)
<1> DEFINE Slot(n) == <<h.block[Visit(n)], h.place[Visit(n)][n]>>
<1>2. \A n \in A : Visit(n) \in h.f .. h.l /\ In(h, Visit(n), n)
  BY VisitOf
<1>3. \A n \in A : n \in Nat /\ popped <= n
  BY <1>1
<1> DEFINE F == [n \in A |-> Slot(n)]
<1>4. ASSUME NEW n \in A PROVE Slot(n) \in L
  <2>1. Visit(n) \in h.f .. h.l /\ In(h, Visit(n), n) /\ n \in Nat /\ popped <= n
    BY <1>2, <1>3
  <2> HIDE DEF Visit
  <2> QED
    BY <2>1, QueuedFacts
<1>5. ASSUME NEW x \in A, NEW y \in A, Slot(x) = Slot(y) PROVE x = y
  <2>1. /\ Visit(x) \in h.f .. h.l /\ In(h, Visit(x), x) /\ x \in Nat /\ popped <= x
        /\ Visit(y) \in h.f .. h.l /\ In(h, Visit(y), y) /\ y \in Nat /\ popped <= y
    BY <1>2, <1>3
  <2> HIDE DEF Visit
  <2>2. PICK v, w : v = Visit(x) /\ w = Visit(y)
    OBVIOUS
  <2>3. /\ v \in h.m .. h.l /\ LeftAt(h, v) <= x /\ x <= h.first[v + 1]
        /\ w \in h.m .. h.l /\ LeftAt(h, w) <= y /\ y <= h.first[w + 1]
    BY <2>1, <2>2, QueuedFacts
  <2>4. h.block[v] = h.block[w] /\ h.place[v][x] = h.place[w][y]
    BY <1>5, <2>2
  <2>5. v = w
    BY <1>1, <2>3, <2>4 DEF VisitInv
  <2>6. x <= y \/ y <= x
    BY <2>1
  <2> QED
    BY <1>1, <2>1, <2>3, <2>4, <2>5, <2>6, Apart
<1>6. ASSUME NEW s \in L PROVE \E n \in A : Slot(n) = s
  <2>1. PICK v \in h.f .. h.l, n \in Nat : In(h, v, n) /\ popped <= n /\ s = <<h.block[v], h.place[v][n]>>
    BY DEF Inv, LiveInv
  <2>2. n \in A /\ v \in 0 .. h.l
    BY <2>1, QueuedFacts
  <2>3. Visit(n) \in h.f .. h.l /\ In(h, Visit(n), n)
    BY <1>2, <2>2
  <2> HIDE DEF Visit
  <2>4. Visit(n) \in 0 .. h.l
    BY <1>1, <2>3 DEF Shorthands
  <2>5. Visit(n) = v
    BY <1>1, <2>1, <2>2, <2>3, <2>4, OneVisit
  <2> QED
    BY <2>1, <2>2, <2>5
<1>7. F \in Bijection(A, L)
  <2> HIDE DEF Slot
  <2>1. F \in [A -> L]
    BY <1>4
  <2>2. \A x, y \in A : F[x] = F[y] => x = y
    BY <1>5
  <2>3. \A s \in L : \E n \in A : F[n] = s
    BY <1>6
  <2> HIDE DEF F
  <2> QED
    BY <2>1, <2>2, <2>3 DEF Bijection, Injection, Surjection, IsInjective
<1> HIDE DEF F, Slot, Visit
<1>8. IsFiniteSet(A) /\ Cardinality(A) = pushed - popped
  <2> PICK p \in Int, q \in Int : p = popped /\ q = pushed - 1
    BY <1>1
  <2>1. IsFiniteSet(p .. q) /\ Cardinality(p .. q) = IF p > q THEN 0 ELSE q - p + 1
    BY FS_Interval
  <2>2. (IF p > q THEN 0 ELSE q - p + 1) = pushed - popped
    BY <1>1
  <2> QED
    BY <2>1, <2>2
<1>9. ExistsBijection(A, L)
  BY <1>7 DEF ExistsBijection
<1>10. Cardinality(L) = Cardinality(A)
  BY <1>8, <1>9, FS_Bijection
<1> QED
  BY <1>8, <1>10

\* Where a ring is some places on, and how many that is.
LEMMA RingOn ==
  ASSUME NEW size \in Nat \ {0}, NEW r, IsRing(r, size), NEW x \in Nat, NEW d \in Nat
  PROVE  r[x + d] = (r[x] + d) % size
<1> DEFINE S == {k \in Nat : r[x + k] = (r[x] + k) % size}
<1>1. 0 \in S
  <2>1. r[x] \in 0 .. size - 1
    BY DEF IsRing
  <2>2. (r[x] + 0) % size = r[x] /\ x + 0 = x
    BY <2>1, ModSmall
  <2> QED
    BY <2>2
<1>2. ASSUME NEW k \in Nat, k \in S PROVE k + 1 \in S
  <2>1. r[x + k] = (r[x] + k) % size
    BY <1>2
  <2>2. r[x] \in 0 .. size - 1
    BY DEF IsRing
  <2> PICK y : y = x + k
    OBVIOUS
  <2>3. y \in Nat /\ x + (k + 1) = y + 1
    OBVIOUS
  <2>4. r[y + 1] = (r[y] + 1) % size
    BY <2>3 DEF IsRing
  <2>5. (((r[x] + k) % size) + 1) % size = ((r[x] + k) + 1) % size
    <3> PICK c \in Int : c = r[x] + k
      BY <2>2
    <3>1. ((c % size) + 1) % size = (c + 1) % size
      BY ModSucc
    <3> QED
      BY <3>1
  <2>6. (r[x] + k) + 1 = r[x] + (k + 1)
    BY <2>2
  <2>7. r[x + (k + 1)] = (r[x] + (k + 1)) % size
    BY <2>1, <2>3, <2>4, <2>5, <2>6
  <2> QED
    BY <2>7
<1>3. Nat \subseteq S
  <2> HIDE DEF S
  <2> QED
    BY <1>1, <1>2, SetInduction
<1> QED
  BY <1>3

\* The distance of two places in a ring, from their slots.
LEMMA RingDistance ==
  ASSUME NEW size \in Nat \ {0}, NEW r, IsRing(r, size), NEW x \in Nat, NEW y \in Nat,
         x <= y, y - x < size
  PROVE  (r[y] - r[x]) % size = y - x
<1> PICK d \in Nat : d = y - x
  OBVIOUS
<1> PICK p \in 0 .. size - 1 : p = r[x]
  BY DEF IsRing
<1>1. x + d = y
  OBVIOUS
<1>2. r[y] = (p + d) % size
  <2>1. \A c \in Nat : r[x + c] = (r[x] + c) % size
    BY RingOn
  <2>2. r[x + d] = (r[x] + d) % size
    BY <2>1
  <2> QED
    BY <1>1, <2>2
<1>3. p % size = p
  BY ModSmall
<1>4. 0 <= (p + d) - p /\ (p + d) - p < size /\ (p + d) - p = d /\ p + d \in Int /\ p \in Int
  OBVIOUS
<1>5. (((p + d) % size) - (p % size)) % size = (p + d) - p
  BY <1>4, ModDifference
<1> QED
  BY <1>2, <1>3, <1>4, <1>5

\* The slots of a run of elements in a block, from the first on.
SlotsFrom(b, r, size, x, y) ==
  {<<b, (r[x] + j) % size>> : j \in 0 .. (y - x) - 1}
  = {<<b, r[n]>> : n \in {k \in Nat : x <= k /\ k < y}}

\* They follow each other.
LEMMA RingSlots ==
  ASSUME NEW size \in Nat \ {0}, NEW r, IsRing(r, size), NEW x \in Nat, NEW y \in Nat, x <= y, NEW b
  PROVE  SlotsFrom(b, r, size, x, y)
<1>1. \A j \in 0 .. (y - x) - 1 : r[x + j] = (r[x] + j) % size
  <2>1. \A c \in Nat : r[x + c] = (r[x] + c) % size
    BY RingOn
  <2> QED
    BY <2>1
<1>2. \A j \in 0 .. (y - x) - 1 : x + j \in {k \in Nat : x <= k /\ k < y}
  OBVIOUS
<1>3. \A n \in {k \in Nat : x <= k /\ k < y} : n - x \in 0 .. (y - x) - 1 /\ x + (n - x) = n
  OBVIOUS
<1> QED
  BY <1>1, <1>2, <1>3 DEF SlotsFrom

\* No call is under way and no store is waiting.
Quiet == enqPc = "idle" /\ deqPc = "idle" /\ \A t \in DOMAIN pending : pending[t] = <<>>

\* Then memory has the queue as the two threads know it.
LEMMA QuietEnds ==
  ASSUME TypeInv, NEW h \in History, Inv(h), Quiet
  PROVE  /\ published = pushed /\ removed = popped /\ h.m = h.f /\ h.t = h.l
         /\ \A c : FrontOf(c) = mem.front[c] /\ TailOf(c) = mem.tail[c] /\ NextOf(c) = mem.next[c]
<1>1. /\ Shorthands(h) /\ VisitInv(h) /\ ProdInv(h) /\ ToPublishInv(h) /\ ToRemoveInv(h)
      /\ pushed \in Nat /\ published \in Nat /\ popped \in Nat /\ removed \in Nat
      /\ removed <= popped /\ published <= pushed
  BY Counts DEF Inv
<1>2. Pp = <<>> /\ Pc = <<>> /\ pending["producer"] = <<>> /\ pending["consumer"] = <<>>
  BY DEF Quiet, TypeInv, Threads, Pp, Pc
<1>3. 1 .. Len(Pp) = {} /\ 1 .. Len(Pc) = {}
  BY <1>2
<1>4. published = pushed
  <2>1. published .. pushed - 1 = {}
    BY <1>1, <1>3 DEF ToPublishInv
  <2> QED
    BY <1>1, <2>1
<1>5. removed = popped
  <2>1. removed .. popped - 1 = {}
    BY <1>1, <1>3 DEF ToRemoveInv
  <2> QED
    BY <1>1, <2>1
<1>6. h.m = h.f
  <2>1. h.m + 1 .. h.f = {}
    BY <1>1, <1>3 DEF ToRemoveInv
  <2>2. h.m \in Nat /\ h.f \in Nat /\ h.m <= h.f
    BY <1>1 DEF Shorthands
  <2> QED
    BY <2>1, <2>2
<1>7. h.t = h.l
  <2> PICK t \in Nat, l \in Nat : t = h.t /\ l = h.l /\ t <= l
    BY <1>1 DEF Shorthands
  <2> SUFFICES ASSUME t < l PROVE FALSE
    OBVIOUS
  <2>1. t + 1 \in 0 .. l + 1 /\ l \in 0 .. l + 1 /\ t + 1 <= l /\ l \in 0 .. l /\ 0 < l
    OBVIOUS
  <2>2. h.first[t + 1] <= h.first[l] /\ h.first[l] < h.first[l + 1] /\ h.first[l + 1] = pushed
    BY <1>1, <2>1 DEF VisitInv
  <2>3. published <= h.first[t + 1]
    BY <1>1 DEF ProdInv
  <2>4. h.first[t + 1] \in Nat /\ h.first[l] \in Nat
    <3>1. h.first \in [Nat -> Nat]
      BY HistoryFacts
    <3> QED
      BY <3>1
  <2> QED
    BY <1>1, <1>4, <2>2, <2>3, <2>4
<1>8. \A c : FrontOf(c) = mem.front[c] /\ TailOf(c) = mem.tail[c] /\ NextOf(c) = mem.next[c]
  <2>1. \A var, at : View(mem, <<>>, var, at) = mem[var][at]
    <3>1. \A var, at : {k \in DOMAIN <<>> : <<>>[k].var = var /\ <<>>[k].at = at} = {}
      OBVIOUS
    <3> QED
      BY <3>1 DEF View
  <2> QED
    BY <1>2, <2>1 DEF FrontOf, TailOf, NextOf, Own
<1> QED
  BY <1>4, <1>5, <1>6, <1>7, <1>8

\* The destructor goes round all blocks that are not lost.
LEMMA QuietRound ==
  ASSUME TypeInv, NEW h \in History, Inv(h), OneCircle, Quiet
  PROVE  {BlockAt[k] : k \in 0 .. blocks} = Kept
<1> PICK S : S = Kept
  OBVIOUS
<1> PICK next : next = NextOn(Kept)
  OBVIOUS
<1> PICK a : a = FrontBlock
  OBVIOUS
<1> PICK n \in Nat : n = blocks
  BY DEF TypeInv
<1>1. /\ S \subseteq 0 .. n - 1 /\ a \in S /\ next \in [S -> S] /\ Round(S, next)
      /\ \A b \in S : next[b] = mem.next[b]
  BY KeptFacts, QuietEnds DEF OneCircle, NextOn
<1> DEFINE IsRound(f) == f = [k \in 0 .. n |-> IF k = 0 THEN a ELSE mem.next[f[k - 1]]]
<1>2. \E f : IsRound(f)
  <2>1. PICK f : IsWalk(f, n, S, a, next)
    BY <1>1, WalkExists
  <2>2. f \in [0 .. n -> S] /\ \A k \in 0 .. n : f[k] = IF k = 0 THEN a ELSE next[f[k - 1]]
    BY <2>1 DEF IsWalk
  <2>3. \A k \in 0 .. n : k # 0 => k - 1 \in 0 .. n
    OBVIOUS
  <2>4. \A k \in 0 .. n : f[k] = IF k = 0 THEN a ELSE mem.next[f[k - 1]]
    BY <1>1, <2>2, <2>3
  <2>5. IsRound(f)
    BY <2>2, <2>4
  <2> QED
    BY <2>5
<1> DEFINE round == CHOOSE f : IsRound(f)
<1>3. BlockAt = round
  BY DEF BlockAt
<1>3a. IsRound(round)
  BY <1>2
<1> HIDE DEF round
<1> PICK f : f = round
  OBVIOUS
<1>4. f = [k \in 0 .. n |-> IF k = 0 THEN a ELSE mem.next[f[k - 1]]]
  BY <1>3a
<1>4a. \A k \in 0 .. n : f[k] = IF k = 0 THEN a ELSE mem.next[f[k - 1]]
  BY <1>4
<1>5. IsWalk(f, n, S, a, next)
  <2> DEFINE T == {k \in Nat : k <= n => f[k] \in S}
  <2>1. 0 \in T
    BY <1>1, <1>4
  <2>2. ASSUME NEW k \in Nat, k \in T PROVE k + 1 \in T
    <3>1. SUFFICES ASSUME k + 1 <= n PROVE f[k + 1] \in S
      BY <2>2
    <3>2. k \in 0 .. n /\ k + 1 \in 0 .. n /\ k + 1 # 0 /\ (k + 1) - 1 = k
      BY <3>1
    <3>3. f[k + 1] = mem.next[f[k]]
      BY <1>4a, <3>2
    <3>4. f[k] \in S
      BY <2>2, <3>2
    <3> QED
      BY <1>1, <3>3, <3>4
  <2>3. Nat \subseteq T
    <3> HIDE DEF T
    <3> QED
      BY <2>1, <2>2, SetInduction
  <2>4. \A k \in 0 .. n : f[k] \in S
    <3>1. \A k \in 0 .. n : k \in T /\ k <= n
      BY <2>3
    <3> QED
      BY <3>1
  <2>5. \A k \in 0 .. n : k # 0 => k - 1 \in 0 .. n
    OBVIOUS
  <2>6. ASSUME NEW k \in 0 .. n PROVE f[k] = IF k = 0 THEN a ELSE next[f[k - 1]]
    <3>1. CASE k = 0
      BY <1>4a, <3>1
    <3>2. CASE k # 0
      <4>1. f[k - 1] \in S
        BY <2>4, <2>5, <3>2
      <4>2. next[f[k - 1]] = mem.next[f[k - 1]]
        BY <1>1, <4>1
      <4>3. f[k] = mem.next[f[k - 1]]
        BY <1>4a, <3>2
      <4> QED
        BY <3>2, <4>2, <4>3
    <3> QED
      BY <3>1, <3>2
  <2>7. f \in [0 .. n -> S]
    BY <1>4, <2>4
  <2> QED
    BY <2>6, <2>7 DEF IsWalk
<1>6. GetsTo(n, f, S)
  <2>1. GoesRound(n, S, next, a, f)
    BY <1>1, <1>5 DEF GoesRound
  <2> QED
    BY <2>1, RoundWalk
<1> QED
  BY <1>3, <1>6 DEF GetsTo

\* In a block of the queue it finds the elements that the visit left.
LEMMA QuietVisit ==
  ASSUME TypeInv, NEW h \in History, Inv(h), Quiet, NEW v \in h.f .. h.l
  PROVE  {SlotAt(h.block[v], j) : j \in 0 .. Count(h.block[v]) - 1}
         = {<<h.block[v], h.place[v][n]>> : n \in {k \in Nat : In(h, v, k) /\ popped <= k}}
<1> PICK b : b = h.block[v]
  OBVIOUS
<1> PICK r : r = h.place[v]
  OBVIOUS
<1> PICK size : size = blockSize[b]
  OBVIOUS
<1> PICK x : x = FrontAt(h, v)
  OBVIOUS
<1> PICK y : y = h.first[v + 1]
  OBVIOUS
<1>1. /\ Shorthands(h) /\ VisitInv(h) /\ ConsInv(h) /\ ProdInv(h) /\ RoomInv(h)
      /\ popped \in Nat /\ h.first[h.f] <= popped /\ popped <= h.first[h.f + 1]
  BY Counts DEF Inv
<1>2. /\ published = pushed /\ removed = popped /\ h.m = h.f /\ h.t = h.l
      /\ \A c : FrontOf(c) = mem.front[c]
  BY QuietEnds
<1>3. /\ v \in h.m .. h.l /\ v \in h.m .. h.t /\ v \in Nat /\ h.f \in Nat /\ h.l \in Nat /\ h.f <= v
      /\ v <= h.l
  BY <1>1, <1>2 DEF Shorthands
<1>4. /\ size \in Nat \ {0} /\ IsRing(r, size) /\ h.first[v] \in Nat /\ y \in Nat /\ h.first[v] <= y
  <2>1. /\ size \in Nat /\ size >= 2 /\ h.first[v] \in Nat /\ y \in Nat /\ h.first[v] <= y
    BY <1>1, <1>3, VisitFacts
  <2>2. IsRing(r, size)
    BY <1>1, <1>3 DEF VisitInv
  <2> QED
    BY <2>1, <2>2
<1>5. FrontOf(b) = r[x]
  BY <1>1, <1>3 DEF ConsInv
<1>6. mem.tail[b] = r[y]
  <2>1. mem.tail[b] = r[IF v < h.t THEN h.first[v + 1] ELSE published]
    BY <1>1, <1>3 DEF ProdInv
  <2>2. ~(v < h.t) => y = published
    BY <1>1, <1>2, <1>3 DEF VisitInv
  <2> QED
    BY <2>1, <2>2
<1>7. x \in Nat /\ x <= y /\ y - x < size /\ h.first[v] <= x
  <2>1. h.first[v + 1] - LeftAt(h, v) < size
    BY <1>1, <1>3 DEF RoomInv
  <2>2. x = IF v = h.f THEN popped ELSE h.first[v]
    BY <1>3 DEF FrontAt
  <2>3. LeftAt(h, v) = x
    BY <1>2, <2>2 DEF LeftAt
  <2>4. v = h.f => popped <= y /\ h.first[v] <= popped
    BY <1>1
  <2> QED
    BY <1>1, <1>4, <2>1, <2>2, <2>3, <2>4
<1>8. Count(b) = y - x
  <2>1. (r[y] - r[x]) % size = y - x
    BY <1>4, <1>7, RingDistance
  <2> QED
    BY <1>5, <1>6, <2>1 DEF Count
<1>9. {<<b, (r[x] + j) % size>> : j \in 0 .. (y - x) - 1} = {<<b, r[n]>> : n \in {k \in Nat : x <= k /\ k < y}}
  <2>1. SlotsFrom(b, r, size, x, y)
    BY <1>4, <1>7, RingSlots
  <2> QED
    BY <2>1 DEF SlotsFrom
<1>10. \A k \in Nat : In(h, v, k) /\ popped <= k <=> x <= k /\ k < y
  <2>1. x = IF v = h.f THEN popped ELSE h.first[v]
    BY <1>3 DEF FrontAt
  <2>2. v # h.f => popped <= h.first[v]
    <3>1. SUFFICES ASSUME v # h.f PROVE popped <= h.first[v]
      OBVIOUS
    <3>2. h.f + 1 \in 0 .. h.l + 1 /\ v \in 0 .. h.l + 1 /\ h.f + 1 <= v
      BY <1>3, <3>1
    <3>3. h.first[h.f + 1] <= h.first[v]
      BY <1>1, <3>2 DEF VisitInv
    <3>4. h.first[h.f + 1] \in Nat
      BY <1>3, HistoryFacts
    <3> QED
      BY <1>1, <1>4, <3>3, <3>4
  <2>3. ASSUME NEW k \in Nat
        PROVE  h.first[v] <= k /\ k < y /\ popped <= k <=> x <= k /\ k < y
    <3>1. CASE v = h.f
      <4>1. h.first[v] <= popped /\ x = popped
        BY <1>1, <2>1, <3>1
      <4> QED
        BY <1>1, <1>4, <4>1
    <3>2. CASE v # h.f
      <4>1. popped <= h.first[v] /\ x = h.first[v]
        BY <2>1, <2>2, <3>2
      <4> QED
        BY <1>1, <1>4, <4>1
    <3> QED
      BY <3>1, <3>2
  <2> QED
    BY <2>3 DEF In
<1>11. {SlotAt(b, j) : j \in 0 .. (y - x) - 1} = {<<b, (r[x] + j) % size>> : j \in 0 .. (y - x) - 1}
  BY <1>5 DEF SlotAt
<1>12. {k \in Nat : x <= k /\ k < y} = {k \in Nat : In(h, v, k) /\ popped <= k}
  BY <1>10
<1> QED
  BY <1>8, <1>9, <1>11, <1>12

\* In a block that is not in use it finds nothing.
LEMMA QuietSpare ==
  ASSUME TypeInv, NEW h \in History, Inv(h), Quiet, NEW b, Spare(h, b)
  PROVE  Count(b) = 0
<1>1. b \in h.kept /\ h.kept = Kept /\ Kept \subseteq 0 .. blocks - 1 /\ Kept \subseteq Blocks
  BY KeptFacts DEF Spare
<1>2. blockSize[b] \in Nat \ {0}
  <2>1. 2 <= blockSize[b] /\ blockSize[b] \in Nat
    BY <1>1 DEF TypeInv
  <2> QED
    BY <2>1
<1>3. FrontOf(b) = TailOf(b) /\ FrontOf(b) \in 0 .. blockSize[b] - 1
  BY <1>1 DEF Inv, SpareInv
<1>4. mem.tail[b] = FrontOf(b)
  BY <1>3, QuietEnds
<1>5. mem.tail[b] - FrontOf(b) = 0
  BY <1>3, <1>4
<1>6. 0 % blockSize[b] = 0
  <2>1. 0 \in 0 .. blockSize[b] - 1
    BY <1>2
  <2> QED
    BY <1>2, <2>1, ModSmall
<1> QED
  BY <1>5, <1>6 DEF Count

\* The destructor of a quiet queue destroys every object that is left, and no other.
LEMMA QuietDestroyed ==
  ASSUME TypeInv, NEW h \in History, Inv(h), OneCircle, Quiet
  PROVE  Destroyed = live
<1> DEFINE In1(b) == {SlotAt(b, j) : j \in 0 .. Count(b) - 1}
<1>1. Destroyed = UNION {In1(b) : b \in Kept}
  BY QuietRound DEF Destroyed
<1>2. ASSUME NEW v \in h.f .. h.l
      PROVE  /\ h.block[v] \in Kept
             /\ In1(h.block[v]) = {<<h.block[v], h.place[v][n]>> :
                                     n \in {k \in Nat : In(h, v, k) /\ popped <= k}}
  <2>1. v \in h.m .. h.l
    BY Counts DEF Shorthands
  <2>2. h.block[v] \in Kept
    BY <2>1, KeptFacts
  <2> QED
    BY <2>2, QuietVisit
<1>3. \A b \in Kept : In1(b) = {} \/ \E v \in h.f .. h.l : b = h.block[v]
  <2>1. SUFFICES ASSUME NEW b \in Kept, \A v \in h.f .. h.l : b # h.block[v] PROVE In1(b) = {}
    OBVIOUS
  <2>2. h.m = h.f /\ b \in h.kept
    BY KeptFacts, QuietEnds
  <2>3. Spare(h, b)
    BY <2>1, <2>2 DEF Spare
  <2>4. Count(b) = 0
    BY <2>3, QuietSpare
  <2>5. 0 .. Count(b) - 1 = {}
    BY <2>4
  <2> QED
    BY <2>5
<1> HIDE DEF In1
<1>4. ASSUME NEW b \in Kept, NEW s \in In1(b) PROVE s \in live
  <2>1. PICK v \in h.f .. h.l : b = h.block[v]
    BY <1>3
  <2>2. PICK n \in Nat : In(h, v, n) /\ popped <= n /\ s = <<h.block[v], h.place[v][n]>>
    BY <1>2, <2>1
  <2> QED
    BY <2>2, QueuedFacts
<1>5. ASSUME NEW s \in live PROVE \E b \in Kept : s \in In1(b)
  <2>1. PICK v \in h.f .. h.l, n \in Nat : In(h, v, n) /\ popped <= n /\ s = <<h.block[v], h.place[v][n]>>
    BY DEF Inv, LiveInv
  <2> QED
    BY <1>2, <2>1
<1> QED
  BY <1>1, <1>4, <1>5

\* Every object is destroyed once, by its dequeue or with the queue: as many are alive as
\* elements are in the queue, and the destructor of a quiet queue finds those, unless the
\* constructor was given zero.
THEOREM ObjectLifetimesTheorem == Spec /\ Size >= 1 => []ObjectLifetimes
<1>1. Init /\ Size >= 1 => OneCircle
  BY CircleInit
<1>2. IInv /\ OneCircle /\ [Next]_vars => OneCircle'
  BY CircleStep DEF IInv
<1>3. IInv /\ OneCircle => ObjectLifetimes
  BY LiveCount, QuietDestroyed DEF IInv, Quiet, ObjectLifetimes
<1> QED
  BY <1>1, <1>2, <1>3, Invariance, PTL DEF Spec
------------------------------------------------------------------------------
(***************************************************************************)
(* The blocks implement one queue.  From the front block to the tail block *)
(* they hold the stream from popped to published: the links lead from the  *)
(* block of each visit to that of the next one, and what the indices of a  *)
(* block enclose is the part of the stream that the visit left there.      *)
(***************************************************************************)

\* The parts of a stream between these positions, in order.
Ascending(e, n) == e \in [0 .. n -> Nat] /\ \A k \in 1 .. n : e[k - 1] <= e[k]
Parts(e, n) == [k \in 1 .. n |-> Run(e[k - 1], e[k])]

\* Positions that grow from each to the next grow from the first on.
LEMMA AscendingFromFirst ==
  ASSUME NEW n \in Nat, NEW e, Ascending(e, n)
  PROVE  \A k \in 0 .. n : e[0] <= e[k] /\ e[k] \in Nat
<1> DEFINE T == {k \in Nat : k <= n => e[0] <= e[k]}
<1>1. e \in [0 .. n -> Nat] /\ \A k \in 1 .. n : e[k - 1] <= e[k]
  BY DEF Ascending
<1>2. 0 \in T
  BY <1>1
<1>3. ASSUME NEW k \in Nat, k \in T PROVE k + 1 \in T
  <2>1. SUFFICES ASSUME k + 1 <= n PROVE e[0] <= e[k + 1]
    BY <1>3
  <2>2. k + 1 \in 1 .. n /\ (k + 1) - 1 = k /\ k \in 0 .. n /\ 0 \in 0 .. n /\ k + 1 \in 0 .. n
    BY <2>1
  <2>3. e[k] <= e[k + 1] /\ e[0] <= e[k]
    BY <1>1, <1>3, <2>2
  <2>4. e[0] \in Nat /\ e[k] \in Nat /\ e[k + 1] \in Nat
    BY <1>1, <2>2
  <2> QED
    BY <2>3, <2>4
<1>4. Nat \subseteq T
  <2> HIDE DEF T
  <2> QED
    BY <1>2, <1>3, SetInduction
<1>5. \A k \in 0 .. n : k \in T /\ k <= n /\ k \in Nat
  BY <1>4
<1> QED
  BY <1>1, <1>5

\* One after the other they are the stream from the first position to the last.
LEMMA FlattenParts ==
  ASSUME NEW n \in Nat, n >= 1, NEW e, Ascending(e, n)
  PROVE  FlattenSeq(Parts(e, n)) = Run(e[0], e[n])
<1> PICK seqs : seqs = Parts(e, n)
  OBVIOUS
<1> DEFINE IsFlat(f) == f = [i \in 1 .. n |-> IF i = 1 THEN seqs[i] ELSE f[i - 1] \o seqs[i]]
<1> DEFINE flat == CHOOSE f : IsFlat(f)
<1> DEFINE whole == [i \in 1 .. n |-> Run(e[0], e[i])]
<1>1. /\ \A k \in 0 .. n : e[0] <= e[k] /\ e[k] \in Nat
      /\ \A k \in 1 .. n : e[k - 1] <= e[k]
  BY AscendingFromFirst DEF Ascending
<1>2. \A i \in 1 .. n : seqs[i] = Run(e[i - 1], e[i])
  BY DEF Parts
<1>3. Len(seqs) = n
  <2>1. seqs = [k \in 1 .. n |-> Run(e[k - 1], e[k])]
    BY DEF Parts
  <2>2. \A k \in 1 .. n : Run(e[k - 1], e[k]) \in Seq(Nat)
    <3>1. \A k \in 1 .. n : k - 1 \in 0 .. n /\ k \in 0 .. n
      OBVIOUS
    <3> QED
      BY <1>1, <3>1, RunIsSeq
  <2>3. seqs \in [1 .. n -> Seq(Nat)]
    BY <2>1, <2>2
  <2> QED
    BY <2>3
<1>4. FlattenSeq(seqs) = flat[n]
  BY <1>3 DEF FlattenSeq
<1>5. \A i \in 1 .. n : i # 1 => i - 1 \in 1 .. n /\ whole[i] = whole[i - 1] \o seqs[i]
  <2> SUFFICES ASSUME NEW i \in 1 .. n, i # 1
               PROVE  i - 1 \in 1 .. n /\ whole[i] = whole[i - 1] \o seqs[i]
    OBVIOUS
  <2>1. i - 1 \in 1 .. n /\ i - 1 \in 0 .. n /\ i \in 0 .. n /\ 0 \in 0 .. n
    OBVIOUS
  <2>2. e[0] <= e[i - 1] /\ e[i - 1] <= e[i] /\ e[0] \in Nat /\ e[i - 1] \in Nat /\ e[i] \in Nat
    BY <1>1, <2>1
  <2>3. Run(e[0], e[i - 1]) \o Run(e[i - 1], e[i]) = Run(e[0], e[i])
    BY <2>2, RunsJoin
  <2>4. whole[i] = Run(e[0], e[i]) /\ whole[i - 1] = Run(e[0], e[i - 1])
    BY <2>1
  <2> QED
    BY <1>2, <2>1, <2>3, <2>4
<1>6. 1 \in 1 .. n /\ whole[1] = seqs[1]
  BY <1>2
<1>7. IsFlat(whole)
  <2>1. \A i \in 1 .. n : whole[i] = IF i = 1 THEN seqs[i] ELSE whole[i - 1] \o seqs[i]
    BY <1>5, <1>6
  <2> QED
    BY <2>1
<1> HIDE DEF whole
<1>8. IsFlat(flat)
  BY <1>7
<1> HIDE DEF flat
<1>9. flat[n] = whole[n]
  <2> DEFINE T == {i \in Nat : i >= 1 /\ i <= n => flat[i] = whole[i]}
  <2>1. 0 \in T
    OBVIOUS
  <2>2. ASSUME NEW i \in Nat, i \in T PROVE i + 1 \in T
    <3>1. SUFFICES ASSUME i + 1 <= n PROVE flat[i + 1] = whole[i + 1]
      BY <2>2
    <3>2. i + 1 \in 1 .. n /\ (i + 1) - 1 = i
      BY <3>1
    <3>3. CASE i = 0
      <4>1. flat[1] = seqs[1]
        BY <1>6, <1>8
      <4> QED
        BY <1>6, <3>3, <4>1
    <3>4. CASE i # 0
      <4>1. i + 1 # 1 /\ i >= 1 /\ i <= n
        BY <3>1, <3>4
      <4>2. flat[i + 1] = flat[i] \o seqs[i + 1]
        BY <1>8, <3>2, <4>1
      <4>3. whole[i + 1] = whole[i] \o seqs[i + 1]
        BY <1>5, <3>2, <4>1
      <4> QED
        BY <2>2, <4>1, <4>2, <4>3
    <3> QED
      BY <3>3, <3>4
  <2>3. Nat \subseteq T
    <3> HIDE DEF T
    <3> QED
      BY <2>1, <2>2, SetInduction
  <2>4. n \in T
    BY <2>3
  <2> QED
    BY <2>4
<1>10. whole[n] = Run(e[0], e[n])
  BY DEF whole
<1> QED
  BY <1>4, <1>9, <1>10

\* A walk along a function, wherever it leads.
IsPath(f, n, a, next) == f = [k \in 0 .. n |-> IF k = 0 THEN a ELSE next[f[k - 1]]]

\* Any function can be followed from anywhere.
LEMMA PathExists ==
  ASSUME NEW a, NEW next, NEW N \in Nat
  PROVE  \E f : IsPath(f, N, a, next)
<1> DEFINE T == {n \in Nat : \E f : IsPath(f, n, a, next)}
<1>1. 0 \in T
  <2> DEFINE f == [k \in 0 .. 0 |-> a]
  <2>1. f = [k \in 0 .. 0 |-> IF k = 0 THEN a ELSE next[f[k - 1]]]
    OBVIOUS
  <2> HIDE DEF f
  <2>2. IsPath(f, 0, a, next)
    BY <2>1 DEF IsPath
  <2> QED
    BY <2>2
<1>2. ASSUME NEW n \in Nat, n \in T PROVE n + 1 \in T
  <2>1. PICK f : f = [k \in 0 .. n |-> IF k = 0 THEN a ELSE next[f[k - 1]]]
    BY <1>2 DEF IsPath
  <2> DEFINE g == [k \in 0 .. n + 1 |-> IF k = n + 1 THEN next[f[n]] ELSE f[k]]
  <2>2. \A k \in 0 .. n + 1 : g[k] = IF k = 0 THEN a ELSE next[g[k - 1]]
    <3> SUFFICES ASSUME NEW k \in 0 .. n + 1 PROVE g[k] = IF k = 0 THEN a ELSE next[g[k - 1]]
      OBVIOUS
    <3>1. CASE k = n + 1
      <4>1. k - 1 = n /\ k - 1 \in 0 .. n + 1 /\ k - 1 # n + 1 /\ k # 0
        BY <3>1
      <4>2. g[k - 1] = f[n] /\ g[k] = next[f[n]]
        BY <3>1, <4>1
      <4> QED
        BY <4>1, <4>2
    <3>2. CASE k # n + 1
      <4>1. k \in 0 .. n /\ g[k] = f[k] /\ (k # 0 => k - 1 \in 0 .. n /\ g[k - 1] = f[k - 1])
        BY <3>2
      <4>2. f[k] = IF k = 0 THEN a ELSE next[f[k - 1]]
        BY <2>1, <4>1
      <4> QED
        BY <4>1, <4>2
    <3> QED
      BY <3>1, <3>2
  <2>3. IsPath(g, n + 1, a, next)
    <3>1. g = [k \in 0 .. n + 1 |-> g[k]]
      OBVIOUS
    <3> HIDE DEF g
    <3>2. [k \in 0 .. n + 1 |-> g[k]] = [k \in 0 .. n + 1 |-> IF k = 0 THEN a ELSE next[g[k - 1]]]
      BY <2>2
    <3> QED
      BY <3>1, <3>2 DEF IsPath
  <2> HIDE DEF g
  <2> QED
    BY <2>3
<1>3. Nat \subseteq T
  <2> HIDE DEF T
  <2> QED
    BY <1>1, <1>2, SetInduction
<1> QED
  BY <1>3

\* There are no more visits to look through than blocks.
LEMMA VisitsFit ==
  ASSUME TypeInv, NEW h \in History, Inv(h)
  PROVE  h.t - h.f \in Nat /\ h.t - h.f < blocks
<1> PICK f \in Nat, t \in Nat : f = h.f /\ t = h.t /\ f <= t
  BY Counts DEF Shorthands
<1> PICK n \in Nat : n = blocks
  BY DEF TypeInv
<1> PICK A : A = f .. t
  OBVIOUS
<1> PICK B : B = 0 .. n - 1
  OBVIOUS
<1> DEFINE g == [v \in A |-> h.block[v]]
<1>1. \A v \in A : v \in h.m .. h.l
  <2>1. h.m \in Nat /\ h.l \in Nat /\ h.m <= f /\ t <= h.l
    BY Counts DEF Shorthands
  <2> QED
    BY <2>1
<1>2. g \in [A -> B]
  <2>1. \A v \in A : h.block[v] \in 0 .. blocks - 1
    BY <1>1, Counts, VisitFacts
  <2> QED
    BY <2>1
<1>3. \A v, w \in A : g[v] = g[w] => v = w
  BY <1>1, Counts DEF VisitInv
<1> HIDE DEF g
<1>4. IsFiniteSet(B) /\ Cardinality(B) = n
  <2>1. n - 1 \in Int /\ 0 \in Int /\ (IF 0 > n - 1 THEN 0 ELSE n - 1 - 0 + 1) = n
    OBVIOUS
  <2>2. IsFiniteSet(0 .. n - 1) /\ Cardinality(0 .. n - 1) = IF 0 > n - 1 THEN 0 ELSE n - 1 - 0 + 1
    BY <2>1, FS_Interval
  <2> QED
    BY <2>1, <2>2
<1>5. IsFiniteSet(A) /\ Cardinality(A) = t - f + 1
  <2>1. f \in Int /\ t \in Int /\ (IF f > t THEN 0 ELSE t - f + 1) = t - f + 1
    OBVIOUS
  <2>2. IsFiniteSet(f .. t) /\ Cardinality(f .. t) = IF f > t THEN 0 ELSE t - f + 1
    BY <2>1, FS_Interval
  <2> QED
    BY <2>1, <2>2
<1>6. ~(Cardinality(B) < Cardinality(A))
  <2>1. SUFFICES ASSUME Cardinality(B) < Cardinality(A) PROVE FALSE
    OBVIOUS
  <2> PICK G \in [A -> B] : G = g
    BY <1>2
  <2>3. IsFiniteSet(A) /\ IsFiniteSet(B)
    BY <1>4, <1>5
  <2>2. \E x, y \in A : x # y /\ G[x] = G[y]
    BY <2>1, <2>3, FS_PigeonHole
  <2> QED
    BY <1>3, <2>2
<1> QED
  BY <1>4, <1>5, <1>6

\* The links lead from the front block through the blocks of the visits.
LEMMA BlocksInOrder ==
  ASSUME TypeInv, NEW h \in History, Inv(h)
  PROVE  \A k \in 0 .. h.t - h.f : BlockAt[k] = h.block[h.f + k]
<1> PICK n \in Nat : n = blocks
  BY DEF TypeInv
<1> PICK f \in Nat, t \in Nat : f = h.f /\ t = h.t /\ f <= t /\ t - f < n
  BY Counts, VisitsFit DEF Shorthands
<1> DEFINE IsAt(g) == g = [k \in 0 .. n |-> IF k = 0 THEN FrontBlock ELSE mem.next[g[k - 1]]]
<1> DEFINE at == CHOOSE g : IsAt(g)
<1>1. BlockAt = at
  BY DEF BlockAt
<1>2. \E g : IsAt(g)
  <2>1. \E g : IsPath(g, n, FrontBlock, mem.next)
    BY PathExists
  <2> QED
    BY <2>1 DEF IsPath
<1>3. IsAt(at)
  BY <1>2
<1> HIDE DEF at
<1>4. FrontBlock = h.block[f]
  BY DEF Inv, ConsInv
<1>5. \A v \in f .. t - 1 : mem.next[h.block[v]] = h.block[v + 1]
  <2> SUFFICES ASSUME NEW v \in f .. t - 1 PROVE mem.next[h.block[v]] = h.block[v + 1]
    OBVIOUS
  <2>1. h.m \in Nat /\ h.l \in Nat /\ h.m <= f /\ t <= h.l
    BY Counts DEF Shorthands
  <2>2. v \in h.m .. h.l /\ v < h.t
    BY <2>1
  <2>3. VisitInv(h) /\ ProdInv(h) /\ ProducedInv(h)
    BY DEF Inv
  <2> QED
    BY <2>2, <2>3, LeftAlone
<1> DEFINE T == {k \in Nat : k <= t - f => at[k] = h.block[f + k]}
<1>6. 0 \in T
  <2>1. 0 \in 0 .. n /\ f + 0 = f
    OBVIOUS
  <2>2. at[0] = FrontBlock
    BY <1>3, <2>1
  <2> QED
    BY <1>4, <2>1, <2>2
<1>7. ASSUME NEW k \in Nat, k \in T PROVE k + 1 \in T
  <2>1. SUFFICES ASSUME k + 1 <= t - f PROVE at[k + 1] = h.block[f + (k + 1)]
    BY <1>7
  <2>2. /\ k + 1 \in 0 .. n /\ k + 1 # 0 /\ (k + 1) - 1 = k /\ k <= t - f
        /\ f + k \in f .. t - 1 /\ (f + k) + 1 = f + (k + 1)
    BY <2>1
  <2>3. at[k + 1] = mem.next[at[k]]
    BY <1>3, <2>2
  <2>4. at[k] = h.block[f + k]
    BY <1>7, <2>2
  <2>5. mem.next[h.block[f + k]] = h.block[(f + k) + 1]
    BY <1>5, <2>2
  <2> QED
    BY <2>2, <2>3, <2>4, <2>5
<1>8. Nat \subseteq T
  <2> HIDE DEF T
  <2> QED
    BY <1>6, <1>7, SetInduction
<1>9. \A k \in 0 .. t - f : k \in T /\ k <= t - f
  BY <1>8
<1> QED
  BY <1>1, <1>9

\* The tail block is that of the visit which memory has the producer in.
LEMMA LastBlock ==
  ASSUME TypeInv, NEW h \in History, Inv(h)
  PROVE  Min({k \in 0 .. blocks : BlockAt[k] = mem.block["tail"]}) = h.t - h.f
<1> PICK n \in Nat : n = blocks
  BY DEF TypeInv
<1> PICK f \in Nat, t \in Nat : f = h.f /\ t = h.t /\ f <= t /\ t - f < n
  BY Counts, VisitsFit DEF Shorthands
<1> PICK S : S = {k \in 0 .. n : BlockAt[k] = mem.block["tail"]}
  OBVIOUS
<1>1. mem.block["tail"] = h.block[t]
  BY DEF Inv, ProdInv
<1>2. \A k \in 0 .. t - f : BlockAt[k] = h.block[f + k]
  BY BlocksInOrder
<1>3. t - f \in S
  <2>1. t - f \in 0 .. t - f /\ t - f \in 0 .. n /\ f + (t - f) = t
    OBVIOUS
  <2> QED
    BY <1>1, <1>2, <2>1
<1>4. ASSUME NEW k \in S, k < t - f PROVE FALSE
  <2>1. k \in 0 .. t - f /\ f + k \in Nat /\ f + k # t
    BY <1>4
  <2>2. h.block[f + k] = h.block[t]
    BY <1>1, <1>2, <1>4, <2>1
  <2>3. f + k \in h.m .. h.l /\ t \in h.m .. h.l
    <3>1. h.m \in Nat /\ h.l \in Nat /\ h.m <= f /\ t <= h.l
      BY Counts DEF Shorthands
    <3> QED
      BY <1>4, <2>1, <3>1
  <2> QED
    BY <2>1, <2>2, <2>3, Counts DEF VisitInv
<1>5. S \subseteq Nat /\ S # {}
  BY <1>3
<1>6. Min(S) \in S /\ \A y \in S : Min(S) <= y
  BY <1>5, MinIn
<1>7. Min(S) \in Nat /\ Min(S) <= t - f /\ ~(Min(S) < t - f)
  BY <1>3, <1>4, <1>5, <1>6
<1> QED
  BY <1>7

\* Where the part of the stream ends that a block holds in memory.
EndAt(h, v) == IF v < h.t THEN h.first[v + 1] ELSE published

\* The slots of a ring from a place on.
RunsOn(r, size, x) == \A c \in Nat : r[x + c] = (r[x] + c) % size

\* RingOn, of all that follow.
LEMMA RingRunsOn ==
  ASSUME NEW size \in Nat \ {0}, NEW r, IsRing(r, size), NEW x \in Nat
  PROVE  RunsOn(r, size, x)
BY RingOn DEF RunsOn

\* A block of the queue holds what the visit published there and nobody has taken.
LEMMA VisitElements ==
  ASSUME TypeInv, NEW h \in History, Inv(h), NEW v \in h.f .. h.t
  PROVE  /\ Elements(h.block[v]) = Run(FrontAt(h, v), EndAt(h, v))
         /\ FrontAt(h, v) \in Nat /\ EndAt(h, v) \in Nat /\ FrontAt(h, v) <= EndAt(h, v)
<1> PICK b : b = h.block[v]
  OBVIOUS
<1> PICK r : r = h.place[v]
  OBVIOUS
<1> PICK size : size = blockSize[b]
  OBVIOUS
<1> PICK x : x = FrontAt(h, v)
  OBVIOUS
<1> PICK y : y = EndAt(h, v)
  OBVIOUS
<1>1. /\ Shorthands(h) /\ VisitInv(h) /\ ConsInv(h) /\ ProdInv(h) /\ RoomInv(h)
      /\ DataInv(h) /\ ProducedInv(h)
      /\ popped \in Nat /\ published \in Nat /\ removed \in Nat /\ removed <= popped /\ popped <= published
      /\ h.first[h.f] <= popped /\ popped <= h.first[h.f + 1]
  BY Counts DEF Inv
<1>2. /\ v \in h.m .. h.l /\ v \in h.m .. h.t /\ v \in Nat /\ h.f \in Nat /\ h.t \in Nat /\ h.f <= v
      /\ v <= h.t /\ v \in h.f .. h.l /\ h.m \in Nat /\ h.l \in Nat /\ h.m <= h.f /\ h.t <= h.l
  BY <1>1 DEF Shorthands
<1>3. /\ size \in Nat \ {0} /\ IsRing(r, size)
      /\ h.first[v] \in Nat /\ h.first[v + 1] \in Nat /\ h.first[v] <= h.first[v + 1]
  <2>1. /\ size \in Nat /\ size >= 2
        /\ h.first[v] \in Nat /\ h.first[v + 1] \in Nat /\ h.first[v] <= h.first[v + 1]
    BY <1>1, <1>2, VisitFacts
  <2>2. IsRing(r, size)
    BY <1>1, <1>2 DEF VisitInv
  <2> QED
    BY <2>1, <2>2
<1>4. FrontOf(b) = r[x]
  BY <1>1, <1>2 DEF ConsInv
<1>5. mem.tail[b] = r[y]
  BY <1>1, <1>2 DEF ProdInv, EndAt
<1>6. x = IF v = h.f THEN popped ELSE h.first[v]
  BY <1>2 DEF FrontAt
<1>7. y \in Nat /\ y <= h.first[v + 1] /\ y <= published /\ h.first[v] <= y
  <2>1. CASE v < h.t
    <3>1. v + 1 \in 0 .. h.l + 1 /\ h.t \in 0 .. h.l + 1 /\ v + 1 <= h.t
      BY <1>2, <2>1
    <3>2. h.first[v + 1] <= h.first[h.t]
      BY <1>1, <3>1 DEF VisitInv
    <3>3. h.first[h.t] <= published /\ h.first[h.t] \in Nat
      BY <1>1, <1>2, HistoryFacts DEF ProdInv
    <3>4. y = h.first[v + 1]
      BY <2>1 DEF EndAt
    <3> QED
      BY <1>1, <1>3, <3>2, <3>3, <3>4
  <2>2. CASE ~(v < h.t)
    <3>1. v = h.t /\ y = published
      BY <1>2, <2>2 DEF EndAt
    <3>2. h.first[h.t] <= published /\ published <= h.first[h.t + 1]
      BY <1>1 DEF ProdInv
    <3> QED
      BY <1>1, <1>3, <3>1, <3>2
  <2> QED
    BY <2>1, <2>2
<1>8. x \in Nat /\ h.first[v] <= x /\ x <= y /\ popped <= x
  <2>1. CASE v = h.f
    <3>1. popped <= y
      BY <1>1, <2>1 DEF EndAt
    <3> QED
      BY <1>1, <1>6, <2>1, <3>1
  <2>2. CASE v # h.f
    <3>1. h.f + 1 \in 0 .. h.l + 1 /\ v \in 0 .. h.l + 1 /\ h.f + 1 <= v
      BY <1>2, <2>2
    <3>2. h.first[h.f + 1] <= h.first[v]
      BY <1>1, <3>1 DEF VisitInv
    <3>3. popped <= h.first[v]
      <4>1. h.first[h.f + 1] \in Nat
        BY Counts
      <4> QED
        BY <1>1, <1>3, <3>2, <4>1
    <3> QED
      BY <1>3, <1>6, <1>7, <2>2, <3>3
  <2> QED
    BY <2>1, <2>2
<1>9. y - x < size
  <2>1. h.first[v + 1] - LeftAt(h, v) < size
    BY <1>1, <1>2 DEF RoomInv
  <2>2. LeftAt(h, v) \in Nat /\ LeftAt(h, v) <= x
    <3>1. CASE v = h.m
      <4>1. v = h.f
        BY <1>2, <3>1
      <4>2. x = popped /\ LeftAt(h, v) = removed
        BY <1>6, <3>1, <4>1 DEF LeftAt
      <4> QED
        BY <1>1, <4>2
    <3>2. CASE v # h.m
      <4>1. LeftAt(h, v) = h.first[v]
        BY <3>2 DEF LeftAt
      <4> QED
        BY <1>3, <1>8, <4>1
    <3> QED
      BY <3>1, <3>2
  <2> QED
    BY <1>3, <1>7, <1>8, <2>1, <2>2
<1>10. Count(b) = y - x
  <2>1. (r[y] - r[x]) % size = y - x
    BY <1>3, <1>7, <1>8, <1>9, RingDistance
  <2> QED
    BY <1>4, <1>5, <2>1 DEF Count
<1>11. ASSUME NEW j \in 1 .. y - x PROVE mem.data[SlotAt(b, j - 1)] = x + j - 1
  <2> PICK i \in Nat, k \in Nat : i = j - 1 /\ k = x + i
    BY <1>7, <1>8
  <2>1. k < y /\ x <= k /\ k = x + j - 1
    BY <1>7, <1>8
  <2>2. r[k] = (r[x] + i) % size
    <3>1. RunsOn(r, size, x)
      BY <1>3, <1>8, RingRunsOn
    <3> QED
      BY <3>1 DEF RunsOn
  <2>3. SlotAt(b, j - 1) = <<b, r[k]>>
    BY <1>4, <2>2 DEF SlotAt
  <2>4. In(h, v, k) /\ popped <= k /\ k < published
    <3>1. h.first[v] <= k /\ k < h.first[v + 1]
      BY <1>3, <1>7, <1>8, <2>1
    <3> QED
      BY <1>1, <1>7, <1>8, <2>1, <3>1 DEF In
  <2>5. mem.data[<<h.block[v], h.place[v][k]>>] = k
    BY <1>1, <1>2, <2>4, PublishedData
  <2> QED
    BY <2>1, <2>3, <2>5
<1>12. Elements(b) = Run(x, y)
  BY <1>10, <1>11 DEF Elements, Run
<1> QED
  BY <1>7, <1>8, <1>12

\* The blocks together hold what was published and nobody has taken, in order.
LEMMA ContentsAre ==
  ASSUME TypeInv, NEW h \in History, Inv(h)
  PROVE  Contents = Run(popped, published)
<1> PICK f \in Nat, t \in Nat : f = h.f /\ t = h.t /\ f <= t
  BY Counts DEF Shorthands
<1> PICK n \in Nat : n = (t - f) + 1
  OBVIOUS
<1> DEFINE e == [k \in 0 .. n |-> IF k = 0 THEN popped ELSE EndAt(h, f + k - 1)]
<1>0. n >= 1
  OBVIOUS
<1>1. ASSUME NEW k \in 1 .. n
      PROVE  /\ f + k - 1 \in f .. t /\ k - 1 \in 0 .. t - f /\ f + (k - 1) = f + k - 1
             /\ k - 1 \in 0 .. n /\ k \in 0 .. n /\ k # 0
             /\ k # 1 => k - 1 # 0 /\ f + k - 2 \in f .. t - 1 /\ f + (k - 1) - 1 = f + k - 2
                         /\ (f + k - 2) + 1 = f + k - 1 /\ f + k - 1 # f
  OBVIOUS
<1>2. \A k \in 1 .. n : e[k] = EndAt(h, f + k - 1)
  BY <1>1
<1>3. \A k \in 1 .. n : e[k - 1] = FrontAt(h, f + k - 1)
  <2> SUFFICES ASSUME NEW k \in 1 .. n PROVE e[k - 1] = FrontAt(h, f + k - 1)
    OBVIOUS
  <2>1. CASE k = 1
    <3>1. k - 1 = 0 /\ f + k - 1 = f /\ 0 \in 0 .. n
      BY <2>1
    <3>2. e[k - 1] = popped
      BY <3>1
    <3>3. FrontAt(h, f) = popped
      BY DEF FrontAt
    <3> QED
      BY <3>1, <3>2, <3>3
  <2>2. CASE k # 1
    <3> PICK v \in Nat : v = f + k - 2
      BY <1>1, <2>2
    <3>1. v + 1 = f + k - 1 /\ v < t /\ v + 1 # f /\ ~(v + 1 < f) /\ k - 1 \in 0 .. n /\ k - 1 # 0
          /\ f + (k - 1) - 1 = v
      BY <2>2
    <3>2. e[k - 1] = EndAt(h, v)
      BY <3>1
    <3>3. EndAt(h, v) = h.first[v + 1]
      BY <3>1 DEF EndAt
    <3>4. FrontAt(h, v + 1) = h.first[v + 1]
      BY <3>1 DEF FrontAt
    <3> QED
      BY <3>1, <3>2, <3>3, <3>4
  <2> QED
    BY <2>1, <2>2
<1>4. e[0] = popped
  <2>1. 0 \in 0 .. n
    OBVIOUS
  <2> QED
    BY <2>1
<1>5. e[n] = published
  <2>1. n \in 1 .. n /\ f + n - 1 = t
    BY <1>0
  <2>2. EndAt(h, t) = published
    BY DEF EndAt
  <2> QED
    BY <1>2, <2>1, <2>2
<1>6. DOMAIN e = 0 .. n /\ e = [k \in 0 .. n |-> e[k]]
  OBVIOUS
<1> HIDE DEF e
<1>7. ASSUME NEW k \in 1 .. n
      PROVE  Elements(BlockAt[k - 1]) = Run(e[k - 1], e[k])
             /\ e[k - 1] \in Nat /\ e[k] \in Nat /\ e[k - 1] <= e[k]
  <2> PICK v \in h.f .. h.t : v = f + k - 1
    BY <1>1
  <2>1. BlockAt[k - 1] = h.block[v]
    <3>1. k - 1 \in 0 .. h.t - h.f /\ h.f + (k - 1) = v
      BY <1>1
    <3> QED
      BY <3>1, BlocksInOrder
  <2>2. /\ Elements(h.block[v]) = Run(FrontAt(h, v), EndAt(h, v))
        /\ FrontAt(h, v) \in Nat /\ EndAt(h, v) \in Nat /\ FrontAt(h, v) <= EndAt(h, v)
    BY VisitElements
  <2> QED
    BY <1>2, <1>3, <2>1, <2>2
<1>8. Ascending(e, n)
  <2>1. \A k \in 0 .. n : e[k] \in Nat
    <3>1. \A k \in 0 .. n : k = 0 \/ k \in 1 .. n
      OBVIOUS
    <3>2. popped \in Nat
      BY DEF TypeInv
    <3> QED
      BY <1>4, <1>7, <3>1, <3>2
  <2>2. e \in [0 .. n -> Nat]
    BY <1>6, <2>1
  <2> QED
    BY <1>7, <2>2 DEF Ascending
<1>9. Contents = FlattenSeq([k \in 1 .. n |-> Elements(BlockAt[k - 1])])
  <2> DEFINE last == Min({k \in 0 .. blocks : BlockAt[k] = mem.block["tail"]})
  <2>1. last = t - f
    BY LastBlock
  <2>2. Contents = FlattenSeq([k \in 1 .. last + 1 |-> Elements(BlockAt[k - 1])])
    BY DEF Contents
  <2> HIDE DEF last
  <2>3. last + 1 = n
    BY <2>1
  <2> QED
    BY <2>2, <2>3
<1>10. [k \in 1 .. n |-> Elements(BlockAt[k - 1])] = Parts(e, n)
  BY <1>7 DEF Parts
<1>11. FlattenSeq(Parts(e, n)) = Run(e[0], e[n])
  BY <1>0, <1>8, FlattenParts
<1> QED
  BY <1>4, <1>5, <1>9, <1>10, <1>11

\* The counts that the queue is seen by are in order.
QueueInv == popped \in Nat /\ published \in Nat /\ pushed \in Nat /\ popped <= published /\ published <= pushed

\* So it is whenever the invariant holds.
LEMMA QueueHolds == IInv => QueueInv /\ Contents = Run(popped, published)
BY ContentsAre, Counts DEF IInv, QueueInv

\* No more is pushed than the bound of the model allows.
BoundInv == pushed <= MaxPush /\ (enqPc # "idle" => pushed < MaxPush)

\* Every step keeps to the bound.
LEMMA BoundStep == IInv /\ BoundInv /\ [Next]_vars => BoundInv'
<1> SUFFICES ASSUME IInv, BoundInv, [Next]_vars PROVE BoundInv'
  OBVIOUS
<1>1. pushed \in Nat /\ MaxPush \in Nat /\ enqPc \in {"idle", "next", "reuse"}
  BY SizeAssumption DEF IInv, TypeInv
<1>2. CASE EnqueueHere
  BY <1>1, <1>2 DEF EnqueueHere, Construct, NoElement, BoundInv
<1>3. CASE EnqueueFull
  BY <1>1, <1>3 DEF EnqueueFull, NoElement, BoundInv
<1>4. CASE EnqueueAhead
  BY <1>1, <1>4 DEF EnqueueAhead, NoElement, BoundInv
<1>5. CASE EnqueueReuse
  BY <1>1, <1>5 DEF EnqueueReuse, Construct, NoElement, EnqueueReturn, BoundInv
<1>6. CASE EnqueueGrow
  BY <1>1, <1>6 DEF EnqueueGrow, NoElement, EnqueueReturn, BoundInv
<1>7. CASE EnqueueRefused
  BY <1>1, <1>7 DEF EnqueueRefused, NoElement, EnqueueReturn, BoundInv
<1>8. CASE Dequeue
  BY <1>8 DEF Dequeue, producerVars, BoundInv
<1>9. ASSUME NEW t \in {"producer", "consumer"}, Drain(t) PROVE BoundInv'
  BY <1>9 DEF Drain, producerVars, BoundInv
<1>10. CASE UNCHANGED vars
  BY <1>10 DEF vars, producerVars, BoundInv
<1> QED
  BY <1>2, <1>3, <1>4, <1>5, <1>6, <1>7, <1>8, <1>9, <1>10 DEF Next, Enqueue

\* What a step does to the queue: a store that reaches memory publishes an element, a
\* dequeue takes one, or neither.
Publishes == published' = published + 1 /\ popped' = popped /\ returned' = returned
Takes     == published' = published /\ popped' = popped + 1 /\ returned' = mem.data[<<block_, front_>>]
Neither   == published' = published /\ popped' = popped /\ returned' = returned

\* No step does anything else.
LEMMA QueueStep == [Next]_vars => Publishes \/ (Takes /\ deqPc = "take") \/ Neither
<1> SUFFICES ASSUME [Next]_vars PROVE Publishes \/ (Takes /\ deqPc = "take") \/ Neither
  OBVIOUS
<1>1. CASE Enqueue
  BY <1>1 DEF Enqueue, consumerVars, Neither
<1>2. CASE DequeueTake /\ Dequeue
  BY <1>2 DEF DequeueTake, Dequeue, Takes
<1>3. ASSUME Dequeue, ~DequeueTake PROVE Neither
  BY <1>3 DEF Dequeue, DequeueBegin, DequeueLook, DequeueAgain, DequeueNext, DequeueAdvance,
     DequeueLeave, NoneTaken, Neither
<1>4. ASSUME NEW t \in {"producer", "consumer"}, Drain(t) PROVE Publishes \/ Neither
  BY <1>4 DEF Drain, consumerVars, Publishes, Neither
<1>5. CASE UNCHANGED vars
  BY <1>5 DEF vars, consumerVars, Neither
<1> QED
  BY <1>1, <1>2, <1>3, <1>4, <1>5 DEF Next

\* Unless the constructor was given zero, the blocks implement one bounded queue: the store
\* that publishes an element appends it, the dequeue that takes one takes the first, and
\* growing, going on to a block left by the consumer and failing half-way do not show.
THEOREM QueueRefinement == Spec /\ Size >= 1 => RefinesFifo
<1>1. Init /\ Size >= 1 => Fifo!Init
  <2> SUFFICES ASSUME Init, Size >= 1 PROVE Fifo!Init
    OBVIOUS
  <2>1. Contents = Run(popped, published) /\ popped = 0 /\ published = 0 /\ returned = -1
    BY InitInv, QueueHolds DEF Init
  <2>2. Run(0, 0) = <<>>
    BY DEF Run
  <2> QED
    BY <2>1, <2>2 DEF Fifo!Init
<1>2. Init => BoundInv
  BY SizeAssumption DEF Init, BoundInv
<1>3. IInv /\ IInv' /\ BoundInv' /\ [Next]_vars => [Fifo!Next]_(Fifo!vars)
  <2> SUFFICES ASSUME IInv, IInv', BoundInv', [Next]_vars
               PROVE  Fifo!Next \/ UNCHANGED Fifo!vars
    OBVIOUS
  <2>1. QueueInv /\ Contents = Run(popped, published)
    BY QueueHolds
  <2>2. QueueInv' /\ Contents' = Run(popped', published')
    <3>1. (QueueInv /\ Contents = Run(popped, published))'
      BY QueueHolds, PTL
    <3> QED
      BY <3>1
  <2>3. CASE Publishes
    <3>1. popped \in Nat /\ published \in Nat /\ popped <= published /\ published < MaxPush
      BY <2>1, <2>2, <2>3, SizeAssumption DEF QueueInv, BoundInv, Publishes
    <3>2. Contents' = Append(Contents, published) /\ Len(Contents) = published - popped
      BY <2>1, <2>2, <2>3, <3>1, RunGrows DEF Publishes
    <3>3. Len(Contents) < MaxPush
      BY <3>1, <3>2, SizeAssumption
    <3>4. Fifo!Put
      BY <2>3, <3>2, <3>3 DEF Publishes, Fifo!Put
    <3> QED
      BY <3>4 DEF Fifo!Next
  <2>4. CASE Takes /\ deqPc = "take"
    <3>1. mem.data[<<block_, front_>>] = popped /\ popped < published
      BY <2>4, TakesNextHolds DEF IInv, TakesNext
    <3>2. popped \in Nat /\ published \in Nat
      BY <2>1 DEF QueueInv
    <3>3. Contents # <<>> /\ Head(Contents) = popped /\ Contents' = Tail(Contents)
      BY <2>1, <2>2, <2>4, <3>1, <3>2, RunShrinks DEF Takes
    <3>4. Fifo!Get
      BY <2>4, <3>1, <3>3 DEF Takes, Fifo!Get
    <3> QED
      BY <3>4 DEF Fifo!Next
  <2>5. CASE Neither
    BY <2>1, <2>2, <2>5 DEF Neither, Fifo!vars
  <2> QED
    BY <2>3, <2>4, <2>5, QueueStep
<1> QED
  BY <1>1, <1>2, <1>3, BoundStep, Invariance, PTL DEF Spec, RefinesFifo, Fifo!Spec
=============================================================================
