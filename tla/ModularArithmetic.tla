-------------------------- MODULE ModularArithmetic --------------------------
(***************************************************************************)
(* Facts about % that the proofs about ring buffers rest on: the free-     *)
(* running indices of the queues are counts modulo a word size, and a slot *)
(* is an index modulo the number of slots; and about the part of a stream  *)
(* that a ring holds, whose elements are their positions.                  *)
(***************************************************************************)
EXTENDS Integers, SequenceTheorems, TLAPS

\* Quotient and remainder of a division recompose the dividend.
LEMMA DivMod ==
  ASSUME NEW n \in Nat \ {0}, NEW a \in Int
  PROVE  /\ a = n * (a \div n) + (a % n)
         /\ a % n \in 0 .. n - 1
         /\ a \div n \in Int
OBVIOUS

\* They are the only ones that do.
LEMMA ModUnique ==
  ASSUME NEW n \in Nat \ {0}, NEW a \in Int, NEW q \in Int,
         NEW r \in 0 .. n - 1, a = n * q + r
  PROVE  a % n = r
OBVIOUS

\* A count below the word size is stored as it is.
LEMMA ModSmall ==
  ASSUME NEW n \in Nat \ {0}, NEW a \in 0 .. n - 1
  PROVE  a % n = a
OBVIOUS

\* Adding a multiple of the modulus changes nothing.
LEMMA ModShift ==
  ASSUME NEW n \in Nat \ {0}, NEW a \in Int, NEW q \in Int
  PROVE  (n * q + a) % n = a % n
<1> DEFINE p == a \div n
<1> DEFINE r == a % n
<1>1. a = n * p + r /\ r \in 0 .. n - 1 /\ p \in Int
  BY DivMod
<1> HIDE DEF p, r
<1>2. n * q + a = n * (q + p) + r
  BY <1>1
<1>3. n * q + a \in Int /\ q + p \in Int
  BY <1>1
<1>4. (n * q + a) % n = r
  BY <1>1, <1>2, <1>3, ModUnique
<1> QED
  BY <1>4 DEF r

\* Incrementing a wrapped count and wrapping again is wrapping the next count.
LEMMA ModSucc ==
  ASSUME NEW n \in Nat \ {0}, NEW a \in Int
  PROVE  ((a % n) + 1) % n = (a + 1) % n
<1> DEFINE q == a \div n
<1> DEFINE r == a % n
<1>1. a = n * q + r /\ r \in 0 .. n - 1 /\ q \in Int
  BY DivMod
<1> HIDE DEF q, r
<1>2. a + 1 = n * q + (r + 1)
  BY <1>1
<1>3. r + 1 \in Int
  BY <1>1
<1>4. (n * q + (r + 1)) % n = (r + 1) % n
  BY <1>1, <1>3, ModShift
<1> QED
  BY <1>2, <1>4 DEF r

\* The wrapped difference of two wrapped counts is their true difference, as
\* long as that fits in a word.
LEMMA ModDifference ==
  ASSUME NEW n \in Nat \ {0}, NEW a \in Int, NEW b \in Int,
         0 <= a - b, a - b < n
  PROVE  ((a % n) - (b % n)) % n = a - b
<1> DEFINE p == a \div n
<1> DEFINE q == b \div n
<1> DEFINE r == a % n
<1> DEFINE s == b % n
<1>1. a = n * p + r /\ r \in 0 .. n - 1 /\ p \in Int
  BY DivMod
<1>2. b = n * q + s /\ s \in 0 .. n - 1 /\ q \in Int
  BY DivMod
<1> HIDE DEF p, q, r, s
<1>3. r - s = n * (q - p) + (a - b)
  BY <1>1, <1>2
<1>4. r - s \in Int /\ q - p \in Int /\ a - b \in 0 .. n - 1
  BY <1>1, <1>2
<1>5. (r - s) % n = a - b
  BY <1>3, <1>4, ModUnique
<1> QED
  BY <1>5 DEF r, s

\* Two counts less than one lap apart are in different places of the ring.
LEMMA ModDistinct ==
  ASSUME NEW n \in Nat \ {0}, NEW a \in Int, NEW b \in Int,
         a % n = b % n, 0 <= a - b, a - b < n
  PROVE  a = b
<1>1. ((a % n) - (b % n)) % n = a - b
  BY ModDifference
<1>2. a % n \in 0 .. n - 1 /\ b % n \in 0 .. n - 1
  BY DivMod
<1>3. (a % n) - (b % n) = 0 /\ 0 \in 0 .. n - 1
  BY <1>2
<1>4. 0 % n = 0
  BY <1>3, ModSmall
<1> QED
  BY <1>1, <1>3, <1>4

\* When the ring size divides the word size, the slot of a wrapped count is the
\* slot of the count.
LEMMA ModMod ==
  ASSUME NEW n \in Nat \ {0}, NEW m \in Nat \ {0}, m % n = 0, NEW a \in Int
  PROVE  (a % m) % n = a % n
<1> DEFINE t == m \div n
<1> DEFINE q == a \div m
<1> DEFINE r == a % m
<1>1. m = n * t /\ t \in Int
  BY DivMod
<1>2. a = m * q + r /\ r \in 0 .. m - 1 /\ q \in Int
  BY DivMod
<1> HIDE DEF t, q, r
<1>3. a = (n * t) * q + r
  BY <1>1, <1>2
<1>4. a = n * (t * q) + r
  BY <1>1, <1>2, <1>3
<1>5. t * q \in Int /\ r \in Int
  BY <1>1, <1>2
<1>6. (n * (t * q) + r) % n = r % n
  BY <1>5, ModShift
<1> QED
  BY <1>4, <1>6 DEF r

\* The place a distance after a wrapped count is that after the count itself.
LEMMA ModAhead ==
  ASSUME NEW n \in Nat \ {0}, NEW m \in Nat \ {0}, m % n = 0,
         NEW a \in Int, NEW d \in Int
  PROVE  ((a % m) + d) % n = (a + d) % n
<1> DEFINE t == m \div n
<1> DEFINE q == a \div m
<1> DEFINE r == a % m
<1>1. m = n * t /\ t \in Int
  BY DivMod
<1>2. a = m * q + r /\ r \in 0 .. m - 1 /\ q \in Int
  BY DivMod
<1> HIDE DEF t, q, r
<1>3. a = (n * t) * q + r
  BY <1>1, <1>2
<1>4. a + d = n * (t * q) + (r + d)
  BY <1>1, <1>2, <1>3
<1>5. t * q \in Int /\ r + d \in Int
  BY <1>1, <1>2
<1>6. (n * (t * q) + (r + d)) % n = (r + d) % n
  BY <1>5, ModShift
<1> QED
  BY <1>4, <1>6 DEF r

\* One lap further is the same place, with one more in the quotient.
LEMMA NextLap ==
  ASSUME NEW n \in Nat \ {0}, NEW a \in Int
  PROVE  (a + n) % n = a % n /\ (a + n) \div n = (a \div n) + 1
<1> DEFINE p == a \div n
<1> DEFINE r == a % n
<1> DEFINE u == (a + n) \div n
<1>1. a = n * p + r /\ r \in 0 .. n - 1 /\ p \in Int
  BY DivMod
<1>2. a + n \in Int
  OBVIOUS
<1>3. a + n = n * u + ((a + n) % n) /\ (a + n) % n \in 0 .. n - 1 /\ u \in Int
  BY <1>2, DivMod
<1> HIDE DEF p, r, u
<1>4. a + n = n * (p + 1) + r /\ p + 1 \in Int
  BY <1>1
<1>5. (a + n) % n = r
  BY <1>1, <1>2, <1>4, ModUnique
<1>6. n * u = n * (p + 1)
  BY <1>1, <1>3, <1>4, <1>5
<1>7. u = p + 1
  BY <1>1, <1>3, <1>4, <1>6
<1> QED
  BY <1>5, <1>7 DEF p, r, u

\* Of two counts in the same place, the later is a lap ahead at least.
LEMMA SamePlaceLater ==
  ASSUME NEW n \in Nat \ {0}, NEW a \in Int, NEW b \in Int,
         a % n = b % n, a < b
  PROVE  a + n <= b /\ (a \div n) + 1 <= b \div n
<1> DEFINE p == a \div n
<1> DEFINE q == b \div n
<1> DEFINE r == b % n
<1>1. a = n * p + r /\ r \in 0 .. n - 1 /\ p \in Int
  BY DivMod
<1>2. b = n * q + r /\ q \in Int
  BY DivMod
<1> HIDE DEF p, q, r
<1>3. n * p < n * q
  BY <1>1, <1>2
<1>4. p < q
  BY <1>1, <1>2, <1>3
<1>5. n * (p + 1) <= n * q
  BY <1>1, <1>2, <1>4
<1>6. n * (p + 1) = n * p + n
  BY <1>1
<1>7. a + n <= b
  BY <1>1, <1>2, <1>5, <1>6
<1>8. p + 1 <= q
  BY <1>1, <1>2, <1>4
<1> QED
  BY <1>7, <1>8 DEF p, q

\* Quotients on either side of zero.
LEMMA DivSign ==
  ASSUME NEW n \in Nat \ {0}, NEW a \in Int, a >= -n
  PROVE  IF a < 0 THEN a \div n = -1 ELSE a \div n >= 0
<1> DEFINE p == a \div n
<1>1. a = n * p + (a % n) /\ a % n \in 0 .. n - 1 /\ p \in Int
  BY DivMod
<1> HIDE DEF p
<1>2. p < 0 => n * (p + 1) <= 0 /\ n * (p + 1) = n * p + n
  BY <1>1
<1>3. CASE a < 0
  <2>1. p < 0
    BY <1>1, <1>3
  <2>2. p >= -1
    <3>1. ASSUME p < -1 PROVE FALSE
      <4>1. n * (p + 2) <= 0 /\ n * (p + 2) = n * p + 2 * n
        BY <1>1, <3>1
      <4> QED
        BY <1>1, <4>1
    <3> QED
      BY <1>1, <3>1
  <2> QED
    BY <1>1, <1>3, <2>1, <2>2 DEF p
<1>4. CASE ~(a < 0)
  BY <1>1, <1>2, <1>4 DEF p
<1> QED
  BY <1>3, <1>4
------------------------------------------------------------------------------
\* The stream from one position to another.
Run(from, end) == [j \in 1 .. end - from |-> from + j - 1]

\* Its elements are in order.
LEMMA RunIsSeq ==
  ASSUME NEW a \in Nat, NEW e \in Nat, a <= e
  PROVE  Run(a, e) \in Seq(Nat) /\ Len(Run(a, e)) = e - a
         /\ \A j \in 1 .. e - a : Run(a, e)[j] = a + j - 1
<1>1. e - a \in Nat
  OBVIOUS
<1>2. \A j \in 1 .. e - a : a + j - 1 \in Nat
  OBVIOUS
<1> QED
  BY <1>1, <1>2 DEF Run

\* Two runs that meet make one.
LEMMA RunsJoin ==
  ASSUME NEW a \in Nat, NEW b \in Nat, NEW e \in Nat, a <= b, b <= e
  PROVE  Run(a, b) \o Run(b, e) = Run(a, e)
<1>0. a <= e
  OBVIOUS
<1>1. /\ Run(a, b) \in Seq(Nat) /\ Len(Run(a, b)) = b - a
      /\ Run(b, e) \in Seq(Nat) /\ Len(Run(b, e)) = e - b
      /\ Run(a, e) \in Seq(Nat) /\ Len(Run(a, e)) = e - a
  BY <1>0, RunIsSeq
<1>2. Run(a, b) \o Run(b, e) \in Seq(Nat) /\ Len(Run(a, b) \o Run(b, e)) = e - a
  <2>1. (b - a) + (e - b) = e - a
    OBVIOUS
  <2> QED
    BY <1>1, <2>1, ConcatProperties
<1>3. ASSUME NEW j \in 1 .. e - a PROVE (Run(a, b) \o Run(b, e))[j] = Run(a, e)[j]
  <2>1. Run(a, e)[j] = a + j - 1
    BY <1>0, RunIsSeq
  <2>2. (Run(a, b) \o Run(b, e))[j]
           = IF j <= b - a THEN Run(a, b)[j] ELSE Run(b, e)[j - (b - a)]
    BY <1>1, ConcatProperties
  <2>3. CASE j <= b - a
    <3>1. j \in 1 .. b - a
      BY <2>3
    <3> QED
      BY <2>1, <2>2, <2>3, <3>1, RunIsSeq
  <2>4. CASE ~(j <= b - a)
    <3>1. j - (b - a) \in 1 .. e - b
      BY <2>4
    <3>2. Run(b, e)[j - (b - a)] = b + (j - (b - a)) - 1
      BY <3>1, RunIsSeq
    <3> QED
      BY <2>1, <2>2, <2>4, <3>2
  <2> QED
    BY <2>3, <2>4
<1> QED
  BY <1>1, <1>2, <1>3, SeqEqual

\* A push extends the run at its end.
LEMMA RunGrows ==
  ASSUME NEW a \in Nat, NEW e \in Nat, a <= e
  PROVE  Run(a, e + 1) = Append(Run(a, e), e) /\ Len(Run(a, e)) = e - a
<1>1. e - a \in Nat /\ (e + 1) - a = (e - a) + 1
  OBVIOUS
<1>2. Run(a, e) \in Seq(Int) /\ Len(Run(a, e)) = e - a
  BY <1>1 DEF Run
<1>3. Run(a, e + 1) \in Seq(Int) /\ Len(Run(a, e + 1)) = (e - a) + 1
  BY <1>1 DEF Run
<1>4. Append(Run(a, e), e) \in Seq(Int) /\ Len(Append(Run(a, e), e)) = (e - a) + 1
  BY <1>2
<1>5. ASSUME NEW j \in 1 .. (e - a) + 1 PROVE Run(a, e + 1)[j] = Append(Run(a, e), e)[j]
  <2>1. Run(a, e + 1)[j] = a + j - 1
    BY <1>1 DEF Run
  <2>2. CASE j = (e - a) + 1
    BY <1>2, <2>1, <2>2, AppendProperties
  <2>3. CASE j # (e - a) + 1
    <3>1. j \in 1 .. e - a
      BY <2>3
    <3>2. Append(Run(a, e), e)[j] = Run(a, e)[j]
      BY <1>2, <3>1, AppendProperties
    <3>3. Run(a, e)[j] = a + j - 1
      BY <3>1 DEF Run
    <3> QED
      BY <2>1, <3>2, <3>3
  <2> QED
    BY <2>2, <2>3
<1>6. Run(a, e + 1) = Append(Run(a, e), e)
  BY <1>3, <1>4, <1>5, SeqEqual
<1> QED
  BY <1>2, <1>6

\* A pop takes its first element.
LEMMA RunShrinks ==
  ASSUME NEW a \in Nat, NEW e \in Nat, a < e
  PROVE  Run(a, e) # <<>> /\ Head(Run(a, e)) = a /\ Tail(Run(a, e)) = Run(a + 1, e)
<1>1. e - a \in Nat /\ e - a > 0 /\ e - (a + 1) = (e - a) - 1
  OBVIOUS
<1>2. Run(a, e) \in Seq(Int) /\ Len(Run(a, e)) = e - a
  BY <1>1 DEF Run
<1>3. Run(a, e) # <<>>
  BY <1>1, <1>2
<1>4. Head(Run(a, e)) = a
  BY <1>1, <1>2, <1>3, HeadTailProperties DEF Run
<1>5. Run(a + 1, e) \in Seq(Int) /\ Len(Run(a + 1, e)) = (e - a) - 1
  BY <1>1 DEF Run
<1>6. Tail(Run(a, e)) \in Seq(Int) /\ Len(Tail(Run(a, e))) = (e - a) - 1
  BY <1>2, <1>3, HeadTailProperties
<1>7. ASSUME NEW j \in 1 .. (e - a) - 1 PROVE Tail(Run(a, e))[j] = Run(a + 1, e)[j]
  <2>1. Tail(Run(a, e))[j] = Run(a, e)[j + 1]
    BY <1>2, <1>3, HeadTailProperties
  <2>2. j + 1 \in 1 .. e - a /\ j \in 1 .. e - (a + 1)
    BY <1>1
  <2> QED
    BY <2>1, <2>2 DEF Run
<1>8. Tail(Run(a, e)) = Run(a + 1, e)
  BY <1>5, <1>6, <1>7, SeqEqual
<1> QED
  BY <1>3, <1>4, <1>8
==============================================================================
