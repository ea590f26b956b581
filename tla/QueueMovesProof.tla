--------------------------- MODULE QueueMovesProof ----------------------------
(***************************************************************************)
(* Proofs about QueueMoves, for any number of queues, whatever memory there*)
(* is for circles and semaphores.                                          *)
(***************************************************************************)
EXTENDS QueueMoves, TLAPS

\* Memory that is taken was there to take, and what it counts is never negative.
MemoryInv ==
  /\ DOMAIN sema = Made
  /\ DOMAIN elements \subseteq Circles /\ DOMAIN count \subseteq Semas
  /\ \A c \in DOMAIN elements : elements[c] \in Nat
  /\ \A s \in DOMAIN count : count[s] \in Nat

\* What a queue points to is allocated, and what is allocated has a queue.
CirclesInv ==
  /\ \A q \in Made : inner[q] \in DOMAIN elements
  /\ \A c \in DOMAIN elements : \E q \in Made : inner[q] = c
  /\ \A q, r \in Made : q # r => inner[q] # inner[r]

SemasInv ==
  /\ \A q \in Made : sema[q] = Null \/ sema[q] \in DOMAIN count
  /\ \A s \in DOMAIN count : \E q \in Made : sema[q] = s
  /\ \A q, r \in Made : q # r => sema[q] # sema[r] \/ sema[q] = Null

IInv == MemoryInv /\ CirclesInv /\ SemasInv /\ CountsMatch
------------------------------------------------------------------------------
(* Functions *)

LEMMA WithoutValue ==
  ASSUME NEW f, NEW x
  PROVE  /\ DOMAIN Without(f, x) = DOMAIN f \ {x}
         /\ \A y \in DOMAIN f \ {x} : Without(f, x)[y] = f[y]
BY DEF Without

LEMMA SwappedValue ==
  ASSUME NEW f, NEW x \in DOMAIN f, NEW y \in DOMAIN f
  PROVE  /\ DOMAIN Swapped(f, x, y) = DOMAIN f
         /\ Swapped(f, x, y)[x] = f[y] /\ Swapped(f, x, y)[y] = f[x]
         /\ \A z \in DOMAIN f \ {x, y} : Swapped(f, x, y)[z] = f[z]
BY DEF Swapped

\* An allocation that does not fail returns memory that is free.
LEMMA FreshMemory ==
  ASSUME MemoryInv
  PROVE  /\ MemoryLeft => NewCircle \in Circles \ DOMAIN elements
         /\ SemaLeft => NewSema \in Semas \ DOMAIN count /\ NewSema # Null
<1>1. MemoryLeft => \E c \in Circles : c \notin DOMAIN elements
  BY DEF MemoryInv, MemoryLeft
<1>2. SemaLeft => \E s \in Semas : s \notin DOMAIN count
  BY DEF MemoryInv, SemaLeft
<1> QED
  BY <1>1, <1>2, MovesAssumption DEF NewCircle, NewSema
------------------------------------------------------------------------------
LEMMA InitIInv == Init => IInv
BY DEF Init, NoFunction, IInv, MemoryInv, CirclesInv, SemasInv, CountsMatch, Made

LEMMA ConstructStep == ASSUME NEW q \in Queues PROVE IInv /\ Construct(q) => IInv'
<1> SUFFICES ASSUME IInv, Construct(q) PROVE IInv'
  OBVIOUS
<1> DEFINE c == NewCircle
<1> DEFINE s == NewSema
<1>1. c \in Circles /\ c \notin DOMAIN elements /\ s \in Semas /\ s \notin DOMAIN count /\ s # Null
  BY FreshMemory DEF IInv, Construct
<1>2. inner' = With(inner, q, c) /\ elements' = With(elements, c, 0)
      /\ sema' = With(sema, q, s) /\ count' = With(count, s, 0) /\ failed' = failed
      /\ q \notin DOMAIN inner /\ DOMAIN sema = DOMAIN inner
  BY DEF Construct, IInv, MemoryInv, Made
<1> HIDE DEF c, s
<1>3. /\ DOMAIN inner' = DOMAIN inner \cup {q} /\ inner'[q] = c
      /\ \A r \in DOMAIN inner : r # q => inner'[r] = inner[r]
  BY <1>2 DEF With
<1>4. /\ DOMAIN sema' = DOMAIN inner \cup {q} /\ sema'[q] = s
      /\ \A r \in DOMAIN inner : r # q => sema'[r] = sema[r]
  BY <1>2 DEF With
<1>5. /\ DOMAIN elements' = DOMAIN elements \cup {c} /\ elements'[c] = 0
      /\ \A d \in DOMAIN elements : d # c => elements'[d] = elements[d]
  BY <1>2 DEF With
<1>6. /\ DOMAIN count' = DOMAIN count \cup {s} /\ count'[s] = 0
      /\ \A t \in DOMAIN count : t # s => count'[t] = count[t]
  BY <1>2 DEF With
<1>7. MemoryInv'
  BY <1>1, <1>3, <1>4, <1>5, <1>6 DEF IInv, MemoryInv, Made
<1>8. CirclesInv'
  BY <1>1, <1>2, <1>3, <1>5 DEF IInv, CirclesInv, Made
<1>9. SemasInv'
  BY <1>1, <1>2, <1>3, <1>4, <1>6 DEF IInv, SemasInv, Made
<1>10. CountsMatch'
  BY <1>1, <1>2, <1>3, <1>4, <1>5, <1>6 DEF IInv, CirclesInv, SemasInv, CountsMatch, Made
<1> QED
  BY <1>7, <1>8, <1>9, <1>10 DEF IInv

LEMMA MoveConstructStep ==
  ASSUME NEW q \in Queues, NEW other \in Queues
  PROVE  IInv /\ MoveConstruct(q, other) => IInv'
<1> SUFFICES ASSUME IInv, MoveConstruct(q, other) PROVE IInv'
  OBVIOUS
<1> DEFINE c == NewCircle
<1> DEFINE f == [inner EXCEPT ![other] = c]
<1> DEFINE g == [sema EXCEPT ![other] = Null]
<1>1. c \in Circles /\ c \notin DOMAIN elements
  BY FreshMemory DEF IInv, MoveConstruct, TakeInner
<1>2. /\ inner' = With(f, q, inner[other]) /\ elements' = With(elements, c, 0)
      /\ sema' = With(g, q, sema[other]) /\ count' = count /\ failed' = failed
      /\ q \notin DOMAIN inner /\ other \in DOMAIN inner /\ DOMAIN sema = DOMAIN inner
  BY DEF MoveConstruct, TakeInner, IInv, MemoryInv, Made
<1>3. /\ DOMAIN f = DOMAIN inner /\ f[other] = c
      /\ \A r \in DOMAIN inner : r # other => f[r] = inner[r]
      /\ DOMAIN g = DOMAIN inner /\ g[other] = Null
      /\ \A r \in DOMAIN inner : r # other => g[r] = sema[r]
  BY <1>2
<1> HIDE DEF c, f, g
<1>4. /\ DOMAIN inner' = DOMAIN inner \cup {q} /\ inner'[q] = inner[other]
      /\ \A r \in DOMAIN inner : r # q => inner'[r] = f[r]
  BY <1>2, <1>3 DEF With
<1>5. /\ DOMAIN sema' = DOMAIN inner \cup {q} /\ sema'[q] = sema[other]
      /\ \A r \in DOMAIN inner : r # q => sema'[r] = g[r]
  BY <1>2, <1>3 DEF With
<1>6. /\ inner'[other] = c /\ sema'[other] = Null
      /\ \A r \in DOMAIN inner : r # other => inner'[r] = inner[r] /\ sema'[r] = sema[r]
  BY <1>2, <1>3, <1>4, <1>5
<1>7. /\ DOMAIN elements' = DOMAIN elements \cup {c} /\ elements'[c] = 0
      /\ \A d \in DOMAIN elements : d # c => elements'[d] = elements[d]
  BY <1>2 DEF With
<1>8. MemoryInv'
  BY <1>1, <1>2, <1>4, <1>5, <1>7 DEF IInv, MemoryInv, Made
<1>9. CirclesInv'
  BY <1>1, <1>2, <1>4, <1>6, <1>7 DEF IInv, CirclesInv, Made
<1>10. SemasInv'
  BY <1>1, <1>2, <1>4, <1>5, <1>6 DEF IInv, SemasInv, Made
<1>11. CountsMatch'
  BY <1>1, <1>2, <1>4, <1>5, <1>6, <1>7 DEF IInv, CirclesInv, SemasInv, CountsMatch, Made
<1> QED
  BY <1>8, <1>9, <1>10, <1>11 DEF IInv

\* Also of a queue to itself.
LEMMA MoveAssignStep ==
  ASSUME NEW q \in Queues, NEW other \in Queues
  PROVE  IInv /\ MoveAssign(q, other) => IInv'
<1> SUFFICES ASSUME IInv, MoveAssign(q, other) PROVE IInv'
  OBVIOUS
<1>1. /\ q \in DOMAIN inner /\ other \in DOMAIN inner /\ DOMAIN sema = DOMAIN inner
      /\ sema' = Swapped(sema, q, other) /\ elements' = elements /\ count' = count
      /\ \/ inner' = Swapped(inner, q, other) /\ failed' = failed
         \/ inner' = inner /\ failed' = TRUE
  BY DEF MoveAssign, SwapSemas, SwapInners, IInv, MemoryInv, Made
<1>2. /\ DOMAIN sema' = DOMAIN inner
      /\ sema'[q] = sema[other] /\ sema'[other] = sema[q]
      /\ \A r \in DOMAIN inner \ {q, other} : sema'[r] = sema[r]
  BY <1>1, SwappedValue
<1>3. DOMAIN inner' = DOMAIN inner
  BY <1>1, SwappedValue
<1>4. MemoryInv'
  BY <1>1, <1>2, <1>3 DEF IInv, MemoryInv, Made
<1>5. SemasInv'
  BY <1>1, <1>2, <1>3 DEF IInv, SemasInv, Made
<1>6. CASE inner' = inner /\ failed' = TRUE
  <2>1. CirclesInv' /\ CountsMatch'
    BY <1>1, <1>6 DEF IInv, CirclesInv, CountsMatch, Made
  <2> QED
    BY <1>4, <1>5, <2>1 DEF IInv
<1>7. CASE inner' = Swapped(inner, q, other) /\ failed' = failed
  <2>1. /\ inner'[q] = inner[other] /\ inner'[other] = inner[q]
        /\ \A r \in DOMAIN inner \ {q, other} : inner'[r] = inner[r]
    BY <1>1, <1>7, SwappedValue
  <2>2. CirclesInv'
    BY <1>1, <1>3, <2>1 DEF IInv, CirclesInv, Made
  <2>3. CountsMatch'
    BY <1>1, <1>2, <1>3, <1>7, <2>1 DEF IInv, CountsMatch, Made
  <2> QED
    BY <1>4, <1>5, <2>2, <2>3 DEF IInv
<1> QED
  BY <1>1, <1>6, <1>7

LEMMA DestroyStep == ASSUME NEW q \in Queues PROVE IInv /\ Destroy(q) => IInv'
<1> SUFFICES ASSUME IInv, Destroy(q) PROVE IInv'
  OBVIOUS
<1>1. /\ q \in DOMAIN inner /\ DOMAIN sema = DOMAIN inner /\ failed' = failed
      /\ inner' = Without(inner, q) /\ elements' = Without(elements, inner[q])
      /\ sema' = Without(sema, q) /\ count' = Without(count, sema[q])
  BY DEF Destroy, Destroyed, IInv, MemoryInv, Made
<1>2. /\ DOMAIN inner' = DOMAIN inner \ {q} /\ DOMAIN sema' = DOMAIN inner \ {q}
      /\ \A r \in DOMAIN inner \ {q} : inner'[r] = inner[r] /\ sema'[r] = sema[r]
  BY <1>1, WithoutValue
<1>3. /\ DOMAIN elements' = DOMAIN elements \ {inner[q]}
      /\ \A c \in DOMAIN elements \ {inner[q]} : elements'[c] = elements[c]
  BY <1>1, WithoutValue
<1>4. /\ DOMAIN count' = DOMAIN count \ {sema[q]}
      /\ \A s \in DOMAIN count \ {sema[q]} : count'[s] = count[s]
  BY <1>1, WithoutValue
<1>5. Null \notin DOMAIN count
  BY MovesAssumption DEF IInv, MemoryInv
<1>6. MemoryInv'
  BY <1>1, <1>2, <1>3, <1>4 DEF IInv, MemoryInv, Made
<1>7. CirclesInv'
  BY <1>1, <1>2, <1>3 DEF IInv, CirclesInv, Made
<1>8. SemasInv'
  BY <1>1, <1>2, <1>4, <1>5 DEF IInv, SemasInv, Made
<1>9. CountsMatch'
  BY <1>1, <1>2, <1>3, <1>4, <1>5 DEF IInv, CirclesInv, SemasInv, CountsMatch, Made
<1> QED
  BY <1>6, <1>7, <1>8, <1>9 DEF IInv

\* A queue's calls count in memory that is no other queue's.
LEMMA EnqueueStep == ASSUME NEW q \in Queues PROVE IInv /\ Enqueue(q) => IInv'
<1> SUFFICES ASSUME IInv, Enqueue(q) PROVE IInv'
  OBVIOUS
<1> DEFINE c == inner[q]
<1> DEFINE s == sema[q]
<1>1. /\ q \in DOMAIN inner /\ s # Null /\ c \in DOMAIN elements /\ s \in DOMAIN count
      /\ UNCHANGED <<inner, sema, failed>>
      /\ elements' = [elements EXCEPT ![c] = @ + 1] /\ count' = [count EXCEPT ![s] = @ + 1]
  BY DEF Enqueue, Usable, Made, IInv, CirclesInv, SemasInv
<1>2. /\ DOMAIN elements' = DOMAIN elements /\ elements'[c] = elements[c] + 1
      /\ \A d \in DOMAIN elements \ {c} : elements'[d] = elements[d]
      /\ DOMAIN count' = DOMAIN count /\ count'[s] = count[s] + 1
      /\ \A t \in DOMAIN count \ {s} : count'[t] = count[t]
  BY <1>1
<1>3. \A r \in DOMAIN inner \ {q} : inner[r] # c /\ sema[r] # s
  BY <1>1 DEF IInv, CirclesInv, SemasInv, Made
<1>4. MemoryInv'
  BY <1>1, <1>2 DEF IInv, MemoryInv, Made
<1>5. CirclesInv' /\ SemasInv'
  BY <1>1, <1>2 DEF IInv, CirclesInv, SemasInv, Made
<1>6. CountsMatch'
  BY <1>1, <1>2, <1>3 DEF IInv, CirclesInv, SemasInv, CountsMatch, Made
<1> QED
  BY <1>4, <1>5, <1>6 DEF IInv

LEMMA TryDequeueStep == ASSUME NEW q \in Queues PROVE IInv /\ TryDequeue(q) => IInv'
<1> SUFFICES ASSUME IInv, TryDequeue(q) PROVE IInv'
  OBVIOUS
<1> DEFINE c == inner[q]
<1> DEFINE s == sema[q]
<1>1. /\ q \in DOMAIN inner /\ s # Null /\ c \in DOMAIN elements /\ s \in DOMAIN count
      /\ UNCHANGED <<inner, sema, failed>> /\ count[s] > 0
      /\ elements' = [elements EXCEPT ![c] = IF @ > 0 THEN @ - 1 ELSE 0]
      /\ count' = [count EXCEPT ![s] = @ - 1]
  BY DEF TryDequeue, Usable, Made, IInv, CirclesInv, SemasInv
<1>2. /\ DOMAIN elements' = DOMAIN elements
      /\ elements'[c] = IF elements[c] > 0 THEN elements[c] - 1 ELSE 0
      /\ \A d \in DOMAIN elements \ {c} : elements'[d] = elements[d]
      /\ DOMAIN count' = DOMAIN count /\ count'[s] = count[s] - 1
      /\ \A t \in DOMAIN count \ {s} : count'[t] = count[t]
  BY <1>1
<1>3. \A r \in DOMAIN inner \ {q} : inner[r] # c /\ sema[r] # s
  BY <1>1 DEF IInv, CirclesInv, SemasInv, Made
<1>4. elements[c] \in Nat /\ count[s] \in Nat
  BY <1>1 DEF IInv, MemoryInv
<1>5. MemoryInv'
  BY <1>1, <1>2, <1>4 DEF IInv, MemoryInv, Made
<1>6. CirclesInv' /\ SemasInv'
  BY <1>1, <1>2 DEF IInv, CirclesInv, SemasInv, Made
<1>7. CountsMatch'
  BY <1>1, <1>2, <1>3, <1>4 DEF IInv, CirclesInv, SemasInv, CountsMatch, Made
<1> QED
  BY <1>5, <1>6, <1>7 DEF IInv

LEMMA NextIInv == IInv /\ [Next]_vars => IInv'
<1> SUFFICES ASSUME IInv, [Next]_vars PROVE IInv'
  OBVIOUS
<1>1. ASSUME NEW q \in Queues, Construct(q) \/ Destroy(q) \/ Enqueue(q) \/ TryDequeue(q)
      PROVE  IInv'
  BY <1>1, ConstructStep, DestroyStep, EnqueueStep, TryDequeueStep
<1>2. ASSUME NEW q \in Queues, NEW other \in Queues, MoveConstruct(q, other) \/ MoveAssign(q, other)
      PROVE  IInv'
  BY <1>2, MoveConstructStep, MoveAssignStep
<1>3. CASE UNCHANGED vars
  BY <1>3 DEF vars, IInv, MemoryInv, CirclesInv, SemasInv, CountsMatch, Made
<1> QED
  BY <1>1, <1>2, <1>3 DEF Next

LEMMA Invariance == Spec => []IInv
BY InitIInv, NextIInv, PTL DEF Spec

\* No move, assignment or destruction, whichever of them runs out of memory, frees
\* anything twice, leaves anything without an owner or keeps what was freed.
THEOREM Ownership == Spec => []OwnedOnce
<1>1. IInv => OwnedOnce
  <2> SUFFICES ASSUME IInv PROVE OwnedOnce
    OBVIOUS
  <2>1. {inner[q] : q \in Made} = DOMAIN elements
    BY DEF IInv, CirclesInv
  <2>2. {sema[q] : q \in Made} \ {Null} = DOMAIN count
    <3>1. Null \notin DOMAIN count
      BY MovesAssumption DEF IInv, MemoryInv
    <3> QED
      BY <3>1 DEF IInv, SemasInv
  <2> QED
    BY <2>1, <2>2 DEF IInv, CirclesInv, SemasInv, OwnedOnce
<1> QED
  BY <1>1, Invariance, PTL

\* Unless an assignment has run out of memory half-way, a queue's semaphore counts the
\* elements of its own circle.
THEOREM CountsFollow == Spec => []CountsMatch
<1>1. IInv => CountsMatch
  BY DEF IInv
<1> QED
  BY <1>1, Invariance, PTL
==============================================================================
