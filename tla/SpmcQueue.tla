------------------------------ MODULE SpmcQueue ------------------------------
(***************************************************************************)
(* SPMCQueue<T> of include/spmc_queue_trivially_copiable.hpp.  One producer*)
(* writes every message into a ring and waits for nobody; each consumer    *)
(* copies every message out of the slot, guarded by the slot's version: odd*)
(* while the producer writes it, 2 * (lap + 1) once it holds the message of*)
(* that lap.  A consumer that finds a later version aborts the process.    *)
(*                                                                         *)
(* Grain.  Copying T is a data race by the C++ standard; the code relies on*)
(* what x86 builds do (:108-109).  There, loads and stores stay in program *)
(* order and a store reaches all threads at once.  The producer is the only*)
(* thread that stores to shared memory, so interleaving its stores with the*)
(* consumers' loads, one access a step, gives every outcome.  A T is       *)
(* several machine words, copied one by one in either direction and in any *)
(* order.                                                                  *)
(*                                                                         *)
(* A message is its position in the stream of pushes, and so is each of its*)
(* words: a torn copy has words of different messages.                     *)
(*                                                                         *)
(* An operator named Bug... is what a slip in the code would make of the   *)
(* definition after it; nothing uses it but the mutants of PROJECT.json.   *)
(***************************************************************************)
EXTENDS Integers

CONSTANTS
  Slots,      \* buffer_size
  Modulus,    \* how many values uint64_t has
  Words,      \* the machine words of a T
  Consumers,
  MaxPush     \* bound: pushes in a behaviour

ASSUME SizeAssumption ==
  /\ Slots \in Nat /\ Slots >= 2
  /\ Modulus \in Nat /\ Modulus >= Slots
  /\ Modulus % Slots = 0
  /\ Words # {}
  /\ MaxPush \in Nat

VARIABLES
  writer,           \* the published index
  version, data,    \* of each slot
  pushPc, slot_ver, \* where push is, and the version it loaded
  unwritten,        \* words of T that push has still to store
  popPc,            \* where each consumer is; "none" before make_consumer
  reader,           \* each consumer's index
  temp, uncopied,   \* pop's local copy, and the words it still lacks
  dst,              \* what each consumer was given last
  aborted,          \* unexpected_abort was called: the process is gone
  \* History, not wrapped: completed pushes, and each consumer's position.
  pushed, position

slotVars == <<version, data>>
pushVars == <<writer, pushPc, slot_ver, unwritten, pushed>>
popVars  == <<popPc, reader, temp, uncopied, dst, position>>
vars == <<slotVars, pushVars, popVars, aborted>>

Junk == -1                           \* what no push has written
None == [w \in Words |-> Junk]

Word(n) == n % Modulus
SlotOf(index) == index % Slots

\* Laps are counted from 0, and an even version may be that of no message.
BugExpectedEarly(index) == 2 * (index \div Slots)

\* The version after the one the slot will have.
BugExpectedLate(index) == 2 * ((index \div Slots) + 2)

\* expected_version: the version that announces the message the index stands for.
Expected(index) == 2 * ((index \div Slots) + 1)

\* The version a consumer looks at.
Seen(c) == version[SlotOf(reader[c])]

Init ==
  /\ writer = 0
  /\ version = [s \in 0 .. Slots - 1 |-> 0]
  /\ data = [s \in 0 .. Slots - 1 |-> None]
  /\ pushPc = "idle" /\ slot_ver = 0 /\ unwritten = {}
  /\ popPc = [c \in Consumers |-> "none"]
  /\ reader = [c \in Consumers |-> 0]
  /\ temp = [c \in Consumers |-> None]
  /\ uncopied = [c \in Consumers |-> {}]
  /\ dst = [c \in Consumers |-> None]
  /\ aborted = FALSE
  /\ pushed = 0 /\ position = [c \in Consumers |-> 0]
------------------------------------------------------------------------------
(* push.  The producer's loads of its own writer and version need no step.  *)

\* The versions that push stores, before and after the words, of the one it loaded: the
\* first odd, the second even.
BugOdd(v) == v
Odd(v) == v + 1
BugEven(v) == v + 1
Even(v) == v + 2

PushBegin ==
  /\ ~aborted /\ pushPc = "idle" /\ pushed < MaxPush
  /\ slot_ver' = version[SlotOf(writer)]
  /\ version' = [version EXCEPT ![SlotOf(writer)] = Odd(slot_ver')]
  /\ unwritten' = Words
  /\ pushPc' = "write"
  /\ UNCHANGED <<writer, pushed, data, popVars, aborted>>

PushWord(w) ==
  /\ ~aborted /\ pushPc = "write" /\ w \in unwritten
  /\ data' = [data EXCEPT ![SlotOf(writer)][w] = pushed]
  /\ unwritten' = unwritten \ {w}
  /\ UNCHANGED <<writer, pushPc, slot_ver, pushed, version, popVars, aborted>>

PushSeal ==
  /\ ~aborted /\ pushPc = "write" /\ unwritten = {}
  /\ version' = [version EXCEPT ![SlotOf(writer)] = Even(slot_ver)]
  /\ pushPc' = "publish"
  /\ UNCHANGED <<writer, slot_ver, unwritten, pushed, data, popVars, aborted>>

PushPublish ==
  /\ ~aborted /\ pushPc = "publish"
  /\ writer' = Word(writer + 1)
  /\ pushed' = pushed + 1
  /\ pushPc' = "idle"
  /\ UNCHANGED <<slot_ver, unwritten, slotVars, popVars, aborted>>
------------------------------------------------------------------------------
(* make_consumer *)

\* Where a consumer starts: at the message that is being pushed, not after it.
BugStart == writer + 1
Start == writer

MakeConsumer(c) ==
  /\ ~aborted /\ popPc[c] = "none"
  /\ popPc' = [popPc EXCEPT ![c] = "idle"]
  /\ reader' = [reader EXCEPT ![c] = Start]
  /\ position' = [position EXCEPT ![c] = pushed]
  /\ UNCHANGED <<temp, uncopied, dst, slotVars, pushVars, aborted>>
------------------------------------------------------------------------------
(* pop *)

PopNothing(c) ==
  /\ ~aborted /\ popPc[c] = "idle"
  /\ Seen(c) < Expected(reader[c])
  /\ UNCHANGED vars

PopTooSlow(c) ==
  /\ ~aborted /\ popPc[c] = "idle"
  /\ Seen(c) > Expected(reader[c])
  /\ aborted' = TRUE
  /\ UNCHANGED <<slotVars, pushVars, popVars>>

PopBegin(c) ==
  /\ ~aborted /\ popPc[c] = "idle"
  /\ Seen(c) = Expected(reader[c])
  /\ popPc' = [popPc EXCEPT ![c] = "copy"]
  /\ uncopied' = [uncopied EXCEPT ![c] = Words]
  /\ UNCHANGED <<reader, temp, dst, position, slotVars, pushVars, aborted>>

PopWord(c, w) ==
  /\ ~aborted /\ popPc[c] = "copy" /\ w \in uncopied[c]
  /\ temp' = [temp EXCEPT ![c][w] = data[SlotOf(reader[c])][w]]
  /\ uncopied' = [uncopied EXCEPT ![c] = @ \ {w}]
  /\ UNCHANGED <<popPc, reader, dst, position, slotVars, pushVars, aborted>>

PopDeliver(c) ==
  /\ ~aborted /\ popPc[c] = "copy" /\ uncopied[c] = {}
  /\ Seen(c) = Expected(reader[c])
  /\ dst' = [dst EXCEPT ![c] = temp[c]]
  /\ reader' = [reader EXCEPT ![c] = Word(@ + 1)]
  /\ position' = [position EXCEPT ![c] = @ + 1]
  /\ popPc' = [popPc EXCEPT ![c] = "idle"]
  /\ UNCHANGED <<temp, uncopied, slotVars, pushVars, aborted>>

PopOverwritten(c) ==
  /\ ~aborted /\ popPc[c] = "copy" /\ uncopied[c] = {}
  /\ Seen(c) # Expected(reader[c])
  /\ aborted' = TRUE
  /\ UNCHANGED <<slotVars, pushVars, popVars>>
------------------------------------------------------------------------------
Push == PushBegin \/ (\E w \in Words : PushWord(w)) \/ PushSeal \/ PushPublish

Pop(c) ==
  \/ PopNothing(c) \/ PopTooSlow(c) \/ PopBegin(c)
  \/ \E w \in Words : PopWord(c, w)
  \/ PopDeliver(c) \/ PopOverwritten(c)

Aborted == aborted /\ UNCHANGED vars

Next == Push \/ (\E c \in Consumers : MakeConsumer(c) \/ Pop(c)) \/ Aborted

Spec == Init /\ [][Next]_vars

\* A push that began ends, and consumers poll.  Nothing makes the producer
\* begin a push.
FairSpec ==
  /\ Spec
  /\ WF_vars(PushSeal) /\ WF_vars(PushPublish)
  /\ WF_vars(\E w \in Words : PushWord(w))
  /\ \A c \in Consumers : WF_vars(Pop(c))
------------------------------------------------------------------------------
(* Properties *)

\* The messages whose last version store is done, and those whose first is.
Sealed  == pushed + (IF pushPc = "publish" THEN 1 ELSE 0)
Started == pushed + (IF pushPc = "idle" THEN 0 ELSE 1)

Joined(c) == popPc[c] # "none"

\* The producer has begun to write over the consumer's next message.
Lapped(c) == Started > position[c] + Slots

TypeOK ==
  /\ writer \in 0 .. Modulus - 1
  /\ version \in [0 .. Slots - 1 -> Nat]
  /\ data \in [0 .. Slots - 1 -> [Words -> Nat \cup {Junk}]]
  /\ pushPc \in {"idle", "write", "publish"}
  /\ slot_ver \in Nat /\ unwritten \in SUBSET Words
  /\ popPc \in [Consumers -> {"none", "idle", "copy"}]
  /\ reader \in [Consumers -> 0 .. Modulus - 1]
  /\ temp \in [Consumers -> [Words -> Nat \cup {Junk}]]
  /\ uncopied \in [Consumers -> SUBSET Words]
  /\ dst \in [Consumers -> [Words -> Nat \cup {Junk}]]
  /\ aborted \in BOOLEAN
  /\ pushed \in 0 .. MaxPush /\ position \in [Consumers -> Nat]

\* Whatever the producer did while pop copied, the message pop hands out is
\* whole, and it is the one at the consumer's position: the two version loads
\* around the unsynchronised copy suffice.
DeliversIntactInOrder ==
  \A c \in Consumers :
    dst[c] # None => position[c] > 0 /\ dst[c] = [w \in Words |-> position[c] - 1]

\* "Consumer is too slow": no process is aborted while every consumer is within a
\* ring of the producer.
AbortOnlyWhenLapped == aborted => \E c \in Consumers : Joined(c) /\ Lapped(c)

\* The one version a consumer loads always tells which of three cases holds: its
\* message is not there yet, there, or (being) overwritten.  So pop is never
\* falsely empty, and a consumer anywhere in the last ring of messages can go on.
VersionTellsAll ==
  \A c \in Consumers : Joined(c) =>
    /\ Seen(c) < Expected(reader[c]) <=> position[c] >= Sealed
    /\ Seen(c) > Expected(reader[c]) <=> Lapped(c)
    /\ position[c] <= Sealed

\* A consumer that polls gets every message pushed after it joined, or falls a
\* ring behind and takes the process down.
EventuallyDelivered ==
  \A c \in Consumers, n \in 0 .. MaxPush - 1 :
    (Joined(c) /\ pushed > n) ~> (position[c] > n \/ aborted)

Stream == INSTANCE FanOut WITH
  Subscribers <- Consumers,
  Window   <- Slots,
  produced <- Sealed,
  position <- [c \in Consumers |-> IF Joined(c) THEN position[c] ELSE -1],
  given    <- [c \in Consumers |-> {dst[c][w] : w \in Words}],
  failed   <- aborted

\* The ring implements the fan-out stream: a message is produced when its slot
\* is sealed, and given when pop returns it.
RefinesFanOut == Stream!Spec
==============================================================================
