-------------------------------- MODULE FanOut --------------------------------
(***************************************************************************)
(* What a single-producer queue that copies every message to every         *)
(* consumer promises: a stream; a position in it for each subscriber, who  *)
(* is given the messages one after the other from where it joined; and a   *)
(* failure that can strike only when the stream has run a whole window     *)
(* ahead of somebody.  A message is its position in the stream.            *)
(***************************************************************************)
EXTENDS Integers

CONSTANTS Subscribers, Window

VARIABLES
  produced,   \* how many messages can be read or were
  position,   \* the next message of each subscriber, None before it joins
  given,      \* the messages the last delivery to each subscriber was made of
  failed

vars == <<produced, position, given, failed>>

None == -1

Init ==
  /\ produced = 0
  /\ position = [c \in Subscribers |-> None]
  /\ given = [c \in Subscribers |-> {None}]
  /\ failed = FALSE

Produce ==
  /\ ~failed
  /\ produced' = produced + 1
  /\ UNCHANGED <<position, given, failed>>

\* A subscriber starts at the end of the stream; a message produced while it
\* joins may be its first.
Subscribe(c) ==
  /\ ~failed
  /\ position[c] = None
  /\ \E p \in {produced - 1, produced} :
       p >= 0 /\ position' = [position EXCEPT ![c] = p]
  /\ UNCHANGED <<produced, given, failed>>

Deliver(c) ==
  /\ ~failed
  /\ position[c] # None /\ position[c] < produced
  /\ produced - position[c] <= Window
  /\ given' = [given EXCEPT ![c] = {position[c]}]
  /\ position' = [position EXCEPT ![c] = @ + 1]
  /\ UNCHANGED <<produced, failed>>

Overrun(c) ==
  /\ position[c] # None /\ produced - position[c] >= Window
  /\ failed' = TRUE
  /\ UNCHANGED <<produced, position, given>>

Next ==
  \/ Produce
  \/ \E c \in Subscribers : Subscribe(c) \/ Deliver(c) \/ Overrun(c)

Spec == Init /\ [][Next]_vars
==============================================================================
