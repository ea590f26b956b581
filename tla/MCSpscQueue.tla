----------------------------- MODULE MCSpscQueue -----------------------------
(* Model-checking instances of SpscQueue; the .cfg files give the constants. *)
EXTENDS SpscQueue
==============================================================================
