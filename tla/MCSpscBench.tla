----------------------------- MODULE MCSpscBench -----------------------------
(* Model-checking instances of SpscBench; the .cfg files give the constants. *)
EXTENDS SpscBench
==============================================================================
