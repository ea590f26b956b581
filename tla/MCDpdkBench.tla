----------------------------- MODULE MCDpdkBench ------------------------------
(* Model-checking instances of DpdkBench; the .cfg files give the constants. *)
EXTENDS DpdkBench
==============================================================================
