--------------------------- MODULE MCSpmcBurstBench ---------------------------
(* Model-checking instances of SpmcBurstBench; the .cfg files give the constants. *)
EXTENDS SpmcBurstBench
==============================================================================
