----------------------------- MODULE MCSpmcQueue -----------------------------
(* Model-checking instances of SpmcQueue; the .cfg files give the constants. *)
EXTENDS SpmcQueue
==============================================================================
