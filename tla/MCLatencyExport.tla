-------------------------- MODULE MCLatencyExport ---------------------------
(* An instance of LatencyExport; the .cfg file gives the other constants.    *)
EXTENDS LatencyExport

\* Frequencies below, near and above one cycle in a nanosecond.
MCClockPairs == {<<3, 7>>, <<9, 10>>, <<12, 7>>}
=============================================================================
