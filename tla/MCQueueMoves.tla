---------------------------- MODULE MCQueueMoves ----------------------------
(* An instance of QueueMoves; the .cfg file gives the constants.             *)
EXTENDS QueueMoves
=============================================================================
