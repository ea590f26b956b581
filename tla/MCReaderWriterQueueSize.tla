---------------------- MODULE MCReaderWriterQueueSize -----------------------
(* An instance of ReaderWriterQueueSize; the .cfg file gives the constants.  *)
EXTENDS ReaderWriterQueueSize

\* One block that grows, doubling once; and a ring of five blocks of two slots.
MCShapes == {<<4, 1>>, <<2, 4>>}
=============================================================================
