------------------------ MODULE MCReaderWriterQueue -------------------------
(* An instance of ReaderWriterQueue; the .cfg file gives the constants.      *)
EXTENDS ReaderWriterQueue

\* One block that grows, doubling once; and a ring of five blocks of two slots.
MCShapes == {<<4, 1>>, <<2, 4>>}
=============================================================================
