-------------------- MODULE MCBlockingReaderWriterQueue ---------------------
(* An instance of BlockingReaderWriterQueue; the .cfg file gives MaxPush.    *)
EXTENDS BlockingReaderWriterQueue
=============================================================================
