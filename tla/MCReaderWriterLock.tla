------------------------- MODULE MCReaderWriterLock -------------------------
(* Instance of ReaderWriterLock for TLC. *)
EXTENDS ReaderWriterLock
=============================================================================
