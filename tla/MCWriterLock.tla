----------------------------- MODULE MCWriterLock -----------------------------
(* An instance of WriterLock for TLC: three processes and one of an older release. *)
EXTENDS WriterLock
================================================================================
