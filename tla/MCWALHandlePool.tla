--------------------------- MODULE MCWALHandlePool ---------------------------
(* An instance of WALHandlePool for TLC: three goroutines and one place for two streams. *)
EXTENDS WALHandlePool
================================================================================
