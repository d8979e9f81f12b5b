----------------------------- MODULE MCChunkCache -----------------------------
(* An instance of ChunkCache for TLC: two callers of a cache of two chunks. *)
EXTENDS ChunkCache
================================================================================
