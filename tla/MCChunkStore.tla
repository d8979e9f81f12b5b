----------------------------- MODULE MCChunkStore -----------------------------
(***************************************************************************)
(* Instances of ChunkStore for TLC: which file operations may fail, and    *)
(* which image files the directory starts with.                            *)
(***************************************************************************)
EXTENDS ChunkStore

AllFaults == Points \X {"early", "late"}

(* The failures that break a property of Writer (section 5 of README.md):  *)
(* a checkpoint fails while it rewrites an image or to truncate the WAL, a *)
(* barrier fails after the generation file was replaced, and a rollback    *)
(* intent that was published is not found.                                 *)
UnsafeFaults ==
    ({"persistCheckpointChunk"} \X {"early", "late"}) \cup
    {<<"clearWAL", "early">>, <<"flushSnapshot", "late">>, <<"intentExists", "early">>}

SafeFaults == AllFaults \ UnsafeFaults

NoImages == {[c \in Coords |-> Absent]}
================================================================================
