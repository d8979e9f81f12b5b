---------------------------- MODULE SnapshotReader ----------------------------
(***************************************************************************)
(* A read-only process beside the writer (ReadChunk and ChunkVersion of a  *)
(* store opened with Options.ReadOnly): it takes no lock, keeps no cache,  *)
(* and reads the generation file before and after the one file it loads.   *)
(***************************************************************************)
EXTENDS ChunkStore

VARIABLES
    rpc,     \* "start", "load" or "validate"
    rgen,    \* the generation read before the load
    loaded   \* which file was loaded and what it held

readerVars == <<rpc, rgen, loaded>>

NotLoaded == [file |-> "none"]

ReaderInit ==
    /\ rpc = "start"
    /\ rgen = 0
    /\ loaded = NotLoaded

(* An odd generation is ErrSnapshotUnstable: the read fails at once. *)
beginReadOnlySnapshot ==
    /\ rpc = "start"
    /\ ~Odd(genFile)
    /\ rgen' = genFile
    /\ rpc' = "load"
    /\ UNCHANGED <<vars, loaded>>

(* One load reads one file: ReadChunk the image, ChunkVersion the version. *)
LoadFile ==
    /\ rpc = "load"
    /\ \E c \in Coords :
          \/ loaded' = [file |-> "image", coord |-> c, content |-> Content(image[c])]
          \/ loaded' = [file |-> "version", coord |-> c, version |-> ver[c]]
    /\ rpc' = "validate"
    /\ UNCHANGED <<vars, rgen>>

(* A wrong GenerationHeld: any even generation will do. *)
GenerationEven == ~Odd(genFile)

(* Otherwise the read reports ErrSnapshotUnstable or ErrSnapshotChanged. *)
GenerationHeld == ~Odd(genFile) /\ genFile = rgen

(* The load is answered if the generation held and refused if not. *)
finishReadOnlySnapshot ==
    /\ rpc = "validate"
    /\ rpc' = "start"
    /\ rgen' = 0
    /\ loaded' = NotLoaded
    /\ UNCHANGED vars

ReaderNext == beginReadOnlySnapshot \/ LoadFile \/ finishReadOnlySnapshot

(* A load that would pass validation now holds the committed content, or   *)
(* the current version, of its chunk: the writer may have crashed, been    *)
(* reopened or failed to publish between the three reads, but never shows  *)
(* the reader a state that was not committed.                              *)
AcceptedReadIsCommitted ==
    rpc = "validate" /\ GenerationHeld =>
        /\ loaded.file = "image" => loaded.content = Recoverable(loaded.coord)
        /\ loaded.file = "version" => loaded.version = currentChunkVersion(loaded.coord)
================================================================================
