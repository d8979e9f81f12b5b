--------------------------- MODULE ChunkStoreClient ---------------------------
(***************************************************************************)
(* A client of the chunk store that remembers, for every chunk, the        *)
(* content and the version it was last shown.  The store shows them        *)
(* between operations; a crash and a recovery may lie between two looks.   *)
(***************************************************************************)
EXTENDS ChunkStore

VARIABLE seen

Shown == [c \in Coords |-> [content |-> Observed(c), version |-> currentChunkVersion(c)]]

(* The client knows nothing of the chunk. *)
Forgotten == [content |-> Absent, version |-> -1]

ClientInit ==
    /\ Init
    /\ seen = [c \in Coords |-> [content |-> Content(image[c]), version |-> 0]]

(* A process that ends before it could publish a write takes the version   *)
(* it showed with it; recovery may go back to the published one (section 5 *)
(* of README.md).                                                          *)
ClientNext ==
    /\ Next
    /\ seen' = CASE pc' = "idle" -> Shown'
                 [] pc' = "closed" -> [c \in Coords |-> IF IsPending(c) THEN Forgotten ELSE seen[c]]
                 [] OTHER -> seen

(* Versions are ordering tokens: the version of a chunk never goes back,   *)
(* and its content never changes under the same version, so a conditional  *)
(* write that names an old version cannot match a newer content.           *)
VersionsOrderContent ==
    [][\A c \in Coords : seen[c] # Forgotten /\ seen'[c] # Forgotten =>
          /\ seen'[c].version >= seen[c].version
          /\ seen'[c].version = seen[c].version => seen'[c].content = seen[c].content]_<<vars, seen>>
================================================================================
