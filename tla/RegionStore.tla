------------------------------ MODULE RegionStore ------------------------------
(***************************************************************************)
(* The experimental region layout (internal/storage/fs_region): one image  *)
(* file per large chunk, with a header, a directory that says which slots  *)
(* are present and with which checksum, and the slots.  The store keeps a  *)
(* bounded list of open images, each with its directory in memory.         *)
(*                                                                         *)
(* The mutex serialises the calls.  A write is several file writes, and    *)
(* the process may die between two of them, or one of them may fail.  The  *)
(* payload write may fail in part; the directory, one write, reaches the   *)
(* file whole or not at all.  A checksum is represented by the payload it  *)
(* was computed from.                                                      *)
(***************************************************************************)
EXTENDS Geometry, Sequences, FiniteSets

CONSTANTS
    Chunks,           \* chunk coordinates
    LargeChunkEdge,   \* chunks along the edge of a region
    Payloads,         \* chunk states
    Zero,             \* the bytes of a slot never written
    Torn,             \* the bytes a write that failed in part leaves
    NoSum,            \* the directory entry of a slot that is not present
    Corrupt,          \* ErrCorrupt
    MaxOpenRegions,
    Fails             \* the file operations that may report an error

Points == {"create", "load", "header", "directory", "size", "payload", "publish", "close"}

ASSUME RegionAssumption ==
    /\ Chunks \subseteq Int \X Int
    /\ LargeChunkEdge \in Nat \ {0}
    /\ MaxOpenRegions \in Nat \ {0}
    /\ Fails \subseteq Points
    /\ {Zero, Torn, NoSum, Corrupt} \cap Payloads = {}

Region(c) == locate(c, LargeChunkEdge).region

Slot(c) == locate(c, LargeChunkEdge).slot

Regions == {Region(c) : c \in Chunks}

Slots == 0..(LargeChunkEdge * LargeChunkEdge - 1)

NothingPresent == [s \in Slots |-> NoSum]

VARIABLES
    (* The region images. *)
    size,       \* "none", "empty", "header", "directory" or "whole"
    directory,  \* the slot directory in the file
    slots,      \* the slot area of the file
    (* The process. *)
    pc,
    op,         \* the chunk and payload being written
    recent,     \* Store.recent, most recent first
    memory,     \* regionImage.directory of every open image
    handles,    \* regions whose file is open
    (* What callers were told. *)
    expected    \* what a read of each chunk may answer

image == <<size, directory, slots>>
process == <<pc, op, recent, memory, handles>>
vars == <<image, process, expected>>

NoOp == [chunk |-> Corrupt, payload |-> Zero]

Init ==
    /\ size = [r \in Regions |-> "none"]
    /\ directory = [r \in Regions |-> NothingPresent]
    /\ slots = [r \in Regions |-> [s \in Slots |-> Zero]]
    /\ pc = "closed"
    /\ op = NoOp
    /\ recent = <<>>
    /\ memory = [r \in Regions |-> NothingPresent]
    /\ handles = {}
    /\ expected = [c \in Chunks |-> {NoSum}]

IsOpen(r) == \E i \in DOMAIN recent : recent[i] = r

(***************************************************************************)
(* Opening, closing and reading                                            *)
(***************************************************************************)

OpenWithOptions ==
    /\ pc = "closed"
    /\ pc' = "idle"
    /\ UNCHANGED <<image, op, recent, memory, handles, expected>>

ProcessGone ==
    /\ pc' = "closed"
    /\ op' = NoOp
    /\ recent' = <<>>
    /\ memory' = [r \in Regions |-> NothingPresent]
    /\ handles' = {}

Close ==
    /\ pc = "idle"
    /\ ProcessGone
    /\ UNCHANGED <<image, expected>>

Crash ==
    /\ pc \notin {"closed", "idle"}
    /\ ProcessGone
    /\ UNCHANGED <<image, expected>>

(* The list, the open files and the directories in memory without a region. *)
Without(r) ==
    IF IsOpen(r)
    THEN LET i == CHOOSE i \in DOMAIN recent : recent[i] = r
         IN SubSeq(recent, 1, i - 1) \o SubSeq(recent, i + 1, Len(recent))
    ELSE recent

Discarded(r) ==
    [recent  |-> Without(r),
     handles |-> handles \ {r},
     memory  |-> [memory EXCEPT ![r] = NothingPresent]]

Kept == [recent |-> recent, handles |-> handles, memory |-> memory]

(* A wrong Evicted: room is made only when the bound is exceeded. *)
EvictedLate ==
    IF Len(recent) > MaxOpenRegions THEN Discarded(recent[Len(recent)]) ELSE Kept

(* evictImage, when the bound is reached. *)
Evicted ==
    IF Len(recent) >= MaxOpenRegions THEN Discarded(recent[Len(recent)]) ELSE Kept

Becomes(open) ==
    /\ recent' = open.recent
    /\ handles' = open.handles
    /\ memory' = open.memory

(* A file that cannot be closed ends the call, after the image was dropped. *)
EvictionFails ==
    /\ Len(recent) >= MaxOpenRegions
    /\ "close" \in Fails
    /\ Becomes(Evicted)

(* An image that cannot be used is closed again. *)
Unusable(r) == size[r] \in {"header", "directory"} \/ (size[r] = "whole" /\ "load" \in Fails)

(* openRegionImage of a complete image loads its directory. *)
Load(r) ==
    /\ recent' = <<r>> \o Evicted.recent
    /\ handles' = Evicted.handles \cup {r}
    /\ memory' = [Evicted.memory EXCEPT ![r] = directory[r]]

MoveToFront(r) ==
    /\ recent' = <<r>> \o Without(r)
    /\ UNCHANGED <<memory, handles>>

(* The part of a read that changes the store: the image is brought to the  *)
(* front, or takes the place of the least recent one.                      *)
ReadChunk ==
    /\ pc = "idle"
    /\ \E r \in Regions :
          \/ IsOpen(r) /\ MoveToFront(r)
          \/ ~IsOpen(r) /\ EvictionFails
          \/ ~IsOpen(r) /\ size[r] = "whole" /\ Load(r)
          \/ ~IsOpen(r) /\ (Unusable(r) \/ size[r] \in {"none", "empty"}) /\ Becomes(Evicted)
    /\ UNCHANGED <<image, pc, op, expected>>

(* What ReadChunk answers: the payload, NoSum for a missing chunk, or      *)
(* Corrupt.  The directory of an open image is the one in memory.          *)
Answer(c) ==
    LET r == Region(c)
        s == Slot(c)
        sum == IF IsOpen(r) THEN memory[r][s] ELSE directory[r][s]
    IN IF ~IsOpen(r) /\ size[r] \in {"none", "empty"} THEN NoSum
       ELSE IF ~IsOpen(r) /\ size[r] # "whole" THEN Corrupt
       ELSE IF sum = NoSum THEN NoSum
       ELSE IF slots[r][s] # sum THEN Corrupt
       ELSE sum

(***************************************************************************)
(* WriteChunk                                                              *)
(***************************************************************************)

Target == Region(op.chunk)

Fail ==
    /\ pc' = "idle"
    /\ op' = NoOp

(* From its first file operation on a write may be seen, in whole or not,  *)
(* and an overwrite may leave the slot unreadable.                         *)
WriteChunk ==
    /\ pc = "idle"
    /\ \E c \in Chunks, p \in Payloads :
          /\ op' = [chunk |-> c, payload |-> p]
          /\ expected' = [expected EXCEPT ![c] =
                @ \cup {p} \cup (IF @ = {NoSum} THEN {} ELSE {Corrupt})]
    /\ pc' = "acquire"
    /\ UNCHANGED <<image, recent, memory, handles>>

(* acquireImage and the cases of openRegionImage; O_CREATE makes a file    *)
(* that is not there.                                                      *)
acquireImage ==
    /\ pc = "acquire"
    /\ \/ /\ IsOpen(Target)
          /\ MoveToFront(Target)
          /\ pc' = "payload"
          /\ UNCHANGED <<size, op>>
       \/ ~IsOpen(Target) /\ EvictionFails /\ Fail /\ UNCHANGED size
       \/ ~IsOpen(Target) /\ Unusable(Target) /\ Becomes(Evicted) /\ Fail /\ UNCHANGED size
       \/ /\ ~IsOpen(Target)
          /\ size[Target] \in {"none", "empty"}
          /\ "create" \in Fails
          /\ Becomes(Evicted)
          /\ Fail
          /\ UNCHANGED size
       \/ /\ ~IsOpen(Target)
          /\ size[Target] \in {"none", "empty"}
          /\ Becomes([Evicted EXCEPT !.handles = @ \cup {Target}])
          /\ size' = [size EXCEPT ![Target] = "empty"]
          /\ pc' = "header"
          /\ UNCHANGED op
       \/ /\ ~IsOpen(Target)
          /\ size[Target] = "whole"
          /\ Load(Target)
          /\ pc' = "payload"
          /\ UNCHANGED <<size, op>>
    /\ UNCHANGED <<directory, slots, expected>>

(* One of the three writes of initialize.  The image enters the list only  *)
(* after the last one; an error closes the file, and the write that failed *)
(* may have reached it in part.                                            *)
Initialize(from, to, next) ==
    /\ pc = from
    /\ \/ /\ size' = [size EXCEPT ![Target] = to]
          /\ pc' = next
          /\ recent' = IF to = "whole" THEN <<Target>> \o recent ELSE recent
          /\ UNCHANGED <<op, handles>>
       \/ /\ from \in Fails
          /\ \E left \in {size[Target], to} \ {"whole"} : size' = [size EXCEPT ![Target] = left]
          /\ handles' = handles \ {Target}
          /\ Fail
          /\ UNCHANGED recent
    /\ UNCHANGED <<directory, slots, memory, expected>>

initialize ==
    \/ Initialize("header", "header", "directory")
    \/ Initialize("directory", "directory", "size")
    \/ Initialize("size", "whole", "payload")

Marked == [memory EXCEPT ![Target][Slot(op.chunk)] = op.payload]

(* A wrong DiscardAfterError: the image stays, with the slot it marked. *)
DiscardAfterErrorKept ==
    /\ memory' = Marked
    /\ UNCHANGED <<recent, handles>>

(* An image whose slot could not be published is closed and forgotten. *)
DiscardAfterError == Becomes(Discarded(Target))

(* writeSlot: the payload first ... *)
WritePayload ==
    /\ pc = "payload"
    /\ \/ /\ slots' = [slots EXCEPT ![Target][Slot(op.chunk)] = op.payload]
          /\ pc' = "publish"
          /\ UNCHANGED <<op, recent, memory, handles>>
       \/ /\ "payload" \in Fails
          /\ \E left \in {slots[Target][Slot(op.chunk)], Torn} :
                slots' = [slots EXCEPT ![Target][Slot(op.chunk)] = left]
          /\ DiscardAfterError
          /\ Fail
    /\ UNCHANGED <<size, directory, expected>>

(* ... then the whole directory, with the slot marked present. *)
PublishSlot ==
    /\ pc = "publish"
    /\ \/ /\ directory' = [directory EXCEPT ![Target] = Marked[Target]]
          /\ memory' = Marked
          /\ expected' = [expected EXCEPT ![op.chunk] = {op.payload}]
          /\ UNCHANGED <<recent, handles>>
       \/ /\ "publish" \in Fails
          /\ DiscardAfterError
          /\ UNCHANGED <<directory, expected>>
    /\ pc' = "idle"
    /\ op' = NoOp
    /\ UNCHANGED <<size, slots>>

Next ==
    \/ OpenWithOptions
    \/ ReadChunk
    \/ WriteChunk
    \/ acquireImage
    \/ initialize
    \/ WritePayload
    \/ PublishSlot
    \/ Close
    \/ Crash

Spec == Init /\ [][Next]_vars

(***************************************************************************)
(* Properties                                                              *)
(***************************************************************************)

(* Every chunk has a slot of its image to itself, on both sides of the     *)
(* origin: locate never gives two chunks the same place.                   *)
ChunksHaveOwnSlots ==
    \A c, d \in Chunks :
        /\ Slot(c) \in Slots
        /\ Region(c) = Region(d) /\ Slot(c) = Slot(d) => c = d

(* A read between two calls answers the last acknowledged payload.  After  *)
(* a write that failed or was interrupted it may answer that payload, or,  *)
(* where one was published before, report corruption; a first publication  *)
(* that was interrupted leaves the chunk missing.  A region image left     *)
(* half made is refused, and none of its chunks was ever acknowledged.     *)
ReadsAnswerExpected ==
    pc \in {"idle", "closed"} =>
        \A c \in Chunks :
            \/ Answer(c) \in expected[c]
            \/ Answer(c) = Corrupt /\ size[Region(c)] # "whole" /\ NoSum \in expected[c]

(* The files held open never exceed the bound, and between calls they are  *)
(* exactly the images in the list: no error path leaks or closes twice.    *)
HandlesBounded ==
    /\ Cardinality(handles) <= MaxOpenRegions
    /\ pc = "idle" => \A r \in Regions : r \in handles <=> IsOpen(r)
================================================================================
