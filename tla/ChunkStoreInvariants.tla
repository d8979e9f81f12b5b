-------------------------- MODULE ChunkStoreInvariants --------------------------
(***************************************************************************)
(* The invariants of ChunkStore that more than one of its proofs is about. *)
(* The proofs extend this module, not each other, and meet in              *)
(* ChunkStoreTheorems.                                                     *)
(***************************************************************************)
EXTENDS ChunkStore

(* What TypeOK needs besides itself: the chunk being published is a chunk, *)
(* and the clock has been advanced past the batch in progress.             *)
Reserved == {"intent", "append", "commit", "post"}

Control ==
    /\ pc = "publish" => cursor \in Coords
    /\ pc \in Reserved => Len(op.muts) <= versionClock

TypeInv == DirectoryOK /\ ProcessOK /\ Control

(***************************************************************************)
(* Versions in the making are ahead of the versions in use                 *)
(***************************************************************************)

(* The version file of the chunk being published is already written, a     *)
(* version reserved by recovery is above the one it replaces, and the      *)
(* versions reserved for a batch are above every version in use.           *)
PublishedAhead == pc = "publish" => ver[cursor] = pending[cursor].version

RecoveredAhead == \A c \in Coords : recovered[c] # 0 => pc = "recover" /\ ver[c] < recovered[c]

ReservedAhead ==
    pc \in Reserved => \A c \in Coords : /\ ver[c] <= versionClock - Len(op.muts)
                                         /\ pending[c].version <= versionClock - Len(op.muts)

AheadInv == PublishedAhead /\ RecoveredAhead /\ ReservedAhead

(***************************************************************************)
(* The last record of a chunk                                              *)
(***************************************************************************)

(* Index i is the last of the first k records of w that is about chunk c. *)
IsLast(w, k, c, i) ==
    /\ i \in 1..k
    /\ w[i].coord = c
    /\ \A j \in 1..k : w[j].coord = c => j <= i

(* Recoverable, as a function of what it reads. *)
RecoveredFrom(w, k, img, c) ==
    LET hits == {i \in 1..k : w[i].coord = c}
    IN IF hits = {} THEN Content(img[c])
       ELSE Content(w[CHOOSE i \in hits : \A j \in hits : j <= i].state)

(***************************************************************************)
(* Where a call is                                                         *)
(***************************************************************************)

IsWrite ==
    /\ op.kind \in {"write", "conditional"}
    /\ op.muts # <<>>
    /\ op.kind = "write" => Len(op.muts) = 1

Retrying == {"retry", "publish", "checkpoint"}

Writing == {"begin", "validate", "intent", "unpublish", "append", "commit", "post", "finish",
            "rollback", "clearRejected", "reject"}

(* An open holds nothing; a label belongs to a write or to a flush; a      *)
(* batch past validation names no chunk twice; a poisoned store only       *)
(* finishes the operation that poisoned it; loops start at zero.           *)
CallInv ==
    /\ pc \in Opening => /\ result = "none"
                         /\ poisoned = "no"
                         /\ pending = [c \in Coords |-> NotPending]
                         /\ cache = [c \in Coords |-> Absent]
    /\ pc \in Opening \cup {"idle"} => op = NoOp
    /\ pc \in Retrying => \/ ret \in {"begin", "finish"} /\ IsWrite
                          \/ ret = "sync" /\ op.kind = "flush"
    /\ pc \in Writing => IsWrite
    /\ pc = "sync" => op.kind = "flush"
    /\ pc = "fail" => IsWrite \/ op.kind = "flush"
    /\ pc \in Reserved => NotTwice(op.muts)
    /\ poisoned # "no" => pc \in {"reject", "idle", "finish"} \/ (pc \in Retrying /\ ret = "finish")
    /\ poisoned = "undecided" => pc \in {"reject", "idle"}
    /\ pc \notin {"publish", "checkpoint", "recover"} => cursor = 0
    /\ pc = "publish" => IsPending(cursor)

(***************************************************************************)
(* What the intent says about the WAL                                      *)
(***************************************************************************)

(* The intent discards records of the WAL. *)
Cut == intent.state = "rollback" /\ intent.boundary < Len(wal)

(* An intent discards records only from the append of its write until the  *)
(* WAL is cut, by the write, by a later open, or never in a poisoned       *)
(* store.  A forgotten intent discards nothing, however often the WAL is   *)
(* truncated and grows: growing it takes a new intent.                     *)
CutInv ==
    /\ Cut => \/ pc \in {"closed", "loadClock", "recoverIntent", "commit", "rollback"}
              \/ pc \in {"reject", "idle"} /\ poisoned # "no"
    /\ pc = "append" => intent.state = "rollback" /\ intent.boundary = Len(wal)
    /\ pc = "commit" => /\ intent.state = "rollback"
                        /\ Len(wal) = intent.boundary + Len(op.muts)
                        /\ \A i \in DOMAIN op.muts : wal[intent.boundary + i] = op.muts[i]
    /\ pc = "rollback" => intent.state = "rollback" /\ intent.boundary <= Len(wal)
    /\ pc = "post" => intent.state = "committed"

(***************************************************************************)
(* Replaying the WAL into the images                                       *)
(***************************************************************************)

(* Every chunk that the first n records name has the content of the last   *)
(* of them that names it.                                                  *)
ReplayedUpTo(w, n, img) ==
    \A i \in 1..n :
        (\A j \in 1..n : j > i => w[j].coord # w[i].coord)
        => Content(img[w[i].coord]) = Content(w[i].state)

(***************************************************************************)
(* What is recoverable changes only at a commit decision                   *)
(***************************************************************************)

(* The pending publication of a chunk is its recoverable content, except   *)
(* between the decision of a new write and its admission, and in a store   *)
(* that could not learn the decision.                                      *)
Fresh(c) == poisoned # "undecided" /\ ~(pc = "post" /\ c \in Mutated)

PendingIsRecoverable ==
    \A c \in Coords : IsPending(c) /\ Fresh(c) => Content(pending[c].state) = Recoverable(c)

(* A checkpoint or a recovery has replayed the records before its cursor. *)
ReplayIsDone ==
    pc \in {"checkpoint", "recover"} => cursor <= Len(wal) /\ ReplayedUpTo(wal, cursor, image)

(* A decided batch is what its chunks recover to. *)
DecidedIsRecoverable ==
    pc = "post" => \A c \in Mutated : Recoverable(c) = Content(op.muts[IndexOf(c)].state)

RecoveryInv ==
    CallInv /\ CutInv /\ PendingIsRecoverable /\ ReplayIsDone /\ DecidedIsRecoverable

(***************************************************************************)
(* What images and cache show                                              *)
(***************************************************************************)

ImageShows(c) == ~IsPending(c) /\ pc # "checkpoint" => Content(image[c]) = Recoverable(c)

CacheShows(c) == cache[c] = Absent \/ Content(cache[c]) = Recoverable(c)

(* Outside an open, the image of a chunk that is not pending has its       *)
(* recoverable content, except while a checkpoint replays the WAL over the *)
(* images; so has what the cache holds of it.                              *)
ReadsInv ==
    /\ pc = "opened" => wal = <<>>
    /\ pc = "checkpoint" => NothingPending
    /\ pc \notin Opening => \A c \in Coords : Fresh(c) => ImageShows(c) /\ CacheShows(c)

(* A checkpoint does not fail to rewrite an image. *)
CheckpointRewrites ==
    <<"persistCheckpointChunk", "early">> \notin Faults /\ <<"persistCheckpointChunk", "late">> \notin Faults

(***************************************************************************)
(* What an even generation says                                            *)
(***************************************************************************)

(* A checkpoint that is due would find nothing to replay. *)
Settled == checkpointDue => Kept = 0

(* Everything that moves an image or the recoverable content happens with  *)
(* an odd generation in the process and in the file.  With an even one     *)
(* nothing is pending and the checkpoint the next operation may run is     *)
(* over an empty WAL.                                                      *)
GenerationInv ==
    /\ pc = "checkpoint" => checkpointDue
    /\ pc \in Opening \ {"closed"} => Odd(genFile)
    /\ pc \notin Opening => /\ Odd(gen) => Odd(genFile)
                            /\ ~Odd(gen) => NothingPending /\ Settled
    /\ pc \in (Writing \ {"post"}) \cup {"sync"} => (NothingPending /\ poisoned # "undecided" => Settled)
    /\ pc = "sync" => NothingPending
    /\ pc \in Writing \ {"begin"} => Odd(gen)
    /\ pc \in Retrying /\ ret = "finish" => Odd(gen)
    /\ poisoned = "undecided" => Odd(gen)

(* Neither does a checkpoint fail to truncate the WAL, nor a barrier after *)
(* it replaced the generation file.                                        *)
BarriersHold ==
    /\ CheckpointRewrites
    /\ <<"clearWAL", "early">> \notin Faults
    /\ <<"flushSnapshot", "late">> \notin Faults

(***************************************************************************)
(* What the proofs about the store's users take from recovery              *)
(***************************************************************************)

Steady == \A c \in Coords : Recoverable(c)' = Recoverable(c)

(* What is recoverable moves at a commit decision that reached the intent  *)
(* file, and there by the whole batch.                                     *)
ContentMoves ==
    /\ ~PublishCommittedIntent \/ intent' = intent => Steady
    /\ WriteStep /\ ~PublishCommittedIntent => Kept' = Kept
    /\ PublishCommittedIntent /\ intent'.state # "rollback" =>
          \A c \in Coords :
             Recoverable(c)' = IF c \in Mutated THEN Content(op.muts[IndexOf(c)].state) ELSE Recoverable(c)

(* reserveRecoveryVersions passes over a chunk of the WAL only if it has a *)
(* version and, when no record is to be cut, if its image is what it       *)
(* recovers to.                                                            *)
ChangesReserved ==
    /\ ~Cut => \A c \in Coords : Content(image[c]) = Recoverable(c) \/ c \in ChangedChunks
    /\ \A h \in 1..Len(wal) : ver[wal[h].coord] # 0 \/ wal[h].coord \in ChangedChunks

ChangesCounted == Cardinality(ChangedChunks) \in Nat
================================================================================
