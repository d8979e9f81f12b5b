------------------------------ MODULE ChunkStore ------------------------------
(***************************************************************************)
(* The writer of an fs_split data directory (internal/storage/fs_split):   *)
(* opening and recovering the directory, ordinary and conditional writes,  *)
(* the commit decision, publication of chunk images and version files,     *)
(* checkpoints, the flush barrier, closing, and the death of the process   *)
(* between any two file operations.                                        *)
(*                                                                         *)
(* Every step performs at most one operation that another process, or a    *)
(* later incarnation of this one, can see: the replacement of one file, a  *)
(* WAL append, a truncation or a removal.  The store's mutex serialises    *)
(* the operations of one process, so one program counter is enough.        *)
(*                                                                         *)
(* The model is of what the file system shows, which is what survives the  *)
(* death of the process.  Losing power, which also loses what was never    *)
(* synchronised, is a different failure: the module PowerLoss adds it.     *)
(***************************************************************************)
EXTENDS Integers, Sequences, FiniteSets

CONSTANTS
    Coords,             \* chunk coordinates, numbered in the order recovery sorts them
    Values,             \* chunk states with at least one block present
    Empty,              \* the chunk state whose presence bitmap is empty
    Absent,             \* no image file, no cache entry
    MaxBatch,           \* longest conditional batch
    Durability,         \* "relaxed", "fsync-wal" or "fsync-checkpoint"
    CheckpointTrigger,  \* WAL records at which a checkpoint is due
    MaxVersion,         \* the last version, math.MaxUint64 in the code
    MaxGeneration,      \* the last snapshot generation, math.MaxUint64 in the code
    Faults,             \* the file operations that may report an error
    InitialImages       \* image files an older release may have left

States == Values \cup {Empty}
Images == States \cup {Absent}

(* A file operation that reports an error did so "early", with nothing     *)
(* changed, or "late", after its effect became visible: the directory sync *)
(* that follows a rename or a removal failed, or the sync of a truncated   *)
(* or extended WAL.                                                        *)
Points == {"beginWriteSnapshot", "persistVersionClock", "walSize", "publishIntent",
           "intentExists", "clearIntent", "syncIntentDirectory", "appendWAL",
           "readIntent", "rollbackWAL", "persistChunkVersion", "persistChunk",
           "persistCheckpointChunk", "clearWAL", "finishSnapshot", "syncWAL",
           "flushSnapshot", "openSnapshot", "replayVersion", "replayChunk",
           "replaceWALAfterReplay"}

ASSUME ConstantsAssumption ==
    /\ Coords \subseteq Nat
    /\ IsFiniteSet(Coords)
    /\ Empty \notin Values
    /\ Absent \notin States
    /\ MaxBatch \in Nat \ {0}
    /\ Durability \in {"relaxed", "fsync-wal", "fsync-checkpoint"}
    /\ CheckpointTrigger \in Nat \ {0}
    /\ MaxVersion \in Nat
    /\ MaxGeneration \in Nat
    /\ MaxGeneration % 2 = 1
    /\ Faults \subseteq Points \X {"early", "late"}
    /\ InitialImages \subseteq [Coords -> Images]

VARIABLES
    (* The data directory. *)
    wal,           \* complete WAL records, oldest first
    tail,          \* "torn" when the WAL ends in part of a record
    intent,        \* the intent file: a rollback boundary or a commit decision
    clockFile,     \* the version clock file, NoClock when missing
    image,         \* the image file of each chunk
    ver,           \* the version file of each chunk, 0 when missing
    genFile,       \* the snapshot generation file, 0 when missing
    (* The writer process. *)
    pc,            \* what the process does next
    ret,           \* where retryPendingPublications returns to
    op,            \* the operation in progress and its mutations
    result,        \* what the last operation returned
    versionClock,  \* Store.versionClock
    gen,           \* Store.snapshotGeneration
    pending,       \* Store.pendingPublications, version 0 when there is none
    cache,         \* resident chunk states
    poisoned,      \* Store.durabilityPoisoned and why it was set
    walRecords,    \* Store.walRecords
    cursor,        \* the loop position: a coordinate, or records already visited
    recovered      \* versions reserved by recovery and not yet published

logs   == <<wal, tail, intent>>
files  == <<image, ver>>
clocks == <<clockFile, versionClock>>
gens   == <<genFile, gen>>
held   == <<pending, cache>>
call   == <<op, result>>
marks  == <<walRecords, cursor, recovered>>

vars == <<logs, files, clocks, gens, held, call, marks, pc, ret, poisoned>>

(***************************************************************************)
(* Records                                                                 *)
(***************************************************************************)

Mutation == [coord: Coords, state: States]

Batches == UNION {[1..n -> Mutation] : n \in 1..MaxBatch}

Intents == [state: {"none", "rollback", "committed"}, boundary: Nat]

NoIntent == [state |-> "none", boundary |-> 0]

NoClock == -1

NotPending == [version |-> 0, state |-> Absent]

NoOp == [kind |-> "none", muts |-> <<>>]

IsPending(c) == pending[c].version # 0

NothingPending == \A c \in Coords : ~IsPending(c)

Odd(n) == n % 2 = 1

NotTwice(muts) ==
    \A i, j \in DOMAIN muts : muts[i].coord = muts[j].coord => i = j

(* currentChunkVersion: the pending version, else the version file. *)
currentChunkVersion(c) == IF IsPending(c) THEN pending[c].version ELSE ver[c]

(***************************************************************************)
(* File operations                                                         *)
(***************************************************************************)

SyncsPublications == Durability = "fsync-checkpoint"

SyncsCheckpoint == Durability # "relaxed"

(* How an operation at a point may end: an unsynchronised replacement has  *)
(* nothing left to fail once the rename is done.                           *)
Outcomes(point, synced) ==
    {"ok"} \cup {o \in {"early", "late"} : <<point, o>> \in Faults /\ (o = "late" => synced)}

Replaced(r, old, new) == IF r = "early" THEN old ELSE new

(* poisonDurability keeps the first error. *)
Poison(why) == IF poisoned = "no" THEN why ELSE poisoned

(* Everything the process held is gone; the directory is untouched. *)
ProcessGone ==
    /\ pc' = "closed"
    /\ ret' = "begin"
    /\ op' = NoOp
    /\ result' = "none"
    /\ versionClock' = 0
    /\ gen' = 0
    /\ pending' = [c \in Coords |-> NotPending]
    /\ cache' = [c \in Coords |-> Absent]
    /\ poisoned' = "no"
    /\ walRecords' = 0
    /\ cursor' = 0
    /\ recovered' = [c \in Coords |-> 0]

Init ==
    /\ wal = <<>>
    /\ tail = "whole"
    /\ intent = NoIntent
    /\ clockFile = NoClock
    /\ image \in InitialImages
    /\ ver = [c \in Coords |-> 0]
    /\ genFile = 0
    /\ pc = "closed"
    /\ ret = "begin"
    /\ op = NoOp
    /\ result = "none"
    /\ versionClock = 0
    /\ gen = 0
    /\ pending = [c \in Coords |-> NotPending]
    /\ cache = [c \in Coords |-> Absent]
    /\ poisoned = "no"
    /\ walRecords = 0
    /\ cursor = 0
    /\ recovered = [c \in Coords |-> 0]

(***************************************************************************)
(* Snapshot generation                                                     *)
(***************************************************************************)

(* persistSnapshotGeneration: the process adopts a generation only when    *)
(* the whole replacement succeeded.                                        *)
persistSnapshotGeneration(r, generation) ==
    /\ genFile' = Replaced(r, genFile, generation)
    /\ gen' = IF r = "ok" THEN generation ELSE gen

NextEven == IF Odd(gen) THEN gen + 1 ELSE gen

(* finishWriterSnapshot refuses to step past the last generation. *)
FinishOutcomes(point, synced) ==
    IF gen = MaxGeneration THEN {"early"} ELSE Outcomes(point, synced)

(***************************************************************************)
(* Opening and recovery (openStore)                                        *)
(***************************************************************************)

(* The writer lock is taken, temporary files are reclaimed and a missing   *)
(* WAL is created before the first step that matters: the generation read  *)
(* from the directory is made odd unless a predecessor left it odd.        *)
beginWriterSnapshot ==
    /\ pc = "closed"
    /\ genFile # MaxGeneration
    /\ IF Odd(genFile)
       THEN /\ gen' = genFile
            /\ pc' = "loadClock"
            /\ UNCHANGED genFile
       ELSE /\ genFile <= MaxGeneration - 2
            /\ \E r \in Outcomes("openSnapshot", TRUE) :
                  /\ persistSnapshotGeneration(r, genFile + 1)
                  /\ pc' = IF r = "ok" THEN "loadClock" ELSE "closed"
    /\ UNCHANGED <<logs, files, clocks, held, call, marks, ret, poisoned>>

(* An open that fails releases what it holds and leaves the directory as   *)
(* the failed operation left it.                                           *)
OpenContinues(next) ==
    /\ pc' = next
    /\ UNCHANGED <<gen, held, call, walRecords, ret, poisoned>>

(* A missing clock file is rebuilt from the highest version file. *)
loadVersionClock ==
    /\ pc = "loadClock"
    /\ IF clockFile # NoClock
       THEN /\ versionClock' = clockFile
            /\ UNCHANGED <<clockFile, cursor, recovered>>
            /\ OpenContinues("recoverIntent")
       ELSE \E highest \in {0} \cup {ver[c] : c \in Coords} :
            /\ \A c \in Coords : ver[c] <= highest
            /\ \E r \in Outcomes("persistVersionClock", TRUE) :
                  /\ clockFile' = Replaced(r, clockFile, highest)
                  /\ \/ /\ r = "ok"
                        /\ versionClock' = highest
                        /\ UNCHANGED <<cursor, recovered>>
                        /\ OpenContinues("recoverIntent")
                     \/ r # "ok" /\ ProcessGone
    /\ UNCHANGED <<logs, files, genFile>>

(* A rollback intent cuts the WAL at its boundary, and refuses a WAL that  *)
(* is shorter; a committed intent keeps every record.                      *)
recoverConditionalIntent ==
    /\ pc = "recoverIntent"
    /\ \/ /\ intent.state # "rollback"
          /\ OpenContinues(IF intent.state = "none" THEN "reserve" ELSE "clearRecovered")
          /\ UNCHANGED <<wal, tail, versionClock, cursor, recovered>>
       \/ /\ intent.state = "rollback"
          /\ intent.boundary > Len(wal)
          /\ ProcessGone
          /\ UNCHANGED <<wal, tail>>
       \/ /\ intent.state = "rollback"
          /\ intent.boundary <= Len(wal)
          /\ \E r \in Outcomes("rollbackWAL", TRUE) :
                /\ wal' = Replaced(r, wal, SubSeq(wal, 1, intent.boundary))
                /\ tail' = Replaced(r, tail, "whole")
                /\ \/ /\ r = "ok"
                      /\ OpenContinues("clearRecovered")
                      /\ UNCHANGED <<versionClock, cursor, recovered>>
                   \/ r # "ok" /\ ProcessGone
    /\ UNCHANGED <<intent, files, clockFile, genFile>>

clearRecoveredIntent ==
    /\ pc = "clearRecovered"
    /\ \E r \in Outcomes("clearIntent", TRUE) :
          /\ intent' = Replaced(r, intent, NoIntent)
          /\ \/ /\ r = "ok"
                /\ OpenContinues("reserve")
                /\ UNCHANGED <<versionClock, cursor, recovered>>
             \/ r # "ok" /\ ProcessGone
    /\ UNCHANGED <<wal, tail, files, clockFile, genFile>>

(* The last record of a chunk is the state recovery has to publish. *)
IsFinal(i) == \A j \in DOMAIN wal : j > i => wal[j].coord # wal[i].coord

(* A wrong ChangedChunks: an image that is there is taken to be the last record. *)
ChangedChunksByPresence ==
    {c \in Coords : \E i \in DOMAIN wal :
        /\ wal[i].coord = c
        /\ image[c] = Absent \/ ver[c] = 0}

(* Chunks whose image differs from their last record, or has no version. *)
ChangedChunks ==
    {c \in Coords : \E i \in DOMAIN wal :
        /\ wal[i].coord = c
        /\ IsFinal(i)
        /\ image[c] # wal[i].state \/ ver[c] = 0}

(* Every changed chunk gets a new version, in coordinate order. *)
reserveRecoveryVersions ==
    /\ pc = "reserve"
    /\ LET changed == ChangedChunks
           last == versionClock + Cardinality(changed)
       IN \/ /\ changed = {}
             /\ cursor' = 0
             /\ OpenContinues("recover")
             /\ UNCHANGED <<clocks, recovered>>
          \/ /\ last > MaxVersion
             /\ ProcessGone
             /\ UNCHANGED clockFile
          \/ /\ changed # {}
             /\ last <= MaxVersion
             /\ \E r \in Outcomes("persistVersionClock", TRUE) :
                   /\ clockFile' = Replaced(r, clockFile, last)
                   /\ \/ /\ r = "ok"
                         /\ versionClock' = last
                         /\ cursor' = 0
                         /\ \E f \in [changed -> (versionClock + 1)..last] :
                               /\ \A c, d \in changed : c < d => f[c] < f[d]
                               /\ recovered' = [c \in Coords |-> IF c \in changed THEN f[c] ELSE 0]
                         /\ OpenContinues("recover")
                      \/ r # "ok" /\ ProcessGone
    /\ UNCHANGED <<logs, files, genFile>>

(* recoverWAL publishes the reserved versions, in map order, ... *)
RecoverVersion ==
    /\ pc = "recover"
    /\ \E c \in Coords : \E r \in Outcomes("replayVersion", SyncsCheckpoint) :
          /\ recovered[c] # 0
          /\ ver' = [ver EXCEPT ![c] = Replaced(r, @, recovered[c])]
          /\ \/ /\ r = "ok"
                /\ recovered' = [recovered EXCEPT ![c] = 0]
                /\ OpenContinues("recover")
                /\ UNCHANGED <<versionClock, cursor>>
             \/ r # "ok" /\ ProcessGone
    /\ UNCHANGED <<logs, image, clockFile, genFile>>

VersionsRecovered == \A c \in Coords : recovered[c] = 0

(* ... then the state of every record, oldest first, ... *)
ReplayRecord ==
    /\ pc = "recover"
    /\ VersionsRecovered
    /\ cursor < Len(wal)
    /\ \E r \in Outcomes("replayChunk", SyncsCheckpoint) :
          /\ image' = [image EXCEPT ![wal[cursor + 1].coord] = Replaced(r, @, wal[cursor + 1].state)]
          /\ \/ /\ r = "ok"
                /\ cursor' = cursor + 1
                /\ OpenContinues("recover")
                /\ UNCHANGED <<versionClock, recovered>>
             \/ r # "ok" /\ ProcessGone
    /\ UNCHANGED <<logs, ver, clockFile, genFile>>

(* ... and replaces a WAL that held anything by an empty one. *)
replaceWALAfterReplay ==
    /\ pc = "recover"
    /\ VersionsRecovered
    /\ cursor = Len(wal)
    /\ \E r \in IF wal = <<>> /\ tail = "whole" THEN {"ok"} ELSE Outcomes("replaceWALAfterReplay", TRUE) :
          /\ wal' = Replaced(r, wal, <<>>)
          /\ tail' = Replaced(r, tail, "whole")
          /\ \/ /\ r = "ok"
                /\ cursor' = 0
                /\ OpenContinues("opened")
                /\ UNCHANGED <<versionClock, recovered>>
             \/ r # "ok" /\ ProcessGone
    /\ UNCHANGED <<intent, files, clockFile, genFile>>

finishRecoveredSnapshot ==
    /\ pc = "opened"
    /\ \E r \in FinishOutcomes("openSnapshot", TRUE) :
          /\ genFile' = Replaced(r, genFile, NextEven)
          /\ \/ /\ r = "ok"
                /\ gen' = NextEven
                /\ pc' = "idle"
                /\ UNCHANGED <<held, call, marks, ret, poisoned, versionClock>>
             \/ r # "ok" /\ ProcessGone
    /\ UNCHANGED <<logs, files, clockFile>>

OpenStep ==
    \/ beginWriterSnapshot
    \/ loadVersionClock
    \/ recoverConditionalIntent
    \/ clearRecoveredIntent
    \/ reserveRecoveryVersions
    \/ RecoverVersion
    \/ ReplayRecord
    \/ replaceWALAfterReplay
    \/ finishRecoveredSnapshot

(***************************************************************************)
(* Operations.  An operation refused at its first checks (nil chunk,       *)
(* foreign geometry, closed or read-only store, lost writer lock, poisoned *)
(* store) changes nothing and is not a step.                               *)
(***************************************************************************)

Call(kind, muts, return) ==
    /\ pc = "idle"
    /\ poisoned = "no"
    /\ pc' = "retry"
    /\ ret' = return
    /\ op' = [kind |-> kind, muts |-> muts]
    /\ result' = "none"
    /\ UNCHANGED <<logs, files, clocks, gens, held, marks, poisoned>>

WriteChunk == \E m \in Mutation : Call("write", <<m>>, "begin")

ConditionalWriteChunks == \E muts \in Batches : Call("conditional", muts, "begin")

FlushWAL == Call("flush", <<>>, "sync")

Return(res) ==
    /\ pc' = "idle"
    /\ ret' = "begin"
    /\ op' = NoOp
    /\ result' = res

(* An error returned without touching the snapshot generation. *)
ReturnError ==
    /\ pc = "fail"
    /\ Return("error")
    /\ UNCHANGED <<logs, files, clocks, gens, held, marks, poisoned>>

(***************************************************************************)
(* retryPendingPublications: publishes what is pending, version file       *)
(* before image, in map order, and then runs a checkpoint if one is due.   *)
(* A write discards its error, a flush returns it.                         *)
(***************************************************************************)

AfterRetry(ok) == IF ret = "sync" /\ ~ok THEN "fail" ELSE ret

PublishVersion ==
    /\ pc = "retry"
    /\ \E c \in Coords : \E r \in Outcomes("persistChunkVersion", SyncsPublications) :
          /\ IsPending(c)
          /\ ver' = [ver EXCEPT ![c] = Replaced(r, @, pending[c].version)]
          /\ cursor' = IF r = "ok" THEN c ELSE 0
          /\ pc' = IF r = "ok" THEN "publish" ELSE AfterRetry(FALSE)
    /\ UNCHANGED <<logs, image, clocks, gens, held, call, walRecords, recovered, ret, poisoned>>

PublishImage ==
    /\ pc = "publish"
    /\ \E r \in Outcomes("persistChunk", SyncsPublications) :
          /\ image' = [image EXCEPT ![cursor] = Replaced(r, @, pending[cursor].state)]
          /\ pending' = IF r = "ok" THEN [pending EXCEPT ![cursor] = NotPending] ELSE pending
          /\ pc' = IF r = "ok" THEN "retry" ELSE AfterRetry(FALSE)
    /\ cursor' = 0
    /\ UNCHANGED <<logs, ver, clocks, gens, cache, call, walRecords, recovered, ret, poisoned>>

checkpointDue == walRecords >= CheckpointTrigger

RetryDone ==
    /\ pc = "retry"
    /\ NothingPending
    /\ pc' = IF checkpointDue THEN "checkpoint" ELSE AfterRetry(TRUE)
    /\ UNCHANGED <<logs, files, clocks, gens, held, call, marks, ret, poisoned>>

(* collectEmptyChunk moves the image aside and forgets the cached state;   *)
(* it can also fail at its last step, removing what was moved aside.       *)
CollectOutcomes(c) ==
    Outcomes("persistCheckpointChunk", TRUE) \cup
    {o \in {"leftover"} : image[c] # Absent /\ <<"persistCheckpointChunk", "late">> \in Faults}

(* persistCheckpointChunk for the next WAL record. *)
persistCheckpointChunk ==
    /\ pc = "checkpoint"
    /\ cursor < Len(wal)
    /\ LET c == wal[cursor + 1].coord
           s == wal[cursor + 1].state
       IN \E r \in IF s = Empty THEN CollectOutcomes(c)
                   ELSE Outcomes("persistCheckpointChunk", SyncsCheckpoint) :
          /\ image' = [image EXCEPT ![c] = Replaced(r, @, IF s = Empty THEN Absent ELSE s)]
          /\ cache' = IF s = Empty /\ r \in {"ok", "leftover"}
                      THEN [cache EXCEPT ![c] = Absent] ELSE cache
          /\ cursor' = IF r = "ok" THEN cursor + 1 ELSE 0
          /\ pc' = IF r = "ok" THEN "checkpoint" ELSE AfterRetry(FALSE)
    /\ UNCHANGED <<logs, ver, clocks, gens, pending, call, walRecords, recovered, ret, poisoned>>

(* clearWAL; the record count is reset only when all of it succeeded. *)
clearWAL ==
    /\ pc = "checkpoint"
    /\ cursor = Len(wal)
    /\ \E r \in Outcomes("clearWAL", TRUE) :
          /\ wal' = Replaced(r, wal, <<>>)
          /\ tail' = Replaced(r, tail, "whole")
          /\ walRecords' = IF r = "ok" THEN 0 ELSE walRecords
          /\ pc' = AfterRetry(r = "ok")
    /\ cursor' = 0
    /\ UNCHANGED <<intent, files, clocks, gens, held, call, recovered, ret, poisoned>>

RetryStep ==
    \/ PublishVersion
    \/ PublishImage
    \/ RetryDone
    \/ persistCheckpointChunk
    \/ clearWAL

(***************************************************************************)
(* Writes.  WriteChunk and ConditionalWriteChunks differ in validation and *)
(* batch length; from the version clock on they take the same steps.       *)
(***************************************************************************)

beginWriteSnapshot ==
    /\ pc = "begin"
    /\ \/ /\ Odd(gen)
          /\ pc' = "validate"
          /\ UNCHANGED gens
       \/ /\ ~Odd(gen)
          /\ gen > MaxGeneration - 2
          /\ pc' = "fail"
          /\ UNCHANGED gens
       \/ /\ ~Odd(gen)
          /\ gen <= MaxGeneration - 2
          /\ \E r \in Outcomes("beginWriteSnapshot", TRUE) :
                /\ persistSnapshotGeneration(r, gen + 1)
                /\ pc' = IF r = "ok" THEN "validate" ELSE "fail"
    /\ UNCHANGED <<logs, files, clocks, held, call, marks, ret, poisoned>>

(* A conditional batch is refused for a nil chunk, a foreign geometry, a   *)
(* coordinate given twice, a version file it cannot read, a version above  *)
(* the clock or an expected version that is not the current one.  Which    *)
(* versions a caller expects is left open.                                 *)
RefuseBatch ==
    /\ pc = "validate"
    /\ op.kind = "conditional"
    /\ pc' = "reject"
    /\ UNCHANGED <<logs, files, clocks, gens, held, call, marks, ret, poisoned>>

MayReserve ==
    op.kind = "conditional" =>
        /\ NotTwice(op.muts)
        /\ \A i \in DOMAIN op.muts : currentChunkVersion(op.muts[i].coord) <= versionClock

(* A wrong ReserveVersions: the clock advances before its file is written. *)
ReserveVersionsUnwritten ==
    /\ pc = "validate"
    /\ MayReserve
    /\ LET last == versionClock + Len(op.muts)
       IN /\ last <= MaxVersion
          /\ \E r \in Outcomes("persistVersionClock", TRUE) :
                /\ clockFile' = Replaced(r, clockFile, last)
                /\ pc' = IF r = "ok" THEN "intent" ELSE "reject"
          /\ versionClock' = last
    /\ UNCHANGED <<logs, files, gens, held, call, marks, ret, poisoned>>

ReserveVersions ==
    /\ pc = "validate"
    /\ MayReserve
    /\ LET last == versionClock + Len(op.muts)
       IN \/ /\ last > MaxVersion
             /\ pc' = "reject"
             /\ UNCHANGED clocks
          \/ /\ last <= MaxVersion
             /\ \E r \in Outcomes("persistVersionClock", TRUE) :
                   /\ clockFile' = Replaced(r, clockFile, last)
                   /\ versionClock' = IF r = "ok" THEN last ELSE versionClock
                   /\ pc' = IF r = "ok" THEN "intent" ELSE "reject"
    /\ UNCHANGED <<logs, files, gens, held, call, marks, ret, poisoned>>

PublishRollbackIntent ==
    /\ pc = "intent"
    /\ \/ /\ <<"walSize", "early">> \in Faults
          /\ pc' = "reject"
          /\ UNCHANGED intent
       \/ \E r \in Outcomes("publishIntent", TRUE) :
             /\ intent' = Replaced(r, intent, [state |-> "rollback", boundary |-> Len(wal)])
             /\ pc' = IF r = "ok" THEN "append" ELSE "unpublish"
    /\ UNCHANGED <<wal, tail, files, clocks, gens, held, call, marks, ret, poisoned>>

(* A wrong CleanFailedIntent: a failed removal is only reported. *)
CleanFailedIntentUnpoisoned ==
    /\ pc = "unpublish"
    /\ \/ /\ intent.state = "none" \/ <<"intentExists", "early">> \in Faults
          /\ UNCHANGED intent
       \/ /\ intent.state # "none"
          /\ \E r \in Outcomes("clearIntent", TRUE) : intent' = Replaced(r, intent, NoIntent)
    /\ pc' = "reject"
    /\ UNCHANGED <<wal, tail, files, clocks, gens, held, call, marks, ret, poisoned>>

(* A rollback intent whose publication failed is removed if it is there;   *)
(* an error of intentExists counts as its absence.                         *)
CleanFailedIntent ==
    /\ pc = "unpublish"
    /\ \/ /\ intent.state = "none" \/ <<"intentExists", "early">> \in Faults
          /\ UNCHANGED <<intent, poisoned>>
       \/ /\ intent.state # "none"
          /\ \E r \in Outcomes("clearIntent", TRUE) :
                /\ intent' = Replaced(r, intent, NoIntent)
                /\ poisoned' = IF r = "ok" THEN poisoned ELSE Poison("repair")
    /\ pc' = "reject"
    /\ UNCHANGED <<wal, tail, files, clocks, gens, held, call, marks, ret>>

(* One write call appends all records.  It may stop short, between or      *)
(* inside records; in the synchronising modes the sync may fail after it.  *)
appendWAL ==
    /\ pc = "append"
    /\ \/ /\ wal' = wal \o op.muts
          /\ pc' = "commit"
          /\ UNCHANGED tail
       \/ /\ <<"appendWAL", "early">> \in Faults
          /\ \E k \in 0..(Len(op.muts) - 1) : wal' = wal \o SubSeq(op.muts, 1, k)
          /\ tail' \in {"whole", "torn"}
          /\ pc' = "rollback"
       \/ /\ <<"appendWAL", "late">> \in Faults
          /\ Durability # "relaxed"
          /\ wal' = wal \o op.muts
          /\ pc' = "rollback"
          /\ UNCHANGED tail
    /\ UNCHANGED <<intent, files, clocks, gens, held, call, marks, ret, poisoned>>

(* A wrong PublishCommittedIntent: any error counts as a decision not made. *)
PublishCommittedIntentUnread ==
    /\ pc = "commit"
    /\ \E r \in Outcomes("publishIntent", TRUE) :
          /\ intent' = Replaced(r, intent, [intent EXCEPT !.state = "committed"])
          /\ pc' = IF r = "ok" THEN "post" ELSE "rollback"
    /\ UNCHANGED <<wal, tail, files, clocks, gens, held, call, marks, ret, poisoned>>

(* The commit decision.  When its publication reports an error, the intent *)
(* file is read back to learn which way the decision went.                 *)
PublishCommittedIntent ==
    /\ pc = "commit"
    /\ \E r \in Outcomes("publishIntent", TRUE) :
          /\ intent' = Replaced(r, intent, [intent EXCEPT !.state = "committed"])
          /\ \/ /\ pc' = IF r = "early" THEN "rollback" ELSE "post"
                /\ UNCHANGED poisoned
             \/ /\ r # "ok"
                /\ <<"readIntent", "early">> \in Faults
                /\ poisoned' = Poison("undecided")
                /\ pc' = "reject"
    /\ UNCHANGED <<wal, tail, files, clocks, gens, held, call, marks, ret>>

Mutated == {op.muts[i].coord : i \in DOMAIN op.muts}

IndexOf(c) == CHOOSE i \in DOMAIN op.muts : op.muts[i].coord = c

(* Index i of a batch of n got version finalVersion - (n - i). *)
Publication(c) ==
    [version |-> versionClock - (Len(op.muts) - IndexOf(c)), state |-> op.muts[IndexOf(c)].state]

(* A wrong AdmitCommitted: a resident chunk keeps its old state. *)
AdmitCommittedStaleCache ==
    /\ pc = "post"
    /\ walRecords' = walRecords + Len(op.muts)
    /\ pending' = [c \in Coords |-> IF c \in Mutated THEN Publication(c) ELSE pending[c]]
    /\ intent' = NoIntent
    /\ pc' = "retry"
    /\ ret' = "finish"
    /\ UNCHANGED <<wal, tail, files, clocks, gens, cache, call, cursor, recovered, poisoned>>

(* The committed write is admitted to the pending publications and to the  *)
(* cache, and its intent is removed.                                       *)
AdmitCommitted ==
    /\ pc = "post"
    /\ walRecords' = walRecords + Len(op.muts)
    /\ pending' = [c \in Coords |-> IF c \in Mutated THEN Publication(c) ELSE pending[c]]
    /\ cache' = [c \in Coords |-> IF c \in Mutated THEN Publication(c).state ELSE cache[c]]
    /\ \E r \in Outcomes("clearIntent", TRUE) :
          /\ intent' = Replaced(r, intent, NoIntent)
          /\ \/ UNCHANGED poisoned
             \/ /\ r # "ok"
                /\ <<"syncIntentDirectory", "early">> \in Faults
                /\ poisoned' = Poison("repair")
    /\ pc' = "retry"
    /\ ret' = "finish"
    /\ UNCHANGED <<wal, tail, files, clocks, gens, call, cursor, recovered>>

(* A wrong finishCommittedSnapshot: even although something is pending. *)
finishCommittedSnapshotPending ==
    /\ pc = "finish"
    /\ \E r \in FinishOutcomes("finishSnapshot", FALSE) :
          /\ persistSnapshotGeneration(r, NextEven)
          /\ poisoned' = IF r = "ok" THEN poisoned ELSE Poison("repair")
    /\ Return("ok")
    /\ UNCHANGED <<logs, files, clocks, held, marks>>

finishCommittedSnapshot ==
    /\ pc = "finish"
    /\ \/ /\ ~NothingPending
          /\ UNCHANGED <<gens, poisoned>>
       \/ /\ NothingPending
          /\ \E r \in FinishOutcomes("finishSnapshot", FALSE) :
                /\ persistSnapshotGeneration(r, NextEven)
                /\ poisoned' = IF r = "ok" THEN poisoned ELSE Poison("repair")
    /\ Return("ok")
    /\ UNCHANGED <<logs, files, clocks, held, marks>>

(* A wrong rollbackWAL: complete records are cut, part of one is not. *)
rollbackWALKeepsTail ==
    /\ pc = "rollback"
    /\ wal' = SubSeq(wal, 1, intent.boundary)
    /\ pc' = "clearRejected"
    /\ UNCHANGED <<tail, intent, files, clocks, gens, held, call, marks, ret, poisoned>>

(* rollbackRejectedWrite: cut the WAL, then remove the intent. *)
rollbackWAL ==
    /\ pc = "rollback"
    /\ \E r \in IF Len(wal) < intent.boundary THEN {"early"} ELSE Outcomes("rollbackWAL", TRUE) :
          /\ wal' = Replaced(r, wal, SubSeq(wal, 1, intent.boundary))
          /\ tail' = Replaced(r, tail, "whole")
          /\ poisoned' = IF r = "ok" THEN poisoned ELSE Poison("repair")
          /\ pc' = IF r = "ok" THEN "clearRejected" ELSE "reject"
    /\ UNCHANGED <<intent, files, clocks, gens, held, call, marks, ret>>

clearRejectedIntent ==
    /\ pc = "clearRejected"
    /\ \E r \in Outcomes("clearIntent", TRUE) :
          /\ intent' = Replaced(r, intent, NoIntent)
          /\ poisoned' = IF r = "ok" THEN poisoned ELSE Poison("repair")
    /\ pc' = "reject"
    /\ UNCHANGED <<wal, tail, files, clocks, gens, held, call, marks, ret>>

(* A wrong finishRejectedSnapshot: the generation is left as it is. *)
finishRejectedSnapshotSkipped ==
    /\ pc = "reject"
    /\ Return("error")
    /\ UNCHANGED <<logs, files, clocks, gens, held, marks, poisoned>>

finishRejectedSnapshot ==
    /\ pc = "reject"
    /\ \/ /\ poisoned # "no" \/ ~NothingPending
          /\ UNCHANGED <<gens, poisoned>>
       \/ /\ poisoned = "no"
          /\ NothingPending
          /\ \E r \in FinishOutcomes("finishSnapshot", FALSE) :
                /\ persistSnapshotGeneration(r, NextEven)
                /\ poisoned' = IF r = "ok" THEN poisoned ELSE Poison("repair")
    /\ Return("error")
    /\ UNCHANGED <<logs, files, clocks, held, marks>>

WriteStep ==
    \/ beginWriteSnapshot
    \/ RefuseBatch
    \/ ReserveVersions
    \/ PublishRollbackIntent
    \/ CleanFailedIntent
    \/ appendWAL
    \/ PublishCommittedIntent
    \/ AdmitCommitted
    \/ finishCommittedSnapshot
    \/ rollbackWAL
    \/ clearRejectedIntent
    \/ finishRejectedSnapshot

(***************************************************************************)
(* The flush barrier, reads, eviction, closing and death of the process    *)
(***************************************************************************)

(* After the retry, FlushWAL synchronises the WAL and the published files  *)
(* and publishes an even generation.                                       *)
FlushBarrier ==
    /\ pc = "sync"
    /\ \/ /\ <<"syncWAL", "early">> \in Faults
          /\ pc' = "fail"
          /\ UNCHANGED <<gens, call, ret>>
       \/ \E r \in FinishOutcomes("flushSnapshot", TRUE) :
             /\ persistSnapshotGeneration(r, NextEven)
             /\ \/ r = "ok" /\ Return("ok")
                \/ r # "ok" /\ pc' = "fail" /\ UNCHANGED <<call, ret>>
    /\ UNCHANGED <<logs, files, clocks, held, marks, poisoned>>

(* A read of a chunk that is neither pending nor resident loads its image  *)
(* into the cache.                                                         *)
ReadChunk ==
    /\ pc = "idle"
    /\ \E c \in Coords :
          /\ ~IsPending(c)
          /\ cache[c] = Absent
          /\ image[c] # Absent
          /\ cache' = [cache EXCEPT ![c] = image[c]]
    /\ UNCHANGED <<logs, files, clocks, gens, pending, call, marks, pc, ret, poisoned>>

(* The bounded cache may drop any resident chunk.  Only reads consult it,  *)
(* and they run between operations.                                        *)
Evict ==
    /\ pc = "idle"
    /\ \E c \in Coords :
          /\ cache[c] # Absent
          /\ cache' = [cache EXCEPT ![c] = Absent]
    /\ UNCHANGED <<logs, files, clocks, gens, pending, call, marks, pc, ret, poisoned>>

(* Close gives up what is pending; recovery finds it in the WAL. *)
Close ==
    /\ pc = "idle"
    /\ ProcessGone
    /\ UNCHANGED <<logs, files, clockFile, genFile>>

Crash ==
    /\ pc \notin {"closed", "idle"}
    /\ ProcessGone
    /\ UNCHANGED <<logs, files, clockFile, genFile>>

Next ==
    \/ OpenStep
    \/ WriteChunk
    \/ ConditionalWriteChunks
    \/ FlushWAL
    \/ ReturnError
    \/ RetryStep
    \/ WriteStep
    \/ FlushBarrier
    \/ ReadChunk
    \/ Evict
    \/ Close
    \/ Crash

Spec == Init /\ [][Next]_vars

(* The steps of an operation, or of an open, that has begun.  They belong  *)
(* to one goroutine that waits for nothing but its file operations.        *)
Running ==
    \/ loadVersionClock
    \/ recoverConditionalIntent
    \/ clearRecoveredIntent
    \/ reserveRecoveryVersions
    \/ RecoverVersion
    \/ ReplayRecord
    \/ replaceWALAfterReplay
    \/ finishRecoveredSnapshot
    \/ ReturnError
    \/ RetryStep
    \/ WriteStep
    \/ FlushBarrier

(***************************************************************************)
(* Properties                                                              *)
(***************************************************************************)

Ops == [kind: {"none", "write", "conditional", "flush"}, muts: Seq(Mutation)]

Publications == [version: Nat, state: Images]

Labels == {"closed", "loadClock", "recoverIntent", "clearRecovered", "reserve", "recover",
           "opened", "idle", "fail", "retry", "publish", "checkpoint", "begin", "validate",
           "intent", "unpublish", "append", "commit", "post", "finish", "rollback",
           "clearRejected", "reject", "sync"}

DirectoryOK ==
    /\ wal \in Seq(Mutation)
    /\ tail \in {"whole", "torn"}
    /\ intent \in Intents
    /\ clockFile \in Nat \cup {NoClock}
    /\ image \in [Coords -> Images]
    /\ ver \in [Coords -> Nat]
    /\ genFile \in 0..MaxGeneration

ProcessOK ==
    /\ pc \in Labels
    /\ ret \in {"begin", "finish", "sync"}
    /\ op \in Ops
    /\ result \in {"none", "ok", "error"}
    /\ versionClock \in Nat
    /\ gen \in 0..MaxGeneration
    /\ pending \in [Coords -> Publications]
    /\ cache \in [Coords -> Images]
    /\ poisoned \in {"no", "repair", "undecided"}
    /\ walRecords \in Nat
    /\ cursor \in Nat
    /\ recovered \in [Coords -> Nat]

(* Every file and every field of the Store stays within its type; the      *)
(* version arithmetic of a batch never goes below zero and the snapshot    *)
(* generation never passes its last value.                                 *)
TypeOK == DirectoryOK /\ ProcessOK

(* A chunk with no block present and a chunk with no image read the same. *)
Content(x) == IF x = Empty THEN Absent ELSE x

(* The records an open would keep: a rollback intent cuts the WAL. *)
Kept ==
    IF intent.state = "rollback" /\ intent.boundary < Len(wal)
    THEN intent.boundary ELSE Len(wal)

(* The content of a chunk as an open would recover it: its last kept       *)
(* record, else its image.                                                 *)
Recoverable(c) ==
    LET hits == {i \in 1..Kept : wal[i].coord = c}
    IN IF hits = {} THEN Content(image[c])
       ELSE Content(wal[CHOOSE i \in hits : \A j \in hits : j <= i].state)

(* What ReadChunk answers. *)
Observed(c) ==
    IF IsPending(c) THEN Content(pending[c].state)
    ELSE Content(IF cache[c] # Absent THEN cache[c] ELSE image[c])

(* Between operations a read returns exactly what a restart would recover, *)
(* so an acknowledged write is neither lost nor reverted and a rejected    *)
(* one is invisible.  The exception is a commit decision the process could *)
(* not read back: it refuses further writes until it is reopened.          *)
ReadsCommitted ==
    pc = "idle" /\ poisoned # "undecided" => \A c \in Coords : Observed(c) = Recoverable(c)

(* While the generation file is even, what a read-only process finds in    *)
(* the image files is the committed state of every chunk.                  *)
EvenGenerationIsStable ==
    ~Odd(genFile) => \A c \in Coords : Content(image[c]) = Recoverable(c)

(* The clock file is never behind a version in a version file or a version *)
(* about to be published, so no version is ever handed out twice.          *)
VersionsWithinClock ==
    /\ \A c \in Coords : ver[c] <= clockFile \/ ver[c] = 0
    /\ \A c \in Coords : pending[c].version <= versionClock /\ recovered[c] <= versionClock
    /\ versionClock <= clockFile \/ pc \in {"closed", "loadClock"}

(* Part of a record is in the WAL only behind a rollback boundary that     *)
(* discards it, and the boundary never lies beyond the WAL, so an open     *)
(* never refuses the directory as corrupt.                                 *)
BoundaryCoversTail ==
    /\ tail = "torn" => intent.state = "rollback"
    /\ intent.state = "rollback" => intent.boundary <= Len(wal)

(* A repair failure that makes safe continuation uncertain poisons the     *)
(* store: no operation leaves a rollback intent behind and the store open  *)
(* for writes (docs/STORAGE_FORMAT.md, "Writes, checkpoints, and           *)
(* durability").                                                           *)
UnrepairedIntentPoisons == pc = "idle" /\ intent.state = "rollback" => poisoned # "no"

(* When no file operation fails and the process stays up, the generation   *)
(* keeps returning to even: a read-only process is not refused for ever.   *)
GenerationSettles == <>[](pc # "closed") => []<>~Odd(genFile)

(***************************************************************************)
(* The store implements AtomicChunks                                       *)
(***************************************************************************)

Opening == {"closed", "loadClock", "recoverIntent", "clearRecovered", "reserve", "recover", "opened"}

(* The commit decision of the write in progress has been published. *)
Decided == pc \in {"post", "finish"} \/ (ret = "finish" /\ pc \in {"retry", "publish", "checkpoint"})

Phase ==
    CASE pc \in Opening -> "down"
      [] pc \notin Opening /\ poisoned = "undecided" -> "halted"
      [] pc = "idle" /\ poisoned # "undecided" -> "ready"
      [] op.kind = "flush" -> "flushing"
      [] Decided -> "done"
      [] OTHER -> "called"

Request ==
    IF Phase \in {"called", "done"}
    THEN [c \in Mutated |-> Content(op.muts[IndexOf(c)].state)]
    ELSE [c \in {} |-> c]

Atomic == INSTANCE AtomicChunks WITH
    Contents <- Values \cup {Absent},
    chunks <- [c \in Coords |-> Recoverable(c)],
    phase <- Phase,
    request <- Request,
    answer <- result

(* Whatever fails and wherever the process dies, the content recoverable   *)
(* from the directory changes only by whole batches, each at its commit    *)
(* decision, and the answers tell which batches took effect.               *)
ImplementsAtomicChunks == Atomic!Spec
================================================================================
