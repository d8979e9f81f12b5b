------------------------------- MODULE PowerLoss -------------------------------
(***************************************************************************)
(* The chunk store on a machine that may lose power.  ChunkStore is about  *)
(* what the file system shows; this module adds what has reached stable    *)
(* storage.  Every file keeps the set of states in which a power loss may  *)
(* leave it: a replacement, append or truncation that is not synchronised  *)
(* adds a state, a synchronisation leaves only the current one.  A file    *)
(* comes back in one of these states, whole, independently of the others.  *)
(* The large-chunk directories are entries of the root directory that the  *)
(* synchronisation of the root makes stable; every chunk of an instance    *)
(* lies in a large chunk of its own.                                       *)
(*                                                                         *)
(* The version clock, the intent file and the creation of the WAL are      *)
(* always synchronised before the step that follows them.                  *)
(***************************************************************************)
EXTENDS ChunkStore

CONSTANTS
    WALGroupCommitUpdates,  \* updates between two synchronisations of the WAL
    maxPendingSyncPaths     \* paths remembered for the barrier, 4096 in the code

ASSUME PowerAssumption ==
    /\ WALGroupCommitUpdates \in Nat \ {0}
    /\ maxPendingSyncPaths \in Nat \ {0}
    /\ Faults \subseteq {<<"syncWAL", "early">>}

VARIABLES
    stable,       \* for every published path, the states a power loss may leave
    stableWAL,    \* for the WAL
    stableGen,    \* for the snapshot generation
    stableDirs,   \* chunks whose large-chunk directory the root keeps
    pendingSync,  \* Store.pendingSync
    walUnsynced,  \* Store.walUnsyncedUpdates
    mine,         \* paths this process published
    acked,        \* the content of each chunk's last acknowledged write
    promised      \* the contents the durability mode lets a power loss leave

disk    == <<stable, stableWAL, stableGen, stableDirs>>
powered == <<disk, pendingSync, walUnsynced, mine, acked, promised>>

Paths == {"image", "version"} \X Coords

Current(p) == IF p[1] = "image" THEN image[p[2]] ELSE ver[p[2]]

NothingToSync == [paths |-> {}, overflow |-> FALSE]

PowerInit ==
    /\ Init
    /\ stable = [p \in Paths |-> {Current(p)}]
    /\ stableWAL = {<<>>}
    /\ stableGen = {0}
    /\ stableDirs = {c \in Coords : image[c] # Absent}
    /\ pendingSync = NothingToSync
    /\ walUnsynced = 0
    /\ mine = {}
    /\ acked = [c \in Coords |-> Content(image[c])]
    /\ promised = [c \in Coords |-> {acked[c]}]

(***************************************************************************)
(* The files a step touches                                                *)
(***************************************************************************)

(* The path a step publishes, and whether writeAtomic synchronises it. *)
Publishes ==
    CASE pc = "retry" /\ pc' = "publish" -> {[path |-> <<"version", cursor'>>, synced |-> SyncsPublications]}
      [] pc = "publish" /\ pc' = "retry" -> {[path |-> <<"image", cursor>>, synced |-> SyncsPublications]}
      [] pc = "recover" /\ pc' = "recover" ->
            {[path |-> p, synced |-> SyncsCheckpoint] : p \in
                {<<"version", c>> : c \in {d \in Coords : recovered'[d] # recovered[d]}} \cup
                {<<"image", wal[i].coord>> : i \in (cursor + 1)..cursor'}}
      [] pc = "checkpoint" /\ pc' = "checkpoint" ->
            {[path |-> <<"image", wal[cursor'].coord>>,
              synced |-> SyncsCheckpoint \/ wal[cursor'].state = Empty]}
      [] OTHER -> {}

(* collectEmptyChunk forgets the path of the image it removes. *)
Collected ==
    IF pc = "checkpoint" /\ pc' = "checkpoint" /\ wal[cursor'].state = Empty
    THEN {<<"image", wal[cursor'].coord>>} ELSE {}

(* A successful flush: everything behind the barrier was synchronised. *)
Flushed == pc = "sync" /\ pc' = "idle"

(* A WAL that held anything is replaced by an empty one after a replay,    *)
(* and truncated after a checkpoint.                                       *)
Replayed == pc = "recover" /\ pc' = "opened" /\ (wal # <<>> \/ tail # "whole")

Truncated == pc = "checkpoint" /\ cursor = Len(wal) /\ pc' # "closed"

Appended == pc = "append" /\ pc' = "commit"

(* The steps that end with the synchronisation of the root directory: the  *)
(* replacement of the clock, of the generation where it is synchronised,   *)
(* and of the WAL after a replay.                                          *)
SyncsRoot ==
    \/ clockFile' # clockFile
    \/ genFile' # genFile /\ pc \in {"closed", "opened", "begin"}
    \/ Replayed /\ SyncsCheckpoint
    \/ Flushed

(* A wrong AppendSyncs: a group is synchronised one update late. *)
AppendSyncsLate ==
    CASE Durability = "relaxed" -> FALSE
      [] Durability = "fsync-wal" ->
            walUnsynced >= WALGroupCommitUpdates \/ op.kind = "conditional"
      [] Durability = "fsync-checkpoint" -> TRUE

(* ensureWALCommit and the group commit of appendWAL. *)
AppendSyncs ==
    CASE Durability = "relaxed" -> FALSE
      [] Durability = "fsync-wal" ->
            walUnsynced + 1 >= WALGroupCommitUpdates \/ op.kind = "conditional"
      [] Durability = "fsync-checkpoint" -> TRUE

(* syncWAL, a truncation that is synchronised, and the replacement of the  *)
(* WAL; Close flushes an open group of updates.                            *)
SyncsWAL ==
    \/ Appended /\ AppendSyncs
    \/ pc = "recoverIntent" /\ pc' = "clearRecovered" /\ intent.state = "rollback"
    \/ (Replayed \/ Truncated) /\ SyncsCheckpoint
    \/ pc = "idle" /\ pc' = "closed" /\ Durability = "fsync-wal"
    \/ Flushed

(***************************************************************************)
(* The paths the barrier has to synchronise (durabilitySyncSet)            *)
(***************************************************************************)

(* A wrong add: a full set drops the path. *)
addDropping(set, path) ==
    IF set.overflow \/ Cardinality(set.paths) = maxPendingSyncPaths THEN set
    ELSE [set EXCEPT !.paths = @ \cup {path}]

(* A full set is given up for a walk of the whole tree. *)
add(set, path) ==
    CASE set.overflow -> set
      [] ~set.overflow /\ Cardinality(set.paths) = maxPendingSyncPaths ->
            [paths |-> {}, overflow |-> TRUE]
      [] OTHER -> [set EXCEPT !.paths = @ \cup {path}]

(* syncPendingPublications, or syncDataTree after an overflow. *)
syncPendingPublications == IF pendingSync.overflow THEN Paths ELSE pendingSync.paths

TrackPending ==
    pendingSync' =
        IF pc' = "closed" \/ Flushed THEN NothingToSync
        ELSE LET kept == [pendingSync EXCEPT !.paths = @ \ Collected]
                 new == {r.path : r \in {q \in Publishes : ~q.synced}}
             IN IF new = {} THEN kept ELSE add(kept, CHOOSE p \in new : TRUE)

(***************************************************************************)
(* Steps                                                                   *)
(***************************************************************************)

FileStates(p) ==
    IF (Flushed /\ p \in syncPendingPublications) \/ [path |-> p, synced |-> TRUE] \in Publishes
    THEN {Current(p)'}
    ELSE stable[p] \cup {Current(p)'}

(* An append may reach the disk in part. *)
WALStates ==
    IF SyncsWAL THEN {wal'}
    ELSE stableWAL \cup {wal'} \cup
         {SubSeq(wal', 1, n) : n \in {m \in DOMAIN wal' : Appended /\ m > Len(wal)}}

Directories == stableDirs \cup {c \in Coords : image'[c] # Absent \/ ver'[c] # 0}

ReachDisk ==
    /\ stable' = [p \in Paths |-> FileStates(p)]
    /\ stableWAL' = WALStates
    /\ stableGen' = IF SyncsRoot THEN {genFile'} ELSE stableGen \cup {genFile'}
    /\ stableDirs' = IF SyncsRoot THEN Directories ELSE stableDirs
    /\ walUnsynced' =
          CASE pc' = "closed" \/ SyncsWAL \/ Replayed \/ Truncated -> 0
            [] Appended /\ Durability = "fsync-wal" /\ ~AppendSyncs -> walUnsynced + 1
            [] OTHER -> walUnsynced

(* An acknowledged write is promised by the modes that synchronise its WAL *)
(* record before they acknowledge it.                                      *)
AckPromises ==
    \/ Durability = "fsync-checkpoint"
    \/ Durability = "fsync-wal" /\ (WALGroupCommitUpdates = 1 \/ op.kind = "conditional")

Acknowledged == pc = "finish" /\ pc' = "idle"

(* What the mode promises of a chunk's content: after a flush, or an       *)
(* acknowledgement that promises, the content acknowledged last; a write   *)
(* under way, or one that was not promised, may or may not survive.        *)
Promise ==
    /\ acked' = [c \in Coords |-> IF Acknowledged /\ c \in Mutated THEN Observed(c)' ELSE acked[c]]
    /\ promised' = [c \in Coords |->
          IF (Flushed \/ (Acknowledged /\ AckPromises)) /\ acked'[c] = Observed(c)' THEN {acked'[c]}
          ELSE promised[c] \cup {Content(op.muts[i].state) :
                                    i \in {j \in DOMAIN op.muts : Appended /\ op.muts[j].coord = c}}]

Reach ==
    /\ TrackPending
    /\ ReachDisk
    /\ Promise
    /\ mine' = IF pc' = "closed" THEN {} ELSE mine \cup {r.path : r \in Publishes}

(* The power fails.  Large-chunk directories the root does not yet keep    *)
(* may go with everything in them; the content of their chunks is then not *)
(* held against the mode (see section 5 of README.md).                     *)
LosePower ==
    /\ \E gone \in SUBSET (Coords \ stableDirs) :
       \E i \in [Coords -> Images], v \in [Coords -> 0..MaxVersion] :
          /\ \A c \in Coords :
                IF c \in gone THEN i[c] = Absent /\ v[c] = 0
                ELSE i[c] \in stable[<<"image", c>>] /\ v[c] \in stable[<<"version", c>>]
          /\ image' = i
          /\ ver' = v
          /\ promised' = [c \in Coords |-> promised[c] \cup (IF c \in gone THEN {Absent} ELSE {})]
    /\ wal' \in stableWAL
    /\ tail' \in IF \E s \in stableWAL : Len(s) > Len(wal') THEN {"whole", "torn"} ELSE {"whole"}
    /\ genFile' \in stableGen
    /\ ProcessGone
    /\ stable' = [p \in Paths |-> {Current(p)'}]
    /\ stableWAL' = {wal'}
    /\ stableGen' = {genFile'}
    /\ stableDirs' = Directories
    /\ pendingSync' = NothingToSync
    /\ walUnsynced' = 0
    /\ mine' = {}
    /\ UNCHANGED <<intent, clockFile, acked>>

PowerNext == (Next /\ Reach) \/ LosePower

PowerSpec ==
    /\ PowerInit
    /\ [][PowerNext]_<<vars, powered>>
    /\ WF_<<vars, powered>>(Running /\ Reach)

(***************************************************************************)
(* Properties                                                              *)
(***************************************************************************)

(* What a durability mode promises survives a loss of power: a write that  *)
(* a synchronising mode acknowledged, and in every mode one acknowledged   *)
(* before a successful FlushWAL, unless it was overwritten later.          *)
PromisedContentSurvives == \A c \in Coords : Recoverable(c) \in promised[c]

(* When FlushWAL returns, no power loss can take anything this process     *)
(* published: the barrier found every path, also after its set of paths    *)
(* overflowed or an earlier flush failed half way, and every directory.    *)
BarrierCovers ==
    [][Flushed =>
          /\ stableWAL' = {wal'}
          /\ \A p \in mine : stable'[p] = {Current(p)'} /\ p[2] \in stableDirs']_<<vars, powered>>
================================================================================
