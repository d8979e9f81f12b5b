--------------------------- MODULE ChunkStoreProofs ---------------------------
(***************************************************************************)
(* Proofs about ChunkStore, for every set of coordinates and values, every *)
(* batch length, checkpoint trigger, durability mode and set of faults.    *)
(***************************************************************************)
EXTENDS ChunkStoreInvariants, TLAPS, FiniteSetTheorems

(***************************************************************************)
(* Type correctness                                                        *)
(***************************************************************************)

(* The assumptions on the constants that the type invariant rests on. *)
LEMMA Constants ==
    Coords \subseteq Nat /\ MaxGeneration \in Nat /\ MaxVersion \in Nat
BY Zenon, ConstantsAssumption

(* The values the code writes as literals have their types. *)
LEMMA Literals ==
    /\ NoIntent \in Intents
    /\ NoOp \in Ops
    /\ NotPending \in Publications
    /\ Absent \in Images
    /\ States \subseteq Images
<1>1. NoIntent \in Intents
  BY Zenon DEF NoIntent, Intents
<1>2. NoOp \in Ops
  BY DEF NoOp, Ops
<1>3. NotPending \in Publications
  BY Zenon DEF NotPending, Publications, Images
<1>4. QED
  BY Zenon, <1>1, <1>2, <1>3 DEF Images

LEMMA BatchType ==
    ASSUME NEW b \in Batches
    PROVE  b \in Seq(Mutation)
BY ConstantsAssumption DEF Batches

(* A process that is gone is well typed, whatever it was doing. *)
LEMMA GoneType == ProcessGone => ProcessOK' /\ Control'
<1> SUFFICES ASSUME ProcessGone PROVE ProcessOK' /\ Control'
  OBVIOUS
<1>1. /\ pending' \in [Coords -> Publications]
      /\ cache' \in [Coords -> Images]
      /\ recovered' \in [Coords -> Nat]
  BY Zenon, Literals DEF ProcessGone
<1>2. op' \in Ops /\ gen' \in 0..MaxGeneration
  BY Literals, Constants DEF ProcessGone
<1>3. QED
  BY Zenon, <1>1, <1>2 DEF ProcessGone, ProcessOK, Labels, Control, Reserved

(* Neither the next odd nor the next even generation is past the last one. *)
LEMMA GenerationType ==
    ASSUME NEW g \in 0..MaxGeneration, g # MaxGeneration
    PROVE  g + 1 \in 0..MaxGeneration
BY Constants

LEMMA FinishType ==
    ASSUME NEW p, NEW b, NEW r \in FinishOutcomes(p, b), gen \in 0..MaxGeneration, r # "early"
    PROVE  NextEven \in 0..MaxGeneration
BY Zenon, GenerationType DEF FinishOutcomes, NextEven

LEMMA TypeInit == Init => TypeInv
<1> SUFFICES ASSUME Init PROVE TypeInv
  OBVIOUS
<1>1. /\ pending \in [Coords -> Publications]
      /\ cache \in [Coords -> Images]
      /\ recovered \in [Coords -> Nat]
      /\ op \in Ops
  BY Zenon, Literals DEF Init
<1>2. image \in [Coords -> Images] /\ wal \in Seq(Mutation) /\ intent \in Intents
  BY Literals, ConstantsAssumption DEF Init
<1>3. ProcessOK
  BY <1>1, Constants DEF Init, ProcessOK, Labels
<1>4. DirectoryOK
  BY <1>2, Constants DEF Init, DirectoryOK
<1>5. QED
  BY Zenon, <1>3, <1>4 DEF Init, TypeInv, Control, Reserved

(***************************************************************************)
(* A step of openStore either goes on or ends with the process gone.       *)
(***************************************************************************)

LEMMA TypeOpenStep == TypeInv /\ OpenStep => TypeInv'
<1> SUFFICES ASSUME TypeInv, OpenStep PROVE TypeInv'
  OBVIOUS
<1> USE Constants, Literals, GoneType
    DEF TypeInv, DirectoryOK, ProcessOK, Control, Reserved, Labels, Replaced, OpenContinues,
        logs, files, clocks, gens, held, call, marks
<1>1. CASE beginWriterSnapshot
  <2>1. genFile' \in 0..MaxGeneration /\ gen' \in 0..MaxGeneration
    <3>1. genFile + 1 \in 0..MaxGeneration
      BY Zenon, <1>1, GenerationType DEF beginWriterSnapshot
    <3>2. QED
      BY Zenon, <1>1, <3>1 DEF beginWriterSnapshot, persistSnapshotGeneration
  <2>2. QED
    BY ZenonT(60), <1>1, <2>1 DEF beginWriterSnapshot
<1>2. CASE loadVersionClock
  <2>0. \A c \in Coords : ver[c] \in Nat
    OBVIOUS
  <2>1. clockFile' \in Nat \cup {NoClock}
    <3>1. CASE clockFile # NoClock
      BY Zenon, <1>2, <3>1 DEF loadVersionClock
    <3>2. CASE clockFile = NoClock
      <4>1. PICK highest \in {0} \cup {ver[c] : c \in Coords}, r \in Outcomes("persistVersionClock", TRUE) :
               clockFile' = Replaced(r, clockFile, highest)
        BY Zenon, <1>2, <3>2 DEF loadVersionClock
      <4>2. highest \in Nat
        BY <2>0
      <4>3. QED
        BY Zenon, <4>1, <4>2
    <3>3. QED
      BY Zenon, <3>1, <3>2
  <2>2. DirectoryOK'
    BY Zenon, <1>2, <2>1 DEF loadVersionClock
  <2>3. CASE ~ProcessGone
    <3>1. versionClock' \in Nat
      <4>1. CASE clockFile # NoClock
        BY Zenon, <1>2, <4>1 DEF loadVersionClock
      <4>2. CASE clockFile = NoClock
        <5>1. PICK highest \in {0} \cup {ver[c] : c \in Coords} : versionClock' = highest
          BY Zenon, <1>2, <2>3, <4>2 DEF loadVersionClock
        <5>2. QED
          BY <2>0, <5>1
      <4>3. QED
        BY Zenon, <4>1, <4>2
    <3>2. QED
      BY Zenon, <1>2, <2>2, <2>3, <3>1 DEF loadVersionClock
  <2>4. QED
    BY Zenon, <2>2, <2>3
<1>3. CASE recoverConditionalIntent
  <2>1. wal' \in Seq(Mutation)
    <3>1. intent.boundary \in Nat
      BY Zenon DEF Intents
    <3>2. intent.boundary <= Len(wal) => SubSeq(wal, 1, intent.boundary) \in Seq(Mutation)
      BY <3>1
    <3>3. QED
      BY Zenon, <1>3, <3>2 DEF recoverConditionalIntent
  <2>2. DirectoryOK'
    BY Zenon, <1>3, <2>1 DEF recoverConditionalIntent
  <2>3. CASE ~ProcessGone
    BY Zenon, <1>3, <2>2, <2>3 DEF recoverConditionalIntent
  <2>4. QED
    BY Zenon, <2>2, <2>3
<1>4. CASE clearRecoveredIntent
  <2>1. DirectoryOK'
    BY Zenon, <1>4 DEF clearRecoveredIntent
  <2>2. CASE ~ProcessGone
    BY Zenon, <1>4, <2>1, <2>2 DEF clearRecoveredIntent
  <2>3. QED
    BY Zenon, <2>1, <2>2
<1>5. CASE reserveRecoveryVersions
  <2>1. versionClock + Cardinality(ChangedChunks) \in Nat
    <3>1. IsFiniteSet(ChangedChunks)
      <4>1. ChangedChunks \subseteq Coords
        BY Zenon DEF ChangedChunks
      <4>2. QED
        BY Zenon, <4>1, FS_Subset, ConstantsAssumption
    <3>2. QED
      BY <3>1, FS_CardinalityType
  <2>2. DirectoryOK'
    BY Zenon, <1>5, <2>1 DEF reserveRecoveryVersions
  <2>3. CASE ~ProcessGone
    <3>1. CASE ChangedChunks = {}
      <4>1. OpenContinues("recover") /\ cursor' = 0 /\ UNCHANGED <<versionClock, recovered>>
        BY Zenon, <1>5, <2>3, <3>1 DEF reserveRecoveryVersions
      <4>2. QED
        BY Zenon, <2>2, <4>1
    <3>2. CASE ChangedChunks # {}
      <4>1. PICK f \in [ChangedChunks -> (versionClock + 1)..(versionClock + Cardinality(ChangedChunks))] :
               recovered' = [c \in Coords |-> IF c \in ChangedChunks THEN f[c] ELSE 0]
        BY Zenon, <1>5, <2>3, <3>2 DEF reserveRecoveryVersions
      <4>2. recovered' \in [Coords -> Nat]
        BY <2>1, <4>1
      <4>3. versionClock' \in Nat /\ cursor' = 0 /\ OpenContinues("recover")
        BY Zenon, <1>5, <2>1, <2>3, <3>2 DEF reserveRecoveryVersions
      <4>4. QED
        BY Zenon, <2>2, <4>2, <4>3
    <3>3. QED
      BY Zenon, <3>1, <3>2
  <2>4. QED
    BY Zenon, <2>2, <2>3
<1>6. CASE RecoverVersion
  <2>1. DirectoryOK'
    BY Zenon, <1>6 DEF RecoverVersion
  <2>2. CASE ~ProcessGone
    <3>1. recovered' \in [Coords -> Nat]
      BY <1>6, <2>2 DEF RecoverVersion
    <3>2. QED
      BY Zenon, <1>6, <2>1, <2>2, <3>1 DEF RecoverVersion
  <2>3. QED
    BY Zenon, <2>1, <2>2
<1>7. CASE ReplayRecord
  <2>1. wal[cursor + 1].state \in Images
    <3>1. cursor + 1 \in 1..Len(wal)
      BY <1>7 DEF ReplayRecord
    <3>2. wal[cursor + 1] \in Mutation
      BY <3>1
    <3>3. QED
      BY Zenon, <3>2 DEF Mutation
  <2>2. DirectoryOK'
    BY Zenon, <1>7, <2>1 DEF ReplayRecord
  <2>3. CASE ~ProcessGone
    BY <1>7, <2>2, <2>3 DEF ReplayRecord
  <2>4. QED
    BY Zenon, <2>2, <2>3
<1>8. CASE replaceWALAfterReplay
  <2>1. DirectoryOK'
    BY <1>8 DEF replaceWALAfterReplay
  <2>2. CASE ~ProcessGone
    BY <1>8, <2>1, <2>2 DEF replaceWALAfterReplay
  <2>3. QED
    BY Zenon, <2>1, <2>2
<1>9. CASE finishRecoveredSnapshot
  <2>1. genFile' \in 0..MaxGeneration /\ (~ProcessGone => gen' \in 0..MaxGeneration)
    <3>1. PICK r \in FinishOutcomes("openSnapshot", TRUE) :
             /\ genFile' = Replaced(r, genFile, NextEven)
             /\ ~ProcessGone => r = "ok" /\ gen' = NextEven
      BY Zenon, <1>9 DEF finishRecoveredSnapshot
    <3>2. QED
      BY Zenon, <3>1, FinishType
  <2>2. DirectoryOK'
    BY Zenon, <1>9, <2>1 DEF finishRecoveredSnapshot
  <2>3. CASE ~ProcessGone
    BY Zenon, <1>9, <2>1, <2>2, <2>3 DEF finishRecoveredSnapshot
  <2>4. QED
    BY Zenon, <2>2, <2>3
<1>10. QED
  BY Zenon, <1>1, <1>2, <1>3, <1>4, <1>5, <1>6, <1>7, <1>8, <1>9 DEF OpenStep

(***************************************************************************)
(* Publication, checkpoints and writes                                     *)
(***************************************************************************)

LEMMA TypeRetryStep == TypeInv /\ RetryStep => TypeInv'
<1> SUFFICES ASSUME TypeInv, RetryStep PROVE TypeInv'
  OBVIOUS
<1> USE Constants, Literals
    DEF TypeInv, DirectoryOK, ProcessOK, Control, Reserved, Labels, Replaced,
        logs, files, clocks, gens, held, call, marks
<1>1. CASE PublishVersion
  <2>1. PICK c \in Coords, r \in Outcomes("persistChunkVersion", SyncsPublications) :
           /\ ver' = [ver EXCEPT ![c] = Replaced(r, @, pending[c].version)]
           /\ cursor' = IF r = "ok" THEN c ELSE 0
           /\ pc' = IF r = "ok" THEN "publish" ELSE AfterRetry(FALSE)
    BY Zenon, <1>1 DEF PublishVersion
  <2>2. ver' \in [Coords -> Nat]
    BY Zenon, <2>1 DEF Publications
  <2>3. QED
    BY Zenon, <1>1, <2>1, <2>2 DEF PublishVersion, AfterRetry
<1>2. CASE PublishImage
  <2>1. cursor \in Coords /\ pending[cursor].state \in Images
    BY Zenon, <1>2 DEF PublishImage, Publications
  <2>2. image' \in [Coords -> Images] /\ pending' \in [Coords -> Publications]
    BY Zenon, <1>2, <2>1 DEF PublishImage
  <2>3. QED
    BY <1>2, <2>2 DEF PublishImage, AfterRetry
<1>3. CASE RetryDone
  BY Zenon, <1>3 DEF RetryDone, AfterRetry
<1>4. CASE persistCheckpointChunk
  <2>1. wal[cursor + 1] \in Mutation
    BY <1>4 DEF persistCheckpointChunk
  <2>2. wal[cursor + 1].state \in Images
    BY Zenon, <2>1 DEF Mutation
  <2>3. image' \in [Coords -> Images] /\ cache' \in [Coords -> Images]
    BY ZenonT(60), <1>4, <2>2 DEF persistCheckpointChunk
  <2>4. QED
    BY <1>4, <2>3 DEF persistCheckpointChunk, AfterRetry
<1>5. CASE clearWAL
  BY <1>5 DEF clearWAL, AfterRetry
<1>6. QED
  BY Zenon, <1>1, <1>2, <1>3, <1>4, <1>5 DEF RetryStep

LEMMA TypeWriteStep == TypeInv /\ WriteStep => TypeInv'
<1> SUFFICES ASSUME TypeInv, WriteStep PROVE TypeInv'
  OBVIOUS
<1> USE Constants, Literals
    DEF TypeInv, DirectoryOK, ProcessOK, Control, Reserved, Labels, Replaced,
        logs, files, clocks, gens, held, call, marks
<1>a. op.muts \in Seq(Mutation) /\ Len(op.muts) \in Nat
  BY DEF Ops
<1>1. CASE beginWriteSnapshot
  <2>1. genFile' \in 0..MaxGeneration /\ gen' \in 0..MaxGeneration
    <3>1. gen <= MaxGeneration - 2 => gen + 1 \in 0..MaxGeneration
      BY GenerationType
    <3>2. QED
      BY Zenon, <1>1, <3>1 DEF beginWriteSnapshot, persistSnapshotGeneration
  <2>2. QED
    BY ZenonT(60), <1>1, <2>1 DEF beginWriteSnapshot
<1>2. CASE RefuseBatch
  BY Zenon, <1>2 DEF RefuseBatch
<1>3. CASE ReserveVersions
  <2> DEFINE last == versionClock + Len(op.muts)
  <2>1. last \in Nat /\ Len(op.muts) <= last
    BY <1>a
  <2>2. CASE pc' = "reject" /\ UNCHANGED clocks
    BY Zenon, <1>3, <2>2 DEF ReserveVersions
  <2>3. CASE ~(pc' = "reject" /\ UNCHANGED clocks)
    <3>1. PICK r \in Outcomes("persistVersionClock", TRUE) :
             /\ clockFile' = Replaced(r, clockFile, last)
             /\ versionClock' = IF r = "ok" THEN last ELSE versionClock
             /\ pc' = IF r = "ok" THEN "intent" ELSE "reject"
      BY Zenon, <1>3, <2>3 DEF ReserveVersions
    <3>2. UNCHANGED <<logs, files, gens, held, call, marks, ret, poisoned>>
      BY Zenon, <1>3 DEF ReserveVersions
    <3> HIDE DEF last
    <3>3. clockFile' \in Nat \cup {NoClock} /\ versionClock' \in Nat
      BY Zenon, <2>1, <3>1
    <3>4. pc' \in {"intent", "reject"} /\ (pc' = "intent" => Len(op.muts) <= versionClock')
      BY Zenon, <2>1, <3>1
    <3>5. QED
      BY Zenon, <3>2, <3>3, <3>4
  <2>4. QED
    BY Zenon, <2>2, <2>3
<1>4. CASE PublishRollbackIntent
  <2>1. [state |-> "rollback", boundary |-> Len(wal)] \in Intents
    BY DEF Intents
  <2>2. intent' \in Intents
    BY Zenon, <1>4, <2>1 DEF PublishRollbackIntent
  <2>3. QED
    BY ZenonT(60), <1>4, <2>2 DEF PublishRollbackIntent
<1>5. CASE CleanFailedIntent
  <2>1. intent' \in Intents /\ poisoned' \in {"no", "repair", "undecided"}
    BY Zenon, <1>5 DEF CleanFailedIntent, Poison
  <2>2. QED
    BY Zenon, <1>5, <2>1 DEF CleanFailedIntent
<1>6. CASE appendWAL
  <2>1. wal' \in Seq(Mutation)
    <3>1. \A k \in 0..(Len(op.muts) - 1) : SubSeq(op.muts, 1, k) \in Seq(Mutation)
      BY <1>a
    <3>2. \A t \in Seq(Mutation) : wal \o t \in Seq(Mutation)
      OBVIOUS
    <3>3. \E t \in Seq(Mutation) : wal' = wal \o t
      BY Zenon, <1>6, <1>a, <3>1 DEF appendWAL
    <3>4. QED
      BY Zenon, <3>2, <3>3
  <2>2. QED
    BY <1>6, <2>1 DEF appendWAL
<1>7. CASE PublishCommittedIntent
  <2>1. [intent EXCEPT !.state = "committed"] \in Intents
    BY Zenon DEF Intents
  <2>2. intent' \in Intents /\ poisoned' \in {"no", "repair", "undecided"}
    BY Zenon, <1>7, <2>1 DEF PublishCommittedIntent, Poison
  <2>3. QED
    BY Zenon, <1>7, <2>2 DEF PublishCommittedIntent
<1>8. CASE AdmitCommitted
  <2>1. ASSUME NEW c \in Mutated PROVE Publication(c) \in Publications
    <3>1. IndexOf(c) \in DOMAIN op.muts
      BY Zenon DEF Mutated, IndexOf
    <3>2. op.muts[IndexOf(c)] \in Mutation /\ IndexOf(c) \in 1..Len(op.muts)
      BY <1>a, <3>1
    <3>3. op.muts[IndexOf(c)].state \in Images
      BY Zenon, <3>2 DEF Mutation
    <3>4. versionClock - (Len(op.muts) - IndexOf(c)) \in Nat
      <4>1. Len(op.muts) <= versionClock
        BY Zenon, <1>8 DEF AdmitCommitted
      <4>2. \A m, n \in Nat : \A i \in 1..n : n <= m => m - (n - i) \in Nat
        OBVIOUS
      <4>3. QED
        BY Zenon, <1>a, <3>2, <4>1, <4>2
    <3>5. QED
      BY Zenon, <3>3, <3>4 DEF Publication, Publications
  <2>2. pending' \in [Coords -> Publications]
    BY Zenon, <1>8, <2>1 DEF AdmitCommitted
  <2>3. cache' \in [Coords -> Images]
    <3>1. ASSUME NEW c \in Mutated PROVE Publication(c).state \in Images
      BY Zenon, <2>1 DEF Publications
    <3>2. QED
      BY Zenon, <1>8, <3>1 DEF AdmitCommitted
  <2>4. intent' \in Intents /\ poisoned' \in {"no", "repair", "undecided"}
    BY Zenon, <1>8 DEF AdmitCommitted, Poison
  <2>5. walRecords' \in Nat
    BY <1>8, <1>a DEF AdmitCommitted
  <2>6. QED
    BY Zenon, <1>8, <2>2, <2>3, <2>4, <2>5 DEF AdmitCommitted
<1>9. CASE finishCommittedSnapshot
  <2>1. genFile' \in 0..MaxGeneration /\ gen' \in 0..MaxGeneration
    BY Zenon, <1>9, FinishType DEF finishCommittedSnapshot, persistSnapshotGeneration
  <2>2. poisoned' \in {"no", "repair", "undecided"}
    BY Zenon, <1>9 DEF finishCommittedSnapshot, Poison
  <2>3. QED
    BY Zenon, <1>9, <2>1, <2>2 DEF finishCommittedSnapshot, Return
<1>10. CASE rollbackWAL
  <2>1. intent.boundary \in Nat
    BY Zenon DEF Intents
  <2>2. Len(wal) >= intent.boundary => SubSeq(wal, 1, intent.boundary) \in Seq(Mutation)
    BY <2>1
  <2>3. wal' \in Seq(Mutation) /\ poisoned' \in {"no", "repair", "undecided"}
    <3>1. CASE Len(wal) < intent.boundary
      BY Zenon, <1>10, <3>1 DEF rollbackWAL, Poison
    <3>2. CASE Len(wal) >= intent.boundary
      BY Zenon, <1>10, <2>2, <3>2 DEF rollbackWAL, Poison
    <3>3. QED
      BY <2>1, <3>1, <3>2
  <2>4. QED
    BY Zenon, <1>10, <2>3 DEF rollbackWAL
<1>11. CASE clearRejectedIntent
  BY Zenon, <1>11 DEF clearRejectedIntent, Poison
<1>12. CASE finishRejectedSnapshot
  <2>1. genFile' \in 0..MaxGeneration /\ gen' \in 0..MaxGeneration
    BY Zenon, <1>12, FinishType DEF finishRejectedSnapshot, persistSnapshotGeneration
  <2>2. poisoned' \in {"no", "repair", "undecided"}
    BY Zenon, <1>12 DEF finishRejectedSnapshot, Poison
  <2>3. QED
    BY Zenon, <1>12, <2>1, <2>2 DEF finishRejectedSnapshot, Return
<1>13. QED
  BY Zenon, <1>1, <1>2, <1>3, <1>4, <1>5, <1>6, <1>7, <1>8, <1>9, <1>10, <1>11, <1>12 DEF WriteStep

LEMMA TypeNext == TypeInv /\ [Next]_vars => TypeInv'
<1> SUFFICES ASSUME TypeInv, [Next]_vars PROVE TypeInv'
  OBVIOUS
<1> USE Constants, Literals, GoneType
    DEF TypeInv, DirectoryOK, ProcessOK, Control, Reserved, Labels, Replaced,
        logs, files, clocks, gens, held, call, marks
<1>1. CASE OpenStep
  BY Zenon, <1>1, TypeOpenStep
<1>2. CASE RetryStep
  BY <1>2, TypeRetryStep
<1>3. CASE WriteStep
  BY Zenon, <1>3, TypeWriteStep
<1>4. CASE WriteChunk
  <2>1. op' \in Ops
    BY <1>4 DEF WriteChunk, Call, Ops
  <2>2. QED
    BY Zenon, <1>4, <2>1 DEF WriteChunk, Call
<1>5. CASE ConditionalWriteChunks
  <2>1. op' \in Ops
    BY <1>5, BatchType DEF ConditionalWriteChunks, Call, Ops
  <2>2. QED
    BY Zenon, <1>5, <2>1 DEF ConditionalWriteChunks, Call
<1>6. CASE FlushWAL
  <2>1. op' \in Ops
    BY <1>6 DEF FlushWAL, Call, Ops
  <2>2. QED
    BY Zenon, <1>6, <2>1 DEF FlushWAL, Call
<1>7. CASE ReturnError
  BY Zenon, <1>7 DEF ReturnError, Return
<1>8. CASE FlushBarrier
  <2>1. genFile' \in 0..MaxGeneration /\ gen' \in 0..MaxGeneration
    BY Zenon, <1>8, FinishType DEF FlushBarrier, persistSnapshotGeneration
  <2>2. QED
    BY ZenonT(60), <1>8, <2>1 DEF FlushBarrier, Return
<1>9. CASE ReadChunk
  BY Zenon, <1>9 DEF ReadChunk
<1>10. CASE Evict
  BY Zenon, <1>10 DEF Evict
<1>11. CASE Close
  BY Zenon, <1>11 DEF Close
<1>12. CASE Crash
  BY Zenon, <1>12 DEF Crash
<1>13. CASE UNCHANGED vars
  BY <1>13 DEF vars
<1>14. QED
  BY Zenon, <1>1, <1>2, <1>3, <1>4, <1>5, <1>6, <1>7, <1>8, <1>9, <1>10, <1>11, <1>12, <1>13 DEF Next

LEMMA TypeInvariant == Spec => []TypeInv
BY TypeInit, TypeNext, PTL DEF Spec

(* Every file and every field of the Store keeps its type, at any number   *)
(* of chunks, versions and failures: the versions Publication computes by  *)
(* subtracting from the clock are never negative, and                      *)
(* persistSnapshotGeneration never writes past the last generation.        *)
THEOREM TypeCorrect == Spec => []TypeOK
<1>1. TypeInv => TypeOK
  BY Zenon DEF TypeInv, TypeOK
<1>2. QED
  BY <1>1, TypeInvariant, PTL

(***************************************************************************)
(* The version clock bounds every version                                  *)
(***************************************************************************)

(* Before the clock is loaded the process holds no version.  After that    *)
(* its clock, not only the clock file, bounds every version file: the file *)
(* alone would not do, because it can go back.  A batch whose clock        *)
(* replacement fails late leaves the file ahead of the process, and a      *)
(* shorter write then lowers it.                                           *)
ClockLoaded == pc \notin {"closed", "loadClock"}

ClockInv ==
    /\ ~ClockLoaded => versionClock = 0
    /\ ClockLoaded => \A c \in Coords : ver[c] <= versionClock
    /\ VersionsWithinClock

(* The invariant with its parts spelled out for integers. *)
LEMMA ClockTypes ==
    ASSUME TypeInv
    PROVE  /\ versionClock \in Nat
           /\ clockFile \in Nat \/ clockFile = -1
           /\ \A c \in Coords : ver[c] \in Nat /\ pending[c].version \in Nat /\ recovered[c] \in Nat
BY Zenon DEF TypeInv, DirectoryOK, ProcessOK, NoClock, Publications

(* Steps that leave the versions and the clock alone, once it is loaded or *)
(* before it is.                                                           *)
LEMMA ClockUntouched ==
    ASSUME ClockInv, ClockLoaded' <=> ClockLoaded,
           UNCHANGED <<ver, clockFile, versionClock, pending, recovered>>
    PROVE  ClockInv'
BY Zenon DEF ClockInv, ClockLoaded, VersionsWithinClock

(* The process dies: the clock file bounds what the directory holds. *)
LEMMA ClockGone ==
    ASSUME ProcessGone, \A c \in Coords : ver'[c] <= clockFile' \/ ver'[c] = 0
    PROVE  ClockInv'
BY DEF ClockInv, ClockLoaded, VersionsWithinClock, ProcessGone, NotPending

(* With the clock loaded, three bounds on the next state suffice. *)
LEMMA ClockHeld ==
    ASSUME ClockLoaded',
           versionClock' \in Nat, clockFile' \in Nat \/ clockFile' = -1,
           \A c \in Coords : ver'[c] \in Nat,
           versionClock' <= clockFile',
           \A c \in Coords : ver'[c] <= versionClock',
           \A c \in Coords : pending'[c].version <= versionClock' /\ recovered'[c] <= versionClock'
    PROVE  ClockInv'
BY DEF ClockInv, ClockLoaded, VersionsWithinClock

LEMMA ClockInit == Init => ClockInv
BY DEF Init, ClockInv, ClockLoaded, VersionsWithinClock, NotPending

LEMMA ClockOpenStep == TypeInv /\ TypeInv' /\ ClockInv /\ OpenStep => ClockInv'
<1> SUFFICES ASSUME TypeInv, TypeInv', ClockInv, OpenStep PROVE ClockInv'
  OBVIOUS
<1>a. /\ versionClock \in Nat
      /\ clockFile \in Nat \/ clockFile = -1
      /\ \A c \in Coords : ver[c] \in Nat /\ pending[c].version \in Nat /\ recovered[c] \in Nat
  BY Zenon, ClockTypes
<1>b. /\ versionClock' \in Nat
      /\ clockFile' \in Nat \/ clockFile' = -1
      /\ \A c \in Coords : ver'[c] \in Nat
  BY Zenon DEF TypeInv, DirectoryOK, ProcessOK, NoClock
<1>c. \A c \in Coords : ver[c] <= clockFile \/ ver[c] = 0
  BY Zenon DEF ClockInv, VersionsWithinClock
<1>d. /\ ClockLoaded => versionClock <= clockFile /\ \A c \in Coords : ver[c] <= versionClock
      /\ ~ClockLoaded => versionClock = 0
      /\ \A c \in Coords : pending[c].version <= versionClock /\ recovered[c] <= versionClock
  BY Zenon DEF ClockInv, VersionsWithinClock, ClockLoaded
<1> USE DEF OpenContinues, logs, files, clocks, gens, held, call, marks
<1>1. CASE beginWriterSnapshot
  <2>1. ~ClockLoaded /\ ~ClockLoaded'
    BY Zenon, <1>1 DEF beginWriterSnapshot, ClockLoaded
  <2>2. QED
    BY Zenon, <1>1, <2>1, ClockUntouched DEF beginWriterSnapshot
<1>2. CASE loadVersionClock
  <2>1. ~ClockLoaded
    BY Zenon, <1>2 DEF loadVersionClock, ClockLoaded
  <2>2. UNCHANGED ver
    BY Zenon, <1>2 DEF loadVersionClock
  <2>3. CASE ProcessGone
    <3>1. clockFile' = clockFile \/ \A c \in Coords : ver[c] <= clockFile'
      BY Zenon, <1>2 DEF loadVersionClock, Replaced
    <3>2. QED
      BY Zenon, <1>c, <2>2, <2>3, <3>1, ClockGone
  <2>4. CASE ~ProcessGone
    <3>1. OpenContinues("recoverIntent") /\ UNCHANGED recovered /\ versionClock' = clockFile'
      <4>1. CASE clockFile # NoClock
        BY Zenon, <1>2, <4>1 DEF loadVersionClock
      <4>2. CASE clockFile = NoClock
        BY Zenon, <1>2, <2>4, <4>2 DEF loadVersionClock, Replaced
      <4>3. QED
        BY Zenon, <4>1, <4>2
    <3>2. \A c \in Coords : ver[c] <= versionClock'
      <4>1. CASE clockFile # NoClock
        <5>1. versionClock' = clockFile
          BY Zenon, <1>2, <4>1 DEF loadVersionClock
        <5>2. QED
          BY <1>a, <1>b, <1>c, <5>1
      <4>2. CASE clockFile = NoClock
        BY Zenon, <1>2, <2>4, <4>2 DEF loadVersionClock
      <4>3. QED
        BY Zenon, <4>1, <4>2
    <3>3. \A c \in Coords : pending'[c].version <= versionClock' /\ recovered'[c] <= versionClock'
      BY <1>a, <1>b, <1>d, <2>1, <3>1
    <3>4. ClockLoaded' /\ versionClock' <= clockFile'
      BY <1>b, <3>1 DEF ClockLoaded
    <3>5. QED
      BY Zenon, <1>b, <2>2, <3>2, <3>3, <3>4, ClockHeld
  <2>5. QED
    BY Zenon, <2>3, <2>4
<1>3. CASE recoverConditionalIntent
  BY Zenon, <1>3, <1>c, ClockGone, ClockUntouched DEF recoverConditionalIntent, ClockLoaded
<1>4. CASE clearRecoveredIntent
  BY Zenon, <1>4, <1>c, ClockGone, ClockUntouched DEF clearRecoveredIntent, ClockLoaded
<1>5. CASE reserveRecoveryVersions
  <2> DEFINE last == versionClock + Cardinality(ChangedChunks)
  <2>1. last \in Nat /\ versionClock <= last
    <3>1. ChangedChunks \subseteq Coords
      BY Zenon DEF ChangedChunks
    <3>2. Cardinality(ChangedChunks) \in Nat
      BY Zenon, <3>1, FS_Subset, FS_CardinalityType, ConstantsAssumption
    <3>3. QED
      BY <1>a, <3>2
  <2>2. UNCHANGED ver /\ ClockLoaded
    BY Zenon, <1>5 DEF reserveRecoveryVersions, ClockLoaded
  <2>3. clockFile' = clockFile \/ clockFile' = last
    BY ZenonT(60), <1>5 DEF reserveRecoveryVersions, Replaced
  <2>4. CASE ProcessGone
    <3>1. \A c \in Coords : ver'[c] <= clockFile' \/ ver'[c] = 0
      <4> HIDE DEF last
      <4>1. QED
        BY <1>a, <1>c, <1>d, <2>1, <2>2, <2>3
    <3>2. QED
      BY Zenon, <2>4, <3>1, ClockGone
  <2>5. CASE ChangedChunks = {} /\ ~ProcessGone
    BY Zenon, <1>5, <2>2, <2>5, ClockUntouched DEF reserveRecoveryVersions, ClockLoaded
  <2>6. CASE ChangedChunks # {} /\ ~ProcessGone
    <3>1. PICK f \in [ChangedChunks -> (versionClock + 1)..last] :
             recovered' = [c \in Coords |-> IF c \in ChangedChunks THEN f[c] ELSE 0]
      BY Zenon, <1>5, <2>6 DEF reserveRecoveryVersions
    <3>2. clockFile' = last /\ versionClock' = last /\ OpenContinues("recover")
      BY Zenon, <1>5, <2>6 DEF reserveRecoveryVersions, Replaced
    <3> HIDE DEF last
    <3>3. \A c \in Coords : recovered'[c] <= last
      BY <1>a, <2>1, <3>1
    <3>4. \A c \in Coords : ver'[c] <= last /\ pending'[c].version <= last
      BY <1>a, <1>d, <2>1, <2>2, <3>2
    <3>5. ClockLoaded' /\ versionClock' <= clockFile'
      BY <2>1, <3>2 DEF ClockLoaded
    <3>6. QED
      BY Zenon, <1>b, <3>2, <3>3, <3>4, <3>5, ClockHeld
  <2>7. QED
    BY Zenon, <2>4, <2>5, <2>6
<1>6. CASE RecoverVersion
  <2>1. ClockLoaded /\ UNCHANGED clockFile
    BY Zenon, <1>6 DEF RecoverVersion, ClockLoaded
  <2>2. PICK c \in Coords, r \in Outcomes("replayVersion", SyncsCheckpoint) :
           /\ ver' = [ver EXCEPT ![c] = Replaced(r, @, recovered[c])]
           /\ \/ /\ recovered' = [recovered EXCEPT ![c] = 0]
                 /\ OpenContinues("recover")
                 /\ UNCHANGED versionClock
              \/ ProcessGone
    BY ZenonT(60), <1>6 DEF RecoverVersion
  <2>3. \A d \in Coords : ver'[d] <= versionClock
    BY Zenon, <1>a, <1>d, <2>1, <2>2 DEF TypeInv, DirectoryOK, Replaced
  <2>4. CASE ProcessGone
    BY <1>a, <1>b, <1>d, <2>1, <2>3, <2>4, ClockGone
  <2>5. CASE ~ProcessGone
    <3>1. \A d \in Coords : recovered'[d] <= versionClock' /\ pending'[d].version <= versionClock'
      BY <1>a, <1>d, <2>2, <2>5 DEF TypeInv, ProcessOK
    <3>2. ClockLoaded' /\ versionClock' = versionClock
      BY Zenon, <2>2, <2>5 DEF ClockLoaded
    <3>3. QED
      BY Zenon, <1>b, <1>d, <2>1, <2>3, <3>1, <3>2, ClockHeld
  <2>6. QED
    BY Zenon, <2>4, <2>5
<1>7. CASE ReplayRecord
  BY Zenon, <1>7, <1>c, ClockGone, ClockUntouched DEF ReplayRecord, ClockLoaded
<1>8. CASE replaceWALAfterReplay
  BY Zenon, <1>8, <1>c, ClockGone, ClockUntouched DEF replaceWALAfterReplay, ClockLoaded
<1>9. CASE finishRecoveredSnapshot
  BY Zenon, <1>9, <1>c, ClockGone, ClockUntouched DEF finishRecoveredSnapshot, ClockLoaded
<1>10. QED
  BY Zenon, <1>1, <1>2, <1>3, <1>4, <1>5, <1>6, <1>7, <1>8, <1>9 DEF OpenStep

LEMMA ClockRetryStep == TypeInv /\ TypeInv' /\ ClockInv /\ RetryStep => ClockInv'
<1> SUFFICES ASSUME TypeInv, TypeInv', ClockInv, RetryStep PROVE ClockInv'
  OBVIOUS
<1>a. /\ versionClock \in Nat
      /\ clockFile \in Nat \/ clockFile = -1
      /\ \A c \in Coords : ver[c] \in Nat /\ pending[c].version \in Nat /\ recovered[c] \in Nat
  BY Zenon, ClockTypes
<1>b. \A c \in Coords : ver'[c] \in Nat
  BY Zenon DEF TypeInv, DirectoryOK
<1>c. ClockLoaded /\ ClockLoaded' /\ UNCHANGED <<clockFile, versionClock, recovered>>
  BY ZenonT(60) DEF RetryStep, PublishVersion, PublishImage, RetryDone, persistCheckpointChunk, clearWAL,
     ClockLoaded, AfterRetry, TypeInv, ProcessOK, clocks, marks
<1>d. /\ versionClock <= clockFile
      /\ \A c \in Coords : ver[c] <= versionClock
      /\ \A c \in Coords : pending[c].version <= versionClock /\ recovered[c] <= versionClock
  BY Zenon, <1>c DEF ClockInv, VersionsWithinClock, ClockLoaded
<1>1. CASE PublishVersion
  <2>1. PICK c \in Coords, r \in Outcomes("persistChunkVersion", SyncsPublications) :
           ver' = [ver EXCEPT ![c] = Replaced(r, @, pending[c].version)]
    BY Zenon, <1>1 DEF PublishVersion
  <2>2. \A d \in Coords : ver'[d] <= versionClock
    BY Zenon, <1>d, <2>1 DEF TypeInv, DirectoryOK, Replaced
  <2>3. UNCHANGED pending
    BY Zenon, <1>1 DEF PublishVersion, held
  <2>4. QED
    BY Zenon, <1>a, <1>b, <1>c, <1>d, <2>2, <2>3, ClockHeld
<1>2. CASE PublishImage
  <2>1. pending' = pending \/ pending' = [pending EXCEPT ![cursor] = NotPending]
    BY Zenon, <1>2 DEF PublishImage
  <2>2. pending \in [Coords -> Publications]
    BY Zenon DEF TypeInv, ProcessOK
  <2>3. \A d \in Coords : pending'[d] = pending[d] \/ pending'[d] = NotPending
    BY Zenon, <2>1, <2>2
  <2>4. \A d \in Coords : pending'[d].version <= versionClock
    BY <1>a, <1>d, <2>3 DEF NotPending
  <2>5. UNCHANGED ver
    BY Zenon, <1>2 DEF PublishImage
  <2>6. QED
    BY Zenon, <1>a, <1>c, <1>d, <2>4, <2>5, ClockHeld
<1>3. CASE RetryDone \/ persistCheckpointChunk \/ clearWAL
  BY Zenon, <1>3, <1>c, ClockUntouched DEF RetryDone, persistCheckpointChunk, clearWAL, files, held
<1>4. QED
  BY Zenon, <1>1, <1>2, <1>3 DEF RetryStep

LEMMA ClockWriteStep == TypeInv /\ TypeInv' /\ ClockInv /\ WriteStep => ClockInv'
<1> SUFFICES ASSUME TypeInv, TypeInv', ClockInv, WriteStep PROVE ClockInv'
  OBVIOUS
<1>a. /\ versionClock \in Nat
      /\ clockFile \in Nat \/ clockFile = -1
      /\ \A c \in Coords : ver[c] \in Nat /\ pending[c].version \in Nat /\ recovered[c] \in Nat
  BY Zenon, ClockTypes
<1>b. op.muts \in Seq(Mutation) /\ Len(op.muts) \in Nat
  BY DEF TypeInv, ProcessOK, Ops
<1>c. ClockLoaded /\ ClockLoaded'
  BY Zenon DEF WriteStep, beginWriteSnapshot, RefuseBatch, ReserveVersions, PublishRollbackIntent,
     CleanFailedIntent, appendWAL, PublishCommittedIntent, AdmitCommitted, finishCommittedSnapshot, rollbackWAL,
     clearRejectedIntent, finishRejectedSnapshot, Return, ClockLoaded
<1>d. /\ versionClock <= clockFile
      /\ \A c \in Coords : ver[c] <= versionClock
      /\ \A c \in Coords : pending[c].version <= versionClock /\ recovered[c] <= versionClock
  BY Zenon, <1>c DEF ClockInv, VersionsWithinClock, ClockLoaded
<1> USE DEF logs, files, clocks, gens, held, call, marks
<1>1. CASE ReserveVersions
  <2> DEFINE last == versionClock + Len(op.muts)
  <2>1. last \in Nat /\ versionClock <= last
    BY <1>a, <1>b
  <2>2. UNCHANGED <<ver, pending, recovered>>
    BY Zenon, <1>1 DEF ReserveVersions
  <2>3. \/ UNCHANGED <<clockFile, versionClock>>
        \/ clockFile' = last /\ versionClock' \in {versionClock, last}
    BY ZenonT(60), <1>1 DEF ReserveVersions, Replaced
  <2> HIDE DEF last
  <2>4. QED
    BY <1>a, <1>c, <1>d, <2>1, <2>2, <2>3, ClockHeld
<1>2. CASE AdmitCommitted
  <2>1. UNCHANGED <<ver, clockFile, versionClock, recovered>>
    BY Zenon, <1>2 DEF AdmitCommitted
  <2>2. ASSUME NEW c \in Mutated PROVE Publication(c).version <= versionClock
    <3>1. IndexOf(c) \in 1..Len(op.muts)
      BY <1>b DEF Mutated, IndexOf
    <3>2. QED
      BY <1>a, <1>b, <3>1 DEF Publication
  <2>3. \A c \in Coords : pending'[c].version <= versionClock
    BY Zenon, <1>2, <1>d, <2>2 DEF AdmitCommitted
  <2>4. QED
    BY Zenon, <1>a, <1>c, <1>d, <2>1, <2>3, ClockHeld
<1>3. CASE ~ReserveVersions /\ ~AdmitCommitted
  <2>1. UNCHANGED <<ver, clockFile, versionClock, pending, recovered>>
    BY Zenon, <1>3 DEF WriteStep, beginWriteSnapshot, RefuseBatch, PublishRollbackIntent, CleanFailedIntent,
       appendWAL, PublishCommittedIntent, finishCommittedSnapshot, rollbackWAL, clearRejectedIntent,
       finishRejectedSnapshot
  <2>2. QED
    BY Zenon, <1>c, <2>1, ClockUntouched
<1>4. QED
  BY Zenon, <1>1, <1>2, <1>3

LEMMA ClockNext == TypeInv /\ TypeInv' /\ ClockInv /\ [Next]_vars => ClockInv'
<1> SUFFICES ASSUME TypeInv, TypeInv', ClockInv, [Next]_vars PROVE ClockInv'
  OBVIOUS
<1> USE DEF logs, files, clocks, gens, held, call, marks
<1>1. CASE OpenStep \/ RetryStep \/ WriteStep
  BY <1>1, ClockOpenStep, ClockRetryStep, ClockWriteStep
<1>2. CASE WriteChunk \/ ConditionalWriteChunks \/ FlushWAL
  BY Zenon, <1>2, ClockUntouched DEF WriteChunk, ConditionalWriteChunks, FlushWAL, Call, ClockLoaded
<1>3. CASE ReturnError \/ FlushBarrier
  BY Zenon, <1>3, ClockUntouched DEF ReturnError, FlushBarrier, Return, ClockLoaded
<1>4. CASE ReadChunk \/ Evict
  BY Zenon, <1>4, ClockUntouched DEF ReadChunk, Evict, ClockLoaded
<1>5. CASE Close \/ Crash
  <2>1. \A c \in Coords : ver[c] <= clockFile \/ ver[c] = 0
    BY Zenon DEF ClockInv, VersionsWithinClock
  <2>2. QED
    BY Zenon, <1>5, <2>1, ClockGone DEF Close, Crash
<1>6. CASE UNCHANGED vars
  BY Zenon, <1>6, ClockUntouched DEF vars, ClockLoaded
<1>7. QED
  BY Zenon, <1>1, <1>2, <1>3, <1>4, <1>5, <1>6 DEF Next

(* The version clock is never behind a version in a version file, a        *)
(* pending publication or a recovery in progress, after any sequence of    *)
(* failed clock replacements, crashes and reopenings.  The versions that   *)
(* ReserveVersions and reserveRecoveryVersions hand out next are therefore *)
(* new.                                                                    *)
THEOREM VersionsStayWithinClock == Spec => []VersionsWithinClock
<1>1. ClockInv => VersionsWithinClock
  BY Zenon DEF ClockInv
<1>2. QED
  BY <1>1, TypeInvariant, ClockInit, ClockNext, PTL DEF Spec

(***************************************************************************)
(* Versions in the making are ahead of the versions in use                 *)
(***************************************************************************)

LEMMA AheadInit == Init => AheadInv
BY Zenon DEF Init, AheadInv, PublishedAhead, RecoveredAhead, ReservedAhead, Reserved

LEMMA AheadGone == ProcessGone => AheadInv'
BY Zenon DEF ProcessGone, AheadInv, PublishedAhead, RecoveredAhead, ReservedAhead, Reserved

(* Steps that leave the versions alone, outside a recovery. *)
LEMMA AheadHeld ==
    ASSUME AheadInv, UNCHANGED <<ver, recovered>>, pc # "recover", pc' # "publish",
           pc' \in Reserved => pc \in Reserved /\ UNCHANGED <<pending, versionClock, op>>
    PROVE  AheadInv'
BY Zenon DEF AheadInv, PublishedAhead, RecoveredAhead, ReservedAhead

LEMMA AheadOpenStep ==
    ASSUME TypeInv, ClockInv, AheadInv, OpenStep
    PROVE  AheadInv'
<1> USE DEF logs, files, clocks, gens, held, call, marks
<1>a. /\ versionClock \in Nat
      /\ \A c \in Coords : ver[c] \in Nat /\ pending[c].version \in Nat /\ recovered[c] \in Nat
  BY Zenon, ClockTypes
<1>b. ver \in [Coords -> Nat] /\ recovered \in [Coords -> Nat]
  BY Zenon DEF TypeInv, DirectoryOK, ProcessOK
<1>1. CASE ProcessGone
  BY Zenon, <1>1, AheadGone
<1>2. CASE beginWriterSnapshot
  <2>1. UNCHANGED <<ver, recovered>> /\ pc = "closed" /\ pc' \in {"loadClock", "closed"}
    BY Zenon, <1>2 DEF beginWriterSnapshot
  <2>2. QED
    BY Zenon, <2>1, AheadHeld DEF Reserved
<1>3. CASE ~ProcessGone /\ (loadVersionClock \/ recoverConditionalIntent \/ clearRecoveredIntent)
  <2>1. UNCHANGED <<ver, recovered>> /\ pc \in {"loadClock", "recoverIntent", "clearRecovered"}
        /\ pc' \in {"recoverIntent", "clearRecovered", "reserve"}
    BY ZenonT(40), <1>3 DEF loadVersionClock, recoverConditionalIntent, clearRecoveredIntent, OpenContinues
  <2>2. QED
    BY Zenon, <2>1, AheadHeld DEF Reserved
<1>4. CASE ~ProcessGone /\ reserveRecoveryVersions
  <2>1. pc = "reserve" /\ pc' = "recover" /\ UNCHANGED ver
    BY Zenon, <1>4 DEF reserveRecoveryVersions, OpenContinues
  <2>2. CASE ChangedChunks = {}
    <3>1. UNCHANGED recovered
      BY Zenon, <1>4, <2>2 DEF reserveRecoveryVersions
    <3>2. QED
      BY Zenon, <2>1, <3>1 DEF AheadInv, PublishedAhead, RecoveredAhead, ReservedAhead, Reserved
  <2>3. CASE ChangedChunks # {}
    <3> DEFINE last == versionClock + Cardinality(ChangedChunks)
    <3>1. PICK f \in [ChangedChunks -> (versionClock + 1)..last] :
             recovered' = [c \in Coords |-> IF c \in ChangedChunks THEN f[c] ELSE 0]
      BY Zenon, <1>4, <2>3 DEF reserveRecoveryVersions
    <3>2. last \in Nat
      <4>1. ChangedChunks \subseteq Coords
        BY Zenon DEF ChangedChunks
      <4>2. Cardinality(ChangedChunks) \in Nat
        BY Zenon, <4>1, ConstantsAssumption, FS_Subset, FS_CardinalityType
      <4>3. QED
        BY <1>a, <4>2
    <3> HIDE DEF last
    <3>3. \A c \in Coords : ver[c] <= versionClock
      BY Zenon, <2>1 DEF ClockInv, ClockLoaded
    <3>4. \A c \in Coords : recovered'[c] # 0 => ver[c] < recovered'[c]
      BY <1>a, <3>1, <3>2, <3>3
    <3>5. QED
      BY Zenon, <2>1, <3>4 DEF AheadInv, PublishedAhead, RecoveredAhead, ReservedAhead, Reserved
  <2>4. QED
    BY Zenon, <2>2, <2>3
<1>5. CASE ~ProcessGone /\ RecoverVersion
  <2>1. PICK c \in Coords : /\ ver' = [ver EXCEPT ![c] = recovered[c]]
                            /\ recovered' = [recovered EXCEPT ![c] = 0]
                            /\ pc' = "recover"
    BY Zenon, <1>5 DEF RecoverVersion, OpenContinues, Replaced
  <2>2. RecoveredAhead'
    BY Zenon, <1>b, <2>1 DEF AheadInv, RecoveredAhead
  <2>3. QED
    BY Zenon, <2>1, <2>2 DEF AheadInv, PublishedAhead, ReservedAhead, Reserved
<1>6. CASE ~ProcessGone /\ (ReplayRecord \/ replaceWALAfterReplay)
  <2>1. UNCHANGED <<ver, recovered>> /\ VersionsRecovered /\ pc' \in {"recover", "opened"}
    BY ZenonT(40), <1>6 DEF ReplayRecord, replaceWALAfterReplay, OpenContinues
  <2>2. QED
    BY Zenon, <2>1 DEF VersionsRecovered, AheadInv, PublishedAhead, RecoveredAhead, ReservedAhead, Reserved
<1>7. CASE ~ProcessGone /\ finishRecoveredSnapshot
  BY Zenon, <1>7, AheadHeld DEF finishRecoveredSnapshot, Reserved
<1>8. QED
  BY Zenon, <1>1, <1>2, <1>3, <1>4, <1>5, <1>6, <1>7 DEF OpenStep

LEMMA AheadNext ==
    ASSUME TypeInv, ClockInv, AheadInv, [Next]_vars
    PROVE  AheadInv'
<1> USE DEF logs, files, clocks, gens, held, call, marks
<1>a. /\ versionClock \in Nat
      /\ \A c \in Coords : ver[c] \in Nat /\ pending[c].version \in Nat /\ recovered[c] \in Nat
  BY Zenon, ClockTypes
<1>1. CASE OpenStep
  BY Zenon, <1>1, AheadOpenStep
<1>2. CASE PublishVersion
  <2>1. PICK c \in Coords, r \in Outcomes("persistChunkVersion", SyncsPublications) :
           /\ ver' = [ver EXCEPT ![c] = Replaced(r, @, pending[c].version)]
           /\ cursor' = IF r = "ok" THEN c ELSE 0
           /\ pc' = IF r = "ok" THEN "publish" ELSE AfterRetry(FALSE)
    BY Zenon, <1>2 DEF PublishVersion
  <2>2. pc = "retry" /\ UNCHANGED <<pending, recovered>>
    BY Zenon, <1>2 DEF PublishVersion
  <2>3. pc' \notin Reserved
    BY Zenon, <2>1 DEF AfterRetry, Reserved, TypeInv, ProcessOK
  <2>4. pc' = "publish" => r = "ok"
    BY Zenon, <2>1 DEF AfterRetry, TypeInv, ProcessOK
  <2>5. PublishedAhead'
    BY Zenon, <2>1, <2>2, <2>4 DEF PublishedAhead, Replaced, TypeInv, DirectoryOK
  <2>6. RecoveredAhead'
    BY Zenon, <2>2 DEF AheadInv, RecoveredAhead
  <2>7. QED
    BY Zenon, <2>3, <2>5, <2>6 DEF AheadInv, ReservedAhead
<1>3. CASE PublishImage \/ RetryDone \/ persistCheckpointChunk \/ clearWAL
  <2>1. /\ UNCHANGED <<ver, recovered>> /\ pc \in {"retry", "publish", "checkpoint"}
        /\ pc' \in {"retry", "checkpoint", "fail", ret}
    BY ZenonT(40), <1>3 DEF PublishImage, RetryDone, persistCheckpointChunk, clearWAL, AfterRetry
  <2>2. pc # "recover" /\ pc' # "publish" /\ pc' \notin Reserved
    BY Zenon, <2>1 DEF Reserved, TypeInv, ProcessOK
  <2>3. QED
    BY Zenon, <2>1, <2>2, AheadHeld
<1>4. CASE ReserveVersions
  <2>1. /\ pc = "validate" /\ UNCHANGED <<ver, recovered, pending, op>>
        /\ \/ pc' = "reject"
           \/ pc' = "intent" /\ versionClock' = versionClock + Len(op.muts)
    BY Zenon, <1>4 DEF ReserveVersions
  <2>2. \A c \in Coords : ver[c] <= versionClock /\ pending[c].version <= versionClock
    BY Zenon, <2>1 DEF ClockInv, ClockLoaded, VersionsWithinClock
  <2>3. Len(op.muts) \in Nat
    BY DEF TypeInv, ProcessOK, Ops
  <2>4. ReservedAhead'
    BY <1>a, <2>1, <2>2, <2>3 DEF ReservedAhead, Reserved
  <2>5. QED
    BY Zenon, <2>1, <2>4 DEF AheadInv, PublishedAhead, RecoveredAhead
<1>5. CASE beginWriteSnapshot \/ RefuseBatch \/ CleanFailedIntent \/ AdmitCommitted
           \/ finishCommittedSnapshot \/ rollbackWAL \/ clearRejectedIntent \/ finishRejectedSnapshot
  <2>1. /\ UNCHANGED <<ver, recovered>> /\ pc # "recover"
        /\ pc' \in {"validate", "fail", "reject", "retry", "idle", "clearRejected"}
    BY ZenonT(40), <1>5 DEF beginWriteSnapshot, RefuseBatch, CleanFailedIntent, AdmitCommitted,
       finishCommittedSnapshot, rollbackWAL, clearRejectedIntent, finishRejectedSnapshot, Return
  <2>2. QED
    BY Zenon, <2>1, AheadHeld DEF Reserved
<1>6. CASE PublishRollbackIntent \/ appendWAL \/ PublishCommittedIntent
  <2>1. /\ UNCHANGED <<ver, recovered, pending, versionClock, op>> /\ pc \in {"intent", "append", "commit"}
        /\ pc' \in {"append", "commit", "post", "unpublish", "rollback", "reject"}
    BY ZenonT(40), <1>6 DEF PublishRollbackIntent, appendWAL, PublishCommittedIntent
  <2>2. QED
    BY Zenon, <2>1, AheadHeld DEF Reserved
<1>7. CASE WriteChunk \/ ConditionalWriteChunks \/ FlushWAL \/ ReturnError \/ FlushBarrier
           \/ ReadChunk \/ Evict
  <2>1. UNCHANGED <<ver, recovered>> /\ pc \in {"idle", "fail", "sync"} /\ pc' \in {"retry", "idle", "fail"}
    BY ZenonT(40), <1>7 DEF WriteChunk, ConditionalWriteChunks, FlushWAL, Call, ReturnError, FlushBarrier, Return,
       ReadChunk, Evict
  <2>2. QED
    BY Zenon, <2>1, AheadHeld DEF Reserved
<1>8. CASE Close \/ Crash
  BY Zenon, <1>8, AheadGone DEF Close, Crash
<1>9. CASE UNCHANGED vars
  BY Zenon, <1>9 DEF vars, AheadInv, PublishedAhead, RecoveredAhead, ReservedAhead
<1>10. QED
  BY Zenon, <1>1, <1>2, <1>3, <1>4, <1>5, <1>6, <1>7, <1>8, <1>9 DEF Next, RetryStep, WriteStep

LEMMA AheadInvariant == Spec => [](ClockInv /\ AheadInv)
<1>1. TypeInv /\ ClockInv /\ AheadInv /\ [Next]_vars => AheadInv'
  BY Zenon, AheadNext
<1>2. QED
  BY <1>1, TypeInvariant, ClockInit, ClockNext, AheadInit, PTL DEF Spec

(***************************************************************************)
(* The rollback boundary covers whatever a failed append left behind       *)
(***************************************************************************)

(* A rollback intent is on disk only while an open has not dealt with it,  *)
(* while its own write is in progress, or in a poisoned store, which       *)
(* starts no operation and so runs no checkpoint that could cut the WAL    *)
(* below the boundary.                                                     *)
IntentIsHandled ==
    intent.state = "rollback" =>
        \/ pc \in {"closed", "loadClock", "recoverIntent", "clearRecovered"}
        \/ pc \in {"append", "unpublish", "commit", "rollback", "clearRejected"}
        \/ pc \in {"reject", "idle"} /\ poisoned # "no"

(* Where the intent is about to be removed or decided, no part of a record *)
(* is left.                                                                *)
TailIsWhole ==
    pc \in {"clearRecovered", "clearRejected", "unpublish", "append", "commit"} => tail = "whole"

(* An append is always behind a rollback intent. *)
AppendIsCovered == pc = "append" => intent.state = "rollback"

TailInv == BoundaryCoversTail /\ IntentIsHandled /\ TailIsWhole /\ AppendIsCovered

LEMMA TailInit == Init => TailInv
BY DEF Init, TailInv, BoundaryCoversTail, IntentIsHandled, TailIsWhole, AppendIsCovered, NoIntent

(* Cutting at a boundary within the WAL leaves exactly the boundary. *)
LEMMA CutLength ==
    ASSUME TypeInv, intent.boundary <= Len(wal)
    PROVE  Len(SubSeq(wal, 1, intent.boundary)) = intent.boundary
BY DEF TypeInv, DirectoryOK, Intents

LEMMA TailOpenStep == TypeInv /\ TailInv /\ OpenStep => TailInv'
<1> SUFFICES ASSUME TypeInv, TailInv, OpenStep PROVE TailInv'
  OBVIOUS
<1> USE DEF TailInv, BoundaryCoversTail, IntentIsHandled, TailIsWhole, AppendIsCovered, OpenContinues, ProcessGone, logs
<1>1. CASE beginWriterSnapshot
  BY Zenon, <1>1 DEF beginWriterSnapshot
<1>2. CASE loadVersionClock
  BY Zenon, <1>2 DEF loadVersionClock
<1>3. CASE recoverConditionalIntent
  <2>1. CASE intent.state # "rollback"
    <3>1. tail = "whole"
      BY Zenon, <2>1 DEF TypeInv, DirectoryOK
    <3>2. UNCHANGED logs /\ pc' \in {"reserve", "clearRecovered"}
      BY Zenon, <1>3, <2>1 DEF recoverConditionalIntent
    <3>3. QED
      BY Zenon, <2>1, <3>1, <3>2
  <2>2. CASE intent.state = "rollback"
    <3>0. ~(intent.boundary > Len(wal))
      BY <2>2 DEF TypeInv, DirectoryOK, Intents
    <3>1. PICK r \in Outcomes("rollbackWAL", TRUE) :
             /\ wal' = Replaced(r, wal, SubSeq(wal, 1, intent.boundary))
             /\ tail' = Replaced(r, tail, "whole")
             /\ (pc' = "clearRecovered" /\ r = "ok") \/ pc' = "closed"
      BY ZenonT(60), <1>3, <2>2, <3>0 DEF recoverConditionalIntent
    <3>2. intent.boundary \in Nat /\ intent' = intent
      BY Zenon, <1>3 DEF recoverConditionalIntent, TypeInv, DirectoryOK, Intents
    <3>3. intent.boundary <= Len(wal')
      BY <2>2, <3>1, <3>2, CutLength DEF Replaced
    <3>4. QED
      BY Zenon, <2>2, <3>1, <3>2, <3>3 DEF Replaced
  <2>3. QED
    BY Zenon, <2>1, <2>2
<1>4. CASE clearRecoveredIntent
  BY <1>4 DEF clearRecoveredIntent, Replaced, NoIntent
<1>5. CASE reserveRecoveryVersions
  <2>1. intent.state # "rollback" /\ tail # "torn"
    BY Zenon, <1>5 DEF reserveRecoveryVersions
  <2>2. pc' \in {"recover", "closed"} /\ UNCHANGED logs
    BY ZenonT(60), <1>5 DEF reserveRecoveryVersions
  <2>3. QED
    BY Zenon, <2>1, <2>2
<1>6. CASE RecoverVersion
  BY Zenon, <1>6 DEF RecoverVersion
<1>7. CASE ReplayRecord
  BY Zenon, <1>7 DEF ReplayRecord
<1>8. CASE replaceWALAfterReplay
  <2>1. intent.state # "rollback" /\ tail # "torn"
    BY Zenon, <1>8 DEF replaceWALAfterReplay
  <2>2. pc' \in {"opened", "closed"} /\ intent' = intent /\ tail' # "torn"
    BY Zenon, <1>8, <2>1 DEF replaceWALAfterReplay, Replaced
  <2>3. QED
    BY Zenon, <2>1, <2>2
<1>9. CASE finishRecoveredSnapshot
  BY Zenon, <1>9 DEF finishRecoveredSnapshot
<1>10. QED
  BY Zenon, <1>1, <1>2, <1>3, <1>4, <1>5, <1>6, <1>7, <1>8, <1>9 DEF OpenStep

(* Publication and checkpoints run only without a rollback intent. *)
LEMMA TailRetryStep == TypeInv /\ TailInv /\ RetryStep => TailInv'
<1> SUFFICES ASSUME TypeInv, TailInv, RetryStep PROVE TailInv'
  OBVIOUS
<1>1. pc \in {"retry", "publish", "checkpoint"}
  BY Zenon DEF RetryStep, PublishVersion, PublishImage, RetryDone, persistCheckpointChunk, clearWAL
<1>2. intent.state # "rollback" /\ tail # "torn"
  BY Zenon, <1>1 DEF TailInv, BoundaryCoversTail, IntentIsHandled
<1>3. intent' = intent /\ tail' \in {tail, "whole"}
  BY Zenon DEF RetryStep, PublishVersion, PublishImage, RetryDone, persistCheckpointChunk, clearWAL, logs, Replaced
<1>4. pc' \in {"retry", "publish", "checkpoint", "fail", "begin", "finish", "sync"}
  BY ZenonT(60) DEF RetryStep, PublishVersion, PublishImage, RetryDone, persistCheckpointChunk, clearWAL,
     AfterRetry, TypeInv, ProcessOK
<1>5. QED
  BY Zenon, <1>2, <1>3, <1>4 DEF TailInv, BoundaryCoversTail, IntentIsHandled, TailIsWhole, AppendIsCovered

LEMMA TailWriteStep ==
    ASSUME <<"intentExists", "early">> \notin Faults
    PROVE  TypeInv /\ TailInv /\ WriteStep => TailInv'
<1> SUFFICES ASSUME TypeInv, TailInv, WriteStep PROVE TailInv'
  OBVIOUS
<1>a. wal \in Seq(Mutation) /\ tail \in {"whole", "torn"} /\ intent \in Intents
      /\ poisoned \in {"no", "repair", "undecided"} /\ op.muts \in Seq(Mutation)
  BY Zenon DEF TypeInv, DirectoryOK, ProcessOK, Ops
<1> USE DEF TailInv, BoundaryCoversTail, IntentIsHandled, TailIsWhole, AppendIsCovered, logs
<1>1. CASE beginWriteSnapshot \/ RefuseBatch \/ ReserveVersions
  BY Zenon, <1>1 DEF beginWriteSnapshot, RefuseBatch, ReserveVersions
<1>2. CASE PublishRollbackIntent
  <2>1. intent.state # "rollback" /\ tail # "torn" /\ UNCHANGED <<wal, tail>>
    BY Zenon, <1>2 DEF PublishRollbackIntent
  <2>2. CASE pc' = "reject" /\ intent' = intent
    BY Zenon, <2>1, <2>2
  <2>3. CASE ~(pc' = "reject" /\ intent' = intent)
    <3>1. PICK r \in Outcomes("publishIntent", TRUE) :
             /\ intent' = Replaced(r, intent, [state |-> "rollback", boundary |-> Len(wal)])
             /\ pc' = IF r = "ok" THEN "append" ELSE "unpublish"
      BY Zenon, <1>2, <2>3 DEF PublishRollbackIntent
    <3>2. intent' = intent \/ intent' = [state |-> "rollback", boundary |-> Len(wal)]
      BY Zenon, <3>1 DEF Replaced
    <3>3. intent'.state = "rollback" => intent'.boundary = Len(wal)
      BY <2>1, <3>2
    <3>4. QED
      <4>1. pc' \in {"append", "unpublish"} /\ tail' = "whole" /\ wal' = wal
        BY Zenon, <1>a, <2>1, <3>1
      <4>2. pc' = "append" => intent'.state = "rollback"
        BY Zenon, <3>1 DEF Replaced
      <4>3. QED
        BY <1>a, <3>3, <4>1, <4>2
  <2>4. QED
    BY Zenon, <2>2, <2>3
<1>3. CASE CleanFailedIntent
  <2>1. tail' = "whole" /\ wal' = wal /\ pc' = "reject"
    BY Zenon, <1>3 DEF CleanFailedIntent
  <2>2. \/ intent' = intent /\ intent.state = "none"
        \/ intent' = NoIntent
        \/ intent' = intent /\ poisoned' # "no"
    BY Zenon, <1>3, <1>a DEF CleanFailedIntent, Replaced, Poison
  <2>3. QED
    BY <2>1, <2>2 DEF NoIntent
<1>4. CASE appendWAL
  <2>1. intent' = intent /\ pc' \in {"commit", "rollback"}
    BY Zenon, <1>4 DEF appendWAL
  <2>2. intent.state = "rollback" /\ tail = "whole"
    BY Zenon, <1>4 DEF appendWAL
  <2>3. \E t \in Seq(Mutation) : wal' = wal \o t
    <3>1. \A k \in 0..(Len(op.muts) - 1) : SubSeq(op.muts, 1, k) \in Seq(Mutation)
      BY <1>a
    <3>2. QED
      BY Zenon, <1>4, <1>a, <3>1 DEF appendWAL
  <2>4. Len(wal) <= Len(wal')
    BY <1>a, <2>3
  <2>5. intent.boundary <= Len(wal')
    <3>1. intent.boundary \in Nat /\ Len(wal) \in Nat /\ Len(wal') \in Nat
      BY <1>a, <2>3 DEF Intents
    <3>2. QED
      BY <2>2, <2>4, <3>1
  <2>6. pc' = "commit" => tail' = "whole"
    BY Zenon, <1>4, <2>2 DEF appendWAL
  <2>7. QED
    BY Zenon, <2>1, <2>2, <2>5, <2>6
<1>5. CASE PublishCommittedIntent
  <2>1. tail' = "whole" /\ wal' = wal
    BY Zenon, <1>5 DEF PublishCommittedIntent
  <2>2. \/ intent' = intent /\ (pc' = "rollback" \/ (pc' = "reject" /\ poisoned' # "no"))
        \/ intent' = [intent EXCEPT !.state = "committed"] /\ pc' \in {"post", "reject"}
    BY Zenon, <1>5, <1>a DEF PublishCommittedIntent, Replaced, Poison
  <2>3. [intent EXCEPT !.state = "committed"].state # "rollback"
    BY Zenon, <1>a DEF Intents
  <2>4. QED
    BY Zenon, <2>1, <2>2, <2>3
<1>6. CASE AdmitCommitted
  BY <1>6 DEF AdmitCommitted, Replaced, NoIntent
<1>7. CASE finishCommittedSnapshot
  BY Zenon, <1>7 DEF finishCommittedSnapshot, Return
<1>8. CASE rollbackWAL
  <2>1. intent' = intent /\ intent.boundary \in Nat /\ Len(wal) \in Nat
    BY <1>8, <1>a DEF rollbackWAL, Intents
  <2>2. PICK r :
           /\ wal' = Replaced(r, wal, SubSeq(wal, 1, intent.boundary))
           /\ tail' = Replaced(r, tail, "whole")
           /\ poisoned' = IF r = "ok" THEN poisoned ELSE Poison("repair")
           /\ pc' = IF r = "ok" THEN "clearRejected" ELSE "reject"
    BY Zenon, <1>8 DEF rollbackWAL
  <2>3. intent.state = "rollback" => intent.boundary <= Len(wal')
    BY <2>1, <2>2, CutLength DEF Replaced
  <2>4. (pc' = "clearRejected" /\ tail' = "whole") \/ (pc' = "reject" /\ poisoned' # "no")
    <3>1. CASE r = "ok"
      BY Zenon, <2>2, <3>1 DEF Replaced
    <3>2. CASE r # "ok"
      BY Zenon, <1>a, <2>2, <3>2 DEF Poison
    <3>3. QED
      BY Zenon, <3>1, <3>2
  <2>5. tail' \in {tail, "whole"}
    BY Zenon, <2>2 DEF Replaced
  <2>6. QED
    BY Zenon, <2>1, <2>3, <2>4, <2>5
<1>9. CASE clearRejectedIntent
  BY <1>9, <1>a DEF clearRejectedIntent, Replaced, NoIntent, Poison
<1>10. CASE finishRejectedSnapshot
  BY ZenonT(60), <1>10, <1>a DEF finishRejectedSnapshot, Return, Poison
<1>11. QED
  BY Zenon, <1>1, <1>2, <1>3, <1>4, <1>5, <1>6, <1>7, <1>8, <1>9, <1>10 DEF WriteStep

LEMMA TailNext ==
    ASSUME <<"intentExists", "early">> \notin Faults
    PROVE  TypeInv /\ TailInv /\ [Next]_vars => TailInv'
<1> SUFFICES ASSUME TypeInv, TailInv, [Next]_vars PROVE TailInv'
  OBVIOUS
<1> USE DEF TailInv, BoundaryCoversTail, IntentIsHandled, TailIsWhole, AppendIsCovered, logs
<1>1. CASE OpenStep \/ RetryStep \/ WriteStep
  BY Zenon, <1>1, TailOpenStep, TailRetryStep, TailWriteStep
<1>2. CASE WriteChunk \/ ConditionalWriteChunks \/ FlushWAL
  BY ZenonT(60), <1>2 DEF WriteChunk, ConditionalWriteChunks, FlushWAL, Call
<1>3. CASE ReturnError \/ FlushBarrier
  BY ZenonT(60), <1>3 DEF ReturnError, FlushBarrier, Return
<1>4. CASE ReadChunk \/ Evict
  BY Zenon, <1>4 DEF ReadChunk, Evict
<1>5. CASE Close \/ Crash
  BY Zenon, <1>5 DEF Close, Crash, ProcessGone
<1>6. CASE UNCHANGED vars
  BY Zenon, <1>6 DEF vars
<1>7. QED
  BY Zenon, <1>1, <1>2, <1>3, <1>4, <1>5, <1>6 DEF Next

(* Provided intentExists does not fail, recoverConditionalIntent never     *)
(* finds a boundary beyond the WAL and recoverWAL never meets part of a    *)
(* record: no sequence of failed appends, failed repairs, checkpoints and  *)
(* crashes leaves a directory that an open refuses as corrupt.             *)
THEOREM BoundaryStaysCovered ==
    ASSUME <<"intentExists", "early">> \notin Faults
    PROVE  Spec => []BoundaryCoversTail
<1>1. TailInv => BoundaryCoversTail
  BY Zenon DEF TailInv
<1>2. TypeInv /\ TailInv /\ [Next]_vars => TailInv'
  BY Zenon, TailNext
<1>3. QED
  BY <1>1, <1>2, TypeInvariant, TailInit, PTL DEF Spec

(* Under the same proviso, every path by which a write leaves its rollback *)
(* intent behind poisons the store, so no later write can append behind a  *)
(* boundary that a restart would cut at.                                   *)
THEOREM UnrepairedStaysPoisoned ==
    ASSUME <<"intentExists", "early">> \notin Faults
    PROVE  Spec => []UnrepairedIntentPoisons
<1>1. TailInv => UnrepairedIntentPoisons
  BY Zenon DEF TailInv, IntentIsHandled, UnrepairedIntentPoisons
<1>2. TypeInv /\ TailInv /\ [Next]_vars => TailInv'
  BY Zenon, TailNext
<1>3. QED
  BY <1>1, <1>2, TypeInvariant, TailInit, PTL DEF Spec

LEMMA ChangesAreCounted == ChangesCounted
<1>1. ChangedChunks \subseteq Coords
  BY Zenon DEF ChangedChunks
<1>2. QED
  BY ZenonT(40), <1>1, FS_Subset, FS_CardinalityType, ConstantsAssumption DEF ChangesCounted
================================================================================
