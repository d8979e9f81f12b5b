----------------------- MODULE ChunkStoreRecoveryProofs -----------------------
(***************************************************************************)
(* Proofs about what a ChunkStore directory recovers to, and how a step    *)
(* moves it: reads show the recoverable content unless a checkpoint fails  *)
(* to rewrite an image.  ChunkStoreTheorems draws the conclusions.         *)
(***************************************************************************)
EXTENDS ChunkStoreInvariants, TLAPS, WellFoundedInduction

(***************************************************************************)
(* The last record of a chunk                                              *)
(***************************************************************************)

LEMMA RecoverableReads ==
    ASSUME NEW c
    PROVE  Recoverable(c) = RecoveredFrom(wal, Kept, image, c)
BY Zenon DEF Recoverable, RecoveredFrom

(* A chunk with a record among the first k has a last one. *)
LEMMA LastExists ==
    ASSUME NEW w, NEW k \in Nat, NEW c, NEW h \in 1..k, w[h].coord = c
    PROVE  \E i : IsLast(w, k, c, i)
<1> DEFINE T == {n \in Nat : \E i \in 1..k : w[i].coord = c /\ n = k - i}
<1>1. T # {}
  <2>1. k - h \in T
    OBVIOUS
  <2>2. QED
    BY Zenon, <2>1
<1>2. PICK n \in T : \A m \in T : ~(<<m, n>> \in OpToRel(<, Nat))
  BY Zenon, <1>1, WFMin, NatLessThanWellFounded
<1>3. \A m \in T : ~(m < n)
  BY Zenon, <1>2 DEF OpToRel
<1>4. PICK i \in 1..k : w[i].coord = c /\ n = k - i
  OBVIOUS
<1>5. ASSUME NEW j \in 1..k, w[j].coord = c PROVE j <= i
  <2>1. k - j \in T
    BY <1>5
  <2>2. ~(k - j < k - i)
    BY Zenon, <1>3, <1>4, <2>1
  <2>3. QED
    BY <2>2
<1>6. QED
  BY Zenon, <1>4, <1>5 DEF IsLast

(* Its state is what the chunk recovers to; without one, its image is. *)
LEMMA FromRecord ==
    ASSUME NEW w, NEW k \in Nat, NEW img, NEW c, NEW i, IsLast(w, k, c, i)
    PROVE  RecoveredFrom(w, k, img, c) = Content(w[i].state)
<1> DEFINE hits == {j \in 1..k : w[j].coord = c}
           last == CHOOSE j \in hits : \A n \in hits : n <= j
<1>1. i \in hits /\ \A n \in hits : n <= i
  BY Zenon DEF IsLast
<1>2. last \in hits /\ \A n \in hits : n <= last
  BY Zenon, <1>1
<1>3. last = i
  <2>1. last \in 1..k /\ i \in 1..k /\ last <= i /\ i <= last
    BY Zenon, <1>1, <1>2
  <2>2. QED
    BY <2>1
<1>4. hits # {}
  BY Zenon, <1>1
<1>5. QED
  BY Zenon, <1>3, <1>4 DEF RecoveredFrom

LEMMA FromImage ==
    ASSUME NEW w, NEW k \in Nat, NEW img, NEW c, \A i \in 1..k : w[i].coord # c
    PROVE  RecoveredFrom(w, k, img, c) = Content(img[c])
BY Zenon DEF RecoveredFrom

(***************************************************************************)
(* Where a call is                                                         *)
(***************************************************************************)

LEMMA CallInit == Init => CallInv
BY Zenon DEF Init, CallInv, Opening, Retrying, Writing, Reserved

LEMMA CallGone == ProcessGone => CallInv'
BY Zenon DEF ProcessGone, CallInv, Opening, Retrying, Writing, Reserved

LEMMA CallOpenStep == TypeInv /\ CallInv /\ OpenStep => CallInv'
<1> SUFFICES ASSUME TypeInv, CallInv, OpenStep PROVE CallInv'
  OBVIOUS
<1> USE CallGone DEF CallInv, Opening, Retrying, Writing, Reserved, OpenContinues,
        logs, files, clocks, gens, held, call, marks
<1>1. CASE beginWriterSnapshot
  BY Zenon, <1>1 DEF beginWriterSnapshot
<1>2. CASE loadVersionClock
  BY Zenon, <1>2 DEF loadVersionClock
<1>3. CASE recoverConditionalIntent
  BY Zenon, <1>3 DEF recoverConditionalIntent
<1>4. CASE clearRecoveredIntent
  BY Zenon, <1>4 DEF clearRecoveredIntent
<1>5. CASE reserveRecoveryVersions
  BY Zenon, <1>5 DEF reserveRecoveryVersions
<1>6. CASE RecoverVersion
  BY Zenon, <1>6 DEF RecoverVersion
<1>7. CASE ReplayRecord
  BY Zenon, <1>7 DEF ReplayRecord
<1>8. CASE replaceWALAfterReplay
  BY Zenon, <1>8 DEF replaceWALAfterReplay
<1>9. CASE finishRecoveredSnapshot
  BY Zenon, <1>9 DEF finishRecoveredSnapshot
<1>10. QED
  BY Zenon, <1>1, <1>2, <1>3, <1>4, <1>5, <1>6, <1>7, <1>8, <1>9 DEF OpenStep

LEMMA CallRetryStep == TypeInv /\ CallInv /\ RetryStep => CallInv'
<1> SUFFICES ASSUME TypeInv, CallInv, RetryStep PROVE CallInv'
  OBVIOUS
<1> USE DEF CallInv, Opening, Retrying, Writing, Reserved, IsWrite, AfterRetry,
        logs, files, clocks, gens, held, call, marks
<1>1. CASE PublishVersion
  BY Zenon, <1>1 DEF PublishVersion, IsPending
<1>2. CASE PublishImage
  BY Zenon, <1>2 DEF PublishImage
<1>3. CASE RetryDone
  BY Zenon, <1>3 DEF RetryDone
<1>4. CASE persistCheckpointChunk
  BY Zenon, <1>4 DEF persistCheckpointChunk
<1>5. CASE clearWAL
  BY Zenon, <1>5 DEF clearWAL
<1>6. QED
  BY Zenon, <1>1, <1>2, <1>3, <1>4, <1>5 DEF RetryStep

LEMMA CallWriteStep == TypeInv /\ CallInv /\ WriteStep => CallInv'
<1> SUFFICES ASSUME TypeInv, CallInv, WriteStep PROVE CallInv'
  OBVIOUS
<1> USE DEF CallInv, Opening, Retrying, Writing, Reserved, IsWrite, Poison,
        logs, files, clocks, gens, held, call, marks
<1>1. CASE beginWriteSnapshot
  BY Zenon, <1>1 DEF beginWriteSnapshot
<1>2. CASE RefuseBatch
  BY Zenon, <1>2 DEF RefuseBatch
<1>3. CASE ReserveVersions
  <2>1. NotTwice(op.muts)
    <3>1. CASE op.kind = "conditional"
      BY Zenon, <1>3, <3>1 DEF ReserveVersions, MayReserve
    <3>2. CASE op.kind # "conditional"
      <4>1. op.muts \in Seq(Mutation) /\ Len(op.muts) = 1
        BY Zenon, <1>3, <3>2 DEF ReserveVersions, TypeInv, ProcessOK, Ops
      <4>2. DOMAIN op.muts = 1..1
        BY <4>1
      <4>3. QED
        BY <4>2 DEF NotTwice
    <3>3. QED
      BY Zenon, <3>1, <3>2
  <2>2. /\ pc = "validate" /\ pc' \in {"intent", "reject"}
        /\ UNCHANGED <<held, call, marks, ret, poisoned>>
    BY Zenon, <1>3 DEF ReserveVersions
  <2>3. QED
    BY Zenon, <2>1, <2>2
<1>4. CASE PublishRollbackIntent
  BY Zenon, <1>4 DEF PublishRollbackIntent
<1>5. CASE CleanFailedIntent
  BY Zenon, <1>5 DEF CleanFailedIntent
<1>6. CASE appendWAL
  BY Zenon, <1>6 DEF appendWAL
<1>7. CASE PublishCommittedIntent
  BY Zenon, <1>7 DEF PublishCommittedIntent
<1>8. CASE AdmitCommitted
  BY Zenon, <1>8 DEF AdmitCommitted
<1>9. CASE finishCommittedSnapshot
  BY Zenon, <1>9 DEF finishCommittedSnapshot, Return
<1>10. CASE rollbackWAL
  BY Zenon, <1>10 DEF rollbackWAL
<1>11. CASE clearRejectedIntent
  BY Zenon, <1>11 DEF clearRejectedIntent
<1>12. CASE finishRejectedSnapshot
  BY Zenon, <1>12 DEF finishRejectedSnapshot, Return
<1>13. QED
  BY Zenon, <1>1, <1>2, <1>3, <1>4, <1>5, <1>6, <1>7, <1>8, <1>9, <1>10, <1>11, <1>12 DEF WriteStep

(* Every batch a caller may hand over has a record. *)
LEMMA BatchNotEmpty ==
    ASSUME NEW b \in Batches
    PROVE  b # <<>>
<1>1. PICK n \in 1..MaxBatch : b \in [1..n -> Mutation]
  BY Zenon DEF Batches
<1>2. 1 \in DOMAIN b
  BY <1>1, ConstantsAssumption
<1>3. QED
  BY <1>2

LEMMA CallNext == TypeInv /\ CallInv /\ [Next]_vars => CallInv'
<1> SUFFICES ASSUME TypeInv, CallInv, [Next]_vars PROVE CallInv'
  OBVIOUS
<1> USE DEF CallInv, Opening, Retrying, Writing, Reserved, logs, files, clocks, gens, held, call, marks
<1>1. CASE OpenStep \/ RetryStep \/ WriteStep
  BY Zenon, <1>1, CallOpenStep, CallRetryStep, CallWriteStep
<1>2. CASE WriteChunk
  <2>1. PICK m \in Mutation : Call("write", <<m>>, "begin")
    BY Zenon, <1>2 DEF WriteChunk
  <2>2. IsWrite'
    BY Zenon, <2>1 DEF Call, IsWrite
  <2>3. QED
    BY Zenon, <2>1, <2>2 DEF Call
<1>3. CASE ConditionalWriteChunks
  <2>1. PICK b \in Batches : Call("conditional", b, "begin")
    BY Zenon, <1>3 DEF ConditionalWriteChunks
  <2>2. IsWrite'
    BY Zenon, <2>1, BatchNotEmpty DEF Call, IsWrite
  <2>3. QED
    BY Zenon, <2>1, <2>2 DEF Call
<1>4. CASE FlushWAL
  BY Zenon, <1>4 DEF FlushWAL, Call
<1>5. CASE ReturnError
  BY Zenon, <1>5 DEF ReturnError, Return
<1>6. CASE FlushBarrier
  BY Zenon, <1>6 DEF FlushBarrier, Return
<1>7. CASE ReadChunk \/ Evict
  BY Zenon, <1>7 DEF ReadChunk, Evict
<1>8. CASE Close \/ Crash
  BY Zenon, <1>8, CallGone DEF Close, Crash
<1>9. CASE UNCHANGED vars
  BY Zenon, <1>9 DEF vars, IsWrite, IsPending
<1>10. QED
  BY Zenon, <1>1, <1>2, <1>3, <1>4, <1>5, <1>6, <1>7, <1>8, <1>9 DEF Next

(***************************************************************************)
(* What the intent says about the WAL                                      *)
(***************************************************************************)

LEMMA CutInit == Init => CutInv
BY Zenon DEF Init, CutInv, Cut, NoIntent

LEMMA LogTypes ==
    ASSUME TypeInv
    PROVE  /\ wal \in Seq(Mutation)
           /\ Len(wal) \in Nat
           /\ intent \in Intents
           /\ intent.boundary \in Nat
           /\ op.muts \in Seq(Mutation)
           /\ Len(op.muts) \in Nat
           /\ DOMAIN op.muts = 1..Len(op.muts)
           /\ poisoned \in {"no", "repair", "undecided"}
BY DEF TypeInv, DirectoryOK, ProcessOK, Intents, Ops

LEMMA CutLeaves ==
    ASSUME TypeInv, intent.boundary <= Len(wal)
    PROVE  Len(SubSeq(wal, 1, intent.boundary)) = intent.boundary
BY LogTypes

(* Steps that leave the WAL and the intent alone, outside the labels that  *)
(* say more than Cut does.                                                 *)
LEMMA CutUntouched ==
    ASSUME CutInv, UNCHANGED <<wal, intent>>,
           pc' \notin {"append", "commit", "rollback", "post"},
           Cut => \/ pc' \in {"closed", "loadClock", "recoverIntent"}
                  \/ pc' \in {"reject", "idle"} /\ poisoned' # "no"
    PROVE  CutInv'
BY Zenon DEF CutInv, Cut

LEMMA CutOpenStep == TypeInv /\ CutInv /\ OpenStep => CutInv'
<1> SUFFICES ASSUME TypeInv, CutInv, OpenStep PROVE CutInv'
  OBVIOUS
<1> USE LogTypes DEF logs, OpenContinues, ProcessGone
<1>1. CASE beginWriterSnapshot
  <2>1. pc' \in {"closed", "loadClock"} /\ UNCHANGED <<wal, intent>>
    BY Zenon, <1>1 DEF beginWriterSnapshot
  <2>2. QED
    BY Zenon, <2>1, CutUntouched
<1>2. CASE loadVersionClock
  <2>1. pc' \in {"closed", "recoverIntent"} /\ UNCHANGED <<wal, intent>>
    BY Zenon, <1>2 DEF loadVersionClock
  <2>2. QED
    BY Zenon, <2>1, CutUntouched
<1>3. CASE recoverConditionalIntent
  <2>1. intent' = intent /\ pc' \in {"reserve", "clearRecovered", "closed"}
    BY Zenon, <1>3 DEF recoverConditionalIntent
  <2>2. CASE pc' = "closed"
    BY Zenon, <2>1, <2>2 DEF CutInv
  <2>3. CASE intent.state # "rollback"
    BY Zenon, <2>1, <2>3 DEF CutInv, Cut
  <2>4. CASE pc' # "closed" /\ intent.state = "rollback"
    <3>1. intent.boundary <= Len(wal) /\ wal' = SubSeq(wal, 1, intent.boundary)
      BY Zenon, <1>3, <2>4 DEF recoverConditionalIntent, Replaced
    <3>2. Len(wal') = intent.boundary
      BY Zenon, <3>1, CutLeaves
    <3>3. QED
      BY <2>1, <2>4, <3>2 DEF CutInv, Cut
  <2>5. QED
    BY Zenon, <2>2, <2>3, <2>4
<1>4. CASE clearRecoveredIntent
  <2>1. ~Cut
    BY Zenon, <1>4 DEF clearRecoveredIntent, CutInv
  <2>2. wal' = wal /\ intent' \in {intent, NoIntent} /\ pc' \in {"reserve", "closed"}
    BY Zenon, <1>4 DEF clearRecoveredIntent, Replaced
  <2>3. QED
    BY <2>1, <2>2 DEF CutInv, Cut, NoIntent
<1>5. CASE reserveRecoveryVersions
  <2>1. ~Cut
    BY Zenon, <1>5 DEF reserveRecoveryVersions, CutInv
  <2>2. UNCHANGED <<wal, intent>> /\ pc' \in {"recover", "closed"}
    BY Zenon, <1>5 DEF reserveRecoveryVersions
  <2>3. QED
    BY Zenon, <2>1, <2>2, CutUntouched
<1>6. CASE RecoverVersion \/ ReplayRecord
  <2>1. ~Cut
    BY Zenon, <1>6 DEF RecoverVersion, ReplayRecord, CutInv
  <2>2. UNCHANGED <<wal, intent>> /\ pc' \in {"recover", "closed"}
    BY Zenon, <1>6 DEF RecoverVersion, ReplayRecord
  <2>3. QED
    BY Zenon, <2>1, <2>2, CutUntouched
<1>7. CASE replaceWALAfterReplay
  <2>1. ~Cut
    BY Zenon, <1>7 DEF replaceWALAfterReplay, CutInv
  <2>2. wal' \in {wal, <<>>} /\ intent' = intent /\ pc' \in {"opened", "closed"}
    BY Zenon, <1>7 DEF replaceWALAfterReplay, Replaced
  <2>3. QED
    BY <2>1, <2>2 DEF CutInv, Cut
<1>8. CASE finishRecoveredSnapshot
  <2>1. ~Cut
    BY Zenon, <1>8 DEF finishRecoveredSnapshot, CutInv
  <2>2. UNCHANGED <<wal, intent>> /\ pc' \in {"idle", "closed"}
    BY Zenon, <1>8 DEF finishRecoveredSnapshot
  <2>3. QED
    BY Zenon, <2>1, <2>2, CutUntouched
<1>9. QED
  BY Zenon, <1>1, <1>2, <1>3, <1>4, <1>5, <1>6, <1>7, <1>8 DEF OpenStep

LEMMA CutRetryStep == TypeInv /\ CutInv /\ RetryStep => CutInv'
<1> SUFFICES ASSUME TypeInv, CutInv, RetryStep PROVE CutInv'
  OBVIOUS
<1>1. ~Cut
  BY Zenon DEF RetryStep, PublishVersion, PublishImage, RetryDone, persistCheckpointChunk, clearWAL, CutInv
<1>2. wal' \in {wal, <<>>} /\ intent' = intent
  BY Zenon DEF RetryStep, PublishVersion, PublishImage, RetryDone, persistCheckpointChunk, clearWAL, logs, Replaced
<1>3. pc' \in {"retry", "publish", "checkpoint", "fail", "begin", "finish", "sync"}
  BY ZenonT(60) DEF RetryStep, PublishVersion, PublishImage, RetryDone, persistCheckpointChunk, clearWAL,
     AfterRetry, TypeInv, ProcessOK
<1>4. QED
  BY <1>1, <1>2, <1>3, LogTypes DEF CutInv, Cut

LEMMA CutWriteStep == TypeInv /\ CallInv /\ CutInv /\ WriteStep => CutInv'
<1> SUFFICES ASSUME TypeInv, CallInv, CutInv, WriteStep PROVE CutInv'
  OBVIOUS
<1> USE LogTypes DEF logs, call
<1>1. CASE beginWriteSnapshot \/ RefuseBatch \/ ReserveVersions
  <2>1. UNCHANGED <<wal, intent>> /\ pc' \in {"validate", "fail", "reject", "intent"}
    BY Zenon, <1>1 DEF beginWriteSnapshot, RefuseBatch, ReserveVersions
  <2>2. ~Cut
    BY Zenon, <1>1 DEF beginWriteSnapshot, RefuseBatch, ReserveVersions, CutInv
  <2>3. QED
    BY Zenon, <2>1, <2>2, CutUntouched
<1>2. CASE PublishRollbackIntent
  <2>1. ~Cut /\ wal' = wal
    BY Zenon, <1>2 DEF PublishRollbackIntent, CutInv
  <2>2. \/ intent' = intent /\ pc' \in {"reject", "unpublish"}
        \/ intent' = [state |-> "rollback", boundary |-> Len(wal)] /\ pc' \in {"append", "unpublish"}
    BY Zenon, <1>2 DEF PublishRollbackIntent, Replaced
  <2>3. QED
    BY <2>1, <2>2 DEF CutInv, Cut
<1>3. CASE CleanFailedIntent
  <2>1. ~Cut /\ wal' = wal /\ pc' = "reject"
    BY Zenon, <1>3 DEF CleanFailedIntent, CutInv
  <2>2. intent' \in {intent, NoIntent}
    BY Zenon, <1>3 DEF CleanFailedIntent, Replaced
  <2>3. QED
    BY <2>1, <2>2 DEF CutInv, Cut, NoIntent
<1>4. CASE appendWAL
  <2>1. intent' = intent /\ op' = op /\ intent.state = "rollback" /\ intent.boundary = Len(wal)
    BY Zenon, <1>4 DEF appendWAL, CutInv
  <2>2. CASE pc' = "commit"
    <3>1. wal' = wal \o op.muts
      BY Zenon, <1>4, <2>2 DEF appendWAL
    <3>2. Len(wal') = Len(wal) + Len(op.muts)
      BY <3>1
    <3>3. \A i \in 1..Len(op.muts) : wal'[Len(wal) + i] = op.muts[i]
      BY <3>1
    <3>4. QED
      BY Zenon, <2>1, <2>2, <3>2, <3>3 DEF CutInv
  <2>3. CASE pc' # "commit"
    <3>1. pc' = "rollback" /\ \E t \in Seq(Mutation) : wal' = wal \o t
      <4>1. \A k \in 0..(Len(op.muts) - 1) : SubSeq(op.muts, 1, k) \in Seq(Mutation)
        OBVIOUS
      <4>2. QED
        BY Zenon, <1>4, <2>3, <4>1 DEF appendWAL
    <3>2. Len(wal) <= Len(wal')
      BY <3>1
    <3>3. QED
      BY Zenon, <2>1, <3>1, <3>2 DEF CutInv
  <2>4. QED
    BY Zenon, <2>2, <2>3
<1>5. CASE PublishCommittedIntent
  <2>1. intent.state = "rollback" /\ wal' = wal /\ intent.boundary <= Len(wal)
    BY <1>5 DEF PublishCommittedIntent, CutInv
  <2>2. \/ intent' = intent /\ pc' = "rollback"
        \/ intent' \in {intent, [intent EXCEPT !.state = "committed"]} /\ pc' = "reject" /\ poisoned' # "no"
        \/ intent' = [intent EXCEPT !.state = "committed"] /\ pc' = "post"
    BY Zenon, <1>5 DEF PublishCommittedIntent, Replaced, Poison, Outcomes
  <2>3. [intent EXCEPT !.state = "committed"].state = "committed"
    BY Zenon DEF Intents
  <2>4. QED
    BY Zenon, <2>1, <2>2, <2>3 DEF CutInv, Cut
<1>6. CASE AdmitCommitted
  <2>1. intent.state = "committed" /\ wal' = wal /\ pc' = "retry"
    BY Zenon, <1>6 DEF AdmitCommitted, CutInv
  <2>2. intent' \in {intent, NoIntent}
    BY Zenon, <1>6 DEF AdmitCommitted, Replaced
  <2>3. QED
    BY <2>1, <2>2 DEF CutInv, Cut, NoIntent
<1>7. CASE finishCommittedSnapshot
  <2>1. ~Cut /\ UNCHANGED <<wal, intent>> /\ pc' = "idle"
    BY Zenon, <1>7 DEF finishCommittedSnapshot, CutInv, Return
  <2>2. QED
    BY Zenon, <2>1, CutUntouched
<1>8. CASE rollbackWAL
  <2>1. intent' = intent /\ intent.state = "rollback" /\ intent.boundary <= Len(wal)
    BY Zenon, <1>8 DEF rollbackWAL, CutInv
  <2>2. \/ wal' = SubSeq(wal, 1, intent.boundary) /\ pc' = "clearRejected"
        \/ pc' = "reject" /\ poisoned' # "no"
    BY Zenon, <1>8 DEF rollbackWAL, Replaced, Poison
  <2>3. QED
    BY <2>1, <2>2, CutLeaves DEF CutInv, Cut
<1>9. CASE clearRejectedIntent
  <2>1. ~Cut /\ wal' = wal /\ pc' = "reject"
    BY Zenon, <1>9 DEF clearRejectedIntent, CutInv
  <2>2. intent' \in {intent, NoIntent}
    BY Zenon, <1>9 DEF clearRejectedIntent, Replaced
  <2>3. QED
    BY <2>1, <2>2 DEF CutInv, Cut, NoIntent
<1>10. CASE finishRejectedSnapshot
  <2>1. UNCHANGED <<wal, intent>> /\ pc = "reject" /\ pc' = "idle"
    BY Zenon, <1>10 DEF finishRejectedSnapshot, Return
  <2>2. poisoned # "no" => poisoned' # "no"
    BY Zenon, <1>10 DEF finishRejectedSnapshot
  <2>3. QED
    BY Zenon, <2>1, <2>2, CutUntouched DEF CutInv
<1>11. QED
  BY Zenon, <1>1, <1>2, <1>3, <1>4, <1>5, <1>6, <1>7, <1>8, <1>9, <1>10 DEF WriteStep

LEMMA CutNext == TypeInv /\ CallInv /\ CutInv /\ [Next]_vars => CutInv'
<1> SUFFICES ASSUME TypeInv, CallInv, CutInv, [Next]_vars PROVE CutInv'
  OBVIOUS
<1> USE DEF logs
<1>1. CASE OpenStep \/ RetryStep \/ WriteStep
  BY Zenon, <1>1, CutOpenStep, CutRetryStep, CutWriteStep
<1>2. CASE WriteChunk \/ ConditionalWriteChunks \/ FlushWAL
  <2>1. ~Cut /\ UNCHANGED <<wal, intent>> /\ pc' = "retry"
    BY Zenon, <1>2 DEF WriteChunk, ConditionalWriteChunks, FlushWAL, Call, CutInv
  <2>2. QED
    BY Zenon, <2>1, CutUntouched
<1>3. CASE ReturnError \/ FlushBarrier
  <2>1. ~Cut /\ UNCHANGED <<wal, intent>> /\ pc' \in {"idle", "fail"}
    BY Zenon, <1>3 DEF ReturnError, FlushBarrier, Return, CutInv
  <2>2. QED
    BY Zenon, <2>1, CutUntouched
<1>4. CASE ReadChunk \/ Evict
  BY Zenon, <1>4 DEF ReadChunk, Evict, CutInv, Cut
<1>5. CASE Close \/ Crash
  BY Zenon, <1>5, CutUntouched DEF Close, Crash, ProcessGone
<1>6. CASE UNCHANGED vars
  BY Zenon, <1>6 DEF vars, call, CutInv, Cut
<1>7. QED
  BY Zenon, <1>1, <1>2, <1>3, <1>4, <1>5, <1>6 DEF Next

(***************************************************************************)
(* Replaying the WAL into the images                                       *)
(***************************************************************************)

LEMMA ReplayNone ==
    ASSUME NEW w, NEW img
    PROVE  ReplayedUpTo(w, 0, img)
BY DEF ReplayedUpTo

LEMMA ReplayOne ==
    ASSUME NEW w \in Seq(Mutation), NEW n \in Nat, n < Len(w), NEW img \in [Coords -> Images],
           NEW x, Content(x) = Content(w[n + 1].state), ReplayedUpTo(w, n, img)
    PROVE  ReplayedUpTo(w, n + 1, [img EXCEPT ![w[n + 1].coord] = x])
<1> DEFINE jmg == [img EXCEPT ![w[n + 1].coord] = x]
<1>1. \A i \in 1..(n + 1) : w[i].coord \in Coords
  <2>1. \A i \in 1..(n + 1) : i \in 1..Len(w)
    OBVIOUS
  <2>2. \A i \in 1..Len(w) : w[i] \in Mutation
    OBVIOUS
  <2>3. QED
    BY Zenon, <2>1, <2>2 DEF Mutation
<1>2. SUFFICES ASSUME NEW i \in 1..(n + 1), \A j \in 1..(n + 1) : j > i => w[j].coord # w[i].coord
               PROVE  Content(jmg[w[i].coord]) = Content(w[i].state)
  BY Zenon DEF ReplayedUpTo
<1>3. CASE i = n + 1
  <2>1. jmg[w[i].coord] = x
    BY Zenon, <1>1, <1>3
  <2>2. QED
    BY Zenon, <1>3, <2>1
<1>4. CASE i # n + 1
  <2>1. i \in 1..n /\ n + 1 > i
    BY <1>4
  <2>2. w[n + 1].coord # w[i].coord
    BY <1>2, <2>1
  <2>3. jmg[w[i].coord] = img[w[i].coord]
    BY Zenon, <1>1, <2>2
  <2>4. \A j \in 1..n : j > i => w[j].coord # w[i].coord
    BY <1>2
  <2>5. QED
    BY Zenon, <2>1, <2>3, <2>4 DEF ReplayedUpTo
<1>5. QED
  BY Zenon, <1>3, <1>4

(* Once all records are replayed the images alone are recoverable. *)
LEMMA ReplayAll ==
    ASSUME NEW w, NEW n \in Nat, NEW img, NEW c, ReplayedUpTo(w, n, img)
    PROVE  RecoveredFrom(w, n, img, c) = Content(img[c])
<1>1. CASE \E i \in 1..n : w[i].coord = c
  <2>1. PICK i : IsLast(w, n, c, i)
    BY Zenon, <1>1, LastExists
  <2>2. i \in 1..n /\ w[i].coord = c
    BY Zenon, <2>1 DEF IsLast
  <2>3. \A j \in 1..n : j > i => w[j].coord # w[i].coord
    BY <2>1 DEF IsLast
  <2>4. Content(img[c]) = Content(w[i].state)
    BY Zenon, <2>2, <2>3 DEF ReplayedUpTo
  <2>5. QED
    BY Zenon, <2>1, <2>4, FromRecord
<1>2. CASE \A i \in 1..n : w[i].coord # c
  BY <1>2, FromImage
<1>3. QED
  BY Zenon, <1>1, <1>2

(***************************************************************************)
(* What is recoverable changes only at a commit decision                   *)
(***************************************************************************)

LEMMA KeptIs ==
    ASSUME TypeInv
    PROVE  /\ Kept \in Nat
           /\ Kept <= Len(wal)
           /\ ~Cut => Kept = Len(wal)
           /\ intent.state = "rollback" /\ intent.boundary <= Len(wal) => Kept = intent.boundary
BY LogTypes DEF Kept, Cut

LEMMA KeptNext ==
    ASSUME TypeInv'
    PROVE  /\ ~Cut' => Kept' = Len(wal')
           /\ intent'.state = "rollback" /\ intent'.boundary <= Len(wal') => Kept' = intent'.boundary
BY DEF Kept, Cut, TypeInv, DirectoryOK, Intents

LEMMA RecoversImage ==
    ASSUME NEW c, \A i \in 1..Kept : wal[i].coord # c
    PROVE  Recoverable(c) = Content(image[c])
BY Zenon DEF Recoverable

(* A chunk recovers to the same content when the records kept are the same *)
(* and there is one of the chunk or its image has the same content.        *)
LEMMA RecoversSame ==
    ASSUME NEW c, Kept \in Nat, Kept' = Kept, \A i \in 1..Kept : wal[i] = wal'[i],
           (\A i \in 1..Kept : wal[i].coord # c) => Content(image[c]) = Content(image'[c])
    PROVE  Recoverable(c)' = Recoverable(c)
<1>1. Recoverable(c)' = RecoveredFrom(wal', Kept, image', c)
  BY DEF Recoverable, RecoveredFrom
<1>2. CASE \E i \in 1..Kept : wal[i].coord = c
  <2>1. PICK i : IsLast(wal, Kept, c, i)
    BY Zenon, <1>2, LastExists
  <2>2. IsLast(wal', Kept, c, i) /\ wal[i] = wal'[i]
    BY Zenon, <2>1 DEF IsLast
  <2>3. RecoveredFrom(wal, Kept, image, c) = Content(wal[i].state)
    BY <2>1, FromRecord
  <2>4. RecoveredFrom(wal', Kept, image', c) = Content(wal'[i].state)
    BY <2>2, FromRecord
  <2>5. QED
    BY Zenon, <1>1, <2>2, <2>3, <2>4, RecoverableReads
<1>3. CASE \A i \in 1..Kept : wal[i].coord # c
  <2>1. \A i \in 1..Kept : wal'[i].coord # c
    BY Zenon, <1>3
  <2>2. RecoveredFrom(wal, Kept, image, c) = Content(image[c])
    BY <1>3, FromImage
  <2>3. RecoveredFrom(wal', Kept, image', c) = Content(image'[c])
    BY <2>1, FromImage
  <2>4. QED
    BY Zenon, <1>1, <1>3, <2>2, <2>3, RecoverableReads
<1>4. QED
  BY Zenon, <1>2, <1>3

LEMMA RecoversUntouched ==
    ASSUME NEW c, UNCHANGED <<wal, intent, image>>
    PROVE  Recoverable(c)' = Recoverable(c)
BY DEF Recoverable, Kept

(* An intent that discards nothing comes or goes. *)
LEMMA RecoversUncut ==
    ASSUME TypeInv, TypeInv', NEW c, ~Cut, ~Cut', UNCHANGED <<wal, image>>
    PROVE  Recoverable(c)' = Recoverable(c)
<1>1. Kept \in Nat /\ Kept' = Kept
  BY Zenon, KeptIs, KeptNext
<1>2. QED
  BY Zenon, <1>1, RecoversSame

(* The WAL grows or shrinks behind the boundary of a rollback intent. *)
LEMMA RecoversPrefix ==
    ASSUME TypeInv, TypeInv', NEW c, UNCHANGED <<intent, image>>, intent.state = "rollback",
           intent.boundary <= Len(wal), intent.boundary <= Len(wal'),
           \A i \in 1..intent.boundary : wal[i] = wal'[i]
    PROVE  Recoverable(c)' = Recoverable(c)
<1>1. Kept \in Nat /\ Kept = intent.boundary /\ Kept' = Kept
  BY Zenon, KeptIs, KeptNext
<1>2. QED
  BY Zenon, <1>1, RecoversSame

(* An image is rewritten that the WAL has a record of. *)
LEMMA RecoversRewritten ==
    ASSUME TypeInv, TypeInv', NEW c \in Coords, UNCHANGED <<wal, intent>>, ~Cut,
           NEW n \in 1..Len(wal), NEW x, image' = [image EXCEPT ![wal[n].coord] = x]
    PROVE  Recoverable(c)' = Recoverable(c)
<1>1. Kept \in Nat /\ Kept = Len(wal) /\ Kept' = Kept
  BY Zenon, KeptIs DEF Kept
<1>2. image \in [Coords -> Images]
  BY Zenon DEF TypeInv, DirectoryOK
<1>3. (\A i \in 1..Kept : wal[i].coord # c) => Content(image[c]) = Content(image'[c])
  BY Zenon, <1>1, <1>2
<1>4. QED
  BY Zenon, <1>1, <1>3, RecoversSame

(* A WAL that has been replayed is replaced by an empty one. *)
LEMMA RecoversReplayed ==
    ASSUME TypeInv, TypeInv', NEW c, ~Cut, UNCHANGED image, wal' = <<>>,
           ReplayedUpTo(wal, Len(wal), image)
    PROVE  Recoverable(c)' = Recoverable(c)
<1>1. Kept \in Nat /\ Kept = Len(wal)
  BY Zenon, KeptIs
<1>2. Recoverable(c) = Content(image[c])
  BY <1>1, ReplayAll, RecoverableReads
<1>3. Kept' = 0
  BY DEF Kept, TypeInv, DirectoryOK, Intents
<1>4. Recoverable(c)' = RecoveredFrom(wal', 0, image', c)
  BY <1>3 DEF Recoverable, RecoveredFrom
<1>5. RecoveredFrom(wal', 0, image', c) = Content(image'[c])
  <2>1. {i \in 1..0 : wal'[i].coord = c} = {}
    OBVIOUS
  <2>2. QED
    BY Zenon, <2>1 DEF RecoveredFrom
<1>6. QED
  BY Zenon, <1>2, <1>4, <1>5

LEMMA CutPrefix ==
    ASSUME TypeInv, intent.boundary <= Len(wal)
    PROVE  \A i \in 1..intent.boundary : wal[i] = SubSeq(wal, 1, intent.boundary)[i]
BY LogTypes

LEMMA RecoverableOpenStep ==
    ASSUME TypeInv, TypeInv', RecoveryInv, CutInv', OpenStep, NEW c \in Coords
    PROVE  Recoverable(c)' = Recoverable(c)
<1> USE LogTypes DEF RecoveryInv, logs, files
<1>1. CASE beginWriterSnapshot \/ loadVersionClock \/ reserveRecoveryVersions \/ RecoverVersion
           \/ finishRecoveredSnapshot
  BY Zenon, <1>1, RecoversUntouched DEF beginWriterSnapshot, loadVersionClock, reserveRecoveryVersions,
     RecoverVersion, finishRecoveredSnapshot
<1>2. CASE recoverConditionalIntent
  <2>1. CASE wal' = wal
    BY Zenon, <1>2, <2>1, RecoversUntouched DEF recoverConditionalIntent
  <2>2. CASE wal' # wal
    <3>1. /\ intent.state = "rollback"
          /\ intent.boundary <= Len(wal)
          /\ wal' = SubSeq(wal, 1, intent.boundary)
          /\ UNCHANGED <<intent, image>>
      BY Zenon, <1>2, <2>2 DEF recoverConditionalIntent, Replaced
    <3>2. Len(wal') = intent.boundary /\ \A i \in 1..intent.boundary : wal[i] = wal'[i]
      <4>1. Len(wal') = intent.boundary
        BY Zenon, <3>1, CutLeaves
      <4>2. \A i \in 1..intent.boundary : wal[i] = wal'[i]
        BY Zenon, <3>1, CutPrefix
      <4>3. QED
        BY Zenon, <4>1, <4>2
    <3>3. intent.boundary <= Len(wal')
      BY <3>2
    <3>4. QED
      BY Zenon, <3>1, <3>2, <3>3, RecoversPrefix
  <2>3. QED
    BY Zenon, <2>1, <2>2
<1>3. CASE clearRecoveredIntent
  <2>1. ~Cut /\ UNCHANGED <<wal, image>>
    BY Zenon, <1>3 DEF clearRecoveredIntent, CutInv
  <2>2. intent' \in {intent, NoIntent}
    BY Zenon, <1>3 DEF clearRecoveredIntent, Replaced
  <2>3. ~Cut'
    BY <2>1, <2>2 DEF Cut, NoIntent
  <2>4. QED
    BY Zenon, <2>1, <2>3, RecoversUncut
<1>4. CASE ReplayRecord
  <2>0. cursor \in Nat /\ cursor < Len(wal)
    BY Zenon, <1>4 DEF ReplayRecord, TypeInv, ProcessOK
  <2>1. ~Cut /\ UNCHANGED <<wal, intent>> /\ cursor + 1 \in 1..Len(wal)
    BY <1>4, <2>0 DEF ReplayRecord, CutInv
  <2>2. \E x : image' = [image EXCEPT ![wal[cursor + 1].coord] = x]
    BY Zenon, <1>4 DEF ReplayRecord
  <2>3. QED
    BY ZenonT(40), <2>1, <2>2, RecoversRewritten
<1>5. CASE replaceWALAfterReplay
  <2>1. ~Cut /\ UNCHANGED <<intent, image>> /\ wal' \in {wal, <<>>}
    BY Zenon, <1>5 DEF replaceWALAfterReplay, CutInv, Replaced
  <2>2. ReplayedUpTo(wal, Len(wal), image)
    BY Zenon, <1>5 DEF replaceWALAfterReplay, ReplayIsDone
  <2>3. QED
    BY Zenon, <2>1, <2>2, RecoversReplayed, RecoversUntouched
<1>6. QED
  BY Zenon, <1>1, <1>2, <1>3, <1>4, <1>5 DEF OpenStep

LEMMA RecoverableRetryStep ==
    ASSUME TypeInv, TypeInv', RecoveryInv, RetryStep, NEW c \in Coords
    PROVE  Recoverable(c)' = Recoverable(c)
<1> USE LogTypes DEF RecoveryInv, logs, files
<1>a. ~Cut
  BY ZenonT(40) DEF RetryStep, PublishVersion, PublishImage, RetryDone, persistCheckpointChunk, clearWAL, CutInv
<1>b. cursor \in Nat /\ image \in [Coords -> Images]
  BY Zenon DEF TypeInv, DirectoryOK, ProcessOK
<1>1. CASE PublishVersion \/ RetryDone
  BY Zenon, <1>1, RecoversUntouched DEF PublishVersion, RetryDone
<1>2. CASE PublishImage
  <2>1. UNCHANGED <<wal, intent>> /\ Kept' = Kept /\ Kept \in Nat
    BY Zenon, <1>2, KeptIs DEF PublishImage, Kept
  <2>2. c = cursor => Content(pending[c].state) = Recoverable(c)
    BY Zenon, <1>2 DEF PublishImage, PendingIsRecoverable, Fresh, CallInv, TypeInv, Control
  <2>3. image'[c] = image[c] \/ (c = cursor /\ image'[c] = pending[c].state)
    BY Zenon, <1>2, <1>b DEF PublishImage, Replaced
  <2>4. ASSUME \A i \in 1..Kept : wal[i].coord # c PROVE Content(image[c]) = Content(image'[c])
    <3>1. Recoverable(c) = Content(image[c])
      BY Zenon, <2>4, RecoversImage
    <3>2. QED
      BY Zenon, <2>2, <2>3, <3>1
  <2>5. QED
    BY Zenon, <2>1, <2>4, RecoversSame
<1>3. CASE persistCheckpointChunk
  <2>1. UNCHANGED <<wal, intent>> /\ cursor + 1 \in 1..Len(wal)
    <3>1. UNCHANGED <<wal, intent>> /\ cursor < Len(wal)
      BY Zenon, <1>3 DEF persistCheckpointChunk
    <3>2. QED
      BY <1>b, <3>1
  <2>2. \E x : image' = [image EXCEPT ![wal[cursor + 1].coord] = x]
    BY Zenon, <1>3 DEF persistCheckpointChunk
  <2>3. QED
    BY Zenon, <1>a, <2>1, <2>2, RecoversRewritten
<1>4. CASE clearWAL
  <2>1. UNCHANGED <<intent, image>> /\ wal' \in {wal, <<>>}
    BY Zenon, <1>4 DEF clearWAL, Replaced
  <2>2. ReplayedUpTo(wal, Len(wal), image)
    BY Zenon, <1>4 DEF clearWAL, ReplayIsDone
  <2>3. QED
    BY Zenon, <1>a, <2>1, <2>2, RecoversReplayed, RecoversUntouched
<1>5. QED
  BY Zenon, <1>1, <1>2, <1>3, <1>4 DEF RetryStep

LEMMA RecoverableWriteStep ==
    ASSUME TypeInv, TypeInv', RecoveryInv, CutInv', WriteStep, ~PublishCommittedIntent, NEW c \in Coords
    PROVE  Recoverable(c)' = Recoverable(c)
<1> USE LogTypes DEF RecoveryInv, logs, files
<1>1. CASE beginWriteSnapshot \/ RefuseBatch \/ ReserveVersions \/ finishCommittedSnapshot
           \/ finishRejectedSnapshot
  BY Zenon, <1>1, RecoversUntouched DEF beginWriteSnapshot, RefuseBatch, ReserveVersions, finishCommittedSnapshot,
     finishRejectedSnapshot
<1>2. CASE PublishRollbackIntent
  <2>1. ~Cut /\ UNCHANGED <<wal, image>>
    BY Zenon, <1>2 DEF PublishRollbackIntent, CutInv
  <2>2. intent' = intent \/ intent' = [state |-> "rollback", boundary |-> Len(wal)]
    BY Zenon, <1>2 DEF PublishRollbackIntent, Replaced
  <2>3. ~Cut'
    BY <2>1, <2>2 DEF Cut
  <2>4. QED
    BY Zenon, <2>1, <2>3, RecoversUncut
<1>3. CASE CleanFailedIntent \/ AdmitCommitted \/ clearRejectedIntent
  <2>1. ~Cut /\ UNCHANGED <<wal, image>>
    BY Zenon, <1>3 DEF CleanFailedIntent, AdmitCommitted, clearRejectedIntent, CutInv, Cut
  <2>2. intent' \in {intent, NoIntent}
    BY Zenon, <1>3 DEF CleanFailedIntent, AdmitCommitted, clearRejectedIntent, Replaced
  <2>3. ~Cut'
    BY <2>1, <2>2 DEF Cut, NoIntent
  <2>4. QED
    BY Zenon, <2>1, <2>3, RecoversUncut
<1>4. CASE appendWAL
  <2>1. UNCHANGED <<intent, image>> /\ intent.state = "rollback" /\ intent.boundary = Len(wal)
    BY Zenon, <1>4 DEF appendWAL, CutInv
  <2>2. \E t \in Seq(Mutation) : wal' = wal \o t
    <3>1. \A k \in 0..(Len(op.muts) - 1) : SubSeq(op.muts, 1, k) \in Seq(Mutation)
      OBVIOUS
    <3>2. QED
      BY Zenon, <1>4, <3>1 DEF appendWAL
  <2>3. Len(wal) <= Len(wal') /\ \A i \in 1..Len(wal) : wal[i] = wal'[i]
    BY <2>2
  <2>4. intent.boundary <= Len(wal) /\ intent.boundary <= Len(wal')
    BY <2>1, <2>3
  <2>5. QED
    BY Zenon, <2>1, <2>3, <2>4, RecoversPrefix
<1>5. CASE rollbackWAL
  <2>1. UNCHANGED <<intent, image>> /\ intent.state = "rollback" /\ intent.boundary <= Len(wal)
    BY Zenon, <1>5 DEF rollbackWAL, CutInv
  <2>2. wal' = wal \/ wal' = SubSeq(wal, 1, intent.boundary)
    BY Zenon, <1>5 DEF rollbackWAL, Replaced
  <2>3. intent.boundary <= Len(wal')
    BY <2>1, <2>2, CutLeaves
  <2>4. \A i \in 1..intent.boundary : wal[i] = wal'[i]
    BY Zenon, <2>1, <2>2, CutPrefix
  <2>5. QED
    BY Zenon, <2>1, <2>3, <2>4, RecoversPrefix
<1>6. QED
  BY Zenon, <1>1, <1>2, <1>3, <1>4, <1>5 DEF WriteStep

(* The commit decision: every chunk of the batch recovers to its mutation, *)
(* every other chunk to what it recovered to before.                       *)
LEMMA RecoverableCommit ==
    ASSUME TypeInv, TypeInv', RecoveryInv, PublishCommittedIntent, intent'.state # "rollback",
           NEW c \in Coords
    PROVE  Recoverable(c)' = IF c \in Mutated THEN Content(op.muts[IndexOf(c)].state) ELSE Recoverable(c)
<1> DEFINE b == intent.boundary
           n == Len(wal)
<1> USE LogTypes
<1>1. /\ intent.state = "rollback"
      /\ n = b + Len(op.muts)
      /\ \A i \in DOMAIN op.muts : wal[b + i] = op.muts[i]
      /\ NotTwice(op.muts)
      /\ UNCHANGED <<wal, image>>
  BY Zenon DEF PublishCommittedIntent, RecoveryInv, CutInv, CallInv, Reserved, files
<1>2. Kept = b /\ Kept' = n
  <2>1. b <= n /\ ~Cut'
    BY <1>1 DEF Cut
  <2>2. QED
    BY Zenon, <1>1, <2>1, KeptIs, KeptNext
<1>3. Recoverable(c)' = RecoveredFrom(wal, n, image, c)
  BY <1>1, <1>2 DEF Recoverable, RecoveredFrom
<1>4. Recoverable(c) = RecoveredFrom(wal, b, image, c)
  BY Zenon, <1>2, RecoverableReads
<1>5. b \in Nat /\ n \in Nat /\ \A j \in 1..n : j \in 1..b \/ \E m \in DOMAIN op.muts : j = b + m
  <2>1. ASSUME NEW j \in 1..n, j \notin 1..b PROVE j - b \in 1..Len(op.muts) /\ j = b + (j - b)
    BY <1>1, <2>1
  <2>2. QED
    BY Zenon, <2>1
<1> HIDE DEF b, n
<1>6. CASE c \in Mutated
  <2>1. IndexOf(c) \in DOMAIN op.muts /\ op.muts[IndexOf(c)].coord = c
    BY Zenon, <1>6 DEF Mutated, IndexOf
  <2>2. PICK i \in 1..Len(op.muts) : i = IndexOf(c)
    BY Zenon, <2>1
  <2>3. b + i \in 1..n /\ wal[b + i] = op.muts[i] /\ op.muts[i].coord = c
    <3>1. b + i \in 1..n
      BY <1>1, <1>5
    <3>2. wal[b + i] = op.muts[i] /\ op.muts[i].coord = c
      BY Zenon, <1>1, <2>1, <2>2
    <3>3. QED
      BY Zenon, <3>1, <3>2
  <2>4. ASSUME NEW j \in 1..n, wal[j].coord = c PROVE j <= b + i
    <3>1. CASE j \in 1..b
      BY <1>5, <3>1
    <3>2. CASE \E m \in DOMAIN op.muts : j = b + m
      <4>1. PICK m \in DOMAIN op.muts : j = b + m
        BY Zenon, <3>2
      <4>2. op.muts[m].coord = c
        BY Zenon, <1>1, <2>4, <4>1
      <4>3. m = i
        BY Zenon, <1>1, <2>1, <2>2, <4>2 DEF NotTwice
      <4>4. QED
        BY <1>5, <4>1, <4>3
    <3>3. QED
      BY Zenon, <1>5, <3>1, <3>2
  <2>5. IsLast(wal, n, c, b + i)
    BY Zenon, <2>3, <2>4 DEF IsLast
  <2>6. RecoveredFrom(wal, n, image, c) = Content(wal[b + i].state)
    BY <1>5, <2>5, FromRecord
  <2>7. QED
    BY Zenon, <1>3, <1>6, <2>2, <2>3, <2>6
<1>7. CASE c \notin Mutated
  <2>1. \A m \in DOMAIN op.muts : wal[b + m].coord # c
    BY Zenon, <1>1, <1>7 DEF Mutated
  <2>2. \A j \in 1..n : wal[j].coord = c => j \in 1..b
    BY Zenon, <1>5, <2>1
  <2>3. CASE \E i \in 1..b : wal[i].coord = c
    <3>1. PICK i : IsLast(wal, b, c, i)
      BY Zenon, <1>5, <2>3, LastExists
    <3>2. i \in 1..n
      BY <1>1, <1>5, <3>1 DEF IsLast
    <3>3. IsLast(wal, n, c, i)
      BY Zenon, <2>2, <3>1, <3>2 DEF IsLast
    <3>4. /\ RecoveredFrom(wal, n, image, c) = Content(wal[i].state)
          /\ RecoveredFrom(wal, b, image, c) = Content(wal[i].state)
      BY <1>5, <3>1, <3>3, FromRecord
    <3>5. QED
      BY Zenon, <1>3, <1>4, <1>7, <3>4
  <2>4. CASE \A i \in 1..b : wal[i].coord # c
    <3>1. \A i \in 1..n : wal[i].coord # c
      BY Zenon, <2>2, <2>4
    <3>2. RecoveredFrom(wal, n, image, c) = Content(image[c])
      BY Zenon, <3>1 DEF RecoveredFrom
    <3>3. RecoveredFrom(wal, b, image, c) = Content(image[c])
      BY Zenon, <2>4 DEF RecoveredFrom
    <3>4. QED
      BY Zenon, <1>3, <1>4, <1>7, <3>2, <3>3
  <2>5. QED
    BY Zenon, <2>3, <2>4
<1>8. QED
  BY Zenon, <1>6, <1>7

(* Every other step leaves what is recoverable alone. *)
LEMMA RecoverableNext ==
    ASSUME TypeInv, TypeInv', RecoveryInv, CutInv', [Next]_vars, NEW c \in Coords,
           ~PublishCommittedIntent \/ intent' = intent
    PROVE  Recoverable(c)' = Recoverable(c)
<1> USE DEF logs, files
<1>1. CASE PublishCommittedIntent /\ intent' = intent
  BY Zenon, <1>1, RecoversUntouched DEF PublishCommittedIntent
<1>2. CASE ~PublishCommittedIntent /\ (OpenStep \/ RetryStep \/ WriteStep)
  BY Zenon, <1>2, RecoverableOpenStep, RecoverableRetryStep, RecoverableWriteStep
<1>3. CASE WriteChunk \/ ConditionalWriteChunks \/ FlushWAL
  BY Zenon, <1>3, RecoversUntouched DEF WriteChunk, ConditionalWriteChunks, FlushWAL, Call
<1>4. CASE ReturnError \/ FlushBarrier \/ ReadChunk \/ Evict \/ Close \/ Crash
  BY Zenon, <1>4, RecoversUntouched DEF ReturnError, FlushBarrier, ReadChunk, Evict, Close, Crash
<1>5. CASE UNCHANGED vars
  BY Zenon, <1>5, RecoversUntouched DEF vars
<1>6. QED
  BY Zenon, <1>1, <1>2, <1>3, <1>4, <1>5 DEF Next

(***************************************************************************)
(* The recovery invariant is inductive                                     *)
(***************************************************************************)

LEMMA ReplayNext ==
    ASSUME TypeInv, TypeInv', CallInv, ReplayIsDone, [Next]_vars
    PROVE  ReplayIsDone'
<1> USE LogTypes
<1>a. cursor \in Nat /\ image \in [Coords -> Images]
  BY Zenon DEF TypeInv, DirectoryOK, ProcessOK
<1>1. CASE pc' \in {"checkpoint", "recover"} /\ cursor' = 0
  <2>1. Len(wal') >= 0
    <3>1. wal' \in Seq(Mutation)
      BY Zenon DEF TypeInv, DirectoryOK
    <3>2. QED
      BY <3>1
  <2>2. QED
    BY Zenon, <1>1, <2>1, ReplayNone DEF ReplayIsDone
<1>2. CASE UNCHANGED <<wal, image, cursor>> /\ pc \in {"checkpoint", "recover"}
  BY Zenon, <1>2 DEF ReplayIsDone
<1>3. CASE pc' \notin {"checkpoint", "recover"}
  BY Zenon, <1>3 DEF ReplayIsDone
<1>4. CASE ReplayRecord /\ pc' = "recover"
  <2>1. /\ cursor' = cursor + 1 /\ wal' = wal /\ cursor < Len(wal)
        /\ image' = [image EXCEPT ![wal[cursor + 1].coord] = wal[cursor + 1].state]
    BY Zenon, <1>4 DEF ReplayRecord, Replaced, ProcessGone, logs
  <2>2. ReplayedUpTo(wal, cursor, image)
    BY Zenon, <1>4 DEF ReplayRecord, ReplayIsDone
  <2>3. ReplayedUpTo(wal, cursor + 1, image')
    BY ZenonT(40), <1>a, <2>1, <2>2, ReplayOne
  <2>4. QED
    BY <1>a, <2>1, <2>3 DEF ReplayIsDone
<1>5. CASE persistCheckpointChunk /\ pc' = "checkpoint" /\ cursor' # 0
  <2>1. PICK x :
           /\ cursor' = cursor + 1 /\ wal' = wal /\ cursor < Len(wal)
           /\ image' = [image EXCEPT ![wal[cursor + 1].coord] = x]
           /\ x = IF wal[cursor + 1].state = Empty THEN Absent ELSE wal[cursor + 1].state
    BY ZenonT(40), <1>5 DEF persistCheckpointChunk, Replaced, logs
  <2>2. ReplayedUpTo(wal, cursor, image)
    BY ZenonT(40), <1>5 DEF persistCheckpointChunk, ReplayIsDone
  <2>3. Content(x) = Content(wal[cursor + 1].state)
    BY Zenon, <2>1 DEF Content
  <2>4. ReplayedUpTo(wal, cursor + 1, image')
    BY Zenon, <1>a, <2>1, <2>2, <2>3, ReplayOne
  <2>5. QED
    BY <1>a, <2>1, <2>4 DEF ReplayIsDone
<1>6. CASE RetryDone
  <2>1. cursor' = 0
    BY Zenon, <1>6 DEF RetryDone, CallInv, marks
  <2>2. QED
    BY Zenon, <1>1, <1>3, <2>1
<1> USE DEF logs, files, marks, call
<1>7. CASE RetryStep
  <2>1. CASE PublishVersion \/ PublishImage
    BY ZenonT(40), <1>3, <2>1 DEF PublishVersion, PublishImage, AfterRetry, TypeInv, ProcessOK
  <2>2. CASE clearWAL
    BY Zenon, <1>3, <2>2 DEF clearWAL, AfterRetry, TypeInv, ProcessOK
  <2>3. CASE persistCheckpointChunk
    <3>1. pc' = "checkpoint" \/ pc' \in {"fail", "begin", "finish", "sync"}
      BY Zenon, <2>3 DEF persistCheckpointChunk, AfterRetry, TypeInv, ProcessOK
    <3>2. QED
      BY <1>1, <1>3, <1>5, <2>3, <3>1
  <2>4. QED
    BY Zenon, <1>6, <1>7, <2>1, <2>2, <2>3 DEF RetryStep
<1>8. CASE OpenStep
  <2> USE DEF OpenContinues, ProcessGone
  <2>1. CASE beginWriterSnapshot \/ loadVersionClock \/ recoverConditionalIntent \/ clearRecoveredIntent
             \/ replaceWALAfterReplay \/ finishRecoveredSnapshot
    BY Zenon, <1>3, <2>1 DEF beginWriterSnapshot, loadVersionClock, recoverConditionalIntent, clearRecoveredIntent,
       replaceWALAfterReplay, finishRecoveredSnapshot
  <2>2. CASE reserveRecoveryVersions
    BY Zenon, <1>1, <1>3, <2>2 DEF reserveRecoveryVersions
  <2>3. CASE RecoverVersion
    BY Zenon, <1>2, <1>3, <2>3 DEF RecoverVersion
  <2>4. CASE ReplayRecord
    BY Zenon, <1>3, <1>4, <2>4 DEF ReplayRecord
  <2>5. QED
    BY Zenon, <1>8, <2>1, <2>2, <2>3, <2>4 DEF OpenStep
<1>9. CASE WriteStep
  BY Zenon, <1>3, <1>9 DEF WriteStep, beginWriteSnapshot, RefuseBatch, ReserveVersions, PublishRollbackIntent,
     CleanFailedIntent, appendWAL, PublishCommittedIntent, AdmitCommitted, finishCommittedSnapshot, rollbackWAL,
     clearRejectedIntent, finishRejectedSnapshot, Return
<1>10. CASE WriteChunk \/ ConditionalWriteChunks \/ FlushWAL \/ ReturnError \/ FlushBarrier
  BY Zenon, <1>3, <1>10 DEF WriteChunk, ConditionalWriteChunks, FlushWAL, Call, ReturnError, FlushBarrier, Return
<1>11. CASE ReadChunk \/ Evict \/ Close \/ Crash
  BY ZenonT(40), <1>3, <1>11 DEF ReadChunk, Evict, Close, Crash, ProcessGone
<1>12. CASE UNCHANGED vars
  BY Zenon, <1>2, <1>3, <1>12 DEF vars
<1>13. QED
  BY ZenonT(40), <1>7, <1>8, <1>9, <1>10, <1>11, <1>12 DEF Next

LEMMA PendingGone ==
    ASSUME pending' = [c \in Coords |-> NotPending]
    PROVE  PendingIsRecoverable'
BY Zenon DEF PendingIsRecoverable, IsPending, NotPending

LEMMA PendingHeld ==
    ASSUME PendingIsRecoverable, pc # "post", poisoned = "undecided" => poisoned' = "undecided",
           \A c \in Coords : pending'[c] \in {pending[c], NotPending},
           \A c \in Coords : Recoverable(c)' = Recoverable(c)
    PROVE  PendingIsRecoverable'
<1> SUFFICES ASSUME NEW c \in Coords, IsPending(c)', Fresh(c)'
             PROVE  Content(pending'[c].state) = Recoverable(c)
  BY Zenon DEF PendingIsRecoverable
<1>1. pending'[c] = pending[c] /\ IsPending(c)
  <2>1. NotPending.version = 0
    BY Zenon DEF NotPending
  <2>2. pending'[c] # NotPending
    BY Zenon, <2>1 DEF IsPending
  <2>3. QED
    BY Zenon, <2>2 DEF IsPending
<1>2. Fresh(c)
  BY Zenon DEF Fresh
<1>3. QED
  BY ZenonT(40), <1>1, <1>2 DEF PendingIsRecoverable

LEMMA PendingNext ==
    ASSUME TypeInv, TypeInv', RecoveryInv, CutInv', [Next]_vars
    PROVE  PendingIsRecoverable'
<1> USE DEF RecoveryInv
<1>a. ~PublishCommittedIntent \/ intent' = intent => \A c \in Coords : Recoverable(c)' = Recoverable(c)
  BY Zenon, RecoverableNext
<1>b. pending \in [Coords -> Publications]
  BY Zenon DEF TypeInv, ProcessOK
<1>1. CASE OpenStep
  <2>1. pending = [c \in Coords |-> NotPending]
    BY Zenon, <1>1 DEF CallInv, Opening, OpenStep, beginWriterSnapshot, loadVersionClock, recoverConditionalIntent,
       clearRecoveredIntent, reserveRecoveryVersions, RecoverVersion, ReplayRecord, replaceWALAfterReplay,
       finishRecoveredSnapshot
  <2>2. pending' \in {pending, [c \in Coords |-> NotPending]}
    BY ZenonT(40), <1>1 DEF OpenStep, beginWriterSnapshot, loadVersionClock, recoverConditionalIntent,
       clearRecoveredIntent, reserveRecoveryVersions, RecoverVersion, ReplayRecord, replaceWALAfterReplay,
       finishRecoveredSnapshot, OpenContinues, ProcessGone, held
  <2>3. QED
    BY Zenon, <2>1, <2>2, PendingGone
<1>2. CASE RetryStep
  <2>1. pc # "post" /\ UNCHANGED poisoned /\ ~PublishCommittedIntent
    BY Zenon, <1>2 DEF RetryStep, PublishVersion, PublishImage, RetryDone, persistCheckpointChunk, clearWAL,
       PublishCommittedIntent
  <2>2. pending' = pending \/ pending' = [pending EXCEPT ![cursor] = NotPending]
    BY Zenon, <1>2 DEF RetryStep, PublishVersion, PublishImage, RetryDone, persistCheckpointChunk, clearWAL, held
  <2>3. \A c \in Coords : pending'[c] \in {pending[c], NotPending}
    BY Zenon, <1>b, <2>2
  <2>4. QED
    BY Zenon, <1>a, <2>1, <2>3, PendingHeld
<1>3. CASE PublishCommittedIntent
  <2>1. UNCHANGED <<pending, op>> /\ pc = "commit" /\ poisoned = "no"
    BY Zenon, <1>3 DEF PublishCommittedIntent, held, call, CallInv, Retrying
  <2>2. CASE poisoned' = "undecided"
    BY Zenon, <2>2 DEF PendingIsRecoverable, Fresh
  <2>3. CASE pc' = "rollback"
    <3>1. intent' = intent /\ poisoned' = poisoned
      BY Zenon, <1>3, <2>3 DEF PublishCommittedIntent, Replaced
    <3>2. QED
      BY Zenon, <1>a, <2>1, <3>1, PendingHeld
  <2>4. CASE pc' = "post" /\ poisoned' = poisoned
    <3>1. intent'.state # "rollback"
      BY Zenon, <2>4 DEF CutInv
    <3>2. \A c \in Coords : c \notin Mutated => Recoverable(c)' = Recoverable(c)
      BY Zenon, <1>3, <3>1, RecoverableCommit
    <3>3. Mutated' = Mutated
      BY Zenon, <2>1 DEF Mutated
    <3>4. SUFFICES ASSUME NEW c \in Coords, IsPending(c)', Fresh(c)'
                   PROVE  Content(pending'[c].state) = Recoverable(c)'
      BY Zenon DEF PendingIsRecoverable
    <3>5. c \notin Mutated /\ IsPending(c) /\ Fresh(c)
      BY Zenon, <2>1, <2>4, <3>3, <3>4 DEF Fresh, IsPending
    <3>6. QED
      BY Zenon, <2>1, <3>2, <3>5 DEF PendingIsRecoverable
  <2>5. QED
    BY Zenon, <1>3, <2>1, <2>2, <2>3, <2>4 DEF PublishCommittedIntent, Poison
<1>4. CASE AdmitCommitted
  <2>1. /\ pc = "post" /\ poisoned = "no" /\ ~PublishCommittedIntent
        /\ pending' = [c \in Coords |-> IF c \in Mutated THEN Publication(c) ELSE pending[c]]
    BY Zenon, <1>4 DEF AdmitCommitted, CallInv, Retrying, PublishCommittedIntent
  <2>2. SUFFICES ASSUME NEW c \in Coords, IsPending(c)'
                 PROVE  Content(pending'[c].state) = Recoverable(c)
    BY Zenon, <1>a, <2>1 DEF PendingIsRecoverable
  <2>3. CASE c \in Mutated
    BY Zenon, <2>1, <2>3 DEF Publication, DecidedIsRecoverable
  <2>4. CASE c \notin Mutated
    BY Zenon, <2>1, <2>2, <2>4 DEF PendingIsRecoverable, Fresh, IsPending
  <2>5. QED
    BY Zenon, <2>3, <2>4
<1>5. CASE WriteStep /\ ~PublishCommittedIntent /\ ~AdmitCommitted
  <2>1. pc # "post" /\ pending' = pending /\ (poisoned = "undecided" => poisoned' = "undecided")
    BY Zenon, <1>5 DEF WriteStep, beginWriteSnapshot, RefuseBatch, ReserveVersions, PublishRollbackIntent,
       CleanFailedIntent, appendWAL, finishCommittedSnapshot, rollbackWAL, clearRejectedIntent,
       finishRejectedSnapshot, Poison, held
  <2>2. QED
    BY Zenon, <1>5, <1>a, <2>1, PendingHeld
<1>6. CASE WriteChunk \/ ConditionalWriteChunks \/ FlushWAL \/ ReturnError \/ FlushBarrier
           \/ ReadChunk \/ Evict
  <2>1. pc # "post" /\ UNCHANGED <<pending, poisoned>> /\ ~PublishCommittedIntent
    BY Zenon, <1>6 DEF WriteChunk, ConditionalWriteChunks, FlushWAL, Call, ReturnError, FlushBarrier, ReadChunk,
       Evict, held, PublishCommittedIntent
  <2>2. QED
    BY Zenon, <1>a, <2>1, PendingHeld
<1>7. CASE Close \/ Crash
  BY Zenon, <1>7, PendingGone DEF Close, Crash, ProcessGone
<1>8. CASE UNCHANGED vars
  <2>1. UNCHANGED <<wal, intent, image, pending, op, pc, poisoned>>
    BY Zenon, <1>8 DEF vars, logs, files, held, call
  <2>2. \A c \in Coords : Recoverable(c)' = Recoverable(c)
    BY Zenon, <2>1, RecoversUntouched
  <2>3. QED
    BY Zenon, <2>1, <2>2 DEF PendingIsRecoverable, IsPending, Fresh, Mutated
<1>9. QED
  BY Zenon, <1>1, <1>2, <1>3, <1>4, <1>5, <1>6, <1>7, <1>8 DEF Next

LEMMA MutatedTypes ==
    ASSUME TypeInv
    PROVE  /\ Mutated \subseteq Coords
           /\ \A c \in Mutated : /\ IndexOf(c) \in 1..Len(op.muts)
                                 /\ op.muts[IndexOf(c)].state \in States
<1>1. DOMAIN op.muts = 1..Len(op.muts) /\ \A i \in 1..Len(op.muts) : op.muts[i] \in Mutation
  BY LogTypes
<1>2. \A i \in 1..Len(op.muts) : op.muts[i].coord \in Coords /\ op.muts[i].state \in States
  BY Zenon, <1>1 DEF Mutation
<1>3. \A c \in Mutated : IndexOf(c) \in 1..Len(op.muts)
  BY Zenon, <1>1 DEF Mutated, IndexOf
<1>4. Mutated \subseteq Coords
  BY Zenon, <1>1, <1>2 DEF Mutated
<1>5. QED
  BY Zenon, <1>2, <1>3, <1>4

LEMMA DecidedNext ==
    ASSUME TypeInv, TypeInv', RecoveryInv, CutInv', [Next]_vars
    PROVE  DecidedIsRecoverable'
<1> USE DEF RecoveryInv
<1> SUFFICES ASSUME pc' = "post" PROVE DecidedIsRecoverable'
  BY Zenon DEF DecidedIsRecoverable
<1>1. PublishCommittedIntent \/ UNCHANGED vars
  BY ZenonT(60) DEF Next, OpenStep, beginWriterSnapshot, loadVersionClock, recoverConditionalIntent,
     clearRecoveredIntent, reserveRecoveryVersions, RecoverVersion, ReplayRecord, replaceWALAfterReplay,
     finishRecoveredSnapshot, OpenContinues, ProcessGone, RetryStep, PublishVersion, PublishImage, RetryDone,
     persistCheckpointChunk, clearWAL, WriteStep, beginWriteSnapshot, RefuseBatch, ReserveVersions,
     PublishRollbackIntent, CleanFailedIntent, appendWAL, AdmitCommitted, finishCommittedSnapshot, rollbackWAL,
     clearRejectedIntent, finishRejectedSnapshot, Return, WriteChunk, ConditionalWriteChunks, FlushWAL, Call,
     ReturnError, FlushBarrier, ReadChunk, Evict, Close, Crash, AfterRetry, TypeInv, ProcessOK
<1>2. CASE PublishCommittedIntent
  <2>1. op' = op /\ intent'.state # "rollback"
    BY Zenon, <1>2 DEF PublishCommittedIntent, call, CutInv
  <2>2. Mutated \subseteq Coords
    BY Zenon, MutatedTypes
  <2>3. \A c \in Mutated : Recoverable(c)' = Content(op.muts[IndexOf(c)].state)
    BY Zenon, <1>2, <2>1, <2>2, RecoverableCommit
  <2>4. Mutated' = Mutated /\ \A c : IndexOf(c)' = IndexOf(c)
    BY Zenon, <2>1 DEF Mutated, IndexOf
  <2>5. QED
    BY Zenon, <2>1, <2>3, <2>4 DEF DecidedIsRecoverable
<1>3. CASE UNCHANGED vars
  <2>1. UNCHANGED <<wal, intent, image, op, pc>>
    BY Zenon, <1>3 DEF vars, logs, files, call
  <2>2. \A c : Recoverable(c)' = Recoverable(c)
    BY Zenon, <2>1, RecoversUntouched
  <2>3. Mutated' = Mutated /\ \A c : IndexOf(c)' = IndexOf(c)
    BY Zenon, <2>1 DEF Mutated, IndexOf
  <2>4. QED
    BY Zenon, <2>1, <2>2, <2>3 DEF DecidedIsRecoverable
<1>4. QED
  BY Zenon, <1>1, <1>2, <1>3

LEMMA RecoveryInit == Init => RecoveryInv
<1> SUFFICES ASSUME Init PROVE RecoveryInv
  OBVIOUS
<1>1. PendingIsRecoverable
  BY Zenon DEF Init, PendingIsRecoverable, IsPending, NotPending
<1>2. ReplayIsDone /\ DecidedIsRecoverable
  BY Zenon DEF Init, ReplayIsDone, DecidedIsRecoverable
<1>3. QED
  BY Zenon, <1>1, <1>2, CallInit, CutInit DEF RecoveryInv

LEMMA RecoveryNext == TypeInv /\ TypeInv' /\ RecoveryInv /\ [Next]_vars => RecoveryInv'
<1> SUFFICES ASSUME TypeInv, TypeInv', RecoveryInv, [Next]_vars PROVE RecoveryInv'
  OBVIOUS
<1>1. CallInv' /\ CutInv' /\ ReplayIsDone'
  BY Zenon, CallNext, CutNext, ReplayNext DEF RecoveryInv
<1>2. PendingIsRecoverable' /\ DecidedIsRecoverable'
  BY Zenon, <1>1, PendingNext, DecidedNext
<1>3. QED
  BY Zenon, <1>1, <1>2 DEF RecoveryInv

(* Whatever fails, in every state of the store. *)
LEMMA RecoveryHolds == Spec /\ []TypeInv => []RecoveryInv
BY RecoveryInit, RecoveryNext, PTL DEF Spec

(***************************************************************************)
(* What images and cache show                                              *)
(***************************************************************************)

LEMMA ReadsInit == Init => ReadsInv
BY Zenon DEF Init, ReadsInv, Opening

LEMMA ReadsGone == ProcessGone => ReadsInv'
BY Zenon DEF ProcessGone, ReadsInv, Opening

(* Steps that touch neither images, nor cache, nor what is pending. *)
LEMMA ReadsHeld ==
    ASSUME ReadsInv, UNCHANGED <<image, pending, cache>>,
           \A c \in Coords : Recoverable(c)' = Recoverable(c),
           pc \notin Opening \cup {"post", "checkpoint"}, pc' # "opened",
           pc' = "checkpoint" => NothingPending,
           poisoned = "undecided" => poisoned' = "undecided"
    PROVE  ReadsInv'
<1>1. pc' = "checkpoint" => NothingPending'
  BY Zenon DEF NothingPending, IsPending
<1>2. ASSUME NEW c \in Coords, Fresh(c)' PROVE ImageShows(c)' /\ CacheShows(c)'
  <2>1. Fresh(c)
    BY Zenon, <1>2 DEF Fresh
  <2>2. ImageShows(c) /\ CacheShows(c)
    BY Zenon, <2>1 DEF ReadsInv
  <2>3. Recoverable(c)' = Recoverable(c)
    OBVIOUS
  <2>4. QED
    BY Zenon, <2>2, <2>3 DEF ImageShows, CacheShows, IsPending
<1>3. QED
  BY Zenon, <1>1, <1>2 DEF ReadsInv

LEMMA ReadsOpenStep ==
    ASSUME TypeInv, TypeInv', RecoveryInv, OpenStep, \A c \in Coords : Recoverable(c)' = Recoverable(c),
           ReadsInv
    PROVE  ReadsInv'
<1>1. CASE finishRecoveredSnapshot /\ pc' = "idle"
  <2>1. pc = "opened" /\ UNCHANGED <<wal, intent, image, cache>>
    BY Zenon, <1>1 DEF finishRecoveredSnapshot, ProcessGone, logs, files, held
  <2>2. wal = <<>> /\ cache = [c \in Coords |-> Absent]
    BY Zenon, <2>1 DEF ReadsInv, RecoveryInv, CallInv, Opening
  <2>3. ASSUME NEW c \in Coords PROVE ImageShows(c)' /\ CacheShows(c)'
    <3>1. Kept = 0
      BY <2>2, LogTypes DEF Kept
    <3>2. \A i \in 1..Kept : wal[i].coord # c
      BY <3>1
    <3>3. Recoverable(c) = Content(image[c])
      BY Zenon, <3>2, RecoversImage
    <3>4. Recoverable(c)' = Recoverable(c)
      OBVIOUS
    <3>5. QED
      BY Zenon, <2>1, <2>2, <3>3, <3>4 DEF ImageShows, CacheShows
  <2>4. QED
    BY Zenon, <1>1, <2>3 DEF ReadsInv
<1>2. CASE replaceWALAfterReplay /\ pc' = "opened"
  BY Zenon, <1>2 DEF replaceWALAfterReplay, Replaced, ProcessGone, ReadsInv, Opening
<1>3. CASE pc' \in Opening \ {"opened"}
  BY Zenon, <1>3 DEF ReadsInv, Opening
<1>4. QED
  BY Zenon, <1>1, <1>2, <1>3 DEF Opening, OpenStep, beginWriterSnapshot, loadVersionClock,
     recoverConditionalIntent, clearRecoveredIntent, reserveRecoveryVersions, RecoverVersion, ReplayRecord,
     replaceWALAfterReplay, finishRecoveredSnapshot, OpenContinues, ProcessGone

LEMMA ReadsRetryStep ==
    ASSUME TypeInv, TypeInv', RecoveryInv, RetryStep, \A c \in Coords : Recoverable(c)' = Recoverable(c),
           CheckpointRewrites, ReadsInv
    PROVE  ReadsInv'
<1>a. poisoned' = poisoned /\ poisoned # "undecided" /\ pc \in Retrying /\ pc \notin Opening /\ ret' = ret
  BY Zenon DEF RetryStep, PublishVersion, PublishImage, RetryDone, persistCheckpointChunk, clearWAL, RecoveryInv,
     CallInv, Retrying, Opening
<1>b. \A c \in Coords : Fresh(c)
  BY Zenon, <1>a DEF Fresh, Retrying
<1>c. AfterRetry(TRUE) \notin {"checkpoint", "opened"} /\ AfterRetry(FALSE) \notin {"checkpoint", "opened"}
  BY Zenon DEF AfterRetry, TypeInv, ProcessOK
<1>1. CASE PublishVersion \/ RetryDone
  <2>1. /\ pc = "retry" /\ UNCHANGED <<image, pending, cache>>
        /\ pc' # "opened" /\ (pc' = "checkpoint" => NothingPending)
    BY Zenon, <1>c, <1>1 DEF PublishVersion, RetryDone, files, held
  <2>2. pc \notin Opening \cup {"post", "checkpoint"}
    BY Zenon, <2>1 DEF Opening
  <2>3. QED
    BY Zenon, <1>a, <2>1, <2>2, ReadsHeld
<1>2. CASE PublishImage
  <2>1. /\ pc = "publish" /\ pc' \notin {"checkpoint", "opened"} /\ cache' = cache
        /\ \/ image' = [image EXCEPT ![cursor] = pending[cursor].state]
           \/ image' = image /\ pending' = pending
        /\ pending' = pending \/ pending' = [pending EXCEPT ![cursor] = NotPending]
    <3>1. PICK r \in Outcomes("persistChunk", SyncsPublications) :
             /\ image' = [image EXCEPT ![cursor] = Replaced(r, @, pending[cursor].state)]
             /\ pending' = IF r = "ok" THEN [pending EXCEPT ![cursor] = NotPending] ELSE pending
             /\ pc' = IF r = "ok" THEN "retry" ELSE AfterRetry(FALSE)
      BY Zenon, <1>2 DEF PublishImage
    <3>2. pc = "publish" /\ cache' = cache /\ pc' \notin {"checkpoint", "opened"}
      BY Zenon, <1>c, <1>2, <3>1 DEF PublishImage
    <3>3. image \in [Coords -> Images]
      BY Zenon DEF TypeInv, DirectoryOK
    <3>4. CASE r = "early"
      BY Zenon, <3>1, <3>2, <3>3, <3>4 DEF Replaced
    <3>5. CASE r # "early"
      BY Zenon, <3>1, <3>2, <3>5 DEF Replaced
    <3>6. QED
      BY Zenon, <3>4, <3>5
  <2>2. image \in [Coords -> Images] /\ pending \in [Coords -> Publications] /\ cursor \in Coords
    BY Zenon, <2>1 DEF TypeInv, DirectoryOK, ProcessOK, Control
  <2>3. ASSUME NEW c \in Coords PROVE ImageShows(c)' /\ CacheShows(c)'
    <3>1. Recoverable(c)' = Recoverable(c)
      OBVIOUS
    <3>2. ImageShows(c) /\ CacheShows(c)
      BY ZenonT(40), <1>a, <1>b DEF ReadsInv
    <3>3. CASE c # cursor
      <4>1. image'[c] = image[c] /\ pending'[c] = pending[c]
        BY Zenon, <2>1, <2>2, <3>3
      <4>2. QED
        BY ZenonT(40), <2>1, <3>1, <3>2, <4>1 DEF ImageShows, CacheShows, IsPending
    <3>4. CASE c = cursor
      <4>1. IsPending(c)
        BY Zenon, <2>1, <3>4 DEF RecoveryInv, CallInv
      <4>2. Content(pending[c].state) = Recoverable(c)
        BY Zenon, <1>b, <4>1 DEF RecoveryInv, PendingIsRecoverable
      <4>3. IsPending(c)' \/ image'[c] = pending[c].state
        BY Zenon, <2>1, <2>2, <3>4, <4>1 DEF IsPending
      <4>4. QED
        BY ZenonT(40), <2>1, <3>1, <3>2, <4>2, <4>3 DEF ImageShows, CacheShows
    <3>5. QED
      BY Zenon, <3>3, <3>4
  <2>4. QED
    BY Zenon, <2>1, <2>3 DEF ReadsInv
<1>3. CASE persistCheckpointChunk
  <2>1. PICK r : /\ r \in IF wal[cursor + 1].state = Empty THEN CollectOutcomes(wal[cursor + 1].coord)
                          ELSE Outcomes("persistCheckpointChunk", SyncsCheckpoint)
                 /\ pc' = IF r = "ok" THEN "checkpoint" ELSE AfterRetry(FALSE)
    BY ZenonT(40), <1>3 DEF persistCheckpointChunk
  <2>2. r = "ok"
    BY Zenon, <2>1 DEF CollectOutcomes, Outcomes, CheckpointRewrites
  <2>3. pc = "checkpoint" /\ pc' = "checkpoint" /\ pending' = pending
    BY Zenon, <1>3, <2>1, <2>2 DEF persistCheckpointChunk
  <2>4. \E d : cache' \in {cache, [cache EXCEPT ![d] = Absent]}
    BY Zenon, <1>3 DEF persistCheckpointChunk
  <2>5. cache \in [Coords -> Images]
    BY Zenon DEF TypeInv, ProcessOK
  <2>6. ASSUME NEW c \in Coords PROVE ImageShows(c)' /\ CacheShows(c)'
    <3>1. Recoverable(c)' = Recoverable(c)
      OBVIOUS
    <3>2. CacheShows(c)
      BY Zenon, <1>a, <1>b DEF ReadsInv
    <3>3. cache'[c] \in {cache[c], Absent}
      BY Zenon, <2>4, <2>5
    <3>4. QED
      BY Zenon, <2>3, <3>1, <3>2, <3>3 DEF ImageShows, CacheShows
  <2>7. NothingPending'
    BY Zenon, <2>3 DEF ReadsInv, NothingPending, IsPending
  <2>8. QED
    BY Zenon, <2>3, <2>6, <2>7 DEF ReadsInv
<1>4. CASE clearWAL
  <2>1. /\ pc = "checkpoint" /\ pc' \notin {"checkpoint", "opened"} /\ cursor = Len(wal)
        /\ UNCHANGED <<image, cache>>
    BY Zenon, <1>c, <1>4 DEF clearWAL, AfterRetry, files, held
  <2>2. ReplayedUpTo(wal, Len(wal), image)
    BY Zenon, <2>1 DEF RecoveryInv, ReplayIsDone
  <2>3. Kept = Len(wal) /\ Kept \in Nat
    BY ZenonT(40), <2>1, KeptIs DEF RecoveryInv, CutInv
  <2>4. ASSUME NEW c \in Coords PROVE ImageShows(c)' /\ CacheShows(c)'
    <3>1. Recoverable(c)' = Recoverable(c)
      OBVIOUS
    <3>2. CacheShows(c)
      BY Zenon, <1>a, <1>b DEF ReadsInv
    <3>3. Recoverable(c) = Content(image[c])
      BY <2>2, <2>3, ReplayAll, RecoverableReads
    <3>4. QED
      BY Zenon, <2>1, <3>1, <3>2, <3>3 DEF ImageShows, CacheShows
  <2>5. QED
    BY Zenon, <2>1, <2>4 DEF ReadsInv
<1>5. QED
  BY Zenon, <1>1, <1>2, <1>3, <1>4 DEF RetryStep

LEMMA ReadsWriteStep ==
    ASSUME TypeInv, TypeInv', RecoveryInv, CutInv', WriteStep, ReadsInv
    PROVE  ReadsInv'
<1>1. CASE PublishCommittedIntent
  <2>1. UNCHANGED <<image, pending, cache, op>> /\ pc = "commit" /\ poisoned = "no"
    BY Zenon, <1>1 DEF PublishCommittedIntent, held, files, call, RecoveryInv, CallInv, Retrying
  <2>2. pc' \in {"rollback", "post", "reject"}
    BY Zenon, <1>1 DEF PublishCommittedIntent
  <2>3. Mutated' = Mutated
    BY Zenon, <2>1 DEF Mutated
  <2>4. ASSUME NEW c \in Coords, Fresh(c)' PROVE ImageShows(c)' /\ CacheShows(c)'
    <3>1. Recoverable(c)' = Recoverable(c)
      <4>1. CASE pc' = "rollback"
        <5>1. intent' = intent
          BY Zenon, <1>1, <4>1 DEF PublishCommittedIntent, Replaced
        <5>2. QED
          BY Zenon, <1>1, <5>1, RecoversUntouched DEF PublishCommittedIntent, files
      <4>2. CASE pc' = "post"
        <5>1. intent'.state # "rollback" /\ c \notin Mutated
          BY Zenon, <2>3, <2>4, <4>2 DEF CutInv, Fresh
        <5>2. QED
          BY Zenon, <1>1, <5>1, RecoverableCommit
      <4>3. CASE pc' = "reject"
        BY Zenon, <1>1, <2>1, <2>4, <4>3 DEF PublishCommittedIntent, Poison, Fresh
      <4>4. QED
        BY Zenon, <2>2, <4>1, <4>2, <4>3
    <3>2. Fresh(c) /\ pc \notin Opening
      BY Zenon, <2>1 DEF Fresh, Opening
    <3>3. ImageShows(c) /\ CacheShows(c)
      BY Zenon, <3>2 DEF ReadsInv
    <3>4. QED
      BY Zenon, <2>1, <3>1, <3>3 DEF ImageShows, CacheShows, IsPending
  <2>5. QED
    BY Zenon, <2>2, <2>4 DEF ReadsInv
<1>2. CASE AdmitCommitted
  <2>1. /\ pc = "post" /\ pc' = "retry" /\ image' = image
        /\ pending' = [c \in Coords |-> IF c \in Mutated THEN Publication(c) ELSE pending[c]]
        /\ cache' = [c \in Coords |-> IF c \in Mutated THEN Publication(c).state ELSE cache[c]]
    BY ZenonT(40), <1>2 DEF AdmitCommitted, files
  <2>2. poisoned # "undecided"
    BY Zenon, <2>1 DEF RecoveryInv, CallInv
  <2>3. ASSUME NEW c \in Coords PROVE ImageShows(c)' /\ CacheShows(c)'
    <3>1. Recoverable(c)' = Recoverable(c)
      BY Zenon, <1>2, <2>1, RecoverableWriteStep DEF PublishCommittedIntent
    <3>2. CASE c \in Mutated
      <4>1. IndexOf(c) \in 1..Len(op.muts) /\ Len(op.muts) <= versionClock /\ versionClock \in Nat
        BY ZenonT(40), <2>1, <3>2, MutatedTypes DEF TypeInv, Control, Reserved, ProcessOK
      <4>2. Publication(c).version # 0
        BY <4>1, LogTypes DEF Publication
      <4>3. Content(Publication(c).state) = Recoverable(c)
        BY ZenonT(40), <2>1, <3>2 DEF Publication, RecoveryInv, DecidedIsRecoverable
      <4>4. IsPending(c)' /\ cache'[c] = Publication(c).state
        BY ZenonT(40), <2>1, <3>2, <4>2 DEF IsPending
      <4>5. QED
        BY ZenonT(40), <3>1, <4>3, <4>4 DEF ImageShows, CacheShows
    <3>3. CASE c \notin Mutated
      <4>1. Fresh(c) /\ pc \notin Opening
        BY Zenon, <2>1, <2>2, <3>3 DEF Fresh, Opening
      <4>2. ImageShows(c) /\ CacheShows(c)
        BY Zenon, <4>1 DEF ReadsInv
      <4>3. pending'[c] = pending[c] /\ cache'[c] = cache[c]
        BY Zenon, <2>1, <3>3
      <4>4. QED
        BY ZenonT(40), <2>1, <3>1, <4>2, <4>3 DEF ImageShows, CacheShows, IsPending
    <3>4. QED
      BY Zenon, <3>2, <3>3
  <2>4. QED
    BY Zenon, <2>1, <2>3 DEF ReadsInv
<1>3. CASE ~PublishCommittedIntent /\ ~AdmitCommitted
  <2>1. /\ UNCHANGED <<image, pending, cache>> /\ (poisoned = "undecided" => poisoned' = "undecided")
        /\ pc \in Writing \ {"post"} /\ pc' \notin {"checkpoint", "opened"}
    BY ZenonT(40), <1>3 DEF WriteStep, beginWriteSnapshot, RefuseBatch, ReserveVersions, PublishRollbackIntent,
       CleanFailedIntent, appendWAL, finishCommittedSnapshot, rollbackWAL, clearRejectedIntent,
       finishRejectedSnapshot, Poison, held, files, Return, Writing
  <2>2. \A c \in Coords : Recoverable(c)' = Recoverable(c)
    BY Zenon, <1>3, RecoverableWriteStep
  <2>3. pc \notin Opening \cup {"post", "checkpoint"}
    BY Zenon, <2>1 DEF Writing, Opening
  <2>4. pc' # "opened" /\ (pc' = "checkpoint" => NothingPending)
    BY Zenon, <2>1
  <2>5. QED
    BY Zenon, <2>1, <2>2, <2>3, <2>4, ReadsHeld
<1>4. QED
  BY Zenon, <1>1, <1>2, <1>3

LEMMA ReadsNext ==
    ASSUME TypeInv, TypeInv', RecoveryInv, RecoveryInv', [Next]_vars, CheckpointRewrites, ReadsInv
    PROVE  ReadsInv'
<1>a. CutInv'
  BY Zenon DEF RecoveryInv
<1>b. ~PublishCommittedIntent => \A c \in Coords : Recoverable(c)' = Recoverable(c)
  BY Zenon, <1>a, RecoverableNext
<1>1. CASE WriteStep
  BY Zenon, <1>1, <1>a, ReadsWriteStep
<1>2. CASE OpenStep
  <2>1. \A c \in Coords : Recoverable(c)' = Recoverable(c)
    BY Zenon, <1>a, <1>2, RecoverableOpenStep
  <2>2. QED
    BY Zenon, <1>2, <2>1, ReadsOpenStep
<1>3. CASE RetryStep
  <2>1. \A c \in Coords : Recoverable(c)' = Recoverable(c)
    BY Zenon, <1>3, RecoverableRetryStep
  <2>2. QED
    BY Zenon, <1>3, <2>1, ReadsRetryStep
<1>4. CASE WriteChunk \/ ConditionalWriteChunks \/ FlushWAL \/ ReturnError \/ FlushBarrier
  <2>1. /\ UNCHANGED <<image, pending, cache, poisoned>> /\ ~PublishCommittedIntent
        /\ pc \in {"idle", "fail", "sync"} /\ pc' \notin {"checkpoint", "opened"}
    BY Zenon, <1>4 DEF WriteChunk, ConditionalWriteChunks, FlushWAL, Call, ReturnError, FlushBarrier, held, files,
       PublishCommittedIntent, Return
  <2>2. pc \notin Opening \cup {"post", "checkpoint"}
    BY Zenon, <2>1 DEF Opening
  <2>3. pc' # "opened" /\ (pc' = "checkpoint" => NothingPending)
    BY Zenon, <2>1
  <2>4. QED
    BY Zenon, <1>b, <2>1, <2>2, <2>3, ReadsHeld
<1>5. CASE ReadChunk \/ Evict
  <2>1. /\ pc = "idle" /\ pc' = "idle" /\ UNCHANGED <<image, pending, poisoned>> /\ ~PublishCommittedIntent
        /\ \E d \in Coords : \/ cache' = [cache EXCEPT ![d] = Absent]
                             \/ cache' = [cache EXCEPT ![d] = image[d]] /\ ~IsPending(d)
    BY ZenonT(40), <1>5 DEF ReadChunk, Evict, files, PublishCommittedIntent
  <2>2. cache \in [Coords -> Images]
    BY Zenon DEF TypeInv, ProcessOK
  <2>3. ASSUME NEW c \in Coords, Fresh(c)' PROVE ImageShows(c)' /\ CacheShows(c)'
    <3>1. Fresh(c) /\ pc \notin Opening
      BY Zenon, <2>1, <2>3 DEF Fresh, Opening
    <3>2. ImageShows(c) /\ CacheShows(c)
      BY Zenon, <3>1 DEF ReadsInv
    <3>3. cache'[c] \in {cache[c], Absent} \/ (cache'[c] = image[c] /\ ~IsPending(c))
      BY Zenon, <2>1, <2>2
    <3>4. Recoverable(c)' = Recoverable(c)
      BY Zenon, <1>b, <2>1
    <3>5. QED
      BY ZenonT(40), <2>1, <3>2, <3>3, <3>4 DEF ImageShows, CacheShows, IsPending
  <2>4. QED
    BY Zenon, <2>1, <2>3 DEF ReadsInv
<1>6. CASE Close \/ Crash
  BY Zenon, <1>6, ReadsGone DEF Close, Crash
<1>7. CASE UNCHANGED vars
  <2>1. UNCHANGED <<wal, intent, image, pending, cache, op, pc, poisoned>>
    BY Zenon, <1>7 DEF vars, logs, files, held, call
  <2>2. \A c : Recoverable(c)' = Recoverable(c)
    BY Zenon, <2>1, RecoversUntouched
  <2>3. Mutated' = Mutated /\ NothingPending' = NothingPending
    BY Zenon, <2>1 DEF Mutated, NothingPending, IsPending
  <2>4. \A c : /\ Fresh(c)' = Fresh(c)
               /\ ImageShows(c)' = ImageShows(c)
               /\ CacheShows(c)' = CacheShows(c)
    BY Zenon, <2>1, <2>2, <2>3 DEF Fresh, ImageShows, CacheShows, IsPending
  <2>5. QED
    BY Zenon, <2>1, <2>3, <2>4 DEF ReadsInv
<1>8. QED
  BY Zenon, <1>1, <1>2, <1>3, <1>4, <1>5, <1>6, <1>7 DEF Next

LEMMA ReadsShow == RecoveryInv /\ ReadsInv => ReadsCommitted
<1> SUFFICES ASSUME RecoveryInv, ReadsInv, pc = "idle", poisoned # "undecided", NEW c \in Coords
             PROVE  Observed(c) = Recoverable(c)
  BY Zenon DEF ReadsCommitted
<1>1. Fresh(c) /\ pc \notin Opening
  BY Zenon DEF Fresh, Opening
<1>2. ImageShows(c) /\ CacheShows(c)
  BY ZenonT(40), <1>1 DEF ReadsInv
<1>3. IsPending(c) => Content(pending[c].state) = Recoverable(c)
  BY Zenon, <1>1 DEF RecoveryInv, PendingIsRecoverable
<1>4. QED
  BY Zenon, <1>2, <1>3 DEF Observed, ImageShows, CacheShows

LEMMA ReadsHold ==
    ASSUME CheckpointRewrites
    PROVE  Spec /\ []TypeInv => []ReadsInv
<1>1. TypeInv /\ TypeInv' /\ RecoveryInv /\ RecoveryInv' /\ [Next]_vars /\ ReadsInv => ReadsInv'
  BY Zenon, ReadsNext
<1>2. QED
  BY <1>1, RecoveryHolds, ReadsInit, PTL DEF Spec

(***************************************************************************)
(* What the proofs about generations and the store's users rely on         *)
(***************************************************************************)

LEMMA KeptUntouched ==
    ASSUME UNCHANGED <<wal, intent>>
    PROVE  Kept' = Kept
BY DEF Kept

(* A write keeps the records an open would keep until its decision. *)
LEMMA KeptWriteStep ==
    ASSUME TypeInv, TypeInv', CallInv, CutInv, CutInv', WriteStep, ~PublishCommittedIntent
    PROVE  Kept' = Kept
<1>a. Len(op'.muts) \in Nat /\ intent'.boundary \in Nat
  BY DEF TypeInv, DirectoryOK, ProcessOK, Ops, Intents
<1> USE LogTypes, KeptIs, KeptNext DEF logs
<1>1. CASE beginWriteSnapshot \/ RefuseBatch \/ ReserveVersions \/ finishCommittedSnapshot
           \/ finishRejectedSnapshot
  BY Zenon, <1>1, KeptUntouched DEF beginWriteSnapshot, RefuseBatch, ReserveVersions, finishCommittedSnapshot,
     finishRejectedSnapshot
<1>2. CASE PublishRollbackIntent \/ CleanFailedIntent \/ clearRejectedIntent \/ AdmitCommitted
  <2>1. wal' = wal
    BY Zenon, <1>2 DEF PublishRollbackIntent, CleanFailedIntent, clearRejectedIntent, AdmitCommitted
  <2>2. pc \in {"intent", "unpublish", "clearRejected", "post"}
    BY ZenonT(40), <1>2 DEF PublishRollbackIntent, CleanFailedIntent, clearRejectedIntent, AdmitCommitted
  <2>3. ~Cut
    BY ZenonT(40), <2>2 DEF CutInv, Cut
  <2>4. ~Cut'
    <3>1. \/ intent' \in {intent, NoIntent}
          \/ intent' = [state |-> "rollback", boundary |-> Len(wal)]
      BY ZenonT(40), <1>2 DEF PublishRollbackIntent, CleanFailedIntent, clearRejectedIntent, AdmitCommitted,
         Replaced
    <3>2. QED
      BY <2>1, <2>3, <3>1 DEF Cut, NoIntent
  <2>5. QED
    BY Zenon, <2>1, <2>3, <2>4
<1>3. CASE appendWAL
  <2>1. intent' = intent /\ intent.state = "rollback" /\ intent.boundary = Len(wal)
    BY Zenon, <1>3 DEF appendWAL, CutInv
  <2>2. pc' \in {"commit", "rollback"}
    BY ZenonT(40), <1>3 DEF appendWAL
  <2>3. intent'.boundary <= Len(wal')
    <3>1. pc' = "commit" => Len(wal') = intent'.boundary + Len(op'.muts)
      BY Zenon DEF CutInv
    <3>2. pc' = "rollback" => intent'.boundary <= Len(wal')
      BY Zenon DEF CutInv
    <3>3. QED
      BY <1>a, <2>2, <3>1, <3>2
  <2>4. QED
    BY <2>1, <2>3
<1>4. CASE rollbackWAL
  <2>1. intent' = intent /\ intent.state = "rollback" /\ intent.boundary <= Len(wal)
    BY Zenon, <1>4 DEF rollbackWAL, CutInv
  <2>2. wal' \in {wal, SubSeq(wal, 1, intent.boundary)}
    BY ZenonT(40), <1>4 DEF rollbackWAL, Replaced
  <2>3. intent.boundary <= Len(wal')
    BY <2>1, <2>2, CutLeaves
  <2>4. QED
    BY Zenon, <2>1, <2>3
<1>5. QED
  BY Zenon, <1>1, <1>2, <1>3, <1>4 DEF WriteStep

LEMMA ContentIsMoved ==
    ASSUME TypeInv, TypeInv', RecoveryInv, RecoveryInv', [Next]_vars
    PROVE  ContentMoves
<1>1. CallInv /\ CutInv /\ CutInv'
  BY Zenon DEF RecoveryInv
<1>2. ~PublishCommittedIntent \/ intent' = intent => Steady
  BY Zenon, <1>1, RecoverableNext DEF Steady
<1>3. WriteStep /\ ~PublishCommittedIntent => Kept' = Kept
  BY Zenon, <1>1, KeptWriteStep
<1>4. QED
  BY Zenon, <1>2, <1>3, RecoverableCommit DEF ContentMoves

(* A chunk with records recovers to its image, or recovery changes it. *)
LEMMA ChangedIsReserved ==
    ASSUME TypeInv, ~Cut, NEW c \in Coords, Content(image[c]) # Recoverable(c)
    PROVE  c \in ChangedChunks
<1>1. Kept = Len(wal) /\ Len(wal) \in Nat /\ DOMAIN wal = 1..Len(wal)
  BY KeptIs, LogTypes
<1>2. \E i \in 1..Len(wal) : wal[i].coord = c
  BY Zenon, <1>1, RecoversImage
<1>3. PICK i : IsLast(wal, Len(wal), c, i)
  BY Zenon, <1>1, <1>2, LastExists
<1>4. i \in DOMAIN wal /\ wal[i].coord = c /\ IsFinal(i)
  BY <1>1, <1>3 DEF IsLast, IsFinal
<1>5. Recoverable(c) = Content(wal[i].state)
  BY Zenon, <1>1, <1>3, FromRecord, RecoverableReads
<1>6. image[c] # wal[i].state
  BY Zenon, <1>5
<1>7. QED
  BY Zenon, <1>4, <1>6 DEF ChangedChunks

(* The chunks that reserveRecoveryVersions passes over have a version. *)
LEMMA UnchangedHasVersion ==
    ASSUME TypeInv, NEW h \in 1..Len(wal), wal[h].coord \notin ChangedChunks
    PROVE  ver[wal[h].coord] # 0
<1> DEFINE c == wal[h].coord
<1>1. Len(wal) \in Nat /\ DOMAIN wal = 1..Len(wal) /\ c \in Coords
  <2>1. wal \in Seq(Mutation)
    BY Zenon, LogTypes
  <2>2. wal[h] \in Mutation /\ Len(wal) \in Nat /\ DOMAIN wal = 1..Len(wal)
    BY <2>1
  <2>3. QED
    BY Zenon, <2>2 DEF Mutation
<1>2. PICK i : IsLast(wal, Len(wal), c, i)
  BY Zenon, <1>1, LastExists
<1>3. i \in DOMAIN wal /\ wal[i].coord = c /\ IsFinal(i)
  BY <1>1, <1>2 DEF IsLast, IsFinal
<1>4. QED
  BY Zenon, <1>1, <1>3 DEF ChangedChunks

LEMMA ChangesAreReserved == TypeInv => ChangesReserved
BY Zenon, ChangedIsReserved, UnchangedHasVersion DEF ChangesReserved
================================================================================
