------------------------- MODULE ChunkStoreUserProofs -------------------------
(***************************************************************************)
(* The steps of the store as its users see them.  For its clients it is an *)
(* atomic map of chunks, whose versions order the contents it shows.       *)
(* Beside the writer, even generations show what is recoverable unless a   *)
(* checkpoint or the end of a barrier fails; readers and verifications     *)
(* rely on what stands still under one.  What the lemmas need of recovery  *)
(* they take as hypotheses (ContentMoves, ChangesReserved);                *)
(* ChunkStoreTheorems supplies them.                                       *)
(***************************************************************************)
EXTENDS ChunkStoreInvariants, ChunkStoreClient, SnapshotReader, Verifier, TLAPS

(***************************************************************************)
(* Types and untouched parts                                               *)
(***************************************************************************)

LEMMA LogIsTyped ==
    ASSUME TypeInv
    PROVE  /\ wal \in Seq(Mutation)
           /\ Len(wal) \in Nat
           /\ intent \in Intents
           /\ intent.boundary \in Nat
           /\ op.muts \in Seq(Mutation)
           /\ Len(op.muts) \in Nat
           /\ DOMAIN op.muts = 1..Len(op.muts)
           /\ poisoned \in {"no", "repair", "undecided"}
BY DEF TypeInv, DirectoryOK, ProcessOK, Intents, Ops

LEMMA KeptWithin ==
    ASSUME TypeInv
    PROVE  /\ Kept \in Nat
           /\ Kept <= Len(wal)
           /\ ~Cut => Kept = Len(wal)
           /\ intent.state = "rollback" /\ intent.boundary <= Len(wal) => Kept = intent.boundary
BY LogIsTyped DEF Kept, Cut

LEMMA WithoutRecords ==
    ASSUME NEW c, \A i \in 1..Kept : wal[i].coord # c
    PROVE  Recoverable(c) = Content(image[c])
BY Zenon DEF Recoverable

LEMMA ContentUntouched ==
    ASSUME NEW c, UNCHANGED <<wal, intent, image>>
    PROVE  Recoverable(c)' = Recoverable(c)
BY DEF Recoverable, Kept

LEMMA KeptAlone ==
    ASSUME UNCHANGED <<wal, intent>>
    PROVE  Kept' = Kept
BY Zenon DEF Kept

LEMMA PrefixIsCut ==
    ASSUME TypeInv, intent.boundary <= Len(wal)
    PROVE  \A i \in 1..intent.boundary : wal[i] = SubSeq(wal, 1, intent.boundary)[i]
BY LogIsTyped

LEMMA BatchIsTyped ==
    ASSUME TypeInv
    PROVE  /\ Mutated \subseteq Coords
           /\ \A c \in Mutated : /\ IndexOf(c) \in 1..Len(op.muts)
                                 /\ op.muts[IndexOf(c)].state \in States
<1>1. DOMAIN op.muts = 1..Len(op.muts) /\ \A i \in 1..Len(op.muts) : op.muts[i] \in Mutation
  BY LogIsTyped
<1>2. \A i \in 1..Len(op.muts) : op.muts[i].coord \in Coords /\ op.muts[i].state \in States
  BY Zenon, <1>1 DEF Mutation
<1>3. \A c \in Mutated : IndexOf(c) \in 1..Len(op.muts)
  BY Zenon, <1>1 DEF Mutated, IndexOf
<1>4. Mutated \subseteq Coords
  BY Zenon, <1>1, <1>2 DEF Mutated
<1>5. QED
  BY Zenon, <1>2, <1>3, <1>4

LEMMA OddAlternates ==
    ASSUME NEW n \in Nat
    PROVE  Odd(n + 1) <=> ~Odd(n)
BY DEF Odd

(***************************************************************************)
(* The store implements AtomicChunks                                       *)
(***************************************************************************)

Chunks == [c \in Coords |-> Recoverable(c)]

Batch == [c \in Mutated |-> Content(op.muts[IndexOf(c)].state)]

(* The alternatives of Phase exclude each other. *)
PhaseTable ==
    /\ pc \in Opening => Phase = "down"
    /\ poisoned = "undecided" => Phase = "halted"
    /\ pc = "idle" /\ poisoned # "undecided" => Phase = "ready"
    /\ pc \notin Opening \cup {"idle"} /\ op.kind = "flush" => Phase = "flushing"
    /\ pc \notin Opening \cup {"idle"} /\ op.kind # "flush" /\ poisoned # "undecided"
       => Phase = IF Decided THEN "done" ELSE "called"
    /\ Request = IF Phase \in {"called", "done"} THEN Batch ELSE [c \in {} |-> c]

LEMMA PhaseIs == TypeInv /\ CallInv => PhaseTable
<1> SUFFICES ASSUME TypeInv, CallInv PROVE PhaseTable
  OBVIOUS
<1>1. pc \in Opening \cup {"idle"} => op.kind = "none"
  BY DEF CallInv, NoOp
<1>2. poisoned = "undecided" => pc \in {"reject", "idle"}
  BY Zenon DEF CallInv
<1>3. Decided => pc \in {"post", "finish"} \/ (pc \in Retrying /\ ret = "finish")
  BY Zenon DEF Decided, Retrying
<1>4. Decided => op.kind # "flush"
  BY Zenon, <1>3 DEF CallInv, Writing, IsWrite
<1>5. pc = "reject" => op.kind # "flush"
  BY Zenon DEF CallInv, Writing, IsWrite
<1>6. pc \in Opening => Phase = "down"
  BY Zenon, <1>1, <1>2, <1>3 DEF Phase, Opening, Retrying
<1>7. poisoned = "undecided" => Phase = "halted"
  BY Zenon, <1>1, <1>2, <1>3, <1>5 DEF Phase, Opening, Retrying
<1>8. pc = "idle" /\ poisoned # "undecided" => Phase = "ready"
  BY Zenon, <1>1, <1>3 DEF Phase, Opening, Retrying
<1>9. pc \notin Opening \cup {"idle"} /\ op.kind = "flush" => Phase = "flushing"
  BY Zenon, <1>2, <1>4, <1>5 DEF Phase
<1>10. pc \notin Opening \cup {"idle"} /\ op.kind # "flush" /\ poisoned # "undecided"
       => Phase = IF Decided THEN "done" ELSE "called"
  BY Zenon DEF Phase
<1>11. QED
  BY Zenon, <1>6, <1>7, <1>8, <1>9, <1>10 DEF PhaseTable, Request, Batch

LEMMA AtomicInit == TypeInv /\ RecoveryInv /\ Init => Atomic!Init
<1> SUFFICES ASSUME TypeInv, RecoveryInv, Init PROVE Atomic!Init
  OBVIOUS
<1>1. PhaseTable
  BY Zenon, PhaseIs DEF RecoveryInv
<1>2. Phase = "down" /\ Request = [c \in {} |-> c]
  BY Zenon, <1>1 DEF PhaseTable, Init, Opening
<1>3. ASSUME NEW c \in Coords PROVE Recoverable(c) \in Values \cup {Absent}
  <2>1. Recoverable(c) = Content(image[c])
    <3>1. \A i \in 1..Kept : wal[i].coord # c
      BY DEF Init, Kept, NoIntent
    <3>2. QED
      BY Zenon, <3>1, WithoutRecords
  <2>2. image[c] \in Images
    BY Zenon DEF TypeInv, DirectoryOK
  <2>3. QED
    BY Zenon, <2>1, <2>2 DEF Content, Images, States
<1>4. Chunks \in [Coords -> Values \cup {Absent}]
  BY Zenon, <1>3 DEF Chunks
<1>5. QED
  BY Zenon, <1>2, <1>4 DEF Atomic!Init, Atomic!NoRequest, Init, Chunks

(* A step that changes neither the recoverable content, nor the phase, nor *)
(* the answer, nor the operation a request is read from.                   *)
LEMMA AtomicStutter ==
    ASSUME PhaseTable, PhaseTable', \A c \in Coords : Recoverable(c)' = Recoverable(c),
           Phase' = Phase, result' = result, op' = op \/ Phase \notin {"called", "done"}
    PROVE  UNCHANGED Atomic!vars
<1>1. Chunks' = Chunks
  BY Zenon DEF Chunks
<1>2. op' = op => Batch' = Batch
  BY DEF Batch, Mutated, IndexOf
<1>3. Request' = Request
  BY Zenon, <1>2 DEF PhaseTable
<1>4. QED
  BY Zenon, <1>1, <1>3 DEF Atomic!vars, Chunks

LEMMA AtomicOpenStep ==
    ASSUME TypeInv, TypeInv', RecoveryInv, CallInv', CutInv', PhaseTable, PhaseTable', OpenStep,
           \A c \in Coords : Recoverable(c)' = Recoverable(c)
    PROVE  Atomic!Start \/ UNCHANGED Atomic!vars
<1>2. pc \in Opening /\ (pc' \in Opening \/ (pc' = "idle" /\ UNCHANGED <<result, poisoned>>))
  BY ZenonT(40) DEF Opening, OpenStep, beginWriterSnapshot, loadVersionClock, recoverConditionalIntent,
     clearRecoveredIntent, reserveRecoveryVersions, RecoverVersion, ReplayRecord, replaceWALAfterReplay,
     finishRecoveredSnapshot, OpenContinues, ProcessGone, call
<1>3. Phase = "down" /\ result = "none" /\ poisoned = "no"
  BY Zenon, <1>2 DEF PhaseTable, RecoveryInv, CallInv
<1>4. CASE pc' \in Opening
  <2>1. Phase' = "down" /\ result' = "none"
    BY Zenon, <1>4 DEF PhaseTable, CallInv
  <2>2. QED
    BY Zenon, <1>3, <2>1, AtomicStutter
<1>5. CASE pc' = "idle" /\ UNCHANGED <<result, poisoned>>
  <2>1. Phase' = "ready" /\ Request' = Request
    BY Zenon, <1>3, <1>5 DEF PhaseTable
  <2>2. Chunks' = Chunks
    BY Zenon DEF Chunks
  <2>3. QED
    BY Zenon, <1>3, <1>5, <2>1, <2>2 DEF Atomic!Start, Chunks
<1>6. QED
  BY Zenon, <1>2, <1>4, <1>5

LEMMA AtomicRetryStep ==
    ASSUME TypeInv, TypeInv', RecoveryInv, CallInv', PhaseTable, PhaseTable', RetryStep,
           \A c \in Coords : Recoverable(c)' = Recoverable(c)
    PROVE  UNCHANGED Atomic!vars
<1>2. /\ pc \in Retrying
      /\ pc' \in Retrying \/ pc' = ret \/ (pc' = "fail" /\ ret = "sync")
      /\ UNCHANGED <<op, result, ret, poisoned>>
  BY ZenonT(40) DEF RetryStep, PublishVersion, PublishImage, RetryDone, persistCheckpointChunk, clearWAL, Retrying,
     AfterRetry, call
<1>3. poisoned # "undecided" /\ ret \in {"begin", "finish", "sync"} /\ (op.kind # "flush" => ret # "sync")
  BY Zenon, <1>2 DEF RecoveryInv, CallInv, IsWrite, Retrying
<1>4. {pc, pc'} \cap (Opening \cup {"idle"}) = {}
  BY Zenon, <1>2, <1>3 DEF Opening, Retrying
<1>5. op.kind # "flush" => Decided' = Decided
  BY Zenon, <1>2, <1>3 DEF Decided, Retrying
<1>6. Phase' = Phase
  BY <1>2, <1>3, <1>4, <1>5 DEF PhaseTable
<1>7. QED
  BY Zenon, <1>2, <1>6, AtomicStutter

(* The decision: the batch takes effect, or the store halts without        *)
(* knowing whether it did, or it goes on to the rollback.                  *)
LEMMA AtomicDecision ==
    ASSUME TypeInv, TypeInv', RecoveryInv, CallInv', CutInv', PhaseTable, PhaseTable',
           PublishCommittedIntent, ContentMoves
    PROVE  Atomic!TakeEffect \/ Atomic!Halt \/ UNCHANGED Atomic!vars
<1>1. /\ pc = "commit" /\ poisoned = "no" /\ op.kind # "flush" /\ UNCHANGED <<op, result, ret>>
      /\ intent.state = "rollback"
  BY Zenon DEF PublishCommittedIntent, call, RecoveryInv, CallInv, CutInv, Writing, Retrying, IsWrite
<1>2. Phase = "called" /\ Request = Batch
  BY Zenon, <1>1 DEF PhaseTable, Opening, Decided
<1>3. Mutated \subseteq Coords /\ DOMAIN Batch = Mutated
  BY Zenon, BatchIsTyped DEF Batch
<1>4. Atomic!Applied = [c \in Coords |-> IF c \in Mutated THEN Content(op.muts[IndexOf(c)].state) ELSE Recoverable(c)]
  BY Zenon, <1>2, <1>3 DEF Atomic!Applied, Batch
<1>5. intent' = intent => Chunks' = Chunks
  <2>1. SUFFICES ASSUME intent' = intent PROVE \A c \in Coords : Recoverable(c)' = Recoverable(c)
    BY Zenon DEF Chunks
  <2>2. QED
    BY Zenon, <2>1, ContentUntouched DEF PublishCommittedIntent, files
<1>6. intent'.state # "rollback" => Chunks' = Atomic!Applied
  <2>1. SUFFICES ASSUME intent'.state # "rollback" PROVE Chunks' = Atomic!Applied
    OBVIOUS
  <2>2. \A c \in Coords :
           Recoverable(c)' = IF c \in Mutated THEN Content(op.muts[IndexOf(c)].state) ELSE Recoverable(c)
    BY Zenon, <2>1 DEF ContentMoves
  <2>3. QED
    BY Zenon, <1>4, <2>2 DEF Chunks
<1>7. intent' = intent \/ intent'.state = "committed"
  BY Zenon, LogIsTyped DEF PublishCommittedIntent, Replaced, Intents
<1>8. CASE pc' = "rollback" /\ poisoned' = poisoned
  <2>1. intent' = intent
    BY Zenon, <1>1, <1>8 DEF PublishCommittedIntent, Replaced
  <2>2. Phase' = Phase
    BY Zenon, <1>1, <1>2, <1>8 DEF PhaseTable, Opening, Decided
  <2>3. \A c \in Coords : Recoverable(c)' = Recoverable(c)
    BY Zenon, <2>1, ContentUntouched DEF PublishCommittedIntent, files
  <2>4. QED
    BY Zenon, <1>1, <2>2, <2>3, AtomicStutter
<1>9. CASE pc' = "post" /\ poisoned' = poisoned
  <2>1. intent'.state # "rollback"
    BY Zenon, <1>9 DEF CutInv
  <2>2. Phase' = "done"
    BY Zenon, <1>1, <1>9 DEF PhaseTable, Opening, Decided
  <2>3. Batch' = Batch
    BY <1>1 DEF Batch, Mutated, IndexOf
  <2>4. Request' = Request
    BY Zenon, <1>2, <2>2, <2>3 DEF PhaseTable
  <2>5. QED
    BY Zenon, <1>1, <1>2, <1>6, <2>1, <2>2, <2>4 DEF Atomic!TakeEffect, Chunks
<1>10. CASE poisoned' = "undecided"
  <2>1. Phase' = "halted"
    BY Zenon, <1>10 DEF PhaseTable
  <2>2. Request' = [c \in {} |-> c]
    BY Zenon, <2>1 DEF PhaseTable
  <2>3. Chunks' \in {Chunks, Atomic!Applied}
    BY Zenon, <1>5, <1>6, <1>7
  <2>4. QED
    BY Zenon, <1>1, <1>2, <2>1, <2>2, <2>3 DEF Atomic!Halt, Atomic!NoRequest, Chunks
<1>11. QED
  BY Zenon, <1>1, <1>8, <1>9, <1>10 DEF PublishCommittedIntent, Poison

LEMMA AtomicWriteStep ==
    ASSUME TypeInv, TypeInv', RecoveryInv, CallInv', CutInv', PhaseTable, PhaseTable', WriteStep,
           ContentMoves
    PROVE  Atomic!Next \/ UNCHANGED Atomic!vars
<1>1. CASE PublishCommittedIntent
  BY Zenon, <1>1, AtomicDecision DEF Atomic!Next
<1>2. CASE ~PublishCommittedIntent
  <2>1. \A c \in Coords : Recoverable(c)' = Recoverable(c)
    BY Zenon, <1>2 DEF ContentMoves, Steady
  <2>2. Chunks' = Chunks
    BY Zenon, <2>1 DEF Chunks
  <2>a. IsWrite /\ op.kind # "flush" /\ pc \notin Opening \cup {"idle"}
    BY Zenon DEF WriteStep, beginWriteSnapshot, RefuseBatch, ReserveVersions, PublishRollbackIntent,
       CleanFailedIntent, appendWAL, PublishCommittedIntent, AdmitCommitted, finishCommittedSnapshot, rollbackWAL,
       clearRejectedIntent, finishRejectedSnapshot, RecoveryInv, CallInv, Writing, Opening, IsWrite
  <2>3. CASE beginWriteSnapshot \/ RefuseBatch \/ ReserveVersions \/ PublishRollbackIntent
             \/ CleanFailedIntent \/ appendWAL \/ rollbackWAL \/ clearRejectedIntent
    <3>1. /\ pc \in {"begin", "validate", "intent", "unpublish", "append", "rollback", "clearRejected"}
          /\ pc' \in {"validate", "fail", "intent", "unpublish", "reject", "append", "commit",
                      "rollback", "clearRejected"}
          /\ poisoned' \in {poisoned, Poison("repair")}
          /\ UNCHANGED <<op, result>>
      BY ZenonT(40), <2>3 DEF beginWriteSnapshot, RefuseBatch, ReserveVersions, PublishRollbackIntent,
         CleanFailedIntent, appendWAL, rollbackWAL, clearRejectedIntent, call
    <3>2. poisoned # "undecided" /\ poisoned' # "undecided"
      BY Zenon, <3>1 DEF RecoveryInv, CallInv, Poison
    <3>3. Phase = "called" /\ Phase' = "called"
      BY Zenon, <2>a, <3>1, <3>2 DEF PhaseTable, Opening, Decided
    <3>4. QED
      BY Zenon, <2>1, <3>1, <3>3, AtomicStutter
  <2>4. CASE AdmitCommitted
    <3>1. /\ pc = "post" /\ pc' = "retry" /\ ret' = "finish" /\ poisoned' \in {poisoned, Poison("repair")}
          /\ UNCHANGED <<op, result>>
      BY Zenon, <2>4 DEF AdmitCommitted, call
    <3>2. poisoned # "undecided" /\ poisoned' # "undecided"
      BY Zenon, <3>1 DEF RecoveryInv, CallInv, Poison
    <3>3. Phase = "done" /\ Phase' = "done"
      BY Zenon, <2>a, <3>1, <3>2 DEF PhaseTable, Opening, Decided
    <3>4. QED
      BY Zenon, <2>1, <3>1, <3>3, AtomicStutter
  <2>5. CASE finishCommittedSnapshot
    <3>1. /\ pc = "finish" /\ pc' = "idle" /\ poisoned' \in {poisoned, Poison("repair")}
          /\ result' = "ok"
      BY Zenon, <2>5 DEF finishCommittedSnapshot, Return
    <3>2. poisoned # "undecided" /\ poisoned' # "undecided"
      BY Zenon, <3>1 DEF RecoveryInv, CallInv, Poison
    <3>3. Phase = "done" /\ Phase' = "ready" /\ Request' = [c \in {} |-> c]
      BY Zenon, <2>a, <3>1, <3>2 DEF PhaseTable, Opening, Decided
    <3>4. Atomic!Acknowledge
      BY Zenon, <2>2, <3>1, <3>3 DEF Atomic!Acknowledge, Atomic!Answer, Atomic!NoRequest, Chunks
    <3>5. QED
      BY Zenon, <3>4 DEF Atomic!Next
  <2>6. CASE finishRejectedSnapshot
    <3>1. /\ pc = "reject" /\ pc' = "idle" /\ poisoned' \in {poisoned, Poison("repair")}
          /\ result' = "error"
      BY Zenon, <2>6 DEF finishRejectedSnapshot, Return
    <3>2. CASE poisoned = "undecided"
      <4>1. Phase = "halted" /\ Phase' = "halted" /\ Request' = Request
        BY Zenon, <3>1, <3>2 DEF PhaseTable, Poison
      <4>2. Atomic!AnswerHalted
        BY Zenon, <2>2, <3>1, <4>1 DEF Atomic!AnswerHalted, Chunks
      <4>3. QED
        BY Zenon, <4>2 DEF Atomic!Next
    <3>3. CASE poisoned # "undecided"
      <4>1. Phase = "called" /\ Phase' = "ready" /\ Request' = [c \in {} |-> c]
        BY Zenon, <2>a, <3>1, <3>3 DEF PhaseTable, Opening, Decided, RecoveryInv, CallInv, Poison
      <4>2. Atomic!Refuse
        BY Zenon, <2>2, <3>1, <4>1 DEF Atomic!Refuse, Atomic!Answer, Atomic!NoRequest, Chunks
      <4>3. QED
        BY ZenonT(40), <4>2 DEF Atomic!Next
    <3>4. QED
      BY Zenon, <3>2, <3>3
  <2>7. QED
    BY Zenon, <1>2, <2>3, <2>4, <2>5, <2>6 DEF WriteStep
<1>3. QED
  BY Zenon, <1>1, <1>2

(* A write call hands over a batch. *)
LEMMA AtomicSubmit ==
    ASSUME TypeInv, TypeInv', RecoveryInv, CallInv', PhaseTable, PhaseTable', WriteChunk \/ ConditionalWriteChunks,
           \A c \in Coords : Recoverable(c)' = Recoverable(c)
    PROVE  Atomic!Submit
<1>1. /\ pc = "idle" /\ pc' = "retry" /\ ret' = "begin" /\ poisoned = "no" /\ poisoned' = "no"
      /\ result' = "none"
  BY Zenon DEF WriteChunk, ConditionalWriteChunks, Call
<1>2. IsWrite'
  BY Zenon, <1>1 DEF CallInv, Retrying
<1>3. Phase = "ready" /\ Phase' = "called"
  <2>1. Phase = "ready"
    BY Zenon, <1>1 DEF PhaseTable
  <2>2. ~Decided'
    BY Zenon, <1>1 DEF Decided
  <2>3. op'.kind # "flush"
    BY Zenon, <1>2 DEF IsWrite
  <2>4. QED
    BY Zenon, <1>1, <2>1, <2>2, <2>3 DEF PhaseTable, Opening
<1>4. Request' = Batch'
  BY Zenon, <1>3 DEF PhaseTable
<1>5. /\ Mutated' \subseteq Coords
      /\ \A c \in Mutated' : op'.muts[IndexOf(c)'].state \in States
  <2>1. op'.muts \in Seq(Mutation)
    BY Zenon DEF TypeInv, ProcessOK, Ops
  <2>2. DOMAIN op'.muts = 1..Len(op'.muts) /\ \A i \in 1..Len(op'.muts) : op'.muts[i] \in Mutation
    BY <2>1
  <2>3. \A i \in DOMAIN op'.muts : op'.muts[i].coord \in Coords /\ op'.muts[i].state \in States
    BY Zenon, <2>2 DEF Mutation
  <2>4. Mutated' \subseteq Coords
    BY Zenon, <2>3 DEF Mutated
  <2>5. ASSUME NEW c \in Mutated' PROVE IndexOf(c)' \in DOMAIN op'.muts
    BY Zenon DEF Mutated, IndexOf
  <2>6. QED
    BY Zenon, <2>3, <2>4, <2>5
<1>6. Mutated' # {}
  <2>1. op'.muts \in Seq(Mutation) /\ op'.muts # <<>>
    BY Zenon, <1>2 DEF TypeInv, ProcessOK, Ops, IsWrite
  <2>2. 1 \in DOMAIN op'.muts
    BY <2>1
  <2>3. QED
    BY Zenon, <2>2 DEF Mutated
<1>7. Batch' \in [Mutated' -> Values \cup {Absent}]
  BY Zenon, <1>5 DEF Batch, Content, States
<1>8. Batch' \in Atomic!Requests
  BY Zenon, <1>5, <1>6, <1>7 DEF Atomic!Requests
<1>9. Chunks' = Chunks
  BY Zenon DEF Chunks
<1>10. QED
  BY Zenon, <1>1, <1>3, <1>4, <1>8, <1>9 DEF Atomic!Submit, Chunks

(* Every step of the store is a step of AtomicChunks or changes nothing it *)
(* shows.                                                                  *)
LEMMA AtomicNext ==
    ASSUME TypeInv, TypeInv', RecoveryInv, RecoveryInv', PhaseTable, PhaseTable', [Next]_vars,
           ContentMoves
    PROVE  Atomic!Next \/ UNCHANGED Atomic!vars
<1>a. CallInv' /\ CutInv'
  BY Zenon DEF RecoveryInv
<1>b. ~PublishCommittedIntent => \A c \in Coords : Recoverable(c)' = Recoverable(c)
  BY Zenon DEF ContentMoves, Steady
<1>c. ~PublishCommittedIntent => Chunks' = Chunks
  BY Zenon, <1>b DEF Chunks
<1>1. CASE OpenStep /\ ~PublishCommittedIntent
  BY Zenon, <1>1, <1>a, <1>b, AtomicOpenStep DEF Atomic!Next
<1>2. CASE RetryStep /\ ~PublishCommittedIntent
  BY Zenon, <1>2, <1>a, <1>b, AtomicRetryStep
<1>3. CASE WriteStep
  BY Zenon, <1>3, <1>a, AtomicWriteStep
<1>4. CASE WriteChunk \/ ConditionalWriteChunks
  <2>1. ~PublishCommittedIntent
    BY Zenon, <1>4 DEF WriteChunk, ConditionalWriteChunks, Call, PublishCommittedIntent
  <2>2. Atomic!Submit
    BY Zenon, <1>4, <1>a, <1>b, <2>1, AtomicSubmit
  <2>3. QED
    BY Zenon, <2>2 DEF Atomic!Next
<1>5. CASE FlushWAL
  <2>1. /\ pc = "idle" /\ pc' = "retry" /\ poisoned = "no" /\ poisoned' = "no"
        /\ result' = "none" /\ op'.kind = "flush"
    BY Zenon, <1>5 DEF FlushWAL, Call
  <2>2. Phase = "ready" /\ Phase' = "flushing" /\ Request' = Request
    BY Zenon, <2>1 DEF PhaseTable, Opening
  <2>3. Chunks' = Chunks
    BY Zenon, <1>c, <2>1 DEF PublishCommittedIntent
  <2>4. Atomic!Flush
    BY Zenon, <2>1, <2>2, <2>3 DEF Atomic!Flush, Chunks
  <2>5. QED
    BY Zenon, <2>4 DEF Atomic!Next
<1>6. CASE ReturnError
  <2>1. /\ pc = "fail" /\ pc' = "idle" /\ poisoned' = poisoned /\ result' = "error"
    BY Zenon, <1>6 DEF ReturnError, Return
  <2>2. poisoned # "undecided"
    BY Zenon, <2>1 DEF RecoveryInv, CallInv
  <2>3. Phase \in {"called", "flushing"} /\ Phase' = "ready" /\ Request' = [c \in {} |-> c]
    BY Zenon, <2>1, <2>2 DEF PhaseTable, Opening, Decided
  <2>4. Chunks' = Chunks
    BY Zenon, <1>c, <2>1 DEF PublishCommittedIntent
  <2>5. Atomic!Refuse \/ Atomic!AnswerFlush
    BY Zenon, <2>1, <2>3, <2>4 DEF Atomic!Refuse, Atomic!AnswerFlush, Atomic!Answer, Atomic!NoRequest, Chunks
  <2>6. QED
    BY Zenon, <2>5 DEF Atomic!Next
<1>7. CASE FlushBarrier
  <2>1. /\ pc = "sync" /\ poisoned' = poisoned
        /\ \/ pc' = "idle" /\ result' = "ok"
           \/ pc' = "fail" /\ UNCHANGED <<op, result>>
    BY ZenonT(40), <1>7 DEF FlushBarrier, Return, call
  <2>2. poisoned # "undecided" /\ op.kind = "flush"
    BY Zenon, <2>1 DEF RecoveryInv, CallInv
  <2>3. ~PublishCommittedIntent
    BY Zenon, <2>1 DEF PublishCommittedIntent
  <2>4. Phase = "flushing"
    BY Zenon, <2>1, <2>2 DEF PhaseTable, Opening
  <2>5. CASE pc' = "idle" /\ result' = "ok"
    <3>1. Phase' = "ready" /\ Request' = [c \in {} |-> c]
      BY Zenon, <2>1, <2>2, <2>5 DEF PhaseTable
    <3>2. Atomic!AnswerFlush
      BY Zenon, <1>c, <2>3, <2>4, <2>5, <3>1 DEF Atomic!AnswerFlush, Atomic!Answer, Atomic!NoRequest, Chunks
    <3>3. QED
      BY Zenon, <3>2 DEF Atomic!Next
  <2>6. CASE pc' = "fail" /\ UNCHANGED <<op, result>>
    <3>1. Phase' = "flushing"
      BY Zenon, <2>2, <2>6 DEF PhaseTable, Opening
    <3>2. QED
      BY Zenon, <1>b, <2>3, <2>4, <2>6, <3>1, AtomicStutter
  <2>7. QED
    BY Zenon, <2>1, <2>5, <2>6
<1>8. CASE ReadChunk \/ Evict
  <2>1. pc = "idle" /\ UNCHANGED <<pc, poisoned, op, result>>
    BY Zenon, <1>8 DEF ReadChunk, Evict, call
  <2>2. Phase' = Phase /\ ~PublishCommittedIntent
    BY Zenon, <2>1 DEF PhaseTable, PublishCommittedIntent
  <2>3. QED
    BY Zenon, <1>b, <2>1, <2>2, AtomicStutter
<1>9. CASE Close \/ Crash
  <2>1. pc # "closed" /\ pc' = "closed" /\ result' = "none"
    BY Zenon, <1>9 DEF Close, Crash, ProcessGone
  <2>2. ~PublishCommittedIntent
    BY Zenon, <2>1 DEF PublishCommittedIntent
  <2>3. Phase' = "down" /\ Request' = [c \in {} |-> c]
    BY Zenon, <2>1 DEF PhaseTable, Opening
  <2>4. CASE pc \in Opening
    <3>1. Phase = "down" /\ result = "none"
      BY Zenon, <2>4 DEF PhaseTable, RecoveryInv, CallInv
    <3>2. QED
      BY Zenon, <1>b, <2>1, <2>2, <2>3, <3>1, AtomicStutter
  <2>5. CASE pc \notin Opening
    <3>1. Phase # "down"
      BY Zenon, <2>5 DEF PhaseTable
    <3>2. Atomic!Stop
      BY Zenon, <1>c, <2>1, <2>2, <2>3, <3>1 DEF Atomic!Stop, Atomic!NoRequest, Chunks
    <3>3. QED
      BY Zenon, <3>2 DEF Atomic!Next
  <2>6. QED
    BY Zenon, <2>4, <2>5
<1>10. CASE UNCHANGED vars
  <2>1. UNCHANGED <<pc, poisoned, op, result, ret, wal, intent, image>>
    BY Zenon, <1>10 DEF vars, call, logs, files
  <2>2. \A c \in Coords : Recoverable(c)' = Recoverable(c)
    BY <2>1 DEF Recoverable, Kept
  <2>3. Phase' = Phase
    BY Zenon, <2>1 DEF Phase, Decided
  <2>4. QED
    BY Zenon, <2>1, <2>2, <2>3, AtomicStutter
<1>11. QED
  BY Zenon, <1>1, <1>2, <1>3, <1>4, <1>5, <1>6, <1>7, <1>8, <1>9, <1>10 DEF Next, WriteStep

(***************************************************************************)
(* Versions order contents                                                 *)
(***************************************************************************)

(* While a decided batch is not yet admitted, or its decision could not be *)
(* read back, a read still shows the content before it; cache and image    *)
(* agree on that content.                                                  *)
StaleShows ==
    pc \notin Opening => \A c \in Coords : ~Fresh(c) /\ ~IsPending(c) =>
        cache[c] = Absent \/ Content(cache[c]) = Content(image[c])

(* The content that goes with the current version of a chunk. *)
Standing(c) == IF Fresh(c) THEN Recoverable(c) ELSE Observed(c)

BehindRunning(s, c) ==
    /\ s.version <= currentChunkVersion(c)
    /\ s.version = currentChunkVersion(c) => s.content = Standing(c)

(* A directory whose version file still goes with an older content is one  *)
(* whose image differs from the last record: recovery gives it a new       *)
(* version before it is opened.                                            *)
BehindOpening(s, c) ==
    /\ s.version <= ver[c]
    /\ s.version = ver[c] =>
          \/ s.content = Recoverable(c)
          \/ /\ Content(image[c]) # Recoverable(c)
             /\ pc # "opened"
             /\ pc = "recover" => recovered[c] # 0

(* What a client was shown of a chunk is older than what the chunk is now, *)
(* or the same.                                                            *)
Behind(s, c) == IF pc \in Opening THEN BehindOpening(s, c) ELSE BehindRunning(s, c)

LEMMA ShownFresh ==
    ASSUME RecoveryInv, ReadsInv, pc \notin Opening, pc # "checkpoint", NEW c \in Coords, Fresh(c)
    PROVE  /\ Observed(c) = Recoverable(c)
           /\ ~IsPending(c) => cache[c] = Absent \/ Content(cache[c]) = Content(image[c])
<1>1. ImageShows(c) /\ CacheShows(c)
  BY Zenon DEF ReadsInv
<1>2. IsPending(c) => Content(pending[c].state) = Recoverable(c)
  BY Zenon DEF RecoveryInv, PendingIsRecoverable
<1>3. QED
  BY Zenon, <1>1, <1>2 DEF Observed, ImageShows, CacheShows

(* A chunk stops being fresh at the commit decision only. *)
LEMMA StaleSteps ==
    ASSUME TypeInv, RecoveryInv, [Next]_vars, ~PublishCommittedIntent,
           pc' = "post" \/ poisoned' = "undecided"
    PROVE  \/ UNCHANGED vars
           \/ poisoned = "undecided" /\ (finishRejectedSnapshot \/ ReadChunk \/ Evict)
<1>1. CASE pc' = "post"
  <2>1. ret # "post"
    BY Zenon DEF TypeInv, ProcessOK
  <2>2. ~OpenStep
    BY ZenonT(40), <1>1 DEF OpenStep, beginWriterSnapshot, loadVersionClock, recoverConditionalIntent,
       clearRecoveredIntent, reserveRecoveryVersions, RecoverVersion, ReplayRecord, replaceWALAfterReplay,
       finishRecoveredSnapshot, OpenContinues, ProcessGone
  <2>3. ~RetryStep
    BY ZenonT(40), <1>1, <2>1 DEF RetryStep, PublishVersion, PublishImage, RetryDone, persistCheckpointChunk,
       clearWAL, AfterRetry
  <2>4. ~WriteStep
    BY ZenonT(40), <1>1 DEF WriteStep, beginWriteSnapshot, RefuseBatch, ReserveVersions, PublishRollbackIntent,
       CleanFailedIntent, appendWAL, AdmitCommitted, finishCommittedSnapshot, rollbackWAL, clearRejectedIntent,
       finishRejectedSnapshot, Return
  <2>5. ~(WriteChunk \/ ConditionalWriteChunks \/ FlushWAL \/ ReturnError \/ FlushBarrier \/ ReadChunk \/ Evict)
    BY ZenonT(40), <1>1 DEF WriteChunk, ConditionalWriteChunks, FlushWAL, Call, ReturnError, FlushBarrier, Return,
       ReadChunk, Evict
  <2>6. ~(Close \/ Crash)
    BY Zenon, <1>1 DEF Close, Crash, ProcessGone
  <2>7. QED
    BY Zenon, <2>2, <2>3, <2>4, <2>5, <2>6 DEF Next
<1>2. CASE poisoned' = "undecided"
  <2>1. CASE OpenStep
    <3>1. poisoned' \in {poisoned, "no"} /\ pc \in Opening
      BY ZenonT(40), <2>1 DEF OpenStep, beginWriterSnapshot, loadVersionClock, recoverConditionalIntent,
         clearRecoveredIntent, reserveRecoveryVersions, RecoverVersion, ReplayRecord, replaceWALAfterReplay,
         finishRecoveredSnapshot, OpenContinues, ProcessGone, Opening
    <3>2. QED
      BY Zenon, <1>2, <3>1 DEF RecoveryInv, CallInv
  <2>2. CASE RetryStep
    <3>1. poisoned' = poisoned /\ pc \in {"retry", "publish", "checkpoint"}
      BY ZenonT(40), <2>2 DEF RetryStep, PublishVersion, PublishImage, RetryDone, persistCheckpointChunk, clearWAL
    <3>2. QED
      BY Zenon, <1>2, <3>1 DEF RecoveryInv, CallInv
  <2>3. CASE WriteStep /\ ~finishRejectedSnapshot
    <3>1. poisoned' \in {poisoned, "repair"} /\ pc \in Writing \ {"reject"}
      BY ZenonT(40), <2>3 DEF WriteStep, beginWriteSnapshot, RefuseBatch, ReserveVersions, PublishRollbackIntent,
         CleanFailedIntent, appendWAL, AdmitCommitted, finishCommittedSnapshot, rollbackWAL, clearRejectedIntent,
         Poison, Writing
    <3>2. QED
      BY Zenon, <1>2, <3>1 DEF RecoveryInv, CallInv, Writing
  <2>4. CASE WriteChunk \/ ConditionalWriteChunks \/ FlushWAL \/ ReturnError \/ FlushBarrier
    <3>1. poisoned' = poisoned /\ (pc \in {"fail", "sync"} \/ poisoned = "no")
      BY ZenonT(40), <2>4 DEF WriteChunk, ConditionalWriteChunks, FlushWAL, Call, ReturnError, FlushBarrier
    <3>2. QED
      BY Zenon, <1>2, <3>1 DEF RecoveryInv, CallInv
  <2>5. CASE finishRejectedSnapshot \/ ReadChunk \/ Evict
    <3>1. poisoned' \in {poisoned, "repair"}
      BY ZenonT(40), <2>5 DEF finishRejectedSnapshot, Poison, ReadChunk, Evict
    <3>2. QED
      BY Zenon, <1>2, <2>5, <3>1
  <2>6. CASE Close \/ Crash
    BY Zenon, <1>2, <2>6 DEF Close, Crash, ProcessGone
  <2>7. QED
    BY Zenon, <2>1, <2>2, <2>3, <2>4, <2>5, <2>6 DEF Next
<1>3. QED
  BY Zenon, <1>1, <1>2

LEMMA StaleNext ==
    ASSUME TypeInv, RecoveryInv, ReadsInv, StaleShows, [Next]_vars
    PROVE  StaleShows'
<1> SUFFICES ASSUME pc' \notin Opening, NEW c \in Coords, ~Fresh(c)', ~IsPending(c)'
             PROVE  cache'[c] = Absent \/ Content(cache'[c]) = Content(image'[c])
  BY Zenon DEF StaleShows
<1>1. pc' = "post" \/ poisoned' = "undecided"
  BY Zenon DEF Fresh
<1>2. CASE PublishCommittedIntent
  <2>1. pc = "commit" /\ UNCHANGED <<image, pending, cache>>
    BY Zenon, <1>2 DEF PublishCommittedIntent, files, held
  <2>2. Fresh(c) /\ pc \notin Opening /\ pc # "checkpoint"
    BY Zenon, <2>1 DEF Fresh, RecoveryInv, CallInv, Opening
  <2>3. ~IsPending(c)
    BY Zenon, <2>1 DEF IsPending
  <2>4. cache[c] = Absent \/ Content(cache[c]) = Content(image[c])
    BY Zenon, <2>2, <2>3, ShownFresh
  <2>5. QED
    BY Zenon, <2>1, <2>4
<1>3. CASE UNCHANGED vars
  <2>1. UNCHANGED <<image, pending, cache, pc, poisoned, op>>
    BY Zenon, <1>3 DEF vars, files, held, call
  <2>2. ~Fresh(c) /\ ~IsPending(c)
    BY Zenon, <2>1 DEF Fresh, IsPending, Mutated
  <2>3. QED
    BY Zenon, <2>1, <2>2 DEF StaleShows
<1>4. CASE poisoned = "undecided" /\ (finishRejectedSnapshot \/ ReadChunk \/ Evict)
  <2>1. /\ pc \in {"reject", "idle"} /\ UNCHANGED <<image, pending>>
        /\ \/ cache' = cache
           \/ \E d \in Coords : cache' = [cache EXCEPT ![d] = Absent]
           \/ \E d \in Coords : cache' = [cache EXCEPT ![d] = image[d]]
    BY ZenonT(40), <1>4 DEF finishRejectedSnapshot, ReadChunk, Evict, files, held
  <2>2. ~Fresh(c) /\ ~IsPending(c) /\ pc \notin Opening
    BY Zenon, <1>4, <2>1 DEF Fresh, IsPending, Opening
  <2>3. cache[c] = Absent \/ Content(cache[c]) = Content(image[c])
    BY Zenon, <2>2 DEF StaleShows
  <2>4. cache'[c] \in {cache[c], Absent, image[c]}
    BY Zenon, <2>1 DEF TypeInv, ProcessOK
  <2>5. QED
    BY Zenon, <2>1, <2>3, <2>4
<1>5. QED
  BY Zenon, <1>1, <1>2, <1>3, <1>4, StaleSteps

LEMMA VersionTypes ==
    ASSUME TypeInv, NEW c \in Coords
    PROVE  /\ ver[c] \in Nat /\ pending[c].version \in Nat /\ recovered[c] \in Nat
           /\ currentChunkVersion(c) \in Nat
BY Zenon DEF currentChunkVersion, TypeInv, DirectoryOK, ProcessOK, Publications

LEMMA BehindHeld ==
    ASSUME NEW s, NEW c \in Coords, Behind(s, c), pc \notin Opening, pc' \notin Opening,
           currentChunkVersion(c)' = currentChunkVersion(c), Standing(c)' = Standing(c)
    PROVE  Behind(s, c)'
<1>1. BehindRunning(s, c)
  BY Zenon DEF Behind
<1>2. BehindRunning(s, c)'
  BY Zenon, <1>1 DEF BehindRunning
<1>3. QED
  BY Zenon, <1>2 DEF Behind

(* The process is gone: what was shown of a chunk with nothing pending is  *)
(* what its files still say.                                               *)
LEMMA BehindGone ==
    ASSUME RecoveryInv, StaleShows, NEW s, NEW c \in Coords, Behind(s, c), ~IsPending(c), pc' = "closed",
           UNCHANGED <<ver, image>>, Recoverable(c)' = Recoverable(c)
    PROVE  Behind(s, c)'
<1>1. CASE pc \in Opening
  <2>1. BehindOpening(s, c)
    BY Zenon, <1>1 DEF Behind
  <2>2. BehindOpening(s, c)'
    BY ZenonT(40), <2>1 DEF BehindOpening
  <2>3. QED
    BY Zenon, <2>2 DEF Behind, Opening
<1>2. CASE pc \notin Opening
  <2>1. s.version <= ver[c] /\ (s.version = ver[c] => s.content = Standing(c))
    BY Zenon, <1>2 DEF Behind, BehindRunning, currentChunkVersion
  <2>2. ~Fresh(c) => Standing(c) = Content(image[c])
    <3>1. ~Fresh(c) => cache[c] = Absent \/ Content(cache[c]) = Content(image[c])
      BY Zenon, <1>2 DEF StaleShows
    <3>2. QED
      BY Zenon, <3>1 DEF Standing, Observed
  <2>3. Fresh(c) => Standing(c) = Recoverable(c)
    BY Zenon DEF Standing
  <2>4. BehindOpening(s, c)'
    BY Zenon, <2>1, <2>2, <2>3 DEF BehindOpening
  <2>5. QED
    BY Zenon, <2>4 DEF Behind, Opening
<1>3. QED
  BY Zenon, <1>1, <1>2

LEMMA BehindOpenStep ==
    ASSUME TypeInv, TypeInv', RecoveryInv, RecoveryInv', StaleShows, AheadInv, OpenStep,
           ChangesReserved, ChangesCounted, NEW s, s.version \in Int,
           NEW c \in Coords, Behind(s, c),
           Recoverable(c)' = Recoverable(c)
    PROVE  Behind(s, c)'
<1>a. pc \in Opening
  BY ZenonT(40) DEF OpenStep, beginWriterSnapshot, loadVersionClock, recoverConditionalIntent,
     clearRecoveredIntent, reserveRecoveryVersions, RecoverVersion, ReplayRecord, replaceWALAfterReplay,
     finishRecoveredSnapshot, Opening
<1>b. BehindOpening(s, c)
  BY Zenon, <1>a DEF Behind
<1>c. Recoverable(c)' = Recoverable(c)
  OBVIOUS
<1>d. pending[c] = NotPending /\ ~IsPending(c) /\ poisoned = "no"
  BY <1>a DEF RecoveryInv, CallInv, IsPending, NotPending
<1>e. ver[c] \in Nat /\ ver'[c] \in Nat /\ recovered[c] \in Nat
  BY Zenon, VersionTypes DEF TypeInv, DirectoryOK
<1>1. CASE RecoverVersion
  <2>1. PICK d \in Coords, r \in Outcomes("replayVersion", SyncsCheckpoint) :
           /\ recovered[d] # 0
           /\ ver' = [ver EXCEPT ![d] = Replaced(r, @, recovered[d])]
           /\ \/ recovered' = [recovered EXCEPT ![d] = 0] /\ r = "ok"
              \/ pc' = "closed"
    BY ZenonT(40), <1>1 DEF RecoverVersion, ProcessGone
  <2>2. image' = image /\ pc = "recover" /\ pc' \in {"recover", "closed"}
    BY ZenonT(40), <1>1 DEF RecoverVersion, OpenContinues, ProcessGone
  <2>3. ver'[c] = ver[c] \/ (c = d /\ ver'[c] = recovered[c])
    BY Zenon, <2>1 DEF Replaced, TypeInv, DirectoryOK
  <2>4. recovered[c] # 0 => ver[c] < recovered[c]
    BY Zenon DEF AheadInv, RecoveredAhead
  <2>5. CASE ver'[c] # ver[c]
    <3>1. s.version < ver'[c]
      BY <1>b, <1>e, <2>1, <2>3, <2>4, <2>5 DEF BehindOpening
    <3>2. QED
      BY <1>e, <2>2, <3>1 DEF Behind, BehindOpening, Opening
  <2>6. CASE ver'[c] = ver[c]
    <3>1. c # d \/ pc' = "closed"
      <4>1. ASSUME c = d, r = "ok" PROVE FALSE
        BY <1>e, <2>1, <2>4, <2>6, <4>1 DEF Replaced, TypeInv, DirectoryOK
      <4>2. QED
        BY Zenon, <2>1, <4>1
    <3>2. pc' = "recover" => recovered'[c] = recovered[c]
      BY Zenon, <2>1, <3>1 DEF TypeInv, ProcessOK
    <3>3. BehindOpening(s, c)'
      BY Zenon, <1>b, <1>c, <2>2, <2>6, <3>2 DEF BehindOpening
    <3>4. QED
      BY Zenon, <2>2, <3>3 DEF Behind, Opening
  <2>7. QED
    BY Zenon, <2>5, <2>6
<1>2. CASE ReplayRecord \/ replaceWALAfterReplay
  <2>1. pc = "recover" /\ VersionsRecovered /\ ver' = ver /\ pc' \in {"recover", "opened", "closed"}
    BY ZenonT(40), <1>2 DEF ReplayRecord, replaceWALAfterReplay, OpenContinues, ProcessGone, files
  <2>2. s.version = ver[c] => s.content = Recoverable(c)
    BY Zenon, <1>b, <2>1 DEF BehindOpening, VersionsRecovered
  <2>3. BehindOpening(s, c)'
    BY Zenon, <1>b, <1>c, <2>1, <2>2 DEF BehindOpening
  <2>4. QED
    BY Zenon, <2>1, <2>3 DEF Behind, Opening
<1>3. CASE finishRecoveredSnapshot
  <2>1. /\ UNCHANGED <<ver, image>> /\ pc = "opened"
        /\ \/ pc' = "closed"
           \/ pc' = "idle" /\ UNCHANGED <<pending, poisoned>>
    BY ZenonT(40), <1>3 DEF finishRecoveredSnapshot, ProcessGone, files, held
  <2>2. CASE pc' = "closed"
    BY Zenon, <1>c, <1>d, <2>1, <2>2, BehindGone
  <2>3. CASE pc' = "idle" /\ UNCHANGED <<pending, poisoned>>
    <3>1. currentChunkVersion(c)' = ver[c]
      BY Zenon, <1>d, <2>1, <2>3 DEF currentChunkVersion, IsPending
    <3>2. Standing(c)' = Recoverable(c)
      BY Zenon, <1>c, <1>d, <2>3 DEF Standing, Fresh
    <3>3. BehindRunning(s, c)'
      BY Zenon, <1>b, <2>1, <3>1, <3>2 DEF BehindOpening, BehindRunning
    <3>4. QED
      BY Zenon, <2>3, <3>3 DEF Behind, Opening
  <2>4. QED
    BY Zenon, <2>1, <2>2, <2>3
<1>4. CASE reserveRecoveryVersions
  <2>1. UNCHANGED <<ver, image>> /\ pc = "reserve" /\ pc' \in {"recover", "closed"}
    BY ZenonT(40), <1>4 DEF reserveRecoveryVersions, OpenContinues, ProcessGone, files
  <2>2. CASE pc' = "closed"
    BY Zenon, <1>c, <1>d, <2>1, <2>2, BehindGone
  <2>3. CASE pc' = "recover"
    <3>1. ASSUME Content(image[c]) # Recoverable(c) PROVE recovered'[c] # 0
      <4>1. ~Cut
        BY Zenon, <2>1 DEF RecoveryInv, CutInv
      <4>2. c \in ChangedChunks
        BY Zenon, <3>1, <4>1 DEF ChangesReserved
      <4> DEFINE last == versionClock + Cardinality(ChangedChunks)
      <4>3. PICK f \in [ChangedChunks -> (versionClock + 1)..last] :
               recovered' = [d \in Coords |-> IF d \in ChangedChunks THEN f[d] ELSE 0]
        BY ZenonT(40), <1>4, <2>3, <4>2 DEF reserveRecoveryVersions, ProcessGone
      <4>4. last \in Nat /\ versionClock \in Nat
        BY DEF ChangesCounted, TypeInv, ProcessOK
      <4> HIDE DEF last
      <4>5. QED
        BY <4>2, <4>3, <4>4
    <3>2. BehindOpening(s, c)'
      BY Zenon, <1>b, <1>c, <2>1, <2>3, <3>1 DEF BehindOpening
    <3>3. QED
      BY Zenon, <2>3, <3>2 DEF Behind, Opening
  <2>4. QED
    BY Zenon, <2>1, <2>2, <2>3
<1>5. CASE beginWriterSnapshot \/ loadVersionClock \/ recoverConditionalIntent \/ clearRecoveredIntent
  <2>1. /\ UNCHANGED <<ver, image>>
        /\ pc' \in {"closed", "loadClock", "recoverIntent", "clearRecovered", "reserve"}
    BY ZenonT(40), <1>5 DEF beginWriterSnapshot, loadVersionClock, recoverConditionalIntent, clearRecoveredIntent,
       OpenContinues, ProcessGone, files
  <2>2. BehindOpening(s, c)'
    BY Zenon, <1>b, <1>c, <2>1 DEF BehindOpening
  <2>3. QED
    BY Zenon, <2>1, <2>2 DEF Behind, Opening
<1>6. QED
  BY Zenon, <1>1, <1>2, <1>3, <1>4, <1>5 DEF OpenStep

(* Every step but the commit decision and the admission of the batch keeps *)
(* the version of a chunk and the content that goes with it.               *)
LEMMA StandingHeld ==
    ASSUME TypeInv, TypeInv', RecoveryInv, RecoveryInv', StaleShows, StaleShows', [Next]_vars, ContentMoves,
           ~PublishCommittedIntent, ~AdmitCommitted, pc \notin Opening, pc' \notin Opening, NEW c \in Coords
    PROVE  Standing(c)' = Standing(c)
<1>1. CASE Fresh(c)
  <2>1. Fresh(c)'
    <3>1. CASE UNCHANGED vars
      BY Zenon, <1>1, <3>1 DEF vars, call, Fresh, Mutated
    <3>2. CASE ~UNCHANGED vars
      BY Zenon, <1>1, <3>2, StaleSteps DEF Fresh
    <3>3. QED
      BY Zenon, <3>1, <3>2
  <2>2. Recoverable(c)' = Recoverable(c)
    BY Zenon DEF ContentMoves, Steady
  <2>3. QED
    BY Zenon, <1>1, <2>1, <2>2 DEF Standing
<1>2. CASE ~Fresh(c)
  <2>1. UNCHANGED <<pending, image>> /\ ~Fresh(c)'
    <3>1. CASE UNCHANGED vars
      BY Zenon, <1>2, <3>1 DEF vars, call, files, held, Fresh, Mutated
    <3>2. CASE poisoned = "undecided"
      <4>1. pc \in {"reject", "idle"}
        BY Zenon, <3>2 DEF RecoveryInv, CallInv
      <4>2. ~OpenStep /\ ~RetryStep /\ ~ReturnError /\ ~FlushBarrier
        BY ZenonT(40), <4>1 DEF OpenStep, beginWriterSnapshot, loadVersionClock, recoverConditionalIntent,
           clearRecoveredIntent, reserveRecoveryVersions, RecoverVersion, ReplayRecord, replaceWALAfterReplay,
           finishRecoveredSnapshot, RetryStep, PublishVersion, PublishImage, RetryDone, persistCheckpointChunk,
           clearWAL, ReturnError, FlushBarrier
      <4>3. ~WriteChunk /\ ~ConditionalWriteChunks /\ ~FlushWAL /\ ~Close /\ ~Crash
        BY Zenon, <3>2 DEF WriteChunk, ConditionalWriteChunks, FlushWAL, Call, Close, Crash, ProcessGone, Opening
      <4>4. WriteStep => finishRejectedSnapshot
        BY ZenonT(40), <4>1 DEF WriteStep, beginWriteSnapshot, RefuseBatch, ReserveVersions, PublishRollbackIntent,
           CleanFailedIntent, appendWAL, AdmitCommitted, finishCommittedSnapshot, rollbackWAL, clearRejectedIntent
      <4>5. finishRejectedSnapshot \/ ReadChunk \/ Evict \/ UNCHANGED vars
        BY Zenon, <4>2, <4>3, <4>4 DEF Next
      <4>6. UNCHANGED <<pending, image, poisoned>>
        BY ZenonT(40), <3>2, <4>5 DEF finishRejectedSnapshot, ReadChunk, Evict, vars, files, held
      <4>7. QED
        BY Zenon, <3>2, <4>6 DEF Fresh
    <3>3. CASE pc = "post" /\ ~UNCHANGED vars
      <4>1. ~OpenStep /\ ~RetryStep /\ ~ReturnError /\ ~FlushBarrier
        BY ZenonT(40), <3>3 DEF OpenStep, beginWriterSnapshot, loadVersionClock, recoverConditionalIntent,
           clearRecoveredIntent, reserveRecoveryVersions, RecoverVersion, ReplayRecord, replaceWALAfterReplay,
           finishRecoveredSnapshot, RetryStep, PublishVersion, PublishImage, RetryDone, persistCheckpointChunk,
           clearWAL, ReturnError, FlushBarrier
      <4>2. ~WriteChunk /\ ~ConditionalWriteChunks /\ ~FlushWAL /\ ~Close /\ ~Crash /\ ~ReadChunk /\ ~Evict
        BY Zenon, <3>3 DEF WriteChunk, ConditionalWriteChunks, FlushWAL, Call, Close, Crash, ProcessGone, Opening,
           ReadChunk, Evict
      <4>3. ~WriteStep
        BY ZenonT(40), <3>3 DEF WriteStep, beginWriteSnapshot, RefuseBatch, ReserveVersions, PublishRollbackIntent,
           CleanFailedIntent, appendWAL, finishCommittedSnapshot, rollbackWAL, clearRejectedIntent,
           finishRejectedSnapshot
      <4>4. QED
        BY Zenon, <3>3, <4>1, <4>2, <4>3 DEF Next
    <3>4. QED
      BY Zenon, <1>2, <3>1, <3>2, <3>3 DEF Fresh
  <2>2. IsPending(c)' = IsPending(c)
    BY Zenon, <2>1 DEF IsPending
  <2>3. CASE IsPending(c)
    BY ZenonT(40), <1>2, <2>1, <2>2, <2>3 DEF Standing, Observed
  <2>4. CASE ~IsPending(c)
    <3>1. cache[c] = Absent \/ Content(cache[c]) = Content(image[c])
      BY Zenon, <1>2, <2>4 DEF StaleShows
    <3>2. cache'[c] = Absent \/ Content(cache'[c]) = Content(image'[c])
      BY Zenon, <2>1, <2>2, <2>4 DEF StaleShows
    <3>3. Observed(c) = Content(image[c])
      BY Zenon, <2>4, <3>1 DEF Observed
    <3>4. Observed(c)' = Content(image'[c])
      BY Zenon, <2>2, <2>4, <3>2 DEF Observed
    <3>5. QED
      BY Zenon, <1>2, <2>1, <3>3, <3>4 DEF Standing
  <2>5. QED
    BY Zenon, <2>3, <2>4
<1>3. QED
  BY Zenon, <1>1, <1>2

LEMMA CurrentHeld ==
    ASSUME TypeInv, RecoveryInv, AheadInv, [Next]_vars, ~AdmitCommitted, pc \notin Opening, pc' \notin Opening,
           NEW c \in Coords
    PROVE  currentChunkVersion(c)' = currentChunkVersion(c)
<1>a. ver \in [Coords -> Nat] /\ pending \in [Coords -> Publications]
  BY Zenon DEF TypeInv, DirectoryOK, ProcessOK
<1>1. CASE PublishVersion
  <2>1. PICK d \in Coords, r \in Outcomes("persistChunkVersion", SyncsPublications) :
           IsPending(d) /\ ver' = [ver EXCEPT ![d] = Replaced(r, @, pending[d].version)]
    BY Zenon, <1>1 DEF PublishVersion
  <2>2. pending' = pending
    BY Zenon, <1>1 DEF PublishVersion, held
  <2>3. ~IsPending(c) => ver'[c] = ver[c]
    BY Zenon, <1>a, <2>1
  <2>4. QED
    BY Zenon, <2>2, <2>3 DEF currentChunkVersion, IsPending
<1>2. CASE PublishImage
  <2>1. ver' = ver /\ pc = "publish" /\ (pending' = pending \/ pending' = [pending EXCEPT ![cursor] = NotPending])
    BY Zenon, <1>2 DEF PublishImage
  <2>2. ver[cursor] = pending[cursor].version /\ IsPending(cursor)
    BY Zenon, <2>1 DEF AheadInv, PublishedAhead, RecoveryInv, CallInv
  <2>3. pending'[c] = pending[c] \/ (c = cursor /\ pending'[c] = NotPending)
    BY Zenon, <1>a, <2>1
  <2>4. NotPending.version = 0
    BY Zenon DEF NotPending
  <2>5. CASE pending'[c] = pending[c]
    BY Zenon, <2>1, <2>5 DEF currentChunkVersion, IsPending
  <2>6. CASE c = cursor /\ pending'[c] = NotPending
    <3>1. currentChunkVersion(c)' = ver[c]
      BY Zenon, <2>1, <2>4, <2>6 DEF currentChunkVersion, IsPending
    <3>2. currentChunkVersion(c) = pending[c].version
      BY Zenon, <2>2, <2>6 DEF currentChunkVersion
    <3>3. QED
      BY Zenon, <2>2, <2>6, <3>1, <3>2
  <2>7. QED
    BY Zenon, <2>3, <2>5, <2>6
<1>3. CASE ~PublishVersion /\ ~PublishImage
  <2>1. ~OpenStep \/ finishRecoveredSnapshot
    BY ZenonT(40) DEF OpenStep, beginWriterSnapshot, loadVersionClock, recoverConditionalIntent,
       clearRecoveredIntent, reserveRecoveryVersions, RecoverVersion, ReplayRecord, replaceWALAfterReplay, Opening
  <2>2. ~finishRecoveredSnapshot /\ ~Close /\ ~Crash
    BY Zenon DEF finishRecoveredSnapshot, Close, Crash, ProcessGone, Opening
  <2>3. UNCHANGED <<ver, pending>>
    BY ZenonT(40), <1>3, <2>1, <2>2 DEF Next, RetryStep, RetryDone, persistCheckpointChunk, clearWAL, WriteStep,
       beginWriteSnapshot, RefuseBatch, ReserveVersions, PublishRollbackIntent, CleanFailedIntent, appendWAL,
       PublishCommittedIntent, finishCommittedSnapshot, rollbackWAL, clearRejectedIntent, finishRejectedSnapshot,
       WriteChunk, ConditionalWriteChunks, FlushWAL, Call, ReturnError, FlushBarrier, ReadChunk, Evict, files,
       held, vars
  <2>4. QED
    BY Zenon, <2>3 DEF currentChunkVersion, IsPending
<1>4. QED
  BY Zenon, <1>1, <1>2, <1>3

LEMMA BehindNext ==
    ASSUME TypeInv, TypeInv', RecoveryInv, RecoveryInv', ReadsInv, StaleShows, StaleShows', AheadInv,
           [Next]_vars, ContentMoves, ChangesReserved, ChangesCounted, NEW s, s.version \in Int,
           NEW c \in Coords, Behind(s, c),
           pc' = "closed" => ~IsPending(c)
    PROVE  Behind(s, c)'
<1>1. CASE OpenStep /\ ~PublishCommittedIntent
  <2>1. Recoverable(c)' = Recoverable(c)
    BY Zenon, <1>1 DEF ContentMoves, Steady
  <2>2. QED
    BY Zenon, <1>1, <2>1, BehindOpenStep
<1>2. CASE Close \/ Crash
  <2>1. UNCHANGED <<ver, image, wal, intent>> /\ pc' = "closed"
    BY Zenon, <1>2 DEF Close, Crash, ProcessGone, files, logs
  <2>2. Recoverable(c)' = Recoverable(c)
    BY Zenon, <2>1, ContentUntouched
  <2>3. QED
    BY ZenonT(40), <2>1, <2>2, BehindGone
<1>3. CASE UNCHANGED vars
  <2>1. UNCHANGED <<pc, ver, image, wal, intent, pending, cache, recovered, poisoned, op>>
    BY Zenon, <1>3 DEF vars, files, logs, held, call, marks
  <2>2. Recoverable(c)' = Recoverable(c)
    BY Zenon, <2>1, ContentUntouched
  <2>3. Standing(c)' = Standing(c) /\ currentChunkVersion(c)' = currentChunkVersion(c)
    BY Zenon, <2>1, <2>2 DEF Standing, Fresh, Mutated, Observed, currentChunkVersion, IsPending
  <2>4. QED
    BY ZenonT(40), <2>1, <2>2, <2>3 DEF Behind, BehindOpening, BehindRunning
<1>4. CASE AdmitCommitted
  <2>1. /\ pc = "post" /\ pc' = "retry" /\ UNCHANGED ver /\ poisoned' \in {poisoned, "repair"}
        /\ pending' = [d \in Coords |-> IF d \in Mutated THEN Publication(d) ELSE pending[d]]
    BY ZenonT(40), <1>4 DEF AdmitCommitted, files, Poison
  <2>2. pc \notin Opening /\ pc' \notin Opening
    BY Zenon, <2>1 DEF Opening
  <2>3. BehindRunning(s, c)
    BY Zenon, <2>2 DEF Behind
  <2>4. CASE c \in Mutated
    <3>1. /\ IndexOf(c) \in 1..Len(op.muts) /\ Len(op.muts) <= versionClock /\ versionClock \in Nat
          /\ Len(op.muts) \in Nat
      BY ZenonT(40), <2>1, <2>4, BatchIsTyped, LogIsTyped DEF TypeInv, Control, Reserved, ProcessOK
    <3>2. Publication(c).version > versionClock - Len(op.muts) /\ Publication(c).version \in Nat \ {0}
      BY <3>1 DEF Publication
    <3>3. currentChunkVersion(c) <= versionClock - Len(op.muts)
      BY Zenon, <2>1 DEF AheadInv, ReservedAhead, Reserved, currentChunkVersion
    <3>4. currentChunkVersion(c)' = Publication(c).version
      BY Zenon, <2>1, <2>4, <3>2 DEF currentChunkVersion, IsPending
    <3>5. currentChunkVersion(c) \in Nat
      BY Zenon, VersionTypes
    <3>6. s.version < currentChunkVersion(c)'
      BY <2>3, <3>1, <3>2, <3>3, <3>4, <3>5 DEF BehindRunning
    <3>7. BehindRunning(s, c)'
      BY <3>2, <3>4, <3>6 DEF BehindRunning
    <3>8. QED
      BY Zenon, <2>2, <3>7 DEF Behind
  <2>5. CASE c \notin Mutated
    <3>1. currentChunkVersion(c)' = currentChunkVersion(c)
      BY Zenon, <2>1, <2>5 DEF currentChunkVersion, IsPending
    <3>2. Fresh(c) /\ Fresh(c)'
      BY Zenon, <2>1, <2>5 DEF Fresh, RecoveryInv, CallInv
    <3>3. Recoverable(c)' = Recoverable(c)
      BY Zenon, <2>1 DEF ContentMoves, Steady, PublishCommittedIntent
    <3>4. Standing(c)' = Standing(c)
      BY Zenon, <3>2, <3>3 DEF Standing
    <3>5. QED
      BY ZenonT(40), <2>2, <3>1, <3>4, BehindHeld
  <2>6. QED
    BY Zenon, <2>4, <2>5
<1>5. CASE PublishCommittedIntent
  <2>1. /\ pc = "commit" /\ UNCHANGED <<ver, image, pending, cache, op>>
        /\ pc' \in {"rollback", "post", "reject"}
    BY ZenonT(40), <1>5 DEF PublishCommittedIntent, files, held, call
  <2>2. Fresh(c) /\ pc \notin Opening /\ pc' \notin Opening /\ pc # "checkpoint" /\ poisoned = "no"
    BY Zenon, <2>1 DEF Fresh, Opening, RecoveryInv, CallInv, Retrying
  <2>3. currentChunkVersion(c)' = currentChunkVersion(c) /\ Observed(c)' = Observed(c)
    BY Zenon, <2>1 DEF currentChunkVersion, IsPending, Observed
  <2>4. Observed(c) = Recoverable(c)
    BY Zenon, <2>2, ShownFresh
  <2>5. ASSUME Fresh(c)' PROVE Recoverable(c)' = Recoverable(c)
    <3>1. CASE pc' = "rollback"
      <4>1. intent' = intent
        BY Zenon, <1>5, <3>1 DEF PublishCommittedIntent, Replaced
      <4>2. QED
        BY Zenon, <4>1 DEF ContentMoves, Steady
    <3>2. CASE pc' = "post"
      <4>1. intent'.state # "rollback" /\ c \notin Mutated
        BY Zenon, <2>1, <2>5, <3>2 DEF RecoveryInv, CutInv, Fresh, Mutated
      <4>2. QED
        BY Zenon, <1>5, <4>1 DEF ContentMoves
    <3>3. CASE pc' = "reject"
      BY Zenon, <1>5, <2>2, <2>5, <3>3 DEF PublishCommittedIntent, Poison, Fresh
    <3>4. QED
      BY Zenon, <2>1, <3>1, <3>2, <3>3
  <2>6. Standing(c)' = Standing(c)
    BY Zenon, <2>2, <2>3, <2>4, <2>5 DEF Standing
  <2>7. QED
    BY Zenon, <2>2, <2>3, <2>6, BehindHeld
<1>6. CASE ~OpenStep /\ ~Close /\ ~Crash /\ ~UNCHANGED vars /\ ~AdmitCommitted /\ ~PublishCommittedIntent
  <2>1. pc \notin Opening /\ pc' \notin Opening
    <3>1. CASE RetryStep
      <4>1. pc \in {"retry", "publish", "checkpoint"} /\ pc' \in {"retry", "publish", "checkpoint", "fail", ret}
        BY ZenonT(40), <3>1 DEF RetryStep, PublishVersion, PublishImage, RetryDone, persistCheckpointChunk,
           clearWAL, AfterRetry
      <4>2. QED
        BY Zenon, <4>1 DEF Opening, TypeInv, ProcessOK
    <3>2. CASE WriteStep
      BY ZenonT(40), <1>6, <3>2 DEF WriteStep, beginWriteSnapshot, RefuseBatch, ReserveVersions,
         PublishRollbackIntent, CleanFailedIntent, appendWAL, finishCommittedSnapshot, rollbackWAL,
         clearRejectedIntent, finishRejectedSnapshot, Return, Opening
    <3>3. CASE WriteChunk \/ ConditionalWriteChunks \/ FlushWAL \/ ReturnError \/ FlushBarrier
               \/ ReadChunk \/ Evict
      BY ZenonT(40), <3>3 DEF WriteChunk, ConditionalWriteChunks, FlushWAL, Call, ReturnError, FlushBarrier,
         Return, ReadChunk, Evict, Opening
    <3>4. QED
      BY ZenonT(40), <1>6, <3>1, <3>2, <3>3 DEF Next
  <2>2. currentChunkVersion(c)' = currentChunkVersion(c)
    BY Zenon, <1>6, <2>1, CurrentHeld
  <2>3. Standing(c)' = Standing(c)
    BY Zenon, <1>6, <2>1, StandingHeld
  <2>4. QED
    BY Zenon, <2>1, <2>2, <2>3, BehindHeld
<1>7. QED
  BY Zenon, <1>1, <1>2, <1>3, <1>4, <1>5, <1>6

(* A client is behind on every chunk it knows. *)
SeenInv ==
    \A c \in Coords : seen[c] = Forgotten \/ (seen[c].version \in Int /\ Behind(seen[c], c))

(* A client that looks again sees a newer version, or what it saw. *)
OrdersContent(c) ==
    seen[c] # Forgotten /\ seen'[c] # Forgotten =>
        /\ seen'[c].version >= seen[c].version
        /\ seen'[c].version = seen[c].version => seen'[c].content = seen[c].content

LEMMA SeenInit ==
    ASSUME TypeInv, ClientInit
    PROVE  SeenInv
<1> SUFFICES ASSUME NEW c \in Coords
             PROVE  seen[c].version \in Int /\ Behind(seen[c], c)
  BY Zenon DEF SeenInv
<1>1. Init /\ seen[c] = [content |-> Content(image[c]), version |-> 0]
  BY Zenon DEF ClientInit
<1>2. ver[c] = 0 /\ pc = "closed" /\ Kept = 0
  BY Zenon, <1>1 DEF Init, Kept, NoIntent
<1>3. Recoverable(c) = Content(image[c])
  BY <1>2, WithoutRecords
<1>4. QED
  BY <1>1, <1>2, <1>3 DEF Behind, BehindOpening, Opening

LEMMA SeenNext ==
    ASSUME TypeInv, TypeInv', RecoveryInv, RecoveryInv', ReadsInv, ReadsCommitted', StaleShows, StaleShows',
           AheadInv, ContentMoves, ChangesReserved, ChangesCounted, ClientNext, SeenInv, NEW c \in Coords
    PROVE  /\ seen'[c] = Forgotten \/ (seen'[c].version \in Int /\ Behind(seen[c], c)')
           /\ OrdersContent(c)
<1>a. [Next]_vars
  BY Zenon DEF ClientNext
<1>b. PICK s : s = seen[c]
  OBVIOUS
<1>c. s = Forgotten \/ (s.version \in Int /\ Behind(s, c))
  <2>1. seen[c] = Forgotten \/ (seen[c].version \in Int /\ Behind(seen[c], c))
    BY Zenon DEF SeenInv
  <2>2. Behind(seen[c], c) => Behind(s, c)
    BY Zenon, <1>b DEF Behind, BehindOpening, BehindRunning
  <2>3. QED
    BY Zenon, <1>b, <2>1, <2>2
<1>d. s # Forgotten /\ (pc' = "closed" => ~IsPending(c)) => Behind(s, c)'
  BY Zenon, <1>a, <1>c, BehindNext
<1>1. CASE pc' = "idle"
  <2>1. seen'[c] = [content |-> Observed(c)', version |-> currentChunkVersion(c)']
    BY Zenon, <1>1 DEF ClientNext, Shown
  <2>2. Observed(c)' = Standing(c)'
    BY ZenonT(40), <1>1 DEF ReadsCommitted, Standing, Fresh
  <2>3. pc' \notin Opening /\ currentChunkVersion(c)' \in Nat
    BY Zenon, <1>1 DEF Opening, currentChunkVersion, TypeInv, DirectoryOK, ProcessOK, Publications
  <2>4. Behind(seen[c], c)' /\ seen'[c].version \in Int
    BY <2>1, <2>2, <2>3 DEF Behind, BehindRunning
  <2>5. s # Forgotten => BehindRunning(s, c)'
    BY Zenon, <1>1, <1>d, <2>3 DEF Behind
  <2>6. OrdersContent(c)
    BY <1>b, <1>c, <2>1, <2>2, <2>3, <2>5 DEF OrdersContent, BehindRunning
  <2>7. QED
    BY Zenon, <2>4, <2>6
<1>2. CASE pc' # "idle"
  <2>1. \/ seen'[c] = Forgotten
        \/ seen'[c] = seen[c] /\ (pc' = "closed" => ~IsPending(c))
    BY Zenon, <1>2 DEF ClientNext
  <2>2. CASE seen'[c] = Forgotten
    BY Zenon, <2>2 DEF OrdersContent
  <2>3. CASE seen'[c] # Forgotten
    <3>1. seen'[c] = s /\ s # Forgotten /\ Behind(s, c)'
      BY Zenon, <1>b, <1>d, <2>1, <2>3
    <3>2. Behind(seen[c], c)'
      BY Zenon, <3>1 DEF Behind, BehindOpening, BehindRunning
    <3>3. OrdersContent(c)
      BY <1>b, <1>c, <3>1 DEF OrdersContent
    <3>4. QED
      BY Zenon, <1>c, <3>1, <3>2, <3>3
  <2>4. QED
    BY Zenon, <2>2, <2>3
<1>3. QED
  BY Zenon, <1>1, <1>2

LEMMA SeenStep ==
    ASSUME TypeInv, TypeInv', RecoveryInv, RecoveryInv', ReadsInv, ReadsCommitted', StaleShows, StaleShows',
           AheadInv, ContentMoves, ChangesReserved, ChangesCounted, ClientNext \/ UNCHANGED <<vars, seen>>, SeenInv
    PROVE  SeenInv' /\ [\A c \in Coords : OrdersContent(c)]_<<vars, seen>>
<1>1. CASE ClientNext
  <2>1. \A c \in Coords : /\ seen'[c] = Forgotten \/ (seen'[c].version \in Int /\ Behind(seen[c], c)')
                          /\ OrdersContent(c)
    BY Zenon, <1>1, SeenNext
  <2>2. SeenInv'
    BY Zenon, <2>1 DEF SeenInv
  <2>3. QED
    BY Zenon, <2>1, <2>2
<1>2. CASE UNCHANGED <<vars, seen>>
  <2>1. UNCHANGED <<pc, ver, image, wal, intent, pending, cache, recovered, poisoned, op, seen>>
    BY Zenon, <1>2 DEF vars, files, logs, held, call, marks
  <2>2. ASSUME NEW c \in Coords
        PROVE  seen'[c] = Forgotten \/ (seen'[c].version \in Int /\ Behind(seen[c], c)')
    <3>1. Recoverable(c)' = Recoverable(c)
      BY Zenon, <2>1, ContentUntouched
    <3>2. Standing(c)' = Standing(c) /\ currentChunkVersion(c)' = currentChunkVersion(c)
      BY Zenon, <2>1, <3>1 DEF Standing, Fresh, Mutated, Observed, currentChunkVersion, IsPending
    <3>3. Behind(seen[c], c)' = Behind(seen[c], c)
      BY Zenon, <2>1, <3>1, <3>2 DEF Behind, BehindOpening, BehindRunning
    <3>4. seen[c] = Forgotten \/ (seen[c].version \in Int /\ Behind(seen[c], c))
      BY Zenon DEF SeenInv
    <3>5. QED
      BY ZenonT(40), <2>1, <3>3, <3>4
  <2>3. SeenInv'
    BY Zenon, <2>2 DEF SeenInv
  <2>4. QED
    BY ZenonT(40), <1>2, <2>3
<1>3. QED
  BY Zenon, <1>1, <1>2

(***************************************************************************)
(* Where clients start                                                     *)
(***************************************************************************)

LEMMA StaleInit == Init => StaleShows
BY Zenon DEF Init, StaleShows, Opening

(***************************************************************************)
(* What an even generation says                                            *)
(***************************************************************************)

LEMMA NextIsEven ==
    ASSUME TypeInv
    PROVE  gen \in Nat /\ genFile \in Nat /\ ~Odd(NextEven)
<1>1. gen \in Nat /\ genFile \in Nat
  BY DEF TypeInv, ProcessOK, DirectoryOK
<1>2. QED
  BY Zenon, <1>1, OddAlternates DEF NextEven

LEMMA GenerationInit == Init => GenerationInv /\ EvenGenerationIsStable
<1> SUFFICES ASSUME Init PROVE GenerationInv /\ EvenGenerationIsStable
  OBVIOUS
<1>1. GenerationInv
  BY Zenon DEF Init, GenerationInv, Opening, Writing, Retrying
<1>2. \A i \in 1..Kept : FALSE
  BY DEF Init, Kept, NoIntent
<1>3. \A c \in Coords : Recoverable(c) = Content(image[c])
  BY Zenon, <1>2, WithoutRecords
<1>4. QED
  BY Zenon, <1>1, <1>3 DEF EvenGenerationIsStable

LEMMA GenerationGone == ProcessGone => GenerationInv'
BY Zenon DEF ProcessGone, GenerationInv, Opening, Writing, Retrying

(* Steps that leave the generation and what it speaks of alone. *)
LEMMA GenerationSteady ==
    ASSUME GenerationInv, UNCHANGED <<genFile, gen, pending, walRecords>>, Kept' = Kept,
           pc \notin Opening, pc' \notin Opening, pc' = "checkpoint" => checkpointDue,
           pc' = "sync" => NothingPending,
           pc' \in (Writing \ {"post"}) \cup {"sync"} => (NothingPending /\ poisoned' # "undecided" => Settled),
           pc' \in Writing \ {"begin"} => Odd(gen), pc' \in Retrying /\ ret' = "finish" => Odd(gen),
           poisoned' = "undecided" => Odd(gen)
    PROVE  GenerationInv'
<1>1. NothingPending' = NothingPending /\ checkpointDue' = checkpointDue
  BY Zenon DEF NothingPending, IsPending, checkpointDue
<1>2. Settled' = Settled
  BY Zenon, <1>1 DEF Settled
<1>3. QED
  BY ZenonT(40), <1>1, <1>2 DEF GenerationInv

LEMMA StableHeld ==
    ASSUME EvenGenerationIsStable, UNCHANGED <<genFile, image>>,
           \A c \in Coords : Recoverable(c)' = Recoverable(c)
    PROVE  EvenGenerationIsStable'
<1>1. ASSUME ~Odd(genFile)', NEW c \in Coords PROVE Content(image[c])' = Recoverable(c)'
  <2>1. Content(image[c]) = Recoverable(c)
    BY Zenon, <1>1 DEF EvenGenerationIsStable
  <2>2. QED
    BY Zenon, <2>1
<1>2. QED
  BY Zenon, <1>1 DEF EvenGenerationIsStable

LEMMA StableOdd ==
    ASSUME Odd(genFile')
    PROVE  EvenGenerationIsStable'
BY Zenon DEF EvenGenerationIsStable

(* An even generation is published when every image shows. *)
LEMMA StableShown ==
    ASSUME UNCHANGED image, \A c \in Coords : Content(image[c]) = Recoverable(c),
           \A c \in Coords : Recoverable(c)' = Recoverable(c)
    PROVE  EvenGenerationIsStable'
BY Zenon DEF EvenGenerationIsStable

LEMMA GenerationOpenStep ==
    ASSUME TypeInv, TypeInv', RecoveryInv, ReadsInv, OpenStep,
           \A c \in Coords : Recoverable(c)' = Recoverable(c), GenerationInv, EvenGenerationIsStable
    PROVE  GenerationInv' /\ EvenGenerationIsStable'
<1>1. CASE beginWriterSnapshot
  <2>1. /\ UNCHANGED image /\ poisoned' = poisoned /\ pc = "closed" /\ pc' \in {"closed", "loadClock"}
        /\ \/ genFile' = genFile /\ (pc' = "loadClock" => Odd(genFile))
           \/ genFile' = genFile + 1 /\ ~Odd(genFile)
    BY ZenonT(40), <1>1 DEF beginWriterSnapshot, files, persistSnapshotGeneration, Replaced, Outcomes
  <2>2. poisoned' # "undecided" /\ (pc' = "loadClock" => Odd(genFile'))
    BY ZenonT(40), <2>1, NextIsEven, OddAlternates DEF RecoveryInv, CallInv, Opening
  <2>3. GenerationInv'
    BY Zenon, <2>1, <2>2 DEF GenerationInv, Opening, Writing, Retrying
  <2>4. Odd(genFile') \/ genFile' = genFile
    BY Zenon, <2>1, NextIsEven, OddAlternates
  <2>5. QED
    BY Zenon, <2>1, <2>3, <2>4, StableHeld, StableOdd
<1>2. CASE finishRecoveredSnapshot
  <2>1. pc = "opened" /\ UNCHANGED <<wal, intent, image>>
    BY Zenon, <1>2 DEF finishRecoveredSnapshot, logs, files
  <2>2. Kept = 0 /\ Kept' = 0
    <3>1. wal = <<>>
      BY Zenon, <2>1 DEF ReadsInv
    <3>2. Kept = 0
      BY <3>1, LogIsTyped DEF Kept
    <3>3. QED
      BY Zenon, <2>1, <3>2, KeptAlone
  <2>3. \A i \in 1..Kept : FALSE
    BY <2>2
  <2>4. \A c \in Coords : Content(image[c]) = Recoverable(c)
    BY Zenon, <2>3, WithoutRecords
  <2>5. EvenGenerationIsStable'
    BY Zenon, <2>1, <2>4, StableShown
  <2>6. CASE ~ProcessGone
    <3>1. gen' = NextEven /\ pc' = "idle" /\ UNCHANGED <<pending, poisoned>>
      BY ZenonT(40), <1>2, <2>6 DEF finishRecoveredSnapshot, held
    <3>2. NothingPending' /\ poisoned' = "no"
      BY <2>1, <3>1 DEF RecoveryInv, CallInv, Opening, NothingPending, IsPending, NotPending
    <3>3. Settled' /\ ~Odd(gen')
      BY Zenon, <2>2, <3>1, NextIsEven DEF Settled
    <3>4. QED
      BY Zenon, <2>5, <3>1, <3>2, <3>3 DEF GenerationInv, Opening, Writing, Retrying
  <2>7. QED
    BY Zenon, <2>5, <2>6, GenerationGone
<1>3. CASE ~beginWriterSnapshot /\ ~finishRecoveredSnapshot
  <2>1. /\ genFile' = genFile /\ pc \in Opening \ {"closed"}
        /\ ProcessGone \/ (pc' \in Opening /\ poisoned' = poisoned)
    BY ZenonT(40), <1>3 DEF Opening, OpenStep, loadVersionClock, recoverConditionalIntent, clearRecoveredIntent,
       reserveRecoveryVersions, RecoverVersion, ReplayRecord, replaceWALAfterReplay, OpenContinues
  <2>2. Odd(genFile') /\ poisoned = "no"
    BY ZenonT(40), <2>1 DEF GenerationInv, RecoveryInv, CallInv
  <2>3. CASE pc' \in Opening /\ poisoned' = poisoned
    BY Zenon, <2>2, <2>3, StableOdd DEF GenerationInv, Opening, Writing, Retrying
  <2>4. QED
    BY Zenon, <2>1, <2>2, <2>3, StableOdd, GenerationGone
<1>4. QED
  BY Zenon, <1>1, <1>2, <1>3

LEMMA GenerationRetryStep ==
    ASSUME TypeInv, TypeInv', RecoveryInv, ReadsInv, RetryStep,
           \A c \in Coords : Recoverable(c)' = Recoverable(c), BarriersHold, GenerationInv, EvenGenerationIsStable
    PROVE  GenerationInv' /\ EvenGenerationIsStable'
<1>a. /\ pc \in Retrying /\ pc \notin Opening /\ UNCHANGED <<genFile, gen, ret, poisoned>>
      /\ poisoned # "undecided" /\ ret \in {"begin", "finish", "sync"}
  BY ZenonT(40) DEF RetryStep, PublishVersion, PublishImage, RetryDone, persistCheckpointChunk, clearWAL,
     RecoveryInv, CallInv, Retrying, Opening, gens, TypeInv, ProcessOK
<1>b. ret = "finish" => Odd(gen)
  BY ZenonT(40), <1>a DEF GenerationInv
<1>c. /\ AfterRetry(FALSE) \in {"begin", "finish", "fail"} /\ (AfterRetry(FALSE) = "finish" => ret = "finish")
      /\ AfterRetry(TRUE) = ret
  BY Zenon, <1>a DEF AfterRetry
<1>d. ~Cut /\ Kept = Len(wal) /\ Len(wal) \in Nat /\ cursor \in Nat
  BY ZenonT(40), <1>a, KeptWithin, LogIsTyped DEF RecoveryInv, CutInv, Retrying, TypeInv, ProcessOK
<1>e. \/ Odd(gen) /\ Odd(genFile)
      \/ ~Odd(gen) /\ NothingPending /\ Settled
  BY ZenonT(40), <1>a DEF GenerationInv
<1>1. CASE PublishVersion
  <2>1. /\ UNCHANGED <<wal, intent, image, pending, walRecords>> /\ ~NothingPending
        /\ pc' \in {"publish", AfterRetry(FALSE)}
    BY ZenonT(40), <1>1 DEF PublishVersion, logs, held, NothingPending
  <2>2. pc' \notin Opening \cup {"checkpoint", "sync"}
    BY Zenon, <1>c, <2>1 DEF Opening
  <2>3. pc' \in Writing \ {"begin"} => Odd(gen)
    BY ZenonT(40), <1>b, <1>c, <2>1 DEF Writing
  <2>4. Kept' = Kept
    BY Zenon, <2>1, KeptAlone
  <2>5. GenerationInv'
    BY Zenon, <1>a, <1>b, <2>1, <2>2, <2>3, <2>4, GenerationSteady
  <2>6. QED
    BY Zenon, <1>a, <2>1, <2>5, StableHeld
<1>2. CASE PublishImage
  <2>1. UNCHANGED <<wal, intent, walRecords>> /\ pc = "publish"
    BY ZenonT(40), <1>2 DEF PublishImage, logs
  <2>2. cursor \in Coords /\ IsPending(cursor)
    BY ZenonT(40), <2>1 DEF RecoveryInv, CallInv, TypeInv, Control
  <2>3. Odd(gen) /\ Odd(genFile)
    BY Zenon, <1>e, <2>2 DEF NothingPending
  <2>4. \/ pc' = "retry"
        \/ pc' = AfterRetry(FALSE) /\ pending' = pending
    BY ZenonT(40), <1>2 DEF PublishImage
  <2>5. pc' \notin Opening \cup {"checkpoint", "sync"}
    BY ZenonT(40), <1>c, <2>4 DEF Opening
  <2>6. pc' \in Writing => ~NothingPending'
    BY Zenon, <2>2, <2>4 DEF Writing, NothingPending, IsPending
  <2>7. GenerationInv'
    BY Zenon, <1>a, <2>3, <2>5, <2>6 DEF GenerationInv
  <2>8. QED
    BY Zenon, <1>a, <2>3, <2>7, StableOdd
<1>3. CASE RetryDone
  <2>1. /\ UNCHANGED <<wal, intent, image, pending, walRecords>> /\ NothingPending
        /\ pc' = IF checkpointDue THEN "checkpoint" ELSE AfterRetry(TRUE)
    BY ZenonT(40), <1>3 DEF RetryDone, logs, files, held, marks
  <2>2. pc' \notin Opening /\ (pc' = "checkpoint" => checkpointDue)
    BY Zenon, <1>a, <1>c, <2>1 DEF Opening
  <2>3. pc' \in (Writing \ {"post"}) \cup {"sync"} => Settled
    BY ZenonT(40), <2>1 DEF Settled, Writing
  <2>4. pc' \in Writing \ {"begin"} => Odd(gen)
    BY Zenon, <1>a, <1>b, <1>c, <2>1 DEF Writing
  <2>5. Kept' = Kept
    BY Zenon, <2>1, KeptAlone
  <2>6. GenerationInv'
    BY Zenon, <1>a, <1>b, <2>1, <2>2, <2>3, <2>4, <2>5, GenerationSteady
  <2>7. QED
    BY Zenon, <1>a, <2>1, <2>6, StableHeld
<1>4. CASE persistCheckpointChunk
  <2>1. PICK r : /\ r \in IF wal[cursor + 1].state = Empty THEN CollectOutcomes(wal[cursor + 1].coord)
                          ELSE Outcomes("persistCheckpointChunk", SyncsCheckpoint)
                 /\ pc' = IF r = "ok" THEN "checkpoint" ELSE AfterRetry(FALSE)
    BY ZenonT(40), <1>4 DEF persistCheckpointChunk
  <2>2. r = "ok"
    BY ZenonT(40), <2>1 DEF CollectOutcomes, Outcomes, BarriersHold, CheckpointRewrites
  <2>3. /\ pc = "checkpoint" /\ pc' = "checkpoint" /\ cursor < Len(wal)
        /\ UNCHANGED <<wal, intent, pending, walRecords>>
    BY ZenonT(40), <1>4, <2>1, <2>2 DEF persistCheckpointChunk, logs
  <2>4. checkpointDue /\ Kept # 0
    BY <1>d, <2>3 DEF GenerationInv
  <2>5. Odd(gen) /\ Odd(genFile)
    BY Zenon, <1>e, <2>4 DEF Settled
  <2>6. GenerationInv'
    <3>1. pc' \notin Opening \cup {"sync"} \cup Writing
      BY Zenon, <2>3 DEF Opening, Writing
    <3>2. checkpointDue'
      BY Zenon, <2>3, <2>4 DEF checkpointDue
    <3>3. QED
      BY ZenonT(40), <1>a, <2>5, <3>1, <3>2 DEF GenerationInv
  <2>7. QED
    BY Zenon, <1>a, <2>5, <2>6, StableOdd
<1>5. CASE clearWAL
  <2>1. PICK r \in Outcomes("clearWAL", TRUE) : wal' = Replaced(r, wal, <<>>) /\ pc' = AfterRetry(r = "ok")
    BY ZenonT(40), <1>5 DEF clearWAL
  <2>2. r # "early"
    BY Zenon, <2>1 DEF Outcomes, BarriersHold
  <2>3. pc = "checkpoint" /\ wal' = <<>> /\ UNCHANGED <<intent, image, pending>>
    BY Zenon, <1>5, <2>1, <2>2 DEF clearWAL, Replaced, files, held
  <2>4. Kept' = 0
    BY <2>3, LogIsTyped DEF Kept, Intents
  <2>5. Settled' /\ NothingPending'
    BY Zenon, <2>3, <2>4 DEF Settled, ReadsInv, NothingPending, IsPending
  <2>6. pc' \in {"begin", "finish", "sync", "fail"} /\ (pc' = "finish" => ret = "finish")
    BY Zenon, <1>a, <2>1 DEF AfterRetry
  <2>7. GenerationInv'
    <3>1. pc' \notin Opening \cup Retrying /\ (pc' \in Writing \ {"begin"} => pc' = "finish")
      BY Zenon, <2>6 DEF Opening, Writing, Retrying
    <3>2. QED
      BY Zenon, <1>a, <1>b, <1>e, <2>5, <2>6, <3>1 DEF GenerationInv, Retrying
  <2>8. QED
    BY Zenon, <1>a, <2>3, <2>7, StableHeld
<1>6. QED
  BY Zenon, <1>1, <1>2, <1>3, <1>4, <1>5 DEF RetryStep

(* finishSnapshot at the end of a write, or the barrier of a flush. *)
LEMMA GenerationFinish ==
    ASSUME TypeInv, GenerationInv, NothingPending, Settled, UNCHANGED <<wal, intent, pending, walRecords>>,
           pc \notin Opening, pc' \in {"idle", "fail"}, poisoned' # "undecided",
           NEW r, r \in {"ok", "early"}, persistSnapshotGeneration(r, NextEven)
    PROVE  GenerationInv'
<1>1. NothingPending' /\ checkpointDue' = checkpointDue /\ Kept' = Kept
  BY ZenonT(40), KeptAlone DEF NothingPending, IsPending, checkpointDue
<1>2. Settled'
  BY Zenon, <1>1 DEF Settled
<1>3. \/ ~Odd(gen')
      \/ UNCHANGED <<gen, genFile>>
  BY ZenonT(40), NextIsEven DEF persistSnapshotGeneration, Replaced
<1>4. Odd(gen') => Odd(genFile')
  BY Zenon, <1>3 DEF GenerationInv
<1>5. pc' \notin Opening \cup Writing \cup Retrying \cup {"sync"}
  BY Zenon DEF Opening, Writing, Retrying
<1>6. QED
  BY Zenon, <1>1, <1>2, <1>4, <1>5 DEF GenerationInv, Retrying

LEMMA GenerationWriteStep ==
    ASSUME TypeInv, TypeInv', RecoveryInv, RecoveryInv', ReadsInv, WriteStep, ContentMoves, BarriersHold,
           GenerationInv, EvenGenerationIsStable
    PROVE  GenerationInv' /\ EvenGenerationIsStable'
<1>a. pc \in Writing /\ pc \notin Opening
  BY Zenon DEF WriteStep, beginWriteSnapshot, RefuseBatch, ReserveVersions, PublishRollbackIntent,
     CleanFailedIntent, appendWAL, PublishCommittedIntent, AdmitCommitted, finishCommittedSnapshot, rollbackWAL,
     clearRejectedIntent, finishRejectedSnapshot, Writing, Opening
<1>b. ~PublishCommittedIntent => Kept' = Kept /\ \A c \in Coords : Recoverable(c)' = Recoverable(c)
  BY Zenon DEF ContentMoves, Steady
<1>c. pc # "begin" => Odd(gen) /\ Odd(genFile)
  BY Zenon, <1>a DEF GenerationInv
<1>d. pc # "post" /\ NothingPending /\ poisoned # "undecided" => Settled
  BY Zenon, <1>a DEF GenerationInv
<1>1. CASE beginWriteSnapshot
  <2>1. /\ pc = "begin" /\ UNCHANGED <<wal, intent, image, pending, walRecords, ret, poisoned>>
        /\ ~PublishCommittedIntent
    BY ZenonT(40), <1>1 DEF beginWriteSnapshot, logs, files, held, marks, PublishCommittedIntent
  <2>2. poisoned # "undecided" /\ poisoned' # "undecided"
    BY Zenon, <2>1 DEF RecoveryInv, CallInv
  <2>3. \/ UNCHANGED <<genFile, gen>> /\ (pc' = "fail" \/ (pc' = "validate" /\ Odd(gen)))
        \/ genFile' = gen + 1 /\ gen' = gen + 1 /\ ~Odd(gen) /\ pc' = "validate"
        \/ genFile' = gen + 1 /\ gen' = gen /\ pc' = "fail"
    BY Zenon, <1>1 DEF beginWriteSnapshot, persistSnapshotGeneration, Replaced, gens
  <2>4. pc' \in {"fail", "validate"} /\ pc' \notin Opening \cup Retrying /\ (pc' \in Writing => pc' = "validate")
    BY Zenon, <2>3 DEF Opening, Retrying, Writing
  <2>5. CASE UNCHANGED <<genFile, gen>> /\ (pc' = "validate" => Odd(gen))
    <3>1. pc' \notin {"checkpoint", "sync"} /\ (pc' \in Writing \ {"begin"} => Odd(gen))
      BY Zenon, <2>4, <2>5
    <3>2. pc' \in (Writing \ {"post"}) \cup {"sync"} => (NothingPending /\ poisoned' # "undecided" => Settled)
      BY Zenon, <1>d, <2>1, <2>2
    <3>3. GenerationInv'
      BY Zenon, <1>a, <1>b, <2>1, <2>2, <2>4, <2>5, <3>1, <3>2, GenerationSteady
    <3>4. QED
      BY Zenon, <1>b, <2>1, <2>5, <3>3, StableHeld
  <2>6. CASE genFile' = gen + 1 /\ gen' \in {gen, gen + 1} /\ ~Odd(gen) /\ (pc' = "validate" => gen' = gen + 1)
    <3>1. Odd(genFile') /\ (pc' = "validate" => Odd(gen'))
      BY Zenon, <2>6, NextIsEven, OddAlternates
    <3>2. NothingPending' /\ Settled'
      <4>1. NothingPending /\ Settled
        BY Zenon, <1>a, <2>6 DEF GenerationInv
      <4>2. QED
        BY Zenon, <1>b, <2>1, <4>1 DEF NothingPending, IsPending, Settled, checkpointDue
    <3>3. GenerationInv'
      BY Zenon, <2>2, <2>4, <3>1, <3>2 DEF GenerationInv, Retrying
    <3>4. QED
      BY Zenon, <3>1, <3>3, StableOdd
  <2>7. CASE genFile' = gen + 1 /\ gen' = gen /\ pc' = "fail" /\ Odd(gen)
    BY Zenon, <1>1, <2>7 DEF beginWriteSnapshot, persistSnapshotGeneration, gens
  <2>8. QED
    BY Zenon, <2>3, <2>5, <2>6, <2>7
<1>2. CASE finishCommittedSnapshot \/ finishRejectedSnapshot
  <2>1. /\ UNCHANGED <<wal, intent, image, pending, walRecords>> /\ pc \in {"finish", "reject"} /\ pc' = "idle"
        /\ ~PublishCommittedIntent
    BY Zenon, <1>2 DEF finishCommittedSnapshot, finishRejectedSnapshot, logs, files, held, marks, Return,
       PublishCommittedIntent
  <2>2. CASE UNCHANGED <<genFile, gen, poisoned>>
    <3>1. pc' \notin Opening \cup {"checkpoint", "sync"} \cup Writing \cup Retrying
      BY Zenon, <2>1 DEF Opening, Writing, Retrying
    <3>2. poisoned' = "undecided" => Odd(gen)
      BY Zenon, <2>2 DEF GenerationInv
    <3>3. GenerationInv'
      BY Zenon, <1>a, <1>b, <2>1, <2>2, <3>1, <3>2, GenerationSteady
    <3>4. QED
      BY Zenon, <1>b, <2>1, <2>2, <3>3, StableHeld
  <2>3. CASE /\ NothingPending /\ (pc = "finish" \/ poisoned = "no")
             /\ \E r \in FinishOutcomes("finishSnapshot", FALSE) :
                   /\ persistSnapshotGeneration(r, NextEven)
                   /\ poisoned' = IF r = "ok" THEN poisoned ELSE Poison("repair")
    <3>1. PICK r \in FinishOutcomes("finishSnapshot", FALSE) :
                   /\ persistSnapshotGeneration(r, NextEven)
                   /\ poisoned' = IF r = "ok" THEN poisoned ELSE Poison("repair")
      BY Zenon, <2>3
    <3>2. r \in {"ok", "early"}
      BY Zenon DEF FinishOutcomes, Outcomes
    <3>3. poisoned # "undecided"
      BY Zenon, <2>3 DEF RecoveryInv, CallInv
    <3>4. poisoned' # "undecided"
      BY Zenon, <3>1, <3>3 DEF Poison
    <3>5. Settled
      BY Zenon, <1>d, <2>1, <2>3, <3>3
    <3>6. GenerationInv'
      BY Zenon, <1>a, <2>1, <2>3, <3>1, <3>2, <3>4, <3>5, GenerationFinish
    <3>7. ASSUME NEW c \in Coords PROVE Content(image[c]) = Recoverable(c)
      <4>1. Fresh(c)
        BY Zenon, <2>1, <3>3 DEF Fresh
      <4>2. ImageShows(c)
        BY Zenon, <1>a, <4>1 DEF ReadsInv
      <4>3. QED
        BY Zenon, <2>1, <2>3, <4>2 DEF ImageShows, NothingPending
    <3>8. QED
      BY Zenon, <1>b, <2>1, <3>6, <3>7, StableShown
  <2>4. QED
    BY Zenon, <1>2, <2>2, <2>3 DEF finishCommittedSnapshot, finishRejectedSnapshot, gens
<1>3. CASE PublishCommittedIntent
  <2>1. UNCHANGED <<genFile, gen, image, pending, walRecords>> /\ pc = "commit"
        /\ pc' \in {"rollback", "post", "reject"}
    BY Zenon, <1>3 DEF PublishCommittedIntent, gens, files, held, marks
  <2>2. pc' \notin Opening \cup Retrying \cup {"sync", "begin"}
    BY Zenon, <2>1 DEF Opening, Retrying
  <2>3. pc' = "rollback" => Kept' = Kept
    BY Zenon, <1>3, KeptAlone DEF PublishCommittedIntent, Replaced
  <2>4. pc' = "reject" => poisoned' = "undecided"
    BY Zenon, <1>3 DEF PublishCommittedIntent, Poison, RecoveryInv, CallInv, Retrying
  <2>5. NothingPending' = NothingPending /\ checkpointDue' = checkpointDue
    BY Zenon, <2>1 DEF NothingPending, IsPending, checkpointDue
  <2>6. poisoned # "undecided"
    BY Zenon, <2>1 DEF RecoveryInv, CallInv
  <2>7. pc' = "rollback" /\ NothingPending' => Settled'
    BY Zenon, <1>d, <2>1, <2>3, <2>5, <2>6 DEF Settled
  <2>8. Odd(gen') /\ Odd(genFile')
    BY Zenon, <1>c, <2>1
  <2>9. GenerationInv'
    BY Zenon, <2>1, <2>2, <2>4, <2>7, <2>8 DEF GenerationInv, Retrying
  <2>10. QED
    BY Zenon, <2>8, <2>9, StableOdd
<1>4. CASE AdmitCommitted
  <2>1. UNCHANGED <<genFile, gen>> /\ pc = "post" /\ pc' = "retry"
    BY Zenon, <1>4 DEF AdmitCommitted, gens
  <2>2. pc' \notin Opening \cup Writing
    BY Zenon, <2>1 DEF Opening, Writing
  <2>3. Odd(gen') /\ Odd(genFile')
    BY Zenon, <1>c, <2>1
  <2>4. QED
    BY Zenon, <2>1, <2>2, <2>3, StableOdd DEF GenerationInv
<1>5. CASE RefuseBatch \/ ReserveVersions \/ PublishRollbackIntent \/ CleanFailedIntent \/ appendWAL
           \/ rollbackWAL \/ clearRejectedIntent
  <2>1. /\ UNCHANGED <<genFile, gen, image, pending, walRecords>> /\ pc \notin {"begin", "post"}
        /\ pc' \in {"reject", "intent", "append", "unpublish", "commit", "rollback", "clearRejected"}
        /\ poisoned' \in {poisoned, Poison("repair")} /\ ~PublishCommittedIntent
    BY Zenon, <1>5 DEF RefuseBatch, ReserveVersions, PublishRollbackIntent, CleanFailedIntent, appendWAL,
       rollbackWAL, clearRejectedIntent, gens, files, held, marks, PublishCommittedIntent
  <2>2. pc' \notin Opening \cup {"checkpoint", "sync"} \cup Retrying
    BY Zenon, <2>1 DEF Opening, Retrying
  <2>3. poisoned' # "undecided" => poisoned # "undecided"
    BY Zenon, <2>1 DEF Poison
  <2>4. NothingPending /\ poisoned' # "undecided" => Settled
    BY Zenon, <1>d, <2>1, <2>3
  <2>5. Odd(gen)
    BY Zenon, <1>c, <2>1
  <2>6. GenerationInv'
    BY Zenon, <1>a, <1>b, <2>1, <2>2, <2>4, <2>5, GenerationSteady
  <2>7. QED
    BY Zenon, <1>b, <2>1, <2>6, StableHeld
<1>6. QED
  BY Zenon, <1>1, <1>2, <1>3, <1>4, <1>5 DEF WriteStep

LEMMA GenerationNext ==
    ASSUME TypeInv, TypeInv', RecoveryInv, RecoveryInv', ReadsInv, [Next]_vars, ContentMoves, BarriersHold,
           GenerationInv, EvenGenerationIsStable
    PROVE  GenerationInv' /\ EvenGenerationIsStable'
<1>b. ~PublishCommittedIntent => \A c \in Coords : Recoverable(c)' = Recoverable(c)
  BY Zenon DEF ContentMoves, Steady
<1>1. CASE WriteStep
  BY Zenon, <1>1, GenerationWriteStep
<1>2. CASE OpenStep
  <2>1. \A c \in Coords : Recoverable(c)' = Recoverable(c)
    BY Zenon, <1>2, <1>b DEF OpenStep, beginWriterSnapshot, loadVersionClock, recoverConditionalIntent,
       clearRecoveredIntent, reserveRecoveryVersions, RecoverVersion, ReplayRecord, replaceWALAfterReplay,
       finishRecoveredSnapshot, PublishCommittedIntent
  <2>2. QED
    BY Zenon, <1>2, <2>1, GenerationOpenStep
<1>3. CASE RetryStep
  <2>1. \A c \in Coords : Recoverable(c)' = Recoverable(c)
    BY Zenon, <1>3, <1>b DEF RetryStep, PublishVersion, PublishImage, RetryDone, persistCheckpointChunk, clearWAL,
       PublishCommittedIntent
  <2>2. QED
    BY Zenon, <1>3, <2>1, GenerationRetryStep
<1>4. CASE WriteChunk \/ ConditionalWriteChunks \/ FlushWAL \/ ReturnError \/ ReadChunk \/ Evict
  <2>1. /\ UNCHANGED <<wal, intent, image, pending, walRecords, gen, genFile, poisoned>>
        /\ pc \in {"idle", "fail"} /\ ~PublishCommittedIntent
        /\ pc' = "idle" \/ (pc' = "retry" /\ ret' # "finish")
    BY Zenon, <1>4 DEF WriteChunk, ConditionalWriteChunks, FlushWAL, Call, ReturnError, Return, ReadChunk, Evict,
       logs, files, gens, held, marks, PublishCommittedIntent
  <2>2. pc \notin Opening /\ pc' \notin Opening \cup Writing \cup {"sync", "checkpoint"}
    BY Zenon, <2>1 DEF Opening, Writing
  <2>3. ~(pc' \in Retrying /\ ret' = "finish")
    BY Zenon, <2>1 DEF Retrying
  <2>4. poisoned' = "undecided" => Odd(gen)
    BY Zenon, <2>1 DEF GenerationInv
  <2>5. Kept' = Kept
    BY Zenon, <2>1, KeptAlone
  <2>6. GenerationInv'
    BY Zenon, <2>1, <2>2, <2>3, <2>4, <2>5, GenerationSteady
  <2>7. QED
    BY Zenon, <1>b, <2>1, <2>6, StableHeld
<1>5. CASE FlushBarrier
  <2>1. /\ UNCHANGED <<wal, intent, image, pending, walRecords, poisoned>> /\ pc = "sync"
        /\ pc' \in {"idle", "fail"} /\ ~PublishCommittedIntent
    BY ZenonT(40), <1>5 DEF FlushBarrier, Return, logs, files, held, marks, PublishCommittedIntent
  <2>2. poisoned # "undecided" /\ NothingPending /\ pc \notin Opening
    BY Zenon, <2>1 DEF RecoveryInv, CallInv, GenerationInv, Opening
  <2>3. Settled
    BY Zenon, <2>1, <2>2 DEF GenerationInv
  <2>4. \E r \in {"ok", "early"} : persistSnapshotGeneration(r, NextEven)
    <3>1. CASE UNCHANGED gens
      <4>1. persistSnapshotGeneration("early", NextEven)
        BY Zenon, <3>1 DEF persistSnapshotGeneration, Replaced, gens
      <4>2. QED
        BY Zenon, <4>1
    <3>2. CASE \E r \in FinishOutcomes("flushSnapshot", TRUE) : persistSnapshotGeneration(r, NextEven)
      <4>1. PICK r \in FinishOutcomes("flushSnapshot", TRUE) : persistSnapshotGeneration(r, NextEven)
        BY Zenon, <3>2
      <4>2. r \in {"ok", "early"}
        BY Zenon DEF FinishOutcomes, Outcomes, BarriersHold
      <4>3. QED
        BY Zenon, <4>1, <4>2
    <3>3. QED
      BY Zenon, <1>5, <3>1, <3>2 DEF FlushBarrier
  <2>5. poisoned' # "undecided"
    BY Zenon, <2>1, <2>2
  <2>6. GenerationInv'
    BY Zenon, <2>1, <2>2, <2>3, <2>4, <2>5, GenerationFinish
  <2>7. ASSUME NEW c \in Coords PROVE Content(image[c]) = Recoverable(c)
    <3>1. Fresh(c)
      BY Zenon, <2>1, <2>2 DEF Fresh
    <3>2. ImageShows(c)
      BY Zenon, <2>2, <3>1 DEF ReadsInv
    <3>3. QED
      BY Zenon, <2>1, <2>2, <3>2 DEF ImageShows, NothingPending
  <2>8. QED
    BY Zenon, <1>b, <2>1, <2>6, <2>7, StableShown
<1>6. CASE Close \/ Crash
  <2>1. ProcessGone /\ UNCHANGED <<genFile, image>> /\ ~PublishCommittedIntent
    BY Zenon, <1>6 DEF Close, Crash, files, PublishCommittedIntent, ProcessGone
  <2>2. QED
    BY Zenon, <1>b, <2>1, GenerationGone, StableHeld
<1>7. CASE UNCHANGED vars
  <2>1. UNCHANGED <<wal, intent, image, pending, walRecords, gen, genFile, ret, pc, poisoned>>
    BY Zenon, <1>7 DEF vars, logs, files, held, gens, marks
  <2>2. GenerationInv' = GenerationInv
    BY Zenon, <2>1 DEF GenerationInv, NothingPending, IsPending, checkpointDue, Settled, Kept
  <2>3. \A c \in Coords : Recoverable(c)' = Recoverable(c)
    BY Zenon, <2>1, ContentUntouched
  <2>4. QED
    BY Zenon, <2>1, <2>2, <2>3, StableHeld
<1>8. QED
  BY Zenon, <1>1, <1>2, <1>3, <1>4, <1>5, <1>6, <1>7 DEF Next

(***************************************************************************)
(* What stands still under an even generation                              *)
(***************************************************************************)

(* The process knows the generation in the file, except that a replacement *)
(* which failed late left the file one ahead of it.                        *)
GapInv ==
    /\ pc \in Opening \ {"closed"} => gen = genFile
    /\ pc \notin Opening => genFile = gen \/ genFile = gen + 1

(* The lowest generation the file can still come to.  The file itself may  *)
(* go back: a write that fails late to begin leaves it odd, and the flush  *)
(* that follows restores the even generation the process holds.            *)
Lowest == IF pc \in Opening THEN genFile ELSE gen

LEMMA GapInit == Init => GapInv
BY Zenon DEF Init, GapInv, Opening

LEMMA GenTypes ==
    ASSUME TypeInv
    PROVE  gen \in Nat /\ genFile \in Nat /\ NextEven \in {gen, gen + 1}
BY DEF TypeInv, DirectoryOK, ProcessOK, NextEven

(* The process is gone, or an open it began goes on. *)
LEMMA GapOpening ==
    ASSUME TypeInv, TypeInv', GapInv, pc \in Opening, genFile' = genFile,
           \/ pc' = "closed"
           \/ pc' \in Opening /\ gen' = gen /\ pc # "closed"
    PROVE  GapInv' /\ Lowest' >= Lowest
BY GenTypes DEF GapInv, Lowest, Opening

LEMMA GapOpenStep ==
    ASSUME TypeInv, TypeInv', GapInv, OpenStep
    PROVE  GapInv' /\ Lowest' >= Lowest
<1>1. CASE beginWriterSnapshot
  <2>1. /\ pc = "closed"
        /\ \/ genFile' = genFile /\ gen' = genFile /\ pc' = "loadClock"
           \/ genFile' = genFile + 1 /\ gen' = genFile + 1 /\ pc' = "loadClock"
           \/ genFile' \in {genFile, genFile + 1} /\ pc' = "closed"
    BY Zenon, <1>1 DEF beginWriterSnapshot, persistSnapshotGeneration, Replaced
  <2>2. QED
    BY <2>1, GenTypes DEF GapInv, Lowest, Opening
<1>2. CASE finishRecoveredSnapshot
  <2>1. /\ pc = "opened"
        /\ \/ genFile' = NextEven /\ gen' = NextEven /\ pc' = "idle"
           \/ genFile' \in {genFile, NextEven} /\ pc' = "closed"
    BY Zenon, <1>2 DEF finishRecoveredSnapshot, Replaced, ProcessGone
  <2>2. gen = genFile
    BY Zenon, <2>1 DEF GapInv, Opening
  <2>3. QED
    BY <2>1, <2>2, GenTypes DEF GapInv, Lowest, Opening
<1>3. CASE OpenStep /\ ~beginWriterSnapshot /\ ~finishRecoveredSnapshot
  <2>1. /\ pc \in {"loadClock", "recoverIntent", "clearRecovered", "reserve", "recover"}
        /\ genFile' = genFile
        /\ \/ pc' = "closed"
           \/ /\ pc' \in {"recoverIntent", "clearRecovered", "reserve", "recover", "opened"}
              /\ gen' = gen
    BY Zenon, <1>3 DEF OpenStep, loadVersionClock, recoverConditionalIntent, clearRecoveredIntent,
       reserveRecoveryVersions, RecoverVersion, ReplayRecord, replaceWALAfterReplay, OpenContinues, ProcessGone
  <2>2. pc \in Opening /\ pc # "closed"
    BY Zenon, <2>1 DEF Opening
  <2>3. pc' = "closed" \/ (pc' \in Opening /\ gen' = gen)
    BY Zenon, <2>1 DEF Opening
  <2>4. QED
    BY Zenon, <2>1, <2>2, <2>3, GapOpening
<1>4. QED
  BY Zenon, <1>1, <1>2, <1>3

(* The generation the process adopts is its own or the next one. *)
LEMMA GapNext ==
    ASSUME TypeInv, TypeInv', GapInv, [Next]_vars
    PROVE  GapInv' /\ Lowest' >= Lowest
<1>1. CASE OpenStep
  BY Zenon, <1>1, GapOpenStep
<1>2. CASE RetryStep
  <2>1. pc \notin Opening /\ pc' \notin Opening /\ UNCHANGED gens
    BY Zenon, <1>2 DEF RetryStep, PublishVersion, PublishImage, RetryDone, persistCheckpointChunk, clearWAL,
       AfterRetry, TypeInv, ProcessOK, Opening
  <2>2. QED
    BY <2>1, GenTypes DEF GapInv, Lowest, gens
<1>3. CASE WriteStep \/ FlushBarrier
  <2>1. pc \notin Opening /\ pc' \notin Opening
    BY Zenon, <1>3 DEF WriteStep, beginWriteSnapshot, RefuseBatch, ReserveVersions, PublishRollbackIntent,
       CleanFailedIntent, appendWAL, PublishCommittedIntent, AdmitCommitted, finishCommittedSnapshot, rollbackWAL,
       clearRejectedIntent, finishRejectedSnapshot, FlushBarrier, Return, Opening
  <2>2. \/ UNCHANGED gens
        \/ \E r \in {"ok", "early", "late"} : \E g \in {gen + 1, NextEven} : persistSnapshotGeneration(r, g)
    BY Zenon, <1>3 DEF WriteStep, beginWriteSnapshot, RefuseBatch, ReserveVersions, PublishRollbackIntent,
       CleanFailedIntent, appendWAL, PublishCommittedIntent, AdmitCommitted, finishCommittedSnapshot, rollbackWAL,
       clearRejectedIntent, finishRejectedSnapshot, FlushBarrier, FinishOutcomes, Outcomes
  <2>3. \/ UNCHANGED gens
        \/ gen' \in {gen, gen + 1} /\ genFile' = gen'
        \/ gen' = gen /\ genFile' \in {genFile, gen, gen + 1}
    <3>1. ASSUME NEW r \in {"ok", "early", "late"}, NEW g \in {gen + 1, NextEven},
                 persistSnapshotGeneration(r, g)
          PROVE  \/ gen' \in {gen, gen + 1} /\ genFile' = gen'
                 \/ gen' = gen /\ genFile' \in {genFile, gen, gen + 1}
      BY Zenon, <3>1, GenTypes DEF persistSnapshotGeneration, Replaced
    <3>2. QED
      BY Zenon, <2>2, <3>1
  <2>4. QED
    BY <2>1, <2>3, GenTypes DEF GapInv, Lowest, gens
<1>4. CASE WriteChunk \/ ConditionalWriteChunks \/ FlushWAL \/ ReturnError \/ ReadChunk \/ Evict
  <2>1. pc \notin Opening /\ pc' \notin Opening /\ UNCHANGED gens
    BY Zenon, <1>4 DEF WriteChunk, ConditionalWriteChunks, FlushWAL, Call, ReturnError, Return, ReadChunk, Evict,
       Opening
  <2>2. QED
    BY <2>1, GenTypes DEF GapInv, Lowest, gens
<1>5. CASE Close \/ Crash
  <2>1. pc' = "closed" /\ genFile' = genFile
    BY Zenon, <1>5 DEF Close, Crash, ProcessGone
  <2>2. QED
    BY <2>1, GenTypes DEF GapInv, Lowest, Opening
<1>6. CASE UNCHANGED vars
  BY <1>6, GenTypes DEF vars, gens, GapInv, Lowest
<1>7. QED
  BY Zenon, <1>1, <1>2, <1>3, <1>4, <1>5, <1>6 DEF Next

(* An even generation in the file is the one no step can go below. *)
LEMMA EvenIsLowest ==
    ASSUME TypeInv, GapInv, GenerationInv, ~Odd(genFile)
    PROVE  Lowest = genFile
BY Zenon, GenTypes, OddAlternates DEF GapInv, GenerationInv, Lowest

(* While that generation is even no step moves an image, a version file,   *)
(* the clock file or the intent, and none decides a commit: only the WAL   *)
(* may still be truncated.                                                 *)
LEMMA EvenStands ==
    ASSUME TypeInv, TypeInv', RecoveryInv, RecoveryInv', ReadsInv, GenerationInv, [Next]_vars, ~Odd(Lowest),
           ContentMoves
    PROVE  /\ UNCHANGED <<image, ver, clockFile, intent>>
           /\ \A c \in Coords : Recoverable(c)' = Recoverable(c)
<1>a. pc \notin Opening => ~Odd(gen) /\ NothingPending /\ Settled
  BY Zenon DEF Lowest, GenerationInv
<1>b. pc \in Opening => pc = "closed"
  BY Zenon DEF Lowest, GenerationInv
<1>d. ~PublishCommittedIntent
  BY ZenonT(40), <1>a DEF PublishCommittedIntent, GenerationInv, Writing, Opening
<1>e. \A c \in Coords : Recoverable(c)' = Recoverable(c)
  BY Zenon, <1>d DEF ContentMoves, Steady
<1> USE DEF logs, files, clocks
<1>1. CASE OpenStep
  <2>1. pc \in Opening
    BY Zenon, <1>1 DEF OpenStep, beginWriterSnapshot, loadVersionClock, recoverConditionalIntent,
       clearRecoveredIntent, reserveRecoveryVersions, RecoverVersion, ReplayRecord, replaceWALAfterReplay,
       finishRecoveredSnapshot, Opening
  <2>2. beginWriterSnapshot
    BY Zenon, <1>1, <1>b, <2>1 DEF OpenStep, loadVersionClock, recoverConditionalIntent, clearRecoveredIntent,
       reserveRecoveryVersions, RecoverVersion, ReplayRecord, replaceWALAfterReplay, finishRecoveredSnapshot
  <2>3. QED
    BY Zenon, <1>e, <2>2 DEF beginWriterSnapshot
<1>2. CASE RetryStep
  <2>1. pc \in {"retry", "publish", "checkpoint"} /\ pc \notin Opening
    BY Zenon, <1>2 DEF RetryStep, PublishVersion, PublishImage, RetryDone, persistCheckpointChunk, clearWAL,
       Opening
  <2>2. ~PublishVersion
    BY Zenon, <1>a, <2>1 DEF PublishVersion, NothingPending
  <2>3. ~PublishImage
    BY Zenon, <1>a, <2>1 DEF PublishImage, NothingPending, RecoveryInv, CallInv, TypeInv, Control
  <2>4. ~persistCheckpointChunk
    <3>1. SUFFICES ASSUME persistCheckpointChunk PROVE FALSE
      OBVIOUS
    <3>2. pc = "checkpoint" /\ cursor < Len(wal)
      BY Zenon, <3>1 DEF persistCheckpointChunk
    <3>3. Kept = 0
      BY Zenon, <1>a, <2>1, <3>2 DEF Settled, GenerationInv
    <3>4. ~Cut
      BY Zenon, <3>2 DEF RecoveryInv, CutInv
    <3>5. Len(wal) = 0 /\ cursor \in Nat
      BY Zenon, <3>3, <3>4, KeptWithin DEF TypeInv, ProcessOK
    <3>6. QED
      BY <3>2, <3>5
  <2>5. RetryDone \/ clearWAL
    BY Zenon, <1>2, <2>2, <2>3, <2>4 DEF RetryStep
  <2>6. QED
    BY Zenon, <1>e, <2>5 DEF RetryDone, clearWAL
<1>3. CASE WriteStep
  <2>1. pc \in Writing /\ pc \notin Opening
    BY Zenon, <1>3 DEF WriteStep, beginWriteSnapshot, RefuseBatch, ReserveVersions, PublishRollbackIntent,
       CleanFailedIntent, appendWAL, PublishCommittedIntent, AdmitCommitted, finishCommittedSnapshot, rollbackWAL,
       clearRejectedIntent, finishRejectedSnapshot, Writing, Opening
  <2>2. pc = "begin"
    BY Zenon, <1>a, <2>1 DEF GenerationInv
  <2>3. beginWriteSnapshot
    BY Zenon, <1>3, <2>2 DEF WriteStep, RefuseBatch, ReserveVersions, PublishRollbackIntent, CleanFailedIntent,
       appendWAL, PublishCommittedIntent, AdmitCommitted, finishCommittedSnapshot, rollbackWAL,
       clearRejectedIntent, finishRejectedSnapshot
  <2>4. QED
    BY Zenon, <1>e, <2>3 DEF beginWriteSnapshot
<1>4. CASE WriteChunk \/ ConditionalWriteChunks \/ FlushWAL \/ ReturnError \/ FlushBarrier \/ ReadChunk \/ Evict
  BY Zenon, <1>4, <1>e DEF WriteChunk, ConditionalWriteChunks, FlushWAL, Call, ReturnError, FlushBarrier,
     ReadChunk, Evict
<1>5. CASE Close \/ Crash
  BY Zenon, <1>5, <1>e DEF Close, Crash
<1>6. CASE UNCHANGED vars
  BY Zenon, <1>6, <1>e DEF vars
<1>7. QED
  BY Zenon, <1>1, <1>2, <1>3, <1>4, <1>5, <1>6 DEF Next

(* Then the images hold the recoverable content and nothing is pending,    *)
(* even in the checkpoint of an empty WAL.                                 *)
LEMMA EvenShows ==
    ASSUME TypeInv, RecoveryInv, ReadsInv, GenerationInv, EvenGenerationIsStable, ~Odd(Lowest),
           NEW c \in Coords
    PROVE  Content(image[c]) = Recoverable(c) /\ ~IsPending(c)
<1>1. CASE pc \in Opening
  <2>1. ~Odd(genFile)
    BY Zenon, <1>1 DEF Lowest
  <2>2. pending[c] = NotPending
    BY Zenon, <1>1 DEF RecoveryInv, CallInv
  <2>3. QED
    BY <2>1, <2>2 DEF EvenGenerationIsStable, IsPending, NotPending
<1>2. CASE pc \notin Opening
  <2>1. ~Odd(gen) /\ NothingPending /\ Settled
    BY Zenon, <1>2 DEF Lowest, GenerationInv
  <2>2. ~IsPending(c)
    BY Zenon, <2>1 DEF NothingPending
  <2>3. CASE pc = "checkpoint"
    <3>1. Kept = 0
      BY Zenon, <2>1, <2>3 DEF GenerationInv, Settled
    <3>2. \A i \in 1..Kept : wal[i].coord # c
      BY <3>1
    <3>3. QED
      BY Zenon, <2>2, <3>2, WithoutRecords
  <2>4. CASE pc # "checkpoint"
    <3>1. pc # "post" /\ poisoned # "undecided"
      BY Zenon, <2>1 DEF GenerationInv, Writing
    <3>2. Fresh(c)
      BY Zenon, <3>1 DEF Fresh
    <3>3. ImageShows(c)
      BY Zenon, <1>2, <3>2 DEF ReadsInv
    <3>4. QED
      BY Zenon, <2>2, <2>4, <3>3 DEF ImageShows
  <2>5. QED
    BY Zenon, <2>3, <2>4
<1>3. QED
  BY Zenon, <1>1, <1>2

(***************************************************************************)
(* The writer beside readers                                               *)
(***************************************************************************)

(* The reader's generation is even and the file can still come back to it  *)
(* only while the process holds it; until then what was loaded is the      *)
(* committed content of its chunk, or its version file.                    *)
ReaderInv ==
    /\ rpc # "start" => rgen \in Nat /\ ~Odd(rgen) /\ rgen <= Lowest
    /\ rpc = "validate" /\ Lowest = rgen =>
          \E c \in Coords :
             \/ loaded = [file |-> "image", coord |-> c, content |-> Recoverable(c)]
             \/ loaded = [file |-> "version", coord |-> c, version |-> ver[c]]

LEMMA LowestType ==
    ASSUME TypeInv
    PROVE  Lowest \in Nat
BY Zenon, GenTypes DEF Lowest

(* A step of the writer leaves the generation behind, or stands still. *)
LEMMA ReaderWaits ==
    ASSUME TypeInv, TypeInv', RecoveryInv, RecoveryInv', ReadsInv, GenerationInv, GapInv, [Next]_vars,
           ContentMoves, UNCHANGED readerVars, ReaderInv
    PROVE  ReaderInv'
<1>a. gen' \in Nat /\ genFile' \in Nat
  BY DEF TypeInv, DirectoryOK, ProcessOK
<1>1. Lowest \in Nat /\ Lowest' \in Nat /\ Lowest' >= Lowest
  BY Zenon, <1>a, GapNext, LowestType DEF Lowest
<1>2. UNCHANGED <<rpc, rgen, loaded>>
  BY Zenon DEF readerVars
<1>3. rpc' # "start" => rgen' \in Nat /\ ~Odd(rgen') /\ rgen' <= Lowest'
  BY <1>1, <1>2 DEF ReaderInv
<1>4. ASSUME rpc' = "validate", Lowest' = rgen'
      PROVE  \E c \in Coords :
                \/ loaded' = [file |-> "image", coord |-> c, content |-> Recoverable(c)']
                \/ loaded' = [file |-> "version", coord |-> c, version |-> ver'[c]]
  <2>1. Lowest = rgen /\ ~Odd(Lowest)
    BY <1>1, <1>2, <1>4 DEF ReaderInv
  <2>2. ver' = ver /\ \A c \in Coords : Recoverable(c)' = Recoverable(c)
    BY Zenon, <2>1, EvenStands
  <2>3. PICK c \in Coords :
           \/ loaded = [file |-> "image", coord |-> c, content |-> Recoverable(c)]
           \/ loaded = [file |-> "version", coord |-> c, version |-> ver[c]]
    BY Zenon, <1>2, <1>4, <2>1 DEF ReaderInv
  <2>4. QED
    BY Zenon, <1>2, <2>2, <2>3
<1>5. QED
  BY ZenonT(40), <1>3, <1>4 DEF ReaderInv

LEMMA ReaderReads ==
    ASSUME TypeInv, RecoveryInv, ReadsInv, GenerationInv, EvenGenerationIsStable, GapInv, ReaderNext, ReaderInv
    PROVE  ReaderInv'
<1>1. UNCHANGED vars
  BY Zenon DEF ReaderNext, beginReadOnlySnapshot, LoadFile, finishReadOnlySnapshot
<1>2. UNCHANGED <<pc, gen, genFile, ver, wal, intent, image>>
  BY Zenon, <1>1 DEF vars, gens, files, logs
<1>3. Lowest' = Lowest /\ \A c \in Coords : Recoverable(c)' = Recoverable(c)
  BY Zenon, <1>2, ContentUntouched DEF Lowest
<1>4. CASE beginReadOnlySnapshot
  <2>1. ~Odd(genFile) /\ rgen' = genFile /\ rpc' = "load"
    BY Zenon, <1>4 DEF beginReadOnlySnapshot
  <2>2. Lowest = genFile /\ genFile \in Nat
    BY Zenon, <2>1, EvenIsLowest, GenTypes
  <2>3. QED
    BY <1>3, <2>1, <2>2 DEF ReaderInv
<1>5. CASE LoadFile
  <2>1. rpc = "load" /\ rpc' = "validate" /\ rgen' = rgen
    BY Zenon, <1>5 DEF LoadFile
  <2>2. PICK c \in Coords :
           \/ loaded' = [file |-> "image", coord |-> c, content |-> Content(image[c])]
           \/ loaded' = [file |-> "version", coord |-> c, version |-> ver[c]]
    BY Zenon, <1>5 DEF LoadFile
  <2>3. Lowest = rgen => Content(image[c]) = Recoverable(c)
    BY Zenon, <2>1, EvenShows DEF ReaderInv
  <2>4. Lowest' = rgen' =>
           \/ loaded' = [file |-> "image", coord |-> c, content |-> Recoverable(c)']
           \/ loaded' = [file |-> "version", coord |-> c, version |-> ver'[c]]
    BY Zenon, <1>2, <1>3, <2>1, <2>2, <2>3
  <2>5. rgen' \in Nat /\ ~Odd(rgen') /\ rgen' <= Lowest'
    BY Zenon, <1>3, <2>1 DEF ReaderInv
  <2>6. QED
    BY Zenon, <2>1, <2>4, <2>5 DEF ReaderInv
<1>6. CASE finishReadOnlySnapshot
  BY Zenon, <1>6 DEF finishReadOnlySnapshot, ReaderInv
<1>7. QED
  BY Zenon, <1>4, <1>5, <1>6 DEF ReaderNext

LEMMA ReaderStep ==
    ASSUME TypeInv, TypeInv', RecoveryInv, RecoveryInv', ReadsInv, GenerationInv, EvenGenerationIsStable,
           GapInv, [Next]_vars => ContentMoves, ReaderNext \/ ([Next]_vars /\ UNCHANGED readerVars), ReaderInv
    PROVE  ReaderInv'
BY Zenon, ReaderReads, ReaderWaits

LEMMA ReaderAccepts ==
    ASSUME TypeInv, RecoveryInv, ReadsInv, GenerationInv, EvenGenerationIsStable, GapInv, ReaderInv
    PROVE  AcceptedReadIsCommitted
<1> SUFFICES ASSUME rpc = "validate", GenerationHeld
             PROVE  /\ loaded.file = "image" => loaded.content = Recoverable(loaded.coord)
                    /\ loaded.file = "version" => loaded.version = currentChunkVersion(loaded.coord)
  BY Zenon DEF AcceptedReadIsCommitted
<1>1. Lowest = rgen /\ ~Odd(Lowest)
  BY Zenon, EvenIsLowest DEF GenerationHeld
<1>2. PICK c \in Coords :
         \/ loaded = [file |-> "image", coord |-> c, content |-> Recoverable(c)]
         \/ loaded = [file |-> "version", coord |-> c, version |-> ver[c]]
  BY Zenon, <1>1 DEF ReaderInv
<1>3. currentChunkVersion(c) = ver[c]
  BY Zenon, <1>1, EvenShows DEF currentChunkVersion
<1>4. QED
  BY <1>2, <1>3

(***************************************************************************)
(* What a verification relies on                                           *)
(***************************************************************************)

(* No older release left images without version files. *)
NoLegacyImages == \A f \in InitialImages : \A c \in Coords : f[c] = Absent

HasVersion(c) == ver[c] # 0

ImagesVersioned == \A c \in Coords : image[c] # Absent => HasVersion(c)

(* The version file is there before the image: of the chunk being          *)
(* published, of every record that recovery replays once the reserved      *)
(* versions are written, and of every committed record in the WAL unless   *)
(* its chunk is still pending, or about to be.                             *)
PublishVersioned == pc = "publish" => HasVersion(cursor)

ReplayVersioned ==
    pc = "recover" => \A i \in 1..Len(wal) : HasVersion(wal[i].coord) \/ recovered[wal[i].coord] # 0

WALVersioned ==
    pc \notin Opening =>
        \A i \in 1..Kept : Fresh(wal[i].coord) => HasVersion(wal[i].coord) \/ IsPending(wal[i].coord)

VersionedInv == ImagesVersioned /\ PublishVersioned /\ ReplayVersioned /\ WALVersioned

LEMMA VersionedInit ==
    ASSUME NoLegacyImages, Init
    PROVE  VersionedInv
<1>1. ImagesVersioned
  BY Zenon DEF Init, NoLegacyImages, ImagesVersioned
<1>2. QED
  BY Zenon, <1>1 DEF Init, VersionedInv, PublishVersioned, ReplayVersioned, WALVersioned, Opening

LEMMA RecordTypes ==
    ASSUME TypeInv
    PROVE  /\ \A i \in 1..Len(wal) : wal[i] \in Mutation /\ wal[i].coord \in Coords
           /\ \A i \in 1..Kept : i \in 1..Len(wal)
           /\ image \in [Coords -> Images] /\ ver \in [Coords -> Nat]
           /\ pending \in [Coords -> Publications] /\ recovered \in [Coords -> Nat]
           /\ cursor \in Nat
<1>1. \A i \in 1..Len(wal) : wal[i] \in Mutation /\ wal[i].coord \in Coords
  <2>1. \A i \in 1..Len(wal) : wal[i] \in Mutation
    BY LogIsTyped
  <2>2. \A m \in Mutation : m.coord \in Coords
    BY Zenon DEF Mutation
  <2>3. QED
    BY Zenon, <2>1, <2>2
<1>2. \A i \in 1..Kept : i \in 1..Len(wal)
  <2>1. Kept \in Nat /\ Kept <= Len(wal) /\ Len(wal) \in Nat
    BY Zenon, KeptWithin, LogIsTyped
  <2>2. QED
    BY <2>1
<1>3. QED
  BY Zenon, <1>1, <1>2 DEF TypeInv, DirectoryOK, ProcessOK

LEMMA FilesHeld ==
    ASSUME [Next]_vars, ~PublishVersion, ~PublishImage, ~persistCheckpointChunk, ~RecoverVersion, ~ReplayRecord
    PROVE  UNCHANGED <<image, ver>>
BY ZenonT(40) DEF Next, OpenStep, beginWriterSnapshot, loadVersionClock, recoverConditionalIntent,
   clearRecoveredIntent, reserveRecoveryVersions, replaceWALAfterReplay, finishRecoveredSnapshot, RetryStep,
   RetryDone, clearWAL, WriteStep, beginWriteSnapshot, RefuseBatch, ReserveVersions, PublishRollbackIntent,
   CleanFailedIntent, appendWAL, PublishCommittedIntent, AdmitCommitted, finishCommittedSnapshot, rollbackWAL,
   clearRejectedIntent, finishRejectedSnapshot, WriteChunk, ConditionalWriteChunks, FlushWAL, Call, ReturnError,
   FlushBarrier, ReadChunk, Evict, Close, Crash, files, vars

(* A version file is never removed. *)
LEMMA VersionsStay ==
    ASSUME TypeInv, [Next]_vars, NEW c \in Coords, HasVersion(c)
    PROVE  HasVersion(c)'
<1> USE RecordTypes DEF HasVersion
<1>1. CASE PublishVersion
  <2>1. PICK d \in Coords, r \in Outcomes("persistChunkVersion", SyncsPublications) :
           pending[d].version # 0 /\ ver' = [ver EXCEPT ![d] = Replaced(r, @, pending[d].version)]
    BY Zenon, <1>1 DEF PublishVersion, IsPending
  <2>2. QED
    BY Zenon, <2>1 DEF Replaced
<1>2. CASE RecoverVersion
  <2>1. PICK d \in Coords, r \in Outcomes("replayVersion", SyncsCheckpoint) :
           recovered[d] # 0 /\ ver' = [ver EXCEPT ![d] = Replaced(r, @, recovered[d])]
    BY Zenon, <1>2 DEF RecoverVersion
  <2>2. QED
    BY Zenon, <2>1 DEF Replaced
<1>3. CASE PublishImage \/ persistCheckpointChunk \/ ReplayRecord
  BY Zenon, <1>3 DEF PublishImage, persistCheckpointChunk, ReplayRecord
<1>4. QED
  BY Zenon, <1>1, <1>2, <1>3, FilesHeld

LEMMA ImagesVersionedNext ==
    ASSUME TypeInv, RecoveryInv, ReadsInv, VersionedInv, [Next]_vars
    PROVE  ImagesVersioned'
<1> USE RecordTypes
<1> SUFFICES ASSUME NEW c \in Coords, image'[c] # Absent, ~HasVersion(c)
             PROVE  FALSE
  BY Zenon, VersionsStay DEF ImagesVersioned
<1>1. image[c] = Absent
  BY Zenon DEF VersionedInv, ImagesVersioned
<1>2. CASE PublishImage
  <2>1. pc = "publish" /\ \E x : image' = [image EXCEPT ![cursor] = x]
    BY Zenon, <1>2 DEF PublishImage
  <2>2. HasVersion(cursor)
    BY Zenon, <2>1 DEF VersionedInv, PublishVersioned
  <2>3. QED
    BY Zenon, <1>1, <2>1, <2>2
<1>3. CASE persistCheckpointChunk
  <2>1. pc = "checkpoint" /\ cursor < Len(wal) /\ \E x : image' = [image EXCEPT ![wal[cursor + 1].coord] = x]
    BY Zenon, <1>3 DEF persistCheckpointChunk
  <2>2. NothingPending /\ poisoned # "undecided" /\ ~Cut
    BY Zenon, <2>1 DEF ReadsInv, RecoveryInv, CallInv, CutInv
  <2>3. cursor + 1 \in 1..Kept /\ cursor + 1 \in 1..Len(wal)
    BY <2>1, <2>2, KeptWithin, LogIsTyped
  <2>4. Fresh(wal[cursor + 1].coord) /\ ~IsPending(wal[cursor + 1].coord)
    BY Zenon, <2>1, <2>2, <2>3 DEF Fresh, NothingPending
  <2>5. HasVersion(wal[cursor + 1].coord)
    BY Zenon, <2>1, <2>3, <2>4 DEF VersionedInv, WALVersioned, Opening
  <2>6. QED
    BY Zenon, <1>1, <2>1, <2>5
<1>4. CASE ReplayRecord
  <2>1. /\ pc = "recover" /\ VersionsRecovered /\ cursor < Len(wal)
        /\ \E x : image' = [image EXCEPT ![wal[cursor + 1].coord] = x]
    BY Zenon, <1>4 DEF ReplayRecord
  <2>2. cursor + 1 \in 1..Len(wal)
    BY <2>1, LogIsTyped
  <2>3. recovered[wal[cursor + 1].coord] = 0
    BY Zenon, <2>1, <2>2 DEF VersionsRecovered
  <2>4. HasVersion(wal[cursor + 1].coord)
    BY Zenon, <2>1, <2>2, <2>3 DEF VersionedInv, ReplayVersioned
  <2>5. QED
    BY Zenon, <1>1, <2>1, <2>4
<1>5. CASE PublishVersion \/ RecoverVersion
  BY Zenon, <1>1, <1>5 DEF PublishVersion, RecoverVersion
<1>6. QED
  BY Zenon, <1>1, <1>2, <1>3, <1>4, <1>5, FilesHeld

LEMMA PublishVersionedNext ==
    ASSUME TypeInv, VersionedInv, [Next]_vars
    PROVE  PublishVersioned'
<1> SUFFICES ASSUME pc' = "publish" PROVE HasVersion(cursor)'
  BY Zenon DEF PublishVersioned
<1>1. PublishVersion \/ UNCHANGED vars
  BY ZenonT(40) DEF Next, OpenStep, beginWriterSnapshot, loadVersionClock, recoverConditionalIntent,
     clearRecoveredIntent, reserveRecoveryVersions, RecoverVersion, ReplayRecord, replaceWALAfterReplay,
     finishRecoveredSnapshot, OpenContinues, ProcessGone, RetryStep, PublishImage, RetryDone,
     persistCheckpointChunk, clearWAL, WriteStep, beginWriteSnapshot, RefuseBatch, ReserveVersions,
     PublishRollbackIntent, CleanFailedIntent, appendWAL, PublishCommittedIntent, AdmitCommitted,
     finishCommittedSnapshot, rollbackWAL, clearRejectedIntent, finishRejectedSnapshot, Return, WriteChunk,
     ConditionalWriteChunks, FlushWAL, Call, ReturnError, FlushBarrier, ReadChunk, Evict, Close, Crash, AfterRetry,
     TypeInv, ProcessOK
<1>2. CASE PublishVersion
  <2>1. PICK d \in Coords, r \in Outcomes("persistChunkVersion", SyncsPublications) :
           /\ pending[d].version # 0
           /\ ver' = [ver EXCEPT ![d] = Replaced(r, @, pending[d].version)]
           /\ cursor' = (IF r = "ok" THEN d ELSE 0)
           /\ pc' = (IF r = "ok" THEN "publish" ELSE AfterRetry(FALSE))
    BY Zenon, <1>2 DEF PublishVersion, IsPending
  <2>2. AfterRetry(FALSE) # "publish"
    BY Zenon DEF AfterRetry, TypeInv, ProcessOK
  <2>3. r = "ok" /\ cursor' = d
    BY Zenon, <2>1, <2>2
  <2>4. QED
    BY Zenon, <2>1, <2>3, RecordTypes DEF HasVersion, Replaced
<1>3. CASE UNCHANGED vars
  <2>1. UNCHANGED <<pc, cursor, ver>>
    BY Zenon, <1>3 DEF vars, marks, files
  <2>2. QED
    BY Zenon, <2>1 DEF VersionedInv, PublishVersioned, HasVersion
<1>4. QED
  BY Zenon, <1>1, <1>2, <1>3

LEMMA ReplayVersionedNext ==
    ASSUME TypeInv, VersionedInv, ChangesReserved, ChangesCounted, [Next]_vars
    PROVE  ReplayVersioned'
<1> SUFFICES ASSUME pc' = "recover"
             PROVE  /\ wal' = wal
                    /\ \A i \in 1..Len(wal) : (HasVersion(wal[i].coord) \/ recovered[wal[i].coord] # 0)'
  BY ZenonT(40) DEF ReplayVersioned
<1> USE RecordTypes
<1>1. reserveRecoveryVersions \/ RecoverVersion \/ ReplayRecord \/ UNCHANGED vars
  BY ZenonT(40) DEF Next, OpenStep, beginWriterSnapshot, loadVersionClock, recoverConditionalIntent,
     clearRecoveredIntent, replaceWALAfterReplay, finishRecoveredSnapshot, OpenContinues, ProcessGone, RetryStep,
     PublishVersion, PublishImage, RetryDone, persistCheckpointChunk, clearWAL, WriteStep, beginWriteSnapshot,
     RefuseBatch, ReserveVersions, PublishRollbackIntent, CleanFailedIntent, appendWAL, PublishCommittedIntent,
     AdmitCommitted, finishCommittedSnapshot, rollbackWAL, clearRejectedIntent, finishRejectedSnapshot, Return,
     WriteChunk, ConditionalWriteChunks, FlushWAL, Call, ReturnError, FlushBarrier, ReadChunk, Evict, Close, Crash,
     AfterRetry, TypeInv, ProcessOK
<1>2. wal' = wal /\ (~reserveRecoveryVersions => pc = "recover")
  BY Zenon, <1>1 DEF reserveRecoveryVersions, RecoverVersion, ReplayRecord, vars, logs
<1>3. CASE reserveRecoveryVersions
  <2>1. ver' = ver /\ \A c \in ChangedChunks : recovered'[c] # 0
    <3>1. ver' = ver
      BY Zenon, <1>3 DEF reserveRecoveryVersions, files
    <3>2. CASE ChangedChunks = {}
      BY Zenon, <3>1, <3>2
    <3>3. CASE ChangedChunks # {}
      <4>1. PICK f \in [ChangedChunks -> (versionClock + 1)..(versionClock + Cardinality(ChangedChunks))] :
               recovered' = [c \in Coords |-> IF c \in ChangedChunks THEN f[c] ELSE 0]
        BY Zenon, <1>3, <3>3 DEF reserveRecoveryVersions, ProcessGone
      <4>2. ChangedChunks \subseteq Coords
        BY Zenon DEF ChangedChunks
      <4>3. versionClock \in Nat /\ Cardinality(ChangedChunks) \in Nat
        BY Zenon DEF ChangesCounted, TypeInv, ProcessOK
      <4>4. \A c \in ChangedChunks : c \in Coords /\ f[c] # 0
        BY <4>1, <4>2, <4>3
      <4>5. QED
        BY Zenon, <3>1, <4>1, <4>4
    <3>4. QED
      BY Zenon, <3>2, <3>3
  <2>2. \A i \in 1..Len(wal) : HasVersion(wal[i].coord) \/ wal[i].coord \in ChangedChunks
    BY Zenon DEF ChangesReserved, HasVersion
  <2>3. QED
    BY Zenon, <1>2, <2>1, <2>2 DEF HasVersion
<1>4. CASE ~reserveRecoveryVersions
  <2>1. \A i \in 1..Len(wal) : HasVersion(wal[i].coord) \/ recovered[wal[i].coord] # 0
    BY Zenon, <1>2, <1>4 DEF VersionedInv, ReplayVersioned
  <2>2. \A c \in Coords : recovered[c] # 0 => (recovered'[c] # 0 \/ HasVersion(c)')
    <3>1. CASE RecoverVersion
      <4>1. PICK d \in Coords, r \in Outcomes("replayVersion", SyncsCheckpoint) :
               /\ recovered[d] # 0
               /\ ver' = [ver EXCEPT ![d] = Replaced(r, @, recovered[d])]
               /\ \/ r = "ok" /\ recovered' = [recovered EXCEPT ![d] = 0]
                  \/ pc' = "closed"
        BY Zenon, <3>1 DEF RecoverVersion, ProcessGone
      <4>2. r = "ok" /\ recovered' = [recovered EXCEPT ![d] = 0]
        BY Zenon, <4>1
      <4>3. QED
        BY Zenon, <4>1, <4>2 DEF HasVersion, Replaced
    <3>2. CASE ReplayRecord \/ UNCHANGED vars
      BY Zenon, <3>2 DEF ReplayRecord, ProcessGone, vars, marks
    <3>3. QED
      BY Zenon, <1>1, <1>4, <3>1, <3>2
  <2>3. QED
    BY Zenon, <1>2, <2>1, <2>2, VersionsStay
<1>5. QED
  BY Zenon, <1>3, <1>4

(* Steps that keep the records and what is known of their chunks. *)
LEMMA WALVersionedHeld ==
    ASSUME TypeInv, VersionedInv, [Next]_vars, pending' = pending, Kept' = Kept,
           \A i \in 1..Kept : wal'[i] = wal[i],
           \A c \in Coords : Fresh(c)' => Fresh(c), pc \notin Opening
    PROVE  WALVersioned'
<1> SUFFICES ASSUME NEW i \in 1..Kept, Fresh(wal[i].coord)'
             PROVE  (HasVersion(wal[i].coord) \/ IsPending(wal[i].coord))'
  BY Zenon DEF WALVersioned
<1>1. wal'[i] = wal[i] /\ wal[i].coord \in Coords
  BY Zenon, RecordTypes
<1> DEFINE c == wal[i].coord
<1>2. c \in Coords /\ c' = c
  BY Zenon, <1>1
<1> HIDE DEF c
<1>3. HasVersion(c) \/ IsPending(c)
  BY Zenon, <1>2 DEF VersionedInv, WALVersioned, c
<1>4. QED
  BY Zenon, <1>2, <1>3, VersionsStay DEF IsPending, c

(* Nothing is kept of an empty WAL. *)
LEMMA WALVersionedEmpty ==
    ASSUME TypeInv', wal' = <<>>
    PROVE  WALVersioned'
<1>1. Kept' = 0
  BY DEF Kept, TypeInv, DirectoryOK, Intents
<1>2. QED
  BY <1>1 DEF WALVersioned

LEMMA WALVersionedRetryStep ==
    ASSUME TypeInv, TypeInv', RecoveryInv, VersionedInv, RetryStep
    PROVE  WALVersioned'
<1>a. pc \in Retrying /\ pc \notin Opening /\ pc # "post" /\ poisoned' = poisoned /\ intent' = intent
  BY Zenon DEF RetryStep, PublishVersion, PublishImage, RetryDone, persistCheckpointChunk, clearWAL, Retrying,
     Opening, logs
<1>b. [Next]_vars
  BY Zenon DEF Next
<1>1. CASE PublishVersion \/ RetryDone \/ persistCheckpointChunk
  <2>1. UNCHANGED <<wal, intent, pending>>
    BY Zenon, <1>1 DEF PublishVersion, RetryDone, persistCheckpointChunk, logs, held
  <2>2. Kept' = Kept
    BY Zenon, <2>1, KeptAlone
  <2>3. \A c \in Coords : Fresh(c)' => Fresh(c)
    BY Zenon, <1>a DEF Fresh
  <2>4. QED
    BY Zenon, <1>a, <1>b, <2>1, <2>2, <2>3, WALVersionedHeld
<1>2. CASE PublishImage
  <2>1. UNCHANGED <<wal, intent>> /\ pc = "publish" /\ cursor \in Coords
    BY Zenon, <1>2 DEF PublishImage, logs, TypeInv, Control
  <2>2. Kept' = Kept
    BY Zenon, <2>1, KeptAlone
  <2>3. pending' \in {pending, [pending EXCEPT ![cursor] = NotPending]}
    BY Zenon, <1>2 DEF PublishImage
  <2>4. HasVersion(cursor)
    BY Zenon, <2>1 DEF VersionedInv, PublishVersioned
  <2>5. \A c \in Coords : HasVersion(c) \/ IsPending(c) => HasVersion(c)' \/ IsPending(c)'
    <3>1. \A c \in Coords : HasVersion(c) => HasVersion(c)'
      BY Zenon, <1>b, VersionsStay
    <3>2. \A c \in Coords : c # cursor => pending'[c] = pending[c]
      BY Zenon, <2>3, RecordTypes
    <3>3. QED
      BY Zenon, <2>4, <3>1, <3>2 DEF IsPending
  <2>6. \A i \in 1..Kept : HasVersion(wal[i].coord) \/ IsPending(wal[i].coord)
    BY Zenon, <1>a, RecordTypes DEF VersionedInv, WALVersioned, Fresh, RecoveryInv, CallInv, Retrying
  <2>7. \A i \in 1..Kept : wal[i].coord \in Coords
    BY Zenon, RecordTypes
  <2>8. \A i \in 1..Kept : (HasVersion(wal[i].coord) \/ IsPending(wal[i].coord))'
    BY Zenon, <2>1, <2>5, <2>6, <2>7
  <2>9. QED
    BY Zenon, <2>2, <2>8 DEF WALVersioned
<1>3. CASE clearWAL
  <2>1. wal' \in {wal, <<>>} /\ pending' = pending
    BY Zenon, <1>3 DEF clearWAL, Replaced, held
  <2>2. CASE wal' = <<>>
    BY Zenon, <2>2, WALVersionedEmpty
  <2>3. CASE wal' = wal
    <3>1. Kept' = Kept
      BY Zenon, <1>a, <2>3, KeptAlone
    <3>2. \A c \in Coords : Fresh(c)' => Fresh(c)
      BY Zenon, <1>a DEF Fresh
    <3>3. QED
      BY Zenon, <1>a, <1>b, <2>1, <2>3, <3>1, <3>2, WALVersionedHeld
  <2>4. QED
    BY Zenon, <2>1, <2>2, <2>3
<1>4. QED
  BY Zenon, <1>1, <1>2, <1>3 DEF RetryStep

LEMMA WALVersionedWriteStep ==
    ASSUME TypeInv, TypeInv', RecoveryInv, RecoveryInv', VersionedInv, WriteStep, ContentMoves
    PROVE  WALVersioned'
<1>a. pc \in Writing /\ pc \notin Opening
  BY Zenon DEF WriteStep, beginWriteSnapshot, RefuseBatch, ReserveVersions, PublishRollbackIntent,
     CleanFailedIntent, appendWAL, PublishCommittedIntent, AdmitCommitted, finishCommittedSnapshot, rollbackWAL,
     clearRejectedIntent, finishRejectedSnapshot, Writing, Opening
<1>b. [Next]_vars
  BY Zenon DEF Next
<1>1. CASE WriteStep /\ ~PublishCommittedIntent /\ ~AdmitCommitted
  <2>1. pc # "post" /\ pending' = pending /\ (poisoned = "undecided" => poisoned' = "undecided")
    BY Zenon, <1>1 DEF WriteStep, beginWriteSnapshot, RefuseBatch, ReserveVersions, PublishRollbackIntent,
       CleanFailedIntent, appendWAL, finishCommittedSnapshot, rollbackWAL, clearRejectedIntent,
       finishRejectedSnapshot, Poison, held
  <2>2. Kept' = Kept
    BY Zenon, <1>1 DEF ContentMoves
  <2>3. \A c \in Coords : Fresh(c)' => Fresh(c)
    BY Zenon, <2>1 DEF Fresh
  <2>4. \A i \in 1..Kept : wal'[i] = wal[i]
    <3>1. CASE appendWAL
      <4>1. PICK s \in Seq(Mutation) : wal' = wal \o s
        <5>1. \A k \in 0..(Len(op.muts) - 1) : SubSeq(op.muts, 1, k) \in Seq(Mutation)
          BY LogIsTyped
        <5>2. QED
          BY Zenon, <3>1, <5>1, LogIsTyped DEF appendWAL
      <4>2. QED
        BY <4>1, KeptWithin, LogIsTyped
    <3>2. CASE rollbackWAL
      <4>1. wal' \in {wal, SubSeq(wal, 1, intent.boundary)}
        BY Zenon, <3>2 DEF rollbackWAL, Replaced
      <4>2. intent.state = "rollback" /\ intent.boundary <= Len(wal)
        BY Zenon, <3>2 DEF rollbackWAL, RecoveryInv, CutInv
      <4>3. Kept = intent.boundary
        BY Zenon, <4>2, KeptWithin
      <4>4. QED
        BY Zenon, <4>1, <4>2, <4>3, PrefixIsCut
    <3>3. CASE ~appendWAL /\ ~rollbackWAL
      BY Zenon, <1>1, <3>3 DEF WriteStep, beginWriteSnapshot, RefuseBatch, ReserveVersions, PublishRollbackIntent,
         CleanFailedIntent, finishCommittedSnapshot, clearRejectedIntent, finishRejectedSnapshot, logs
    <3>4. QED
      BY Zenon, <3>1, <3>2, <3>3
  <2>5. QED
    BY Zenon, <1>a, <1>b, <2>1, <2>2, <2>3, <2>4, WALVersionedHeld
<1>2. CASE PublishCommittedIntent
  <2>1. pc = "commit" /\ UNCHANGED <<wal, pending, op>>
    BY Zenon, <1>2 DEF PublishCommittedIntent, held, call
  <2>2. /\ Len(wal) = intent.boundary + Len(op.muts)
        /\ intent.state = "rollback"
        /\ \A j \in DOMAIN op.muts : wal[intent.boundary + j] = op.muts[j]
    BY Zenon, <2>1 DEF RecoveryInv, CutInv
  <2>3. Kept = intent.boundary
    BY <2>2, KeptWithin, LogIsTyped
  <2>4. \/ intent' = intent /\ (poisoned = "undecided" => poisoned' = "undecided")
        \/ pc' = "post" /\ poisoned' = poisoned
        \/ poisoned' = "undecided"
    <3>1. poisoned = "no"
      BY Zenon, <2>1 DEF RecoveryInv, CallInv, Retrying
    <3>2. QED
      BY Zenon, <1>2, <3>1 DEF PublishCommittedIntent, Replaced, Poison
  <2>5. CASE intent' = intent /\ (poisoned = "undecided" => poisoned' = "undecided")
    <3>1. Kept' = Kept
      BY Zenon, <2>1, <2>5, KeptAlone
    <3>2. \A c \in Coords : Fresh(c)' => Fresh(c)
      BY Zenon, <2>1, <2>5 DEF Fresh
    <3>3. QED
      BY Zenon, <1>a, <1>b, <2>1, <3>1, <3>2, WALVersionedHeld
  <2>6. CASE pc' = "post" /\ poisoned' = poisoned
    <3> SUFFICES ASSUME NEW i \in 1..Kept', Fresh(wal[i].coord)'
                 PROVE  (HasVersion(wal[i].coord) \/ IsPending(wal[i].coord))'
      BY Zenon DEF WALVersioned
    <3>1. i \in 1..Len(wal)
      <4>1. Kept' \in Nat /\ Kept' <= Len(wal)
        BY <2>1, LogIsTyped DEF Kept, TypeInv, DirectoryOK, Intents
      <4>2. QED
        BY <4>1, LogIsTyped
    <3>2. CASE i > intent.boundary
      <4>1. i - intent.boundary \in DOMAIN op.muts /\ i = intent.boundary + (i - intent.boundary)
        BY <2>2, <3>1, <3>2, LogIsTyped
      <4>2. wal[i].coord \in Mutated
        BY Zenon, <2>2, <4>1 DEF Mutated
      <4>3. QED
        BY Zenon, <2>1, <2>6, <4>2 DEF Fresh, Mutated
    <3>3. CASE i <= intent.boundary
      <4>1. i \in 1..Kept /\ wal[i].coord \in Coords
        BY <2>3, <3>1, <3>3, RecordTypes, LogIsTyped
      <4>2. Fresh(wal[i].coord)
        BY Zenon, <2>1, <2>6 DEF Fresh
      <4>3. HasVersion(wal[i].coord) \/ IsPending(wal[i].coord)
        BY Zenon, <1>a, <4>1, <4>2 DEF VersionedInv, WALVersioned
      <4>4. HasVersion(wal[i].coord) => ver'[wal[i].coord] # 0
        BY Zenon, <1>b, <4>1, VersionsStay DEF HasVersion
      <4>5. QED
        BY Zenon, <2>1, <4>3, <4>4 DEF HasVersion, IsPending
    <3>4. QED
      BY <3>1, <3>2, <3>3, LogIsTyped
  <2>7. CASE poisoned' = "undecided"
    BY Zenon, <2>7 DEF WALVersioned, Fresh
  <2>8. QED
    BY Zenon, <2>4, <2>5, <2>6, <2>7
<1>3. CASE AdmitCommitted
  <2>1. /\ pc = "post" /\ wal' = wal /\ op' = op /\ intent' \in {intent, NoIntent}
        /\ pending' = [c \in Coords |-> IF c \in Mutated THEN Publication(c) ELSE pending[c]]
        /\ (poisoned = "undecided" => poisoned' = "undecided")
    BY Zenon, <1>3 DEF AdmitCommitted, Replaced, Poison, call
  <2>2. intent.state = "committed"
    BY Zenon, <2>1 DEF RecoveryInv, CutInv
  <2>3. Kept = Len(wal) /\ Kept' = Len(wal)
    BY <2>1, <2>2 DEF Kept, NoIntent
  <2>4. \A c \in Mutated : Publication(c).version # 0
    <3>1. Len(op.muts) <= versionClock /\ versionClock \in Nat
      BY Zenon, <2>1 DEF TypeInv, Control, Reserved, ProcessOK
    <3>2. \A c \in Mutated : IndexOf(c) \in 1..Len(op.muts)
      BY Zenon, BatchIsTyped
    <3>3. QED
      BY <3>1, <3>2, LogIsTyped DEF Publication
  <2> SUFFICES ASSUME NEW i \in 1..Len(wal), Fresh(wal[i].coord)'
               PROVE  (HasVersion(wal[i].coord) \/ IsPending(wal[i].coord))'
    BY Zenon, <2>3 DEF WALVersioned
  <2>5. wal[i].coord \in Coords
    BY Zenon, RecordTypes
  <2>6. CASE wal[i].coord \in Mutated
    BY Zenon, <2>1, <2>4, <2>5, <2>6 DEF IsPending
  <2>7. CASE wal[i].coord \notin Mutated
    <3>1. Fresh(wal[i].coord)
      BY Zenon, <2>1, <2>7 DEF Fresh
    <3>2. HasVersion(wal[i].coord) \/ IsPending(wal[i].coord)
      BY Zenon, <1>a, <2>3, <3>1 DEF VersionedInv, WALVersioned
    <3>3. HasVersion(wal[i].coord) => ver'[wal[i].coord] # 0
      BY Zenon, <1>b, <2>5, VersionsStay DEF HasVersion
    <3>4. QED
      BY Zenon, <2>1, <2>5, <2>7, <3>2, <3>3 DEF HasVersion, IsPending
  <2>8. QED
    BY Zenon, <2>6, <2>7
<1>4. QED
  BY Zenon, <1>1, <1>2, <1>3

LEMMA VersionedNext ==
    ASSUME TypeInv, TypeInv', RecoveryInv, RecoveryInv', ReadsInv, VersionedInv, [Next]_vars,
           ContentMoves, ChangesReserved, ChangesCounted
    PROVE  VersionedInv'
<1>1. WALVersioned'
  <2>1. CASE OpenStep
    <3>1. pc' \notin Opening => pc = "opened" /\ wal' = wal
      BY ZenonT(40), <2>1 DEF OpenStep, beginWriterSnapshot, loadVersionClock, recoverConditionalIntent,
         clearRecoveredIntent, reserveRecoveryVersions, RecoverVersion, ReplayRecord, replaceWALAfterReplay,
         finishRecoveredSnapshot, OpenContinues, ProcessGone, Opening, logs
    <3>2. pc' \notin Opening => wal' = <<>>
      BY Zenon, <3>1 DEF ReadsInv
    <3>3. QED
      BY Zenon, <3>2, WALVersionedEmpty DEF WALVersioned
  <2>2. CASE WriteChunk \/ ConditionalWriteChunks \/ FlushWAL \/ ReturnError \/ FlushBarrier \/ ReadChunk \/ Evict
    <3>1. /\ pc \notin Opening \cup {"post"} /\ UNCHANGED <<wal, intent, pending, poisoned>>
      BY Zenon, <2>2 DEF WriteChunk, ConditionalWriteChunks, FlushWAL, Call, ReturnError, FlushBarrier, ReadChunk,
         Evict, held, logs, Opening
    <3>2. Kept' = Kept
      BY Zenon, <3>1, KeptAlone
    <3>3. \A c \in Coords : Fresh(c)' => Fresh(c)
      BY Zenon, <3>1 DEF Fresh
    <3>4. QED
      BY Zenon, <3>1, <3>2, <3>3, WALVersionedHeld
  <2>3. CASE Close \/ Crash
    BY Zenon, <2>3 DEF Close, Crash, ProcessGone, WALVersioned, Opening
  <2>4. CASE UNCHANGED vars
    <3>1. UNCHANGED <<pc, wal, intent, pending, poisoned, op>>
      BY Zenon, <2>4 DEF vars, logs, held, call
    <3>2. Kept' = Kept
      BY Zenon, <3>1, KeptAlone
    <3>3. \A c \in Coords : Fresh(c)' => Fresh(c)
      BY Zenon, <3>1 DEF Fresh, Mutated
    <3>4. CASE pc \in Opening
      BY Zenon, <3>1, <3>4 DEF WALVersioned
    <3>5. QED
      BY Zenon, <3>1, <3>2, <3>3, <3>4, WALVersionedHeld
  <2>5. QED
    BY Zenon, <2>1, <2>2, <2>3, <2>4, WALVersionedRetryStep, WALVersionedWriteStep DEF Next
<1>2. QED
  BY Zenon, <1>1, ImagesVersionedNext, PublishVersionedNext, ReplayVersionedNext DEF VersionedInv

(* The WAL ends in part of a record only under an odd generation: its      *)
(* write is being rolled back, or the store is poisoned and the next open  *)
(* truncates the WAL before it finishes.                                   *)
TornInv ==
    tail = "torn" =>
        /\ Odd(genFile)
        /\ pc # "opened"
        /\ pc \notin Opening => \/ pc = "rollback"
                                \/ pc \in {"reject", "idle"} /\ poisoned # "no"

(* Whoever got past loading the clock, or finished an open, left its file. *)
ClockPresent ==
    /\ pc \notin {"closed", "loadClock"} => clockFile # NoClock
    /\ genFile > 1 => clockFile # NoClock

LEMMA TornNext ==
    ASSUME TypeInv, GenerationInv, TornInv, [Next]_vars
    PROVE  TornInv'
<1> SUFFICES ASSUME tail' = "torn" PROVE TornInv'
  BY Zenon DEF TornInv
<1>1. CASE OpenStep
  <2>1. tail = "torn" /\ pc \in Opening /\ pc # "opened" /\ Odd(genFile)
    BY Zenon, <1>1 DEF OpenStep, beginWriterSnapshot, loadVersionClock, recoverConditionalIntent,
       clearRecoveredIntent, reserveRecoveryVersions, RecoverVersion, ReplayRecord, replaceWALAfterReplay,
       finishRecoveredSnapshot, Replaced, logs, Opening, TornInv
  <2>2. pc' \in Opening \ {"opened"} /\ genFile' = genFile
    BY Zenon, <1>1, <2>1 DEF OpenStep, beginWriterSnapshot, loadVersionClock, recoverConditionalIntent,
       clearRecoveredIntent, reserveRecoveryVersions, RecoverVersion, ReplayRecord, replaceWALAfterReplay,
       finishRecoveredSnapshot, OpenContinues, ProcessGone, Replaced, Opening
  <2>3. QED
    BY Zenon, <2>1, <2>2 DEF TornInv
<1>2. CASE appendWAL
  <2>1. pc = "append" /\ pc' \in {"commit", "rollback"} /\ UNCHANGED gens /\ (pc' = "commit" => tail' = tail)
    BY Zenon, <1>2 DEF appendWAL
  <2>2. Odd(genFile) /\ tail # "torn"
    BY Zenon, <2>1 DEF GenerationInv, TornInv, Writing, Opening
  <2>3. QED
    BY Zenon, <2>1, <2>2 DEF TornInv, Opening, gens
<1>3. CASE rollbackWAL
  <2>1. pc = "rollback" /\ pc' = "reject" /\ poisoned' # "no" /\ UNCHANGED gens
    BY Zenon, <1>3 DEF rollbackWAL, Replaced, Poison
  <2>2. Odd(genFile)
    BY Zenon, <2>1 DEF GenerationInv, Writing, Opening
  <2>3. QED
    BY Zenon, <2>1, <2>2 DEF TornInv, gens
<1>4. CASE finishRejectedSnapshot
  <2>1. tail' = tail /\ pc = "reject"
    BY Zenon, <1>4 DEF finishRejectedSnapshot, logs
  <2>2. Odd(genFile) /\ poisoned # "no"
    BY Zenon, <2>1 DEF TornInv, Opening
  <2>3. pc' = "idle" /\ UNCHANGED <<genFile, poisoned>>
    BY Zenon, <1>4, <2>2 DEF finishRejectedSnapshot, Return, gens
  <2>4. QED
    BY Zenon, <2>2, <2>3 DEF TornInv
<1>5. CASE RetryStep \/ (WriteStep /\ ~appendWAL /\ ~rollbackWAL /\ ~finishRejectedSnapshot)
  <2>1. tail = "torn" /\ pc \notin Opening /\ pc \notin {"rollback", "reject", "idle"}
    BY Zenon, <1>5 DEF RetryStep, PublishVersion, PublishImage, RetryDone, persistCheckpointChunk, clearWAL,
       WriteStep, beginWriteSnapshot, RefuseBatch, ReserveVersions, PublishRollbackIntent, CleanFailedIntent,
       PublishCommittedIntent, AdmitCommitted, finishCommittedSnapshot, clearRejectedIntent, logs, Replaced,
       Opening
  <2>2. QED
    BY Zenon, <2>1 DEF TornInv
<1>6. CASE WriteChunk \/ ConditionalWriteChunks \/ FlushWAL \/ ReturnError \/ FlushBarrier
  <2>1. tail = "torn" /\ pc \notin Opening /\ (pc = "idle" => poisoned = "no") /\ pc \notin {"rollback", "reject"}
    BY Zenon, <1>6 DEF WriteChunk, ConditionalWriteChunks, FlushWAL, Call, ReturnError, FlushBarrier, logs, Opening
  <2>2. QED
    BY Zenon, <2>1 DEF TornInv
<1>7. CASE ReadChunk \/ Evict \/ UNCHANGED vars
  <2>1. UNCHANGED <<tail, pc, poisoned, genFile>>
    BY Zenon, <1>7 DEF ReadChunk, Evict, logs, gens, vars
  <2>2. QED
    BY Zenon, <2>1 DEF TornInv
<1>8. CASE Close \/ Crash
  <2>1. UNCHANGED <<tail, genFile>> /\ pc' = "closed"
    BY Zenon, <1>8 DEF Close, Crash, ProcessGone, logs
  <2>2. QED
    BY Zenon, <2>1 DEF TornInv, Opening
<1>9. QED
  BY Zenon, <1>1, <1>2, <1>3, <1>4, <1>5, <1>6, <1>7, <1>8 DEF Next

LEMMA ClockPresentNext ==
    ASSUME TypeInv, TypeInv', ClockPresent, ChangesCounted, [Next]_vars
    PROVE  ClockPresent'
<1>a. versionClock + Cardinality(ChangedChunks) # NoClock /\ versionClock + Len(op.muts) # NoClock
  <2>2. Cardinality(ChangedChunks) \in Nat
    BY Zenon DEF ChangesCounted
  <2>3. versionClock \in Nat
    BY Zenon DEF TypeInv, ProcessOK
  <2>4. Len(op.muts) \in Nat
    BY Zenon, LogIsTyped
  <2>5. QED
    BY <2>2, <2>3, <2>4 DEF NoClock
<1>1. ASSUME clockFile # NoClock PROVE clockFile' # NoClock
  BY ZenonT(40), <1>1, <1>a DEF Next, OpenStep, beginWriterSnapshot, loadVersionClock, recoverConditionalIntent,
     clearRecoveredIntent, reserveRecoveryVersions, RecoverVersion, ReplayRecord, replaceWALAfterReplay,
     finishRecoveredSnapshot, Replaced, RetryStep, PublishVersion, PublishImage, RetryDone, persistCheckpointChunk,
     clearWAL, WriteStep, beginWriteSnapshot, RefuseBatch, ReserveVersions, PublishRollbackIntent,
     CleanFailedIntent, appendWAL, PublishCommittedIntent, AdmitCommitted, finishCommittedSnapshot, rollbackWAL,
     clearRejectedIntent, finishRejectedSnapshot, WriteChunk, ConditionalWriteChunks, FlushWAL, Call, ReturnError,
     FlushBarrier, ReadChunk, Evict, Close, Crash, clocks, vars
<1>2. CASE clockFile # NoClock
  BY Zenon, <1>1, <1>2 DEF ClockPresent
<1>3. CASE clockFile = NoClock
  <2>1. pc \in {"closed", "loadClock"} /\ ~(genFile > 1)
    BY Zenon, <1>3 DEF ClockPresent
  <2>2. beginWriterSnapshot \/ loadVersionClock \/ Crash \/ UNCHANGED vars
    BY ZenonT(40), <2>1 DEF Next, OpenStep, recoverConditionalIntent, clearRecoveredIntent,
       reserveRecoveryVersions, RecoverVersion, ReplayRecord, replaceWALAfterReplay, finishRecoveredSnapshot,
       RetryStep, PublishVersion, PublishImage, RetryDone, persistCheckpointChunk, clearWAL, WriteStep,
       beginWriteSnapshot, RefuseBatch, ReserveVersions, PublishRollbackIntent, CleanFailedIntent, appendWAL,
       PublishCommittedIntent, AdmitCommitted, finishCommittedSnapshot, rollbackWAL, clearRejectedIntent,
       finishRejectedSnapshot, WriteChunk, ConditionalWriteChunks, FlushWAL, Call, ReturnError, FlushBarrier,
       ReadChunk, Evict, Close
  <2>3. CASE beginWriterSnapshot
    <3>1. pc' \in {"closed", "loadClock"} /\ (genFile' = genFile \/ (~Odd(genFile) /\ genFile' = genFile + 1))
      BY Zenon, <2>3 DEF beginWriterSnapshot, persistSnapshotGeneration, Replaced
    <3>2. ~(genFile' > 1)
      BY <2>1, <3>1, GenTypes DEF Odd
    <3>3. QED
      BY Zenon, <3>1, <3>2 DEF ClockPresent
  <2>4. CASE loadVersionClock
    <3>1. genFile' = genFile /\ (clockFile' \in Nat \/ pc' = "closed")
      <4>1. PICK highest \in {0} \cup {ver[c] : c \in Coords} : clockFile' = highest \/ pc' = "closed"
        BY Zenon, <1>3, <2>4 DEF loadVersionClock, ProcessGone, Replaced
      <4>2. highest \in Nat
        BY RecordTypes
      <4>3. QED
        BY Zenon, <2>4, <4>1, <4>2 DEF loadVersionClock
    <3>2. QED
      BY <2>1, <3>1 DEF ClockPresent, NoClock
  <2>5. CASE Crash \/ UNCHANGED vars
    <3>1. pc' \in {"closed", "loadClock"} /\ genFile' = genFile
      BY Zenon, <2>1, <2>5 DEF Crash, ProcessGone, vars, gens
    <3>2. QED
      BY Zenon, <2>1, <3>1 DEF ClockPresent
  <2>6. QED
    BY Zenon, <2>2, <2>3, <2>4, <2>5
<1>4. QED
  BY Zenon, <1>2, <1>3

(***************************************************************************)
(* A verification beside the writer                                        *)
(***************************************************************************)

(* What a scan under an even generation finds in the directory. *)
DirectoryStable ==
    /\ Lowest = genFile
    /\ genFile # 0 => clockFile # NoClock
    /\ tail = "whole"
    /\ intent.state = "rollback" => intent.boundary <= Len(wal)
    /\ \A c \in Coords : /\ ver[c] <= clockFile \/ ver[c] = 0
                         /\ image[c] # Absent => ver[c] # 0
                         /\ Content(image[c]) = Recoverable(c)

LEMMA EvenDirectory ==
    ASSUME TypeInv, RecoveryInv, ReadsInv, GenerationInv, EvenGenerationIsStable, GapInv,
           BoundaryCoversTail, VersionsWithinClock, VersionedInv, TornInv, ClockPresent, ~Odd(genFile)
    PROVE  DirectoryStable
<1>1. Lowest = genFile
  BY Zenon, EvenIsLowest
<1>2. genFile # 0 => clockFile # NoClock
  BY GenTypes DEF ClockPresent, Odd
<1>3. tail = "whole"
  BY Zenon DEF TornInv, TypeInv, DirectoryOK
<1>4. intent.state = "rollback" => intent.boundary <= Len(wal)
  BY Zenon DEF BoundaryCoversTail
<1>5. ASSUME NEW c \in Coords
      PROVE  /\ ver[c] <= clockFile \/ ver[c] = 0
             /\ image[c] # Absent => ver[c] # 0
             /\ Content(image[c]) = Recoverable(c)
  <2>1. ver[c] <= clockFile \/ ver[c] = 0
    BY Zenon DEF VersionsWithinClock
  <2>2. image[c] # Absent => ver[c] # 0
    BY Zenon DEF VersionedInv, ImagesVersioned, HasVersion
  <2>3. QED
    BY Zenon, <1>1, <2>1, <2>2, EvenShows
<1>6. QED
  BY Zenon, <1>1, <1>2, <1>3, <1>4, <1>5 DEF DirectoryStable

(* An issue that says nothing against the committed state. *)
Tolerated(i) ==
    \/ i.code = "intent_pending" /\ intent.state # "none"
    \/ i.code = "intent_boundary_invalid" /\ intent.state = "committed"
    \/ i.code = "image_missing" /\ i.coord \in Coords /\ Recoverable(i.coord) = Absent

Scanning == vpc # "start"

(* While the generation holds, what the scan has read is still there, and  *)
(* until it compares what it read it has nothing to report.                *)
ScanInv ==
    /\ vpc \in {"start", "clock", "wal", "images", "versions", "intent", "final"}
    /\ Scanning => vgen = genFile /\ ~Odd(genFile) /\ genFile # 0
    /\ vpc \in {"wal", "images", "versions", "intent", "final"} => vclock = clockFile
    /\ vpc \in {"images", "versions", "intent", "final"} =>
          vwal \in Nat /\ (intent.state = "rollback" => intent.boundary <= vwal)
    /\ vpc \in {"versions", "intent", "final"} => vimages = {c \in Coords : image[c] # Absent}
    /\ vpc \in {"intent", "final"} => vversions = ver
    /\ vpc # "final" => issues = {}
    /\ vpc = "final" => \A i \in issues : Tolerated(i)

(* A step of the writer ends the scan, or stands still. *)
LEMMA ScanWaits ==
    ASSUME TypeInv, TypeInv', RecoveryInv, RecoveryInv', ReadsInv, GenerationInv, GapInv, [Next]_vars,
           ContentMoves,
           Scanning => DirectoryStable, FollowScan \/ (UNCHANGED verifierVars /\ UNCHANGED vars), ScanInv
    PROVE  ScanInv'
<1>1. CASE NotScanned
  BY Zenon, <1>1 DEF NotScanned, ScanInv, Scanning
<1>2. CASE ~NotScanned /\ ~Scanning
  <2>1. UNCHANGED verifierVars
    BY Zenon, <1>2 DEF FollowScan, Scanning
  <2>2. QED
    BY Zenon, <1>2, <2>1 DEF verifierVars, ScanInv, Scanning
<1>3. CASE ~NotScanned /\ Scanning
  <2>1. UNCHANGED verifierVars /\ (genFile' = vgen \/ UNCHANGED vars)
    BY Zenon, <1>3 DEF FollowScan, Scanning, GenerationKept
  <2>2. UNCHANGED <<vpc, vgen, vclock, vwal, vimages, vversions, issues>>
    BY Zenon, <2>1 DEF verifierVars
  <2>3. genFile' = genFile /\ ~Odd(genFile)
    BY Zenon, <1>3, <2>1 DEF ScanInv, vars, gens
  <2>4. ~Odd(Lowest)
    BY Zenon, <1>3, <2>3 DEF DirectoryStable
  <2>5. UNCHANGED <<image, ver, clockFile, intent>> /\ \A c \in Coords : Recoverable(c)' = Recoverable(c)
    BY Zenon, <2>4, EvenStands
  <2>6. vpc = "final" => \A i \in issues : Tolerated(i)'
    <3>1. SUFFICES ASSUME vpc = "final", NEW i \in issues PROVE Tolerated(i)'
      OBVIOUS
    <3>2. Tolerated(i)
      BY Zenon, <3>1 DEF ScanInv
    <3>3. Recoverable(i.coord)' = Recoverable(i.coord) \/ i.coord \notin Coords
      BY Zenon, <2>5
    <3>4. QED
      BY Zenon, <2>5, <3>2, <3>3 DEF Tolerated
  <2>7. QED
    BY Zenon, <2>2, <2>3, <2>5, <2>6 DEF ScanInv, Scanning
<1>4. QED
  BY Zenon, <1>1, <1>2, <1>3

LEMMA ScanReads ==
    ASSUME TypeInv, ~Odd(genFile) => DirectoryStable, VerifierNext, ScanInv
    PROVE  ScanInv'
<1>1. UNCHANGED <<image, ver, clockFile, intent, wal, tail, genFile>>
  BY Zenon DEF VerifierNext, vars, files, clocks, logs, gens
<1>2. \A c \in Coords : Recoverable(c)' = Recoverable(c)
  BY Zenon, <1>1, ContentUntouched
<1>3. CASE verifyGeneration
  BY Zenon, <1>1, <1>3 DEF verifyGeneration, ScanInv, Scanning
<1>4. CASE verifyFinalGeneration
  BY Zenon, <1>4 DEF verifyFinalGeneration, NotScanned, ScanInv, Scanning
<1>5. CASE Scanning /\ ~verifyFinalGeneration
  <2>1. DirectoryStable /\ genFile # 0 /\ vgen = genFile /\ ~Odd(genFile)
    BY Zenon, <1>5 DEF ScanInv
  <2>2. vgen' = vgen
    BY Zenon, <1>5 DEF VerifierNext, verifyGeneration, verifyClock, verifyWAL, verifyImage, verifyVersion,
       verifyIntent, Scanning
  <2>3. CASE verifyClock
    <3>1. vpc' = "wal" /\ vclock' = clockFile /\ issues' = {}
      BY Zenon, <2>1, <2>3 DEF verifyClock, DirectoryStable
    <3>2. QED
      BY Zenon, <1>1, <2>1, <2>2, <3>1 DEF ScanInv, Scanning
  <2>4. CASE verifyWAL
    <3>1. vpc = "wal" /\ vpc' = "images" /\ vwal' = Len(wal) /\ issues' = issues /\ vclock' = vclock
      BY Zenon, <2>1, <2>4 DEF verifyWAL, DirectoryStable
    <3>2. Len(wal) \in Nat /\ (intent.state = "rollback" => intent.boundary <= Len(wal))
      BY Zenon, <2>1, LogIsTyped DEF DirectoryStable
    <3>3. QED
      BY Zenon, <1>1, <2>1, <2>2, <3>1, <3>2 DEF ScanInv, Scanning
  <2>5. CASE verifyImage
    BY Zenon, <1>1, <2>1, <2>2, <2>5 DEF verifyImage, ScanInv, Scanning
  <2>6. CASE verifyVersion
    <3>1. vpc = "versions" /\ vpc' = "intent" /\ vversions' = ver /\ UNCHANGED <<vclock, vwal, vimages>>
      BY Zenon, <2>6 DEF verifyVersion
    <3>2. vclock = clockFile /\ clockFile \in Nat \cup {NoClock}
      BY Zenon, <3>1 DEF ScanInv, TypeInv, DirectoryOK
    <3>3. \A d \in Coords : vclock # NoClock => ~(ver[d] > vclock)
      BY <2>1, <3>2, RecordTypes DEF DirectoryStable, NoClock
    <3>4. {d \in Coords : vclock # NoClock /\ ver[d] > vclock} = {}
      BY Zenon, <3>3
    <3>5. issues' = issues
      BY Zenon, <2>6, <3>4 DEF verifyVersion
    <3>6. QED
      BY Zenon, <1>1, <2>1, <2>2, <3>1, <3>5 DEF ScanInv, Scanning
  <2>7. CASE verifyIntent
    <3>1. vpc = "intent" /\ vpc' = "final" /\ UNCHANGED <<vclock, vwal, vimages, vversions>>
      BY Zenon, <2>7 DEF verifyIntent
    <3>2. /\ issues = {} /\ vimages = {c \in Coords : image[c] # Absent} /\ vversions = ver
          /\ vwal \in Nat
          /\ intent.state = "rollback" => intent.boundary <= vwal
      BY Zenon, <3>1 DEF ScanInv
    <3>3. \A i \in issues' : Tolerated(i)'
      <4> SUFFICES ASSUME NEW i \in issues' PROVE Tolerated(i)'
        OBVIOUS
      <4>1. \/ i \in verifyImageVersions
            \/ i = [code |-> "intent_pending"] /\ intent.state # "none"
            \/ i = [code |-> "intent_boundary_invalid"] /\ intent.state # "none" /\ intent.boundary > vwal
        BY Zenon, <2>7, <3>2 DEF verifyIntent
      <4>2. CASE i \in verifyImageVersions
        <5>1. \/ \E c \in vimages : vversions[c] = 0
              \/ \E c \in Coords \ vimages : i = [code |-> "image_missing", coord |-> c]
          BY Zenon, <4>2 DEF verifyImageVersions
        <5>2. PICK c \in Coords \ vimages : i = [code |-> "image_missing", coord |-> c]
          <6>1. ASSUME NEW d \in vimages PROVE vversions[d] # 0
            <7>1. d \in Coords /\ image[d] # Absent
              BY Zenon, <3>2
            <7>2. ver[d] # 0
              BY Zenon, <2>1, <7>1 DEF DirectoryStable
            <7>3. QED
              BY Zenon, <3>2, <7>2
          <6>2. QED
            BY Zenon, <5>1, <6>1
        <5>3. image[c] = Absent
          BY Zenon, <3>2, <5>2
        <5>4. Recoverable(c) = Absent
          BY Zenon, <2>1, <5>2, <5>3 DEF DirectoryStable, Content
        <5>5. QED
          BY Zenon, <1>2, <5>2, <5>4 DEF Tolerated
      <4>3. CASE i = [code |-> "intent_pending"] /\ intent.state # "none"
        BY Zenon, <1>1, <4>3 DEF Tolerated
      <4>4. CASE i = [code |-> "intent_boundary_invalid"] /\ intent.state # "none" /\ intent.boundary > vwal
        <5>1. intent \in Intents /\ vwal' = vwal
          BY Zenon, <3>1, LogIsTyped
        <5>2. intent.state # "rollback"
          BY <3>2, <4>4, LogIsTyped
        <5>3. intent.state = "committed"
          BY Zenon, <4>4, <5>1, <5>2 DEF Intents
        <5>4. QED
          BY Zenon, <1>1, <4>4, <5>3 DEF Tolerated
      <4>5. QED
        BY Zenon, <4>1, <4>2, <4>3, <4>4
    <3>4. QED
      BY Zenon, <1>1, <2>1, <2>2, <3>1, <3>2, <3>3 DEF ScanInv, Scanning
  <2>8. QED
    BY Zenon, <1>5, <2>3, <2>4, <2>5, <2>6, <2>7 DEF VerifierNext, verifyGeneration, Scanning
<1>6. QED
  BY ZenonT(40), <1>3, <1>4, <1>5 DEF VerifierNext, verifyClock, verifyWAL, verifyImage, verifyVersion,
     verifyIntent, Scanning

LEMMA ScanStep ==
    ASSUME TypeInv, TypeInv', RecoveryInv, RecoveryInv', ReadsInv, GenerationInv, GapInv,
           [Next]_vars => ContentMoves, ~Odd(genFile) => DirectoryStable, ScanInv,
           \/ VerifierNext
           \/ [Next]_vars /\ (FollowScan \/ (UNCHANGED verifierVars /\ UNCHANGED vars))
    PROVE  ScanInv'
<1>1. Scanning => DirectoryStable
  BY Zenon DEF ScanInv
<1>2. QED
  BY Zenon, <1>1, ScanReads, ScanWaits

LEMMA ScanReports ==
    ASSUME ~Odd(genFile) => DirectoryStable, ScanInv
    PROVE  ReportIsAboutCommitted
<1> SUFFICES ASSUME vpc = "final"
             PROVE  /\ \A c \in Coords : Recoverable(c) # Absent => c \in vimages
                    /\ \A i \in issues :
                          \/ i.code = "intent_pending" /\ intent.state # "none"
                          \/ i.code = "intent_boundary_invalid" /\ intent.state = "committed"
                          \/ i.code = "image_missing" /\ Recoverable(i.coord) = Absent
  BY Zenon DEF ReportIsAboutCommitted
<1>1. DirectoryStable /\ vimages = {c \in Coords : image[c] # Absent}
  BY Zenon DEF ScanInv, Scanning
<1>2. \A c \in Coords : Recoverable(c) # Absent => image[c] # Absent
  BY Zenon, <1>1 DEF DirectoryStable, Content
<1>3. \A i \in issues : Tolerated(i)
  BY Zenon DEF ScanInv
<1>4. QED
  BY Zenon, <1>1, <1>2, <1>3 DEF Tolerated

(***************************************************************************)
(* Where readers start                                                     *)
(***************************************************************************)

LEMMA DirectoryInit == Init => TornInv /\ ClockPresent
BY DEF Init, TornInv, ClockPresent

LEMMA ReadersStart == (ReaderInit => ReaderInv) /\ (VerifierInit => ScanInv)
BY Zenon DEF ReaderInit, ReaderInv, VerifierInit, ScanInv, Scanning
================================================================================
