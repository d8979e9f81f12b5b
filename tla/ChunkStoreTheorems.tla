-------------------------- MODULE ChunkStoreTheorems --------------------------
(***************************************************************************)
(* What the users of a data directory may rely on, in the writer process   *)
(* and beside it: the steps of ChunkStoreUserProofs, with the invariants   *)
(* of ChunkStoreProofs and ChunkStoreRecoveryProofs as their hypotheses.   *)
(***************************************************************************)
EXTENDS StoreUsers, ChunkStoreProofs, ChunkStoreRecoveryProofs, ChunkStoreUserProofs

LEMMA RecoveryInvariant == Spec => []RecoveryInv
BY TypeInvariant, RecoveryHolds, PTL

LEMMA ReadsInvariant ==
    ASSUME CheckpointRewrites
    PROVE  Spec => []ReadsInv
<1>1. Spec /\ []TypeInv => []ReadsInv
  BY Zenon, ReadsHold
<1>2. QED
  BY <1>1, TypeInvariant, PTL

(***************************************************************************)
(* The writer process                                                      *)
(***************************************************************************)

(* Unless a checkpoint fails to rewrite an image, a read between           *)
(* operations returns what a restart would recover, from the pending       *)
(* publications, from the cache or from the image file alike: no failed    *)
(* publication, eviction, checkpoint, rejected write or crash shows a      *)
(* reader anything but the committed content.                              *)
THEOREM ReadsStayCommitted ==
    ASSUME CheckpointRewrites
    PROVE  Spec => []ReadsCommitted
<1>1. Spec => []ReadsInv
  BY Zenon, ReadsInvariant
<1>2. QED
  BY <1>1, ReadsShow, RecoveryInvariant, PTL

(* Whatever file operation fails and wherever the process dies, the store  *)
(* is an atomic map: its recoverable content changes only by whole batches *)
(* that took effect between their call and their answer, an acknowledged   *)
(* batch took effect, a refused one did not, and a store that cannot tell  *)
(* takes no further write.  No failure is excluded.                        *)
THEOREM StoreIsAtomic == Spec => ImplementsAtomicChunks
<1>1. TypeInv /\ RecoveryInv => PhaseTable
  BY Zenon, PhaseIs DEF RecoveryInv
<1>2. TypeInv /\ TypeInv' /\ RecoveryInv /\ RecoveryInv' /\ PhaseTable /\ PhaseTable' /\ [Next]_vars
      => [Atomic!Next]_(Atomic!vars)
  BY Zenon, AtomicNext, ContentIsMoved
<1>3. QED
  BY <1>1, <1>2, AtomicInit, TypeInvariant, RecoveryInvariant, PTL DEF Spec, ImplementsAtomicChunks, Atomic!Spec

(* A reader or a verification changes no file and nothing the writer holds. *)
LEMMA UsersStep ==
    ASSUME [UsersNext]_users
    PROVE  /\ [Next]_vars
           /\ ClientNext \/ UNCHANGED <<vars, seen>>
           /\ ReaderNext \/ ([Next]_vars /\ UNCHANGED readerVars)
           /\ \/ VerifierNext
              \/ [Next]_vars /\ (FollowScan \/ (UNCHANGED verifierVars /\ UNCHANGED vars))
BY Zenon DEF UsersNext, users, WriterNext, ClientNext, ReaderNext, beginReadOnlySnapshot, LoadFile,
   finishReadOnlySnapshot, VerifierNext

LEMMA UsersRunStore == UsersSpec => Spec
<1>1. UsersInit => Init
  BY DEF UsersInit, ClientInit
<1>2. [UsersNext]_users => [Next]_vars
  BY Zenon, UsersStep
<1>3. QED
  BY <1>1, <1>2, PTL DEF UsersSpec, Spec

LEMMA StaleInvariant ==
    ASSUME CheckpointRewrites
    PROVE  Spec => []StaleShows
<1>1. Spec => []ReadsInv
  BY Zenon, ReadsInvariant
<1>2. TypeInv /\ RecoveryInv /\ ReadsInv /\ StaleShows /\ [Next]_vars => StaleShows'
  BY Zenon, StaleNext
<1>3. QED
  BY <1>1, <1>2, StaleInit, TypeInvariant, RecoveryInvariant, PTL DEF Spec

(* Unless a checkpoint fails to rewrite an image, versions are ordering    *)
(* tokens: across failed publications, crashes and recoveries, a client    *)
(* that looks at a chunk again finds a higher version or the same version  *)
(* with the same content, short of a write the process took with it before *)
(* publishing it.  A conditional write that names an old version therefore *)
(* cannot match a newer content.                                           *)
THEOREM VersionsStayOrdered ==
    ASSUME CheckpointRewrites
    PROVE  UsersSpec => VersionsOrderContent
<1>1. Spec => []ReadsInv
  BY Zenon, ReadsInvariant
<1>2. Spec => []ReadsCommitted
  BY Zenon, ReadsStayCommitted
<1>3. Spec => []StaleShows
  BY Zenon, StaleInvariant
<1>4. TypeInv /\ UsersInit => SeenInv
  BY Zenon, SeenInit DEF UsersInit
<1>5. /\ TypeInv /\ TypeInv' /\ RecoveryInv /\ RecoveryInv' /\ ReadsInv /\ ReadsCommitted'
      /\ StaleShows /\ StaleShows' /\ AheadInv /\ [UsersNext]_users /\ SeenInv
      => SeenInv' /\ [\A c \in Coords : OrdersContent(c)]_<<vars, seen>>
  BY Zenon, SeenStep, UsersStep, ContentIsMoved, ChangesAreReserved, ChangesAreCounted
<1>6. UsersSpec => [][\A c \in Coords : OrdersContent(c)]_<<vars, seen>>
  BY <1>1, <1>2, <1>3, <1>4, <1>5, UsersRunStore, TypeInvariant, RecoveryInvariant, AheadInvariant, PTL
     DEF UsersSpec
<1>7. QED
  BY <1>6 DEF VersionsOrderContent, OrdersContent

(***************************************************************************)
(* Readers and verifications beside the writer                             *)
(***************************************************************************)

LEMMA GenerationInvariant ==
    ASSUME BarriersHold
    PROVE  Spec => [](ReadsInv /\ GenerationInv /\ EvenGenerationIsStable)
<1>1. CheckpointRewrites
  BY Zenon DEF BarriersHold
<1>2. Spec => []ReadsInv
  BY Zenon, <1>1, ReadsInvariant
<1>3. /\ TypeInv /\ TypeInv' /\ RecoveryInv /\ RecoveryInv' /\ ReadsInv /\ [Next]_vars
      /\ GenerationInv /\ EvenGenerationIsStable
      => GenerationInv' /\ EvenGenerationIsStable'
  BY Zenon, GenerationNext, ContentIsMoved
<1>4. QED
  BY <1>2, <1>3, TypeInvariant, RecoveryInvariant, GenerationInit, PTL DEF Spec

(* Unless a checkpoint fails to rewrite an image or to truncate the WAL,   *)
(* or a barrier fails after it replaced the generation file, an even       *)
(* generation file means that the image files alone hold the committed     *)
(* content, whatever the writer is in the middle of and wherever it died.  *)
THEOREM EvenStaysStable ==
    ASSUME BarriersHold
    PROVE  Spec => []EvenGenerationIsStable
<1>1. Spec => [](ReadsInv /\ GenerationInv /\ EvenGenerationIsStable)
  BY Zenon, GenerationInvariant
<1>2. QED
  BY <1>1, PTL

LEMMA GapInvariant == Spec => []GapInv
<1>1. TypeInv /\ TypeInv' /\ GapInv /\ [Next]_vars => GapInv'
  BY Zenon, GapNext
<1>2. QED
  BY <1>1, TypeInvariant, GapInit, PTL DEF Spec

(* Short of the same failures, a read-only process whose generation held   *)
(* returns the committed content of its chunk or its current version.  The *)
(* writer may have failed, died and been reopened between the three reads, *)
(* and the generation may have gone up and come back to the same value.    *)
THEOREM ReadersAcceptCommitted ==
    ASSUME BarriersHold
    PROVE  UsersSpec => []AcceptedReadIsCommitted
<1>1. UsersInit => ReaderInv
  BY Zenon, ReadersStart DEF UsersInit
<1>2. Spec => [](ReadsInv /\ GenerationInv /\ EvenGenerationIsStable)
  BY Zenon, GenerationInvariant
<1>3. /\ TypeInv /\ TypeInv' /\ RecoveryInv /\ RecoveryInv' /\ ReadsInv /\ GenerationInv
      /\ EvenGenerationIsStable /\ GapInv /\ [UsersNext]_users /\ ReaderInv
      => ReaderInv'
  BY Zenon, ReaderStep, UsersStep, ContentIsMoved
<1>4. TypeInv /\ RecoveryInv /\ ReadsInv /\ GenerationInv /\ EvenGenerationIsStable /\ GapInv /\ ReaderInv
      => AcceptedReadIsCommitted
  BY Zenon, ReaderAccepts
<1>5. QED
  BY <1>1, <1>2, <1>3, <1>4, UsersRunStore, TypeInvariant, RecoveryInvariant, GapInvariant, PTL DEF UsersSpec

(* What the scan needs of the store, for every state of a run. *)
LEMMA DirectoryInvariant ==
    ASSUME BarriersHold, NoLegacyImages, <<"intentExists", "early">> \notin Faults
    PROVE  Spec => [](~Odd(genFile) => DirectoryStable)
<1>1. Spec => [](ReadsInv /\ GenerationInv /\ EvenGenerationIsStable)
  BY Zenon, GenerationInvariant
<1>2. Init => VersionedInv
  BY Zenon, VersionedInit
<1>3. TypeInv /\ TypeInv' /\ RecoveryInv /\ RecoveryInv' /\ ReadsInv /\ VersionedInv /\ [Next]_vars => VersionedInv'
  BY Zenon, VersionedNext, ContentIsMoved, ChangesAreReserved, ChangesAreCounted
<1>4. TypeInv /\ GenerationInv /\ TornInv /\ [Next]_vars => TornInv'
  BY Zenon, TornNext
<1>5. TypeInv /\ TypeInv' /\ ClockPresent /\ [Next]_vars => ClockPresent'
  BY Zenon, ClockPresentNext, ChangesAreCounted
<1>6. Spec => []BoundaryCoversTail
  BY Zenon, BoundaryStaysCovered
<1>7. /\ TypeInv /\ RecoveryInv /\ ReadsInv /\ GenerationInv /\ EvenGenerationIsStable /\ GapInv
      /\ BoundaryCoversTail /\ VersionsWithinClock /\ VersionedInv /\ TornInv /\ ClockPresent
      => (~Odd(genFile) => DirectoryStable)
  BY Zenon, EvenDirectory
<1>8. QED
  BY <1>1, <1>2, <1>3, <1>4, <1>5, <1>6, <1>7, DirectoryInit, TypeInvariant, RecoveryInvariant, GapInvariant,
     VersionsStayWithinClock, PTL DEF Spec

(* Short of the same failures and of a failing intentExists, and when no   *)
(* older release left images without versions, a verification beside the   *)
(* writer that does not report a moved generation lists the image of every *)
(* chunk that has content, and names no fault but an intent left behind    *)
(* and the missing image of an empty chunk.                                *)
THEOREM VerifiersReportCommitted ==
    ASSUME BarriersHold, NoLegacyImages, <<"intentExists", "early">> \notin Faults
    PROVE  UsersSpec => []ReportIsAboutCommitted
<1>1. UsersInit => ScanInv
  BY Zenon, ReadersStart DEF UsersInit
<1>2. Spec => [](ReadsInv /\ GenerationInv /\ EvenGenerationIsStable)
  BY Zenon, GenerationInvariant
<1>3. Spec => [](~Odd(genFile) => DirectoryStable)
  BY Zenon, DirectoryInvariant
<1>4. /\ TypeInv /\ TypeInv' /\ RecoveryInv /\ RecoveryInv' /\ ReadsInv /\ GenerationInv /\ GapInv
      /\ (~Odd(genFile) => DirectoryStable) /\ [UsersNext]_users /\ ScanInv
      => ScanInv'
  BY Zenon, ScanStep, UsersStep, ContentIsMoved
<1>5. (~Odd(genFile) => DirectoryStable) /\ ScanInv => ReportIsAboutCommitted
  BY Zenon, ScanReports
<1>6. QED
  BY <1>1, <1>2, <1>3, <1>4, <1>5, UsersRunStore, TypeInvariant, RecoveryInvariant, GapInvariant, PTL
     DEF UsersSpec
================================================================================
