---------------------------- MODULE DirectoryProofs ----------------------------
(***************************************************************************)
(* The other files of a data directory.                                    *)
(*                                                                         *)
(* Region images, for every set of coordinates, every edge and every bound *)
(* on open files: no two chunks share a slot of a region image, reads      *)
(* answer what callers may expect, and the files held open stay within     *)
(* their bound.                                                            *)
(*                                                                         *)
(* The writer lock, for every number of processes of this and of an older  *)
(* release, every number of mishaps and every age at which a record is     *)
(* stale: a data directory has at most one writer, and an orderly close    *)
(* leaves no record.  The argument: a process past the guard finds a       *)
(* directory at the lock path, a lock path that is a directory stays one,  *)
(* and an older release holds a lock only on the file that is at the path. *)
(***************************************************************************)
EXTENDS RegionStore, WriterLock, FiniteSetTheorems, TLAPS

(***************************************************************************)
(* The writer lock                                                         *)
(***************************************************************************)

(* Where a process holds the guard, and where it has a session. *)
Guarded == {"checking", "writing", "owner", "stopping", "removing", "closing"}
Recorded == {"owner", "stopping", "removing", "closing"}

LockTypes ==
    /\ path \in {"absent", "file", "dir"}
    /\ inode \in 0..MaxInodes
    /\ path = "file" => inode \in Inodes
    /\ flock \in [Inodes -> Procs \cup Legacy \cup {None}]
    /\ owner \in Sessions \cup {None}
    /\ stage \in [Procs -> Acquiring \cup Guarded \cup {"idle"}]
    /\ fd \in [Procs -> 0..MaxInodes]
    /\ session \in [Procs -> Sessions \cup {None}]
    /\ beat \in [Procs -> {"off", "running", "lost"}]

(* The guard is held from openWriterGuard to closeWriterGuard, at a lock   *)
(* path that is a directory.                                               *)
GuardInv ==
    \A p \in Procs :
       /\ stage[p] \in Guarded <=> guard = p
       /\ stage[p] \in Guarded \cup {"guarding"} => path = "dir"

(* A writer of an older release has locked the file that is at the path; a *)
(* migration that found its file unchanged has it locked, and so nobody    *)
(* else moves it.                                                          *)
LegacyInv ==
    /\ \A i \in Inodes : flock[i] \in Legacy => path = "file" /\ i = inode
    /\ \A p \in Procs :
          /\ fd[p] <= inode
          /\ stage[p] = "locking" => fd[p] \in Inodes
          /\ stage[p] \in {"rechecking", "moving", "moved"} => fd[p] \in Inodes /\ flock[fd[p]] = p
          /\ stage[p] = "moving" => path = "file" /\ fd[p] = inode

(* The heartbeat ends before release reads the record, so that a record    *)
(* that release did not remove is somebody else's or was left by a failed  *)
(* removal.                                                                *)
RecordInv ==
    /\ \A p \in Procs :
          /\ session[p] # None <=> stage[p] \in Recorded
          /\ beat[p] = "running" => stage[p] \in {"owner", "stopping"}
          /\ stage[p] = "closing" /\ owner = session[p] => orphan = "yes"
    /\ CloseRemovesRecord

LockInv == LockTypes /\ GuardInv /\ LegacyInv /\ RecordInv

LEMMA LockStart == LockInit => LockInv
  BY LockAssumption DEF LockInit, LockInv, LockTypes, GuardInv, LegacyInv, RecordInv, CloseRemovesRecord, Inodes,
     Acquiring, Guarded, Recorded

(* ensureLockDirectory and migrateLegacyLockFile change the lock path, and *)
(* only while nobody has locked what is there.                             *)
LEMMA EnsureStep ==
    ASSUME LockInv, NEW p \in Procs, Start(p) \/ ensureLockDirectory(p)
    PROVE  LockInv'
  <1> USE LockAssumption DEF LockInv, LockTypes, GuardInv, LegacyInv, Goto, Inodes,
          Acquiring, Guarded, Recorded, files, record, mine
  <1>1. CASE Start(p)
    BY <1>1 DEF Start, RecordInv, CloseRemovesRecord
  <1>2. CASE Inspect(p)
    BY <1>2 DEF Inspect, RecordInv, CloseRemovesRecord
  <1>3. CASE Mkdir(p)
    BY <1>3 DEF Mkdir, RecordInv, CloseRemovesRecord
  <1>4. CASE OpenLegacy(p)
    BY <1>4 DEF OpenLegacy, RecordInv, CloseRemovesRecord
  <1>5. CASE LockLegacy(p)
    <2>1. fd[p] \in Inodes /\ path' = path /\ inode' = inode /\ UNCHANGED <<guard, record, session, beat>>
      BY Zenon, <1>5 DEF LockLegacy
    <2>2. CASE flock[fd[p]] = None
      <3>1. flock' = [flock EXCEPT ![fd[p]] = p] /\ stage' = [stage EXCEPT ![p] = "rechecking"] /\ fd' = fd
        BY Zenon, <1>5, <2>2 DEF LockLegacy
      <3>2. LockTypes' /\ GuardInv'
        BY <1>5, <2>1, <3>1 DEF LockLegacy
      <3>3. LegacyInv'
        BY <2>1, <2>2, <3>1
      <3>4. RecordInv'
        BY <1>5, <2>1, <3>1 DEF LockLegacy, RecordInv, CloseRemovesRecord
      <3> QED BY Zenon, <3>2, <3>3, <3>4
    <2>3. CASE flock[fd[p]] # None
      <3>1. flock' = flock /\ stage' = [stage EXCEPT ![p] = "idle"] /\ fd' = [fd EXCEPT ![p] = 0]
        BY Zenon, <1>5, <2>3 DEF LockLegacy
      <3>2. LockTypes' /\ GuardInv' /\ LegacyInv'
        BY <1>5, <2>1, <3>1 DEF LockLegacy
      <3>3. RecordInv'
        BY <1>5, <2>1, <3>1 DEF LockLegacy, RecordInv, CloseRemovesRecord
      <3> QED BY Zenon, <3>2, <3>3
    <2> QED BY Zenon, <2>2, <2>3
  <1>6. CASE Recheck(p)
    <2>1. CASE SameFile(p) /\ UNCHANGED <<flock, fd>>
      BY <1>6, <2>1 DEF Recheck, SameFile, CloseLegacy, Unlocked, RecordInv, CloseRemovesRecord
    <2>2. CASE CloseLegacy(p, "inspecting")
      BY <1>6, <2>2 DEF Recheck, CloseLegacy, Unlocked, RecordInv, CloseRemovesRecord
    <2> QED BY Zenon, <1>6, <2>1, <2>2 DEF Recheck
  <1>7. CASE Move(p)
    BY <1>7 DEF Move, RecordInv, CloseRemovesRecord
  <1>8. CASE MkdirMoved(p)
    BY <1>8 DEF MkdirMoved, CloseLegacy, Unlocked, RecordInv, CloseRemovesRecord
  <1> QED BY Zenon, <1>1, <1>2, <1>3, <1>4, <1>5, <1>6, <1>7, <1>8 DEF ensureLockDirectory

(* The guard, the check of the record and the first record. *)
LEMMA LockAcquireStep ==
    ASSUME LockInv, NEW p \in Procs, openWriterGuard(p) \/ CheckOwner(p) \/ WriteOwner(p) \/ GiveUp(p)
    PROVE  LockInv'
  <1> USE LockAssumption DEF LockInv, LockTypes, GuardInv, LegacyInv, Goto, Inodes,
          Acquiring, Guarded, Recorded, files, record, mine
  <1>1. CASE openWriterGuard(p)
    <2>1. LockTypes' /\ LegacyInv'
      BY <1>1 DEF openWriterGuard
    <2>2. GuardInv'
      <3>1. CASE guard = None
        <4>1. guard' = p /\ stage' = [stage EXCEPT ![p] = "checking"] /\ stage[p] = "guarding" /\ path' = path
          BY Zenon, <1>1, <3>1 DEF openWriterGuard
        <4> QED BY <3>1, <4>1
      <3>2. CASE guard # None
        <4>1. guard' = guard /\ stage' = [stage EXCEPT ![p] = "idle"] /\ stage[p] = "guarding" /\ path' = path
          BY Zenon, <1>1, <3>2 DEF openWriterGuard
        <4> QED BY <3>2, <4>1
      <3> QED BY Zenon, <3>1, <3>2
    <2>3. RecordInv'
      BY <1>1 DEF openWriterGuard, RecordInv, CloseRemovesRecord
    <2> QED BY Zenon, <2>1, <2>2, <2>3
  <1>2. CASE CheckOwner(p)
    <2>1. LockTypes' /\ LegacyInv'
      <3>1. UNCHANGED <<files, record, mine>> /\ \E at \in {"writing", "idle"} : stage' = [stage EXCEPT ![p] = at]
        BY Zenon, <1>2 DEF CheckOwner
      <3> QED BY <3>1
    <2>2. GuardInv'
      <3>1. CASE guard' = guard /\ stage' = [stage EXCEPT ![p] = "writing"]
        BY <1>2, <3>1 DEF CheckOwner
      <3>2. CASE guard' = None /\ stage' = [stage EXCEPT ![p] = "idle"]
        BY <1>2, <3>2 DEF CheckOwner
      <3> QED BY Zenon, <1>2, <3>1, <3>2 DEF CheckOwner
    <2>3. RecordInv'
      BY <1>2 DEF CheckOwner, RecordInv, CloseRemovesRecord
    <2> QED BY Zenon, <2>1, <2>2, <2>3
  <1>3. CASE WriteOwner(p)
    <2>1. PICK s \in Sessions : owner' = s /\ session' = [session EXCEPT ![p] = s]
      BY <1>3, Zenon DEF WriteOwner
    <2>2. /\ stage[p] = "writing" /\ stage' = [stage EXCEPT ![p] = "owner"]
          /\ beat' = [beat EXCEPT ![p] = "running"]
          /\ UNCHANGED <<files, guard, fd>>
      BY Zenon, <1>3 DEF WriteOwner
    <2>3. guard = p /\ \A q \in Procs : q # p => stage[q] \notin Guarded
      BY Zenon, <2>2
    <2>4. LockTypes' /\ LegacyInv'
      BY <2>1, <2>2
    <2>5. GuardInv'
      BY <2>2, <2>3
    <2>6. RecordInv'
      BY <2>1, <2>2, <2>3 DEF RecordInv, CloseRemovesRecord
    <2> QED BY Zenon, <2>4, <2>5, <2>6
  <1>4. CASE GiveUp(p)
    <2>1. LockTypes' /\ GuardInv'
      BY <1>4 DEF GiveUp, LetGo, Unlocked
    <2>2. LegacyInv'
      <3>1. /\ flock' = Unlocked(p) /\ fd' = [fd EXCEPT ![p] = 0]
            /\ stage' = [stage EXCEPT ![p] = "idle"] /\ UNCHANGED <<path, inode>>
        BY <1>4, Zenon DEF GiveUp, LetGo
      <3> QED BY <3>1 DEF Unlocked
    <2>3. RecordInv'
      <3>1. UNCHANGED <<owner, orphan, session, beat>> /\ stage[p] \in Acquiring /\ stage' = [stage EXCEPT ![p] = "idle"]
        BY <1>4, Zenon DEF GiveUp
      <3>2. stage[p] \notin Recorded
        BY Zenon, <1>4 DEF GiveUp, RecordInv
      <3> QED BY <3>1, <3>2 DEF RecordInv, CloseRemovesRecord
    <2> QED BY Zenon, <2>1, <2>2, <2>3
  <1> QED BY Zenon, <1>1, <1>2, <1>3, <1>4

(* The heartbeat, the release and the death of a process. *)
LEMMA OwnerStep ==
    ASSUME LockInv, NEW p \in Procs,
           \/ heartbeat(p) \/ heartbeatFails(p)
           \/ release(p) \/ Releasing(p) \/ RemoveFails(p) \/ Dies(p)
    PROVE  LockInv'
  <1> USE LockAssumption DEF LockInv, LockTypes, GuardInv, LegacyInv, Goto, Inodes,
          Acquiring, Guarded, Recorded, files, record, mine
  <1>1. CASE heartbeat(p)
    BY <1>1 DEF heartbeat, RecordInv, CloseRemovesRecord
  <1>2. CASE heartbeatFails(p)
    BY <1>2 DEF heartbeatFails, Mishap, RecordInv, CloseRemovesRecord
  <1>3. CASE release(p)
    BY <1>3 DEF release, RecordInv, CloseRemovesRecord
  <1>4. CASE heartbeatStops(p)
    BY <1>4 DEF heartbeatStops, RecordInv, CloseRemovesRecord
  <1>5. CASE ReadOwn(p)
    BY <1>5 DEF ReadOwn, RecordInv, CloseRemovesRecord
  <1>6. CASE Remove(p)
    BY <1>6 DEF Remove, RecordInv, CloseRemovesRecord
  <1>7. CASE RemoveFails(p)
    BY <1>7 DEF RemoveFails, Mishap, RecordInv, CloseRemovesRecord
  <1>8. CASE closeWriterGuard(p)
    BY <1>8 DEF closeWriterGuard, RecordInv, CloseRemovesRecord
  <1>9. CASE Dies(p)
    <2>1. LockTypes'
      BY <1>9 DEF Dies, Unlocked
    <2>2. GuardInv'
      BY <1>9 DEF Dies
    <2>3. LegacyInv'
      <3>1. /\ flock' = Unlocked(p) /\ fd' = [fd EXCEPT ![p] = 0]
            /\ stage' = [stage EXCEPT ![p] = "idle"] /\ UNCHANGED <<path, inode>>
        BY <1>9, Zenon DEF Dies
      <3> QED BY <3>1 DEF Unlocked
    <2>4. RecordInv'
      <3>1. /\ owner' = owner
            /\ orphan' = IF owner # None /\ owner = session[p] THEN "yes" ELSE orphan
            /\ session' = [session EXCEPT ![p] = None] /\ beat' = [beat EXCEPT ![p] = "off"]
            /\ stage' = [stage EXCEPT ![p] = "idle"]
        BY Zenon, <1>9 DEF Dies
      <3>2. \A q \in Procs :
               /\ session'[q] # None <=> stage'[q] \in Recorded
               /\ beat'[q] = "running" => stage'[q] \in {"owner", "stopping"}
               /\ stage'[q] = "closing" /\ owner' = session'[q] => orphan' = "yes"
        BY <3>1 DEF RecordInv
      <3>3. CloseRemovesRecord'
        BY <3>1 DEF RecordInv, CloseRemovesRecord
      <3> QED BY Zenon, <3>2, <3>3 DEF RecordInv
    <2> QED BY Zenon, <2>1, <2>2, <2>3, <2>4
  <1> QED BY <1>1, <1>2, <1>3, <1>4, <1>5, <1>6, <1>7, <1>8, <1>9, ZenonT(40) DEF Releasing

(* Time, and processes of an older release. *)
LEMMA AroundStep ==
    ASSUME LockInv, Tick \/ ClockSetBack \/ \E l \in Legacy : LegacyStart(l) \/ LegacyStop(l)
    PROVE  LockInv'
  <1> USE LockAssumption DEF LockInv, LockTypes, GuardInv, LegacyInv, Inodes,
          Acquiring, Guarded, Recorded, files, record, mine
  <1>1. CASE Tick \/ ClockSetBack
    BY <1>1 DEF Tick, ClockSetBack, Mishap, RecordInv, CloseRemovesRecord
  <1>2. ASSUME NEW l \in Legacy, LegacyStart(l) PROVE LockInv'
    <2>1. GuardInv' /\ RecordInv'
      BY Zenon, <1>2 DEF LegacyStart, RecordInv, CloseRemovesRecord
    <2>2. CASE path = "absent"
      <3>1. /\ inode < MaxInodes /\ path' = "file" /\ inode' = inode + 1
            /\ flock' = [flock EXCEPT ![inode + 1] = l]
            /\ UNCHANGED <<guard, record, stage, mine>>
        BY Zenon, <1>2, <2>2 DEF LegacyStart
      <3>2. \A i \in Inodes : flock[i] \notin Legacy
        BY Zenon, <2>2
      <3>3. \A q \in Procs : stage[q] \in {"rechecking", "moving", "moved"} => fd[q] \in Inodes /\ flock[fd[q]] = q
        OBVIOUS
      <3> QED BY <2>1, <2>2, <3>1, <3>2, <3>3
    <2>3. CASE path = "file"
      <3>1. /\ flock[inode] = None /\ flock' = [flock EXCEPT ![inode] = l]
            /\ UNCHANGED <<path, inode, guard, record, stage, mine>>
        BY Zenon, <1>2, <2>3 DEF LegacyStart
      <3> QED BY <2>1, <2>3, <3>1
    <2> QED BY Zenon, <1>2, <2>2, <2>3 DEF LegacyStart
  <1>3. ASSUME NEW l \in Legacy, LegacyStop(l) PROVE LockInv'
    BY <1>3 DEF LegacyStop, RecordInv, CloseRemovesRecord
  <1> QED BY Zenon, <1>1, <1>2, <1>3

LEMMA LockStep == LockInv /\ [LockNext]_lockVars => LockInv'
  <1> SUFFICES ASSUME LockInv, [LockNext]_lockVars PROVE LockInv'
    OBVIOUS
  <1>1. CASE UNCHANGED lockVars
    BY Zenon, <1>1 DEF lockVars, files, record, mine, LockInv, LockTypes, GuardInv, LegacyInv, RecordInv,
       CloseRemovesRecord
  <1>2. CASE LockNext
    BY Zenon, <1>2, EnsureStep, LockAcquireStep, OwnerStep, AroundStep DEF LockNext, acquireWriterLock
  <1> QED BY Zenon, <1>1, <1>2

LEMMA LockInvariant == LockSpec => []LockInv
  BY LockStart, LockStep, PTL DEF LockSpec

(* "A second writer is rejected while that lock is held": processes of     *)
(* this release between acquire and release, and processes of an older one *)
(* that have locked the file at the lock path, are never two.              *)
THEOREM OneWriterAlways == LockSpec => []OneWriter
  <1>1. LockInv => OneWriter
    <2> SUFFICES ASSUME LockInv PROVE OneWriter
      OBVIOUS
    <2> DEFINE writers == Owners \cup LegacyOwners
    <2>1. \A p, q \in Owners : p = q
      BY Zenon DEF Owners, LockInv, GuardInv, Guarded
    <2>2. \A l \in LegacyOwners : path = "file" /\ flock[inode] = l
      BY Zenon DEF LegacyOwners, LockInv, LegacyInv
    <2>3. \A p \in Owners : path = "dir"
      BY Zenon DEF Owners, LockInv, GuardInv, Guarded
    <2>4. \A x, y \in writers : x = y
      BY Zenon, <2>1, <2>2, <2>3
    <2>5. CASE writers = {}
      BY <2>5, FS_EmptySet DEF OneWriter
    <2>6. ASSUME NEW x \in writers PROVE OneWriter
      <3>1. writers = {x}
        BY Zenon, <2>4
      <3> HIDE DEF writers
      <3>2. Cardinality(writers) = 1
        BY Zenon, <3>1, FS_Singleton
      <3> QED BY <3>2 DEF OneWriter, writers
    <2> QED BY Zenon, <2>5, <2>6
  <1> QED BY <1>1, LockInvariant, PTL

(* An orderly close removes the record for good: a record whose writer is  *)
(* gone was left by a crash or by a removal that failed, because release   *)
(* waits for the heartbeat, which would write it again, to end.            *)
THEOREM RecordsHaveOwners == LockSpec => []CloseRemovesRecord
  <1>1. LockInv => CloseRemovesRecord
    BY Zenon DEF LockInv, RecordInv
  <1> QED BY <1>1, LockInvariant, PTL

(***************************************************************************)
(* Region images                                                           *)
(***************************************************************************)

(* floorDiv returns the offset within the divisor, and quotient and offset *)
(* give the value back, also for the negative values that Go's operators   *)
(* round towards zero.                                                     *)
LEMMA FloorDivExact ==
    ASSUME NEW value \in Int, NEW divisor \in Nat \ {0}
    PROVE  /\ floorDiv(value, divisor)[1] \in Int
           /\ floorDiv(value, divisor)[2] \in 0..(divisor - 1)
           /\ value = divisor * floorDiv(value, divisor)[1] + floorDiv(value, divisor)[2]
<1> DEFINE size0 == IF value >= 0 THEN value ELSE -value
<1>1. /\ size0 \in Nat
      /\ size0 \div divisor \in Int
      /\ size0 % divisor \in 0..(divisor - 1)
      /\ size0 = divisor * (size0 \div divisor) + (size0 % divisor)
  OBVIOUS
<1>2. CASE value >= 0
  BY <1>1, <1>2 DEF floorDiv, Quotient, Remainder
<1>3. CASE value < 0
  <2>1. Quotient(value, divisor) = -(size0 \div divisor) /\ Remainder(value, divisor) = -(size0 % divisor)
    BY <1>3 DEF Quotient, Remainder
  <2>2. CASE size0 % divisor = 0
    BY <1>1, <1>3, <2>1, <2>2 DEF floorDiv
  <2>3. CASE size0 % divisor # 0
    <3>1. floorDiv(value, divisor) = <<-(size0 \div divisor) - 1, divisor - (size0 % divisor)>>
      BY <1>1, <2>1, <2>3 DEF floorDiv
    <3>2. divisor * (-(size0 \div divisor) - 1) = -(divisor * (size0 \div divisor)) - divisor
      BY <1>1
    <3> QED BY <1>1, <1>3, <2>3, <3>1, <3>2
  <2> QED BY Zenon, <2>2, <2>3
<1> QED BY <1>2, <1>3

(* A row and a column below the edge are known from the index of the slot. *)
LEMMA IndexExact ==
    ASSUME NEW edge \in Nat \ {0},
           NEW x \in 0..(edge - 1), NEW y \in 0..(edge - 1),
           NEW u \in 0..(edge - 1), NEW v \in 0..(edge - 1),
           y * edge + x = v * edge + u
    PROVE  x = u /\ y = v
<1>1. CASE y = v
  BY <1>1
<1>2. CASE y < v
  <2>1. PICK k \in Nat : v = y + 1 + k
    BY <1>2
  <2>2. v * edge = y * edge + edge + k * edge /\ k * edge >= 0
    BY <2>1
  <2> QED BY <2>2
<1>3. CASE v < y
  <2>1. PICK k \in Nat : y = v + 1 + k
    BY <1>3
  <2>2. y * edge = v * edge + edge + k * edge /\ k * edge >= 0
    BY <2>1
  <2> QED BY <2>2
<1> QED BY <1>1, <1>2, <1>3

(* The index of a row and a column below the edge is a slot. *)
LEMMA IndexInRange ==
    ASSUME NEW edge \in Nat \ {0}, NEW x \in 0..(edge - 1), NEW y \in 0..(edge - 1)
    PROVE  y * edge + x \in 0..(edge * edge - 1)
<1>1. PICK k \in Nat : edge = y + 1 + k
  OBVIOUS
<1>2. edge * edge = y * edge + edge + k * edge /\ k * edge >= 0 /\ y * edge >= 0
  BY <1>1
<1> QED BY <1>2

(* locate gives every chunk a slot of its own, for every set of chunk      *)
(* coordinates and every large-chunk edge.                                 *)
THEOREM SlotsAreOwn == ChunksHaveOwnSlots
<1> SUFFICES ASSUME NEW c \in Chunks, NEW d \in Chunks
             PROVE  /\ Slot(c) \in Slots
                    /\ Region(c) = Region(d) /\ Slot(c) = Slot(d) => c = d
  BY Zenon DEF ChunksHaveOwnSlots
<1> DEFINE E == LargeChunkEdge
           cx == floorDiv(c[1], E)
           cy == floorDiv(c[2], E)
           dx == floorDiv(d[1], E)
           dy == floorDiv(d[2], E)
<1>1. E \in Nat \ {0} /\ c \in Int \X Int /\ d \in Int \X Int
  BY Zenon, RegionAssumption
<1>2. /\ cx[1] \in Int /\ cx[2] \in 0..(E - 1) /\ c[1] = E * cx[1] + cx[2]
      /\ cy[1] \in Int /\ cy[2] \in 0..(E - 1) /\ c[2] = E * cy[1] + cy[2]
      /\ dx[1] \in Int /\ dx[2] \in 0..(E - 1) /\ d[1] = E * dx[1] + dx[2]
      /\ dy[1] \in Int /\ dy[2] \in 0..(E - 1) /\ d[2] = E * dy[1] + dy[2]
  BY Zenon, <1>1, FloorDivExact
<1>3. /\ Region(c) = <<cx[1], cy[1]>> /\ Slot(c) = cy[2] * E + cx[2]
      /\ Region(d) = <<dx[1], dy[1]>> /\ Slot(d) = dy[2] * E + dx[2]
  BY Zenon DEF Region, Slot, locate, Mapping
<1>4. Slot(c) \in Slots
  BY <1>1, <1>2, <1>3, IndexInRange, Zenon DEF Slots
<1>5. ASSUME Region(c) = Region(d), Slot(c) = Slot(d)
      PROVE  c = d
  <2> HIDE DEF E, cx, cy, dx, dy
  <2>1. cx[1] = dx[1] /\ cy[1] = dy[1]
    BY <1>3, <1>5
  <2>2. cx[2] = dx[2] /\ cy[2] = dy[2]
    <3> DEFINE x == cx[2]
               y == cy[2]
               u == dx[2]
               v == dy[2]
    <3>1. /\ x \in 0..(E - 1) /\ y \in 0..(E - 1)
          /\ u \in 0..(E - 1) /\ v \in 0..(E - 1)
      BY Zenon, <1>2
    <3>2. y * E + x = v * E + u
      BY Zenon, <1>3, <1>5
    <3>3. E \in Nat \ {0}
      BY Zenon, <1>1
    <3>4. x = u /\ y = v
      <4> HIDE DEF x, y, u, v
      <4> QED BY Zenon, <3>1, <3>2, <3>3, IndexExact
    <3> QED BY Zenon, <3>4
  <2>3. c[1] = d[1] /\ c[2] = d[2]
    BY Zenon, <1>2, <2>1, <2>2
  <2> QED BY <1>1, <2>3
<1> QED BY Zenon, <1>4, <1>5

----------------------------------------------------------------------------
(* The list of open images *)

Distinct(q) == \A j, k \in 1..Len(q) : q[j] = q[k] => j = k

Listed(q) == {q[j] : j \in 1..Len(q)}

(* What the concatenation of two sequences holds. *)
LEMMA Concatenated ==
    ASSUME NEW S, NEW u \in Seq(S), NEW v \in Seq(S)
    PROVE  /\ u \o v \in Seq(S)
           /\ Len(u \o v) = Len(u) + Len(v)
           /\ \A j \in 1..(Len(u) + Len(v)) :
                 (u \o v)[j] = IF j <= Len(u) THEN u[j] ELSE v[j - Len(u)]
OBVIOUS

(* A list without one of its places. *)
LEMMA RemovedFromList ==
    ASSUME NEW S, NEW q \in Seq(S), Distinct(q), NEW i \in 1..Len(q),
           NEW p, p = SubSeq(q, 1, i - 1) \o SubSeq(q, i + 1, Len(q))
    PROVE  /\ p \in Seq(S)
           /\ Len(p) = Len(q) - 1
           /\ Distinct(p)
           /\ Listed(p) = Listed(q) \ {q[i]}
<1> DEFINE u == SubSeq(q, 1, i - 1)
           v == SubSeq(q, i + 1, Len(q))
           w == u \o v
           n == Len(q)
<1>0. n \in Nat /\ i \in 1..n /\ u \in Seq(S) /\ v \in Seq(S)
  OBVIOUS
<1>1. /\ Len(u) = i - 1 /\ \A j \in 1..(i - 1) : u[j] = q[j]
      /\ Len(v) = n - i /\ \A j \in 1..(n - i) : v[j] = q[i + j]
  OBVIOUS
<1> HIDE DEF u, v
<1>c. /\ w \in Seq(S) /\ Len(w) = Len(u) + Len(v)
      /\ \A j \in 1..(Len(u) + Len(v)) : w[j] = IF j <= Len(u) THEN u[j] ELSE v[j - Len(u)]
  BY <1>0, Concatenated, Zenon
<1> HIDE DEF w, n
<1>2. w \in Seq(S) /\ Len(w) = n - 1
  BY <1>0, <1>1, <1>c
<1>3. \A j \in 1..(n - 1) : w[j] = IF j < i THEN q[j] ELSE q[j + 1]
  <2> SUFFICES ASSUME NEW j \in 1..(n - 1)
               PROVE  w[j] = IF j < i THEN q[j] ELSE q[j + 1]
    BY Zenon
  <2>1. w[j] = IF j <= Len(u) THEN u[j] ELSE v[j - Len(u)]
    BY <1>0, <1>1, <1>c
  <2>2. CASE j < i
    BY <1>0, <1>1, <2>1, <2>2
  <2>3. CASE j >= i
    <3>1. j - Len(u) \in 1..(n - i) /\ i + (j - Len(u)) = j + 1
      BY <1>0, <1>1, <2>3
    <3> QED BY <1>0, <1>1, <2>1, <2>3, <3>1
  <2> QED BY <1>0, <2>2, <2>3
<1>4. Distinct(w)
  <2> SUFFICES ASSUME NEW j \in 1..(n - 1), NEW k \in 1..(n - 1), w[j] = w[k]
               PROVE  j = k
    BY Zenon, <1>2 DEF Distinct
  <2>0. i \in Int /\ n \in Nat /\ Len(q) = n
    BY <1>0 DEF n
  <2> DEFINE place(x) == IF x < i THEN x ELSE x + 1
  <2>1. place(j) \in 1..n /\ place(k) \in 1..n /\ q[place(j)] = q[place(k)]
    <3>1. place(j) \in 1..n /\ place(k) \in 1..n
      BY <2>0
    <3>2. w[j] = q[place(j)] /\ w[k] = q[place(k)]
      BY <1>3, Zenon
    <3> QED BY <3>1, <3>2, Zenon
  <2>2. place(j) = place(k)
    BY Zenon, <2>0, <2>1 DEF Distinct, n
  <2> QED BY <1>0, <2>2
<1>5. Listed(w) = Listed(q) \ {q[i]}
  <2>1. ASSUME NEW j \in 1..(n - 1)
        PROVE  w[j] \in Listed(q) \ {q[i]}
    <3> DEFINE k == IF j < i THEN j ELSE j + 1
    <3>1. k \in 1..n /\ k # i /\ w[j] = q[k]
      BY <1>0, <1>3
    <3>2. q[k] # q[i]
      BY Zenon, <1>0, <3>1 DEF Distinct, n
    <3> HIDE DEF k, n
    <3> QED BY Zenon, <3>1, <3>2 DEF Listed, n
  <2>2. ASSUME NEW k \in 1..n, q[k] # q[i]
        PROVE  q[k] \in Listed(w)
    <3>1. CASE k < i
      <4>1. k \in 1..(n - 1) /\ w[k] = q[k]
        BY <1>0, <1>3, <3>1
      <4> QED BY Zenon, <1>2, <4>1 DEF Listed
    <3>2. CASE k > i
      <4>1. k - 1 \in 1..(n - 1) /\ w[k - 1] = q[k]
        BY <1>0, <1>3, <3>2
      <4> QED BY Zenon, <1>2, <4>1 DEF Listed
    <3> QED BY <1>0, <2>2, <3>1, <3>2
  <2>3. \A x \in Listed(w) : x \in Listed(q) \ {q[i]}
    BY Zenon, <1>2, <2>1 DEF Listed
  <2>4. \A x \in Listed(q) \ {q[i]} : x \in Listed(w)
    BY <2>2, Zenon DEF Listed, n
  <2> QED BY Zenon, <2>3, <2>4
<1>6. p = w
  BY Zenon DEF w, u, v
<1> QED BY <1>2, <1>4, <1>5, <1>6, Zenon DEF n

(* A list with a new first place. *)
LEMMA AddedToList ==
    ASSUME NEW S, NEW q \in Seq(S), Distinct(q), NEW r \in S, r \notin Listed(q)
    PROVE  /\ <<r>> \o q \in Seq(S)
           /\ Len(<<r>> \o q) = Len(q) + 1
           /\ Distinct(<<r>> \o q)
           /\ Listed(<<r>> \o q) = Listed(q) \cup {r}
<1> DEFINE w == <<r>> \o q
           n == Len(q)
<1>1. /\ n \in Nat /\ w \in Seq(S) /\ Len(w) = n + 1
      /\ w[1] = r /\ \A j \in 2..(n + 1) : w[j] = q[j - 1]
  OBVIOUS
<1> HIDE DEF w
<1>2. \A j \in 2..(n + 1) : j - 1 \in 1..n
  BY <1>1
<1>3. Distinct(w)
  <2> SUFFICES ASSUME NEW j \in 1..(n + 1), NEW k \in 1..(n + 1), w[j] = w[k]
               PROVE  j = k
    BY Zenon, <1>1 DEF Distinct
  <2>1. CASE j = 1 /\ k = 1
    BY Zenon, <2>1
  <2>2. CASE j # 1 /\ k # 1
    <3>1. j \in 2..(n + 1) /\ k \in 2..(n + 1)
      BY <1>1, <2>2
    <3>2. q[j - 1] = q[k - 1] /\ j - 1 \in 1..n /\ k - 1 \in 1..n
      BY Zenon, <1>1, <1>2, <3>1
    <3>3. j - 1 = k - 1
      BY Zenon, <3>2 DEF Distinct
    <3> QED BY <3>1, <3>3
  <2>3. CASE j = 1 /\ k # 1
    BY <1>1, <1>2, <2>3 DEF Listed
  <2>4. CASE j # 1 /\ k = 1
    BY <1>1, <1>2, <2>4 DEF Listed
  <2> QED BY Zenon, <2>1, <2>2, <2>3, <2>4
<1>4. Listed(w) = Listed(q) \cup {r}
  <2>1. ASSUME NEW j \in 1..(n + 1) PROVE w[j] \in Listed(q) \cup {r}
    <3>1. j = 1 \/ j \in 2..(n + 1)
      BY <1>1
    <3>2. QED
      BY Zenon, <1>1, <1>2, <3>1 DEF Listed
  <2>2. r \in Listed(w)
    BY <1>1 DEF Listed
  <2>3. ASSUME NEW k \in 1..n PROVE q[k] \in Listed(w)
    <3>1. k + 1 \in 2..(n + 1) /\ k + 1 \in 1..(n + 1) /\ (k + 1) - 1 = k
      BY <1>1
    <3>2. w[k + 1] = q[k]
      BY Zenon, <1>1, <3>1
    <3> QED BY Zenon, <1>1, <3>1, <3>2 DEF Listed
  <2>4. \A x \in Listed(w) : x \in Listed(q) \cup {r}
    BY Zenon, <1>1, <2>1 DEF Listed
  <2>5. \A x \in Listed(q) : x \in Listed(w)
    BY Zenon, <2>3 DEF Listed
  <2> QED BY Zenon, <2>2, <2>4, <2>5
<1> QED BY Zenon, <1>1, <1>3, <1>4 DEF w

----------------------------------------------------------------------------
(* What the list, the open files and the directories in memory have to do  *)
(* with each other and with the files, between two operations on files.    *)

Entries == Payloads \cup {NoSum}

View(q, h, m) ==
    /\ q \in Seq(Regions) /\ Distinct(q) /\ Len(q) <= MaxOpenRegions
    /\ h = Listed(q)
    /\ m \in [Regions -> [Slots -> Entries]]
    /\ \A r \in Regions : r \in Listed(q) => size[r] = "whole" /\ m[r] = directory[r]
    /\ \A r \in Regions : r \notin Listed(q) => m[r] = NothingPresent

(* IsOpen asks whether the region is in the list. *)
LEMMA OpenIsListed ==
    ASSUME recent \in Seq(Regions), NEW r
    PROVE  IsOpen(r) <=> r \in Listed(recent)
<1>1. DOMAIN recent = 1..Len(recent)
  OBVIOUS
<1> QED BY Zenon, <1>1 DEF IsOpen, Listed

(* A region leaves the list, and with it its file and its directory. *)
LEMMA DiscardedView ==
    ASSUME View(recent, handles, memory), NEW r \in Regions
    PROVE  /\ View(Discarded(r).recent, Discarded(r).handles, Discarded(r).memory)
           /\ Without(r) = Discarded(r).recent
           /\ Listed(Without(r)) = Listed(recent) \ {r}
           /\ Len(Without(r)) = IF r \in Listed(recent) THEN Len(recent) - 1 ELSE Len(recent)
<1>1. /\ recent \in Seq(Regions) /\ Distinct(recent) /\ Len(recent) <= MaxOpenRegions
      /\ Len(recent) \in Nat /\ MaxOpenRegions \in Nat
  BY RegionAssumption DEF View
<1>2. /\ Without(r) \in Seq(Regions) /\ Distinct(Without(r))
      /\ Listed(Without(r)) = Listed(recent) \ {r}
      /\ Len(Without(r)) = IF r \in Listed(recent) THEN Len(recent) - 1 ELSE Len(recent)
  <2>1. CASE IsOpen(r)
    <3> DEFINE i == CHOOSE i \in DOMAIN recent : recent[i] = r
    <3>1. i \in DOMAIN recent /\ recent[i] = r
      BY Zenon, <2>1 DEF IsOpen
    <3>2. DOMAIN recent = 1..Len(recent)
      BY <1>1
    <3>3. Without(r) = SubSeq(recent, 1, i - 1) \o SubSeq(recent, i + 1, Len(recent))
      BY <2>1, Zenon DEF Without
    <3> HIDE DEF i
    <3>4. r \in Listed(recent)
      BY Zenon, <1>1, <2>1, OpenIsListed
    <3>5. i \in 1..Len(recent)
      BY Zenon, <3>1, <3>2
    <3>6. /\ Without(r) \in Seq(Regions) /\ Distinct(Without(r))
          /\ Listed(Without(r)) = Listed(recent) \ {recent[i]}
          /\ Len(Without(r)) = Len(recent) - 1
      BY <1>1, <3>3, <3>5, RemovedFromList, Zenon
    <3> QED BY Zenon, <3>1, <3>4, <3>6
  <2>2. CASE ~IsOpen(r)
    <3>1. r \notin Listed(recent) /\ Without(r) = recent
      BY Zenon, <1>1, <2>2, OpenIsListed DEF Without
    <3> QED BY Zenon, <1>1, <3>1
  <2> QED BY Zenon, <2>1, <2>2
<1>3. NothingPresent \in [Slots -> Entries]
  BY Zenon DEF NothingPresent, Entries
<1>4. View(Without(r), handles \ {r}, [memory EXCEPT ![r] = NothingPresent])
  <2>1. Len(Without(r)) <= MaxOpenRegions
    BY <1>1, <1>2
  <2>2. [memory EXCEPT ![r] = NothingPresent] \in [Regions -> [Slots -> Entries]]
    BY Zenon, <1>3 DEF View
  <2>3. handles \ {r} = Listed(Without(r))
    BY Zenon, <1>2 DEF View
  <2> HIDE DEF Listed, Distinct
  <2>4. ASSUME NEW x \in Regions
        PROVE  /\ x \in Listed(Without(r)) =>
                     size[x] = "whole" /\ [memory EXCEPT ![r] = NothingPresent][x] = directory[x]
               /\ x \notin Listed(Without(r)) =>
                     [memory EXCEPT ![r] = NothingPresent][x] = NothingPresent
    BY Zenon, <1>2 DEF View
  <2> QED BY Zenon, <1>2, <2>1, <2>2, <2>3, <2>4 DEF View
<1> QED BY Zenon, <1>2, <1>4 DEF Discarded

(* After an eviction there is room for one more image. *)
LEMMA EvictedView ==
    ASSUME View(recent, handles, memory)
    PROVE  /\ View(Evicted.recent, Evicted.handles, Evicted.memory)
           /\ Len(Evicted.recent) < MaxOpenRegions
           /\ Listed(Evicted.recent) \subseteq Listed(recent)
<1>1. /\ recent \in Seq(Regions) /\ Len(recent) <= MaxOpenRegions
      /\ Len(recent) \in Nat /\ MaxOpenRegions \in Nat \ {0}
  BY RegionAssumption DEF View
<1>2. CASE Len(recent) >= MaxOpenRegions
  <2> DEFINE r == recent[Len(recent)]
  <2>1. r \in Regions /\ r \in Listed(recent)
    BY <1>1, <1>2 DEF Listed
  <2> HIDE DEF r
  <2>2. Evicted = Discarded(r)
    BY Zenon, <1>2 DEF Evicted, r
  <2>3. /\ View(Discarded(r).recent, Discarded(r).handles, Discarded(r).memory)
        /\ Without(r) = Discarded(r).recent
        /\ Listed(Without(r)) = Listed(recent) \ {r}
        /\ Len(Without(r)) = Len(recent) - 1
    BY Zenon, <2>1, DiscardedView
  <2> QED BY <1>1, <2>2, <2>3
<1>3. CASE ~(Len(recent) >= MaxOpenRegions)
  BY <1>1, <1>3 DEF Evicted, Kept
<1> QED BY Zenon, <1>2, <1>3

(* An image that was loaded takes the place that an eviction made. *)
LEMMA LoadView ==
    ASSUME View(recent, handles, memory), NEW r \in Regions,
           r \notin Listed(recent), size[r] = "whole",
           directory \in [Regions -> [Slots -> Entries]], Load(r)
    PROVE  View(recent', handles', memory') /\ r \in Listed(recent')
<1> DEFINE q == Evicted.recent
           h == Evicted.handles
           m == Evicted.memory
<1>1. View(q, h, m) /\ Len(q) < MaxOpenRegions /\ r \notin Listed(q)
  BY Zenon, EvictedView
<1>2. recent' = <<r>> \o q /\ handles' = h \cup {r} /\ memory' = [m EXCEPT ![r] = directory[r]]
  BY Zenon DEF Load
<1> HIDE DEF q, h, m
<1>3. q \in Seq(Regions) /\ Distinct(q) /\ h = Listed(q) /\ m \in [Regions -> [Slots -> Entries]]
  BY Zenon, <1>1 DEF View
<1>4. /\ recent' \in Seq(Regions) /\ Distinct(recent')
      /\ Len(recent') = Len(q) + 1 /\ Listed(recent') = Listed(q) \cup {r}
  BY <1>1, <1>2, <1>3, AddedToList
<1>5. Len(recent') <= MaxOpenRegions
  BY <1>1, <1>3, <1>4, RegionAssumption
<1>6. memory' \in [Regions -> [Slots -> Entries]]
  BY Zenon, <1>2, <1>3
<1>7. ASSUME NEW x \in Regions
      PROVE  /\ x \in Listed(recent') => size[x] = "whole" /\ memory'[x] = directory[x]
             /\ x \notin Listed(recent') => memory'[x] = NothingPresent
  <2> HIDE DEF Listed, Distinct
  <2> QED BY <1>1, <1>2, <1>3, <1>4, Zenon DEF View
<1> QED BY Zenon, <1>2, <1>3, <1>4, <1>5, <1>6, <1>7 DEF View

(* An image that was found moves to the front of the list. *)
LEMMA FrontView ==
    ASSUME View(recent, handles, memory), NEW r \in Regions, r \in Listed(recent), MoveToFront(r)
    PROVE  View(recent', handles', memory') /\ r \in Listed(recent')
<1>1. /\ View(Discarded(r).recent, Discarded(r).handles, Discarded(r).memory)
      /\ Without(r) = Discarded(r).recent
      /\ Listed(Without(r)) = Listed(recent) \ {r}
      /\ Len(Without(r)) = Len(recent) - 1
  BY Zenon, DiscardedView
<1>2. Without(r) \in Seq(Regions) /\ Distinct(Without(r)) /\ r \notin Listed(Without(r))
  BY Zenon, <1>1 DEF View
<1>3. recent' = <<r>> \o Without(r) /\ handles' = handles /\ memory' = memory
  BY Zenon DEF MoveToFront
<1>4. /\ recent' \in Seq(Regions) /\ Distinct(recent')
      /\ Len(recent') = Len(Without(r)) + 1 /\ Listed(recent') = Listed(Without(r)) \cup {r}
  BY <1>2, <1>3, AddedToList
<1>5. Listed(recent') = Listed(recent)
  BY Zenon, <1>1, <1>4
<1>6. Len(recent') <= MaxOpenRegions
  <2>1. recent \in Seq(Regions) /\ Len(recent) <= MaxOpenRegions
    BY Zenon DEF View
  <2> QED BY <1>1, <1>4, <2>1
<1> QED BY Zenon, <1>3, <1>4, <1>5, <1>6 DEF View

----------------------------------------------------------------------------
(* The inductive invariant *)

Initialising == {"header", "directory", "size"}

Writing == {"acquire", "payload", "publish"} \cup Initialising

(* The directory entry of a chunk in the file, and the bytes of its slot. *)
Entry(c) == directory[Region(c)][Slot(c)]

Content(c) == slots[Region(c)][Slot(c)]

(* An image that is not whole has no chunk.  The directory in the file     *)
(* never says what a reader must not see, and where the bytes are not the  *)
(* ones it names, a report of corruption is among what a reader may see.   *)
FilesInv ==
    /\ size \in [Regions -> {"none", "empty", "header", "directory", "whole"}]
    /\ directory \in [Regions -> [Slots -> Entries]]
    /\ slots \in [Regions -> [Slots -> Payloads \cup {Zero, Torn}]]
    /\ expected \in [Chunks -> SUBSET (Entries \cup {Corrupt})]
    /\ \A r \in Regions : size[r] # "whole" => directory[r] = NothingPresent
    /\ \A c \in Chunks :
          /\ Entry(c) \in expected[c]
          /\ Entry(c) = NoSum \/ Content(c) = Entry(c) \/ Corrupt \in expected[c]

(* A write under way may be seen, and may have spoilt what was there. *)
WriteInv ==
    pc \in Writing =>
        /\ op \in [chunk : Chunks, payload : Payloads]
        /\ op.payload \in expected[op.chunk]
        /\ Entry(op.chunk) # NoSum => Corrupt \in expected[op.chunk]
        /\ pc = "publish" => Content(op.chunk) = op.payload

(* The file of an image being made is open and not yet in the list, for    *)
(* which there is room; the image being written to is in it.               *)
ListInv ==
    /\ pc \in {"closed", "idle"} \cup Writing
    /\ View(recent, IF pc \in Initialising THEN handles \ {Target} ELSE handles, memory)
    /\ pc \in Initialising =>
          Target \in handles /\ Len(recent) < MaxOpenRegions /\ size[Target] # "whole"
    /\ pc \in {"payload", "publish"} => Target \in Listed(recent)

RegionInv == FilesInv /\ WriteInv /\ ListInv

(* Where a chunk is. *)
LEMMA Places ==
    ASSUME NEW c \in Chunks
    PROVE  /\ Region(c) \in Regions /\ Slot(c) \in Slots
           /\ \A d \in Chunks : Region(c) = Region(d) /\ Slot(c) = Slot(d) => c = d
<1>1. Region(c) \in Regions
  BY Zenon DEF Regions
<1> QED BY Zenon, <1>1, SlotsAreOwn DEF ChunksHaveOwnSlots

(* A write under way is about a chunk of a region. *)
LEMMA TargetIsRegion ==
    ASSUME WriteInv, pc \in Writing
    PROVE  op.chunk \in Chunks /\ op.payload \in Payloads /\ Target \in Regions
<1>1. op.chunk \in Chunks /\ op.payload \in Payloads
  BY Zenon DEF WriteInv
<1> QED BY Zenon, <1>1, Places DEF Target

(* Nothing is there in the beginning. *)
LEMMA InitInv == Init => RegionInv
<1> SUFFICES ASSUME Init PROVE RegionInv
  OBVIOUS
<1>1. NothingPresent \in [Slots -> Entries]
  BY Zenon DEF NothingPresent, Entries
<1>2. FilesInv
  <2>1. /\ size \in [Regions -> {"none", "empty", "header", "directory", "whole"}]
        /\ directory \in [Regions -> [Slots -> Entries]]
        /\ slots \in [Regions -> [Slots -> Payloads \cup {Zero, Torn}]]
        /\ expected \in [Chunks -> SUBSET (Entries \cup {Corrupt})]
        /\ \A r \in Regions : size[r] # "whole" => directory[r] = NothingPresent
    BY Zenon, <1>1 DEF Init, Entries
  <2>2. ASSUME NEW c \in Chunks
        PROVE  Entry(c) = NoSum /\ NoSum \in expected[c]
    BY Zenon, Places DEF Init, Entry, NothingPresent
  <2> QED BY Zenon, <2>1, <2>2 DEF FilesInv
<1>3. WriteInv
  BY Zenon DEF Init, WriteInv, Writing, Initialising
<1>4. ListInv
  <2>1. Listed(recent) = {} /\ recent \in Seq(Regions) /\ Distinct(recent) /\ Len(recent) = 0
    BY DEF Init, Listed, Distinct
  <2>2. View(recent, handles, memory)
    BY <1>1, <2>1, RegionAssumption DEF Init, View
  <2> QED BY Zenon, <2>2 DEF Init, ListInv, Writing, Initialising
<1> QED BY Zenon, <1>2, <1>3, <1>4 DEF RegionInv

(* A step that leaves the files and what callers know alone keeps FilesInv. *)
LEMMA FilesStay ==
    ASSUME FilesInv, UNCHANGED <<image, expected>>
    PROVE  FilesInv'
<1>1. \A c : Entry(c)' = Entry(c) /\ Content(c)' = Content(c)
  BY Zenon DEF Entry, Content, image
<1> QED BY Zenon, <1>1 DEF FilesInv, image

(* The end of the process, whatever it was doing. *)
LEMMA GoneInv ==
    ASSUME RegionInv, ProcessGone, UNCHANGED <<image, expected>>
    PROVE  RegionInv'
<1>1. FilesInv'
  BY Zenon, FilesStay DEF RegionInv
<1>2. WriteInv'
  BY Zenon DEF ProcessGone, WriteInv, Writing, Initialising
<1>3. ListInv'
  <2>1. Listed(recent)' = {} /\ recent' \in Seq(Regions) /\ Distinct(recent)' /\ Len(recent') = 0
    BY DEF ProcessGone, Listed, Distinct
  <2>2. NothingPresent \in [Slots -> Entries]
    BY Zenon DEF NothingPresent, Entries
  <2>3. View(recent, handles, memory)'
    BY <2>1, <2>2, RegionAssumption DEF ProcessGone, View
  <2> QED BY Zenon, <2>3 DEF ProcessGone, ListInv, Writing, Initialising
<1> QED BY Zenon, <1>1, <1>2, <1>3 DEF RegionInv

----------------------------------------------------------------------------
(* The steps *)

(* Opening the store changes nothing but that it is open. *)
LEMMA OpenStep ==
    ASSUME RegionInv, OpenWithOptions
    PROVE  RegionInv'
<1>1. FilesInv'
  BY Zenon, FilesStay DEF RegionInv, OpenWithOptions
<1>2. WriteInv'
  BY Zenon DEF OpenWithOptions, WriteInv, Writing, Initialising
<1>3. ListInv'
  <2>1. View(recent, handles, memory)
    BY Zenon DEF RegionInv, ListInv, OpenWithOptions, Initialising
  <2>2. View(recent, handles, memory)'
    BY Zenon, <2>1 DEF View, OpenWithOptions, image
  <2> QED BY Zenon, <2>2 DEF OpenWithOptions, ListInv, Writing, Initialising
<1> QED BY Zenon, <1>1, <1>2, <1>3 DEF RegionInv

(* A read may change the list, and with it files and memory. *)
LEMMA ReadStep ==
    ASSUME RegionInv, ReadChunk
    PROVE  RegionInv'
<1>1. FilesInv'
  BY Zenon, FilesStay DEF RegionInv, ReadChunk
<1>2. WriteInv'
  BY Zenon DEF ReadChunk, WriteInv, Writing, Initialising
<1>3. View(recent, handles, memory) /\ recent \in Seq(Regions)
  BY Zenon DEF RegionInv, ListInv, ReadChunk, Initialising, View
<1>4. View(recent', handles', memory')
  <2>1. PICK r \in Regions :
          \/ IsOpen(r) /\ MoveToFront(r)
          \/ ~IsOpen(r) /\ EvictionFails
          \/ ~IsOpen(r) /\ size[r] = "whole" /\ Load(r)
          \/ ~IsOpen(r) /\ (Unusable(r) \/ size[r] \in {"none", "empty"}) /\ Becomes(Evicted)
    BY Zenon DEF ReadChunk
  <2>2. CASE IsOpen(r) /\ MoveToFront(r)
    BY Zenon, <1>3, <2>2, OpenIsListed, FrontView
  <2>3. CASE size[r] = "whole" /\ ~IsOpen(r) /\ Load(r)
    <3>1. r \notin Listed(recent) /\ directory \in [Regions -> [Slots -> Entries]]
      BY Zenon, <1>3, <2>3, OpenIsListed DEF RegionInv, FilesInv
    <3> QED BY Zenon, <1>3, <2>3, <3>1, LoadView
  <2>4. CASE Becomes(Evicted)
    BY Zenon, <1>3, <2>4, EvictedView DEF Becomes
  <2> QED BY Zenon, <2>1, <2>2, <2>3, <2>4 DEF EvictionFails
<1>5. View(recent, handles, memory)'
  BY Zenon, <1>4 DEF View, ReadChunk, image
<1>6. ListInv'
  BY Zenon, <1>5 DEF ReadChunk, ListInv, Writing, Initialising
<1> QED BY Zenon, <1>1, <1>2, <1>6 DEF RegionInv

(* A write widens what may be seen before it touches a file. *)
LEMMA WriteBegins ==
    ASSUME RegionInv, WriteChunk
    PROVE  RegionInv'
<1>1. PICK c \in Chunks, p \in Payloads :
        /\ op' = [chunk |-> c, payload |-> p]
        /\ expected' = [expected EXCEPT ![c] =
              @ \cup {p} \cup (IF @ = {NoSum} THEN {} ELSE {Corrupt})]
  BY Zenon DEF WriteChunk
<1>2. /\ pc' = "acquire" /\ size' = size /\ directory' = directory /\ slots' = slots
      /\ recent' = recent /\ memory' = memory /\ handles' = handles
  BY Zenon DEF WriteChunk, image
<1>3. \A d : Entry(d)' = Entry(d) /\ Content(d)' = Content(d)
  BY Zenon, <1>2 DEF Entry, Content
<1>4. expected \in [Chunks -> SUBSET (Entries \cup {Corrupt})]
  BY Zenon DEF RegionInv, FilesInv
<1>5. /\ expected' \in [Chunks -> SUBSET (Entries \cup {Corrupt})]
      /\ \A d \in Chunks : expected[d] \subseteq expected'[d]
  BY Zenon, <1>1, <1>4 DEF Entries
<1>6. FilesInv'
  BY Zenon, <1>2, <1>3, <1>5 DEF RegionInv, FilesInv
<1>7. WriteInv'
  <2>1. p \in expected'[c]
    BY Zenon, <1>1, <1>4
  <2>2. Entry(c) # NoSum => Corrupt \in expected'[c]
    <3>1. Entry(c) \in expected[c]
      BY Zenon DEF RegionInv, FilesInv
    <3> QED BY Zenon, <1>1, <1>4, <3>1
  <2> QED BY Zenon, <1>1, <1>2, <1>3, <2>1, <2>2 DEF WriteInv, Writing, Initialising
<1>8. ListInv'
  <2>1. View(recent, handles, memory)
    BY Zenon DEF RegionInv, ListInv, WriteChunk, Initialising
  <2>2. View(recent, handles, memory)'
    BY Zenon, <1>2, <2>1 DEF View
  <2> QED BY Zenon, <1>2, <2>2 DEF ListInv, Writing, Initialising
<1> QED BY Zenon, <1>6, <1>7, <1>8 DEF RegionInv

(* The steps of a write that change neither the content of files nor what  *)
(* callers know, and do not begin to publish.                              *)
LEMMA WriteGoesOn ==
    ASSUME RegionInv, pc \in Writing,
           UNCHANGED <<directory, slots, expected>>,
           \/ pc' = "idle"
           \/ pc' \in Writing \ {"publish"} /\ op' = op
    PROVE  WriteInv'
<1>1. \A c : Entry(c)' = Entry(c) /\ Content(c)' = Content(c)
  BY Zenon DEF Entry, Content
<1> QED BY Zenon, <1>1 DEF RegionInv, WriteInv, Writing, Initialising

(* A new size of an image that was not whole and still has no chunk. *)
LEMMA SizeChanges ==
    ASSUME FilesInv, NEW r \in Regions, size[r] # "whole",
           NEW to \in {"none", "empty", "header", "directory", "whole"},
           size' = [size EXCEPT ![r] = to], UNCHANGED <<directory, slots, expected>>
    PROVE  FilesInv'
<1>1. \A c : Entry(c)' = Entry(c) /\ Content(c)' = Content(c)
  BY Zenon DEF Entry, Content
<1>2. \A x \in Regions : size'[x] # "whole" => directory'[x] = NothingPresent
  BY Zenon DEF FilesInv
<1> QED BY Zenon, <1>1, <1>2 DEF FilesInv

(* acquireImage finds the image, loads it, begins to make it, or fails. *)
LEMMA AcquireStep ==
    ASSUME RegionInv, acquireImage
    PROVE  RegionInv'
<1>1. /\ pc = "acquire" /\ directory' = directory /\ slots' = slots /\ expected' = expected
      /\ pc \in Writing
  BY Zenon DEF acquireImage, Writing
<1>2. Target \in Regions
  BY Zenon, <1>1, TargetIsRegion DEF RegionInv
<1>3. /\ View(recent, handles, memory) /\ recent \in Seq(Regions)
      /\ IsOpen(Target) <=> Target \in Listed(recent)
  BY Zenon, <1>1, OpenIsListed DEF RegionInv, ListInv, Initialising, View
<1>4. directory \in [Regions -> [Slots -> Entries]] /\ size \in [Regions -> {"none", "empty", "header", "directory", "whole"}]
  BY Zenon DEF RegionInv, FilesInv
<1>5. CASE Becomes(Evicted) /\ Fail /\ UNCHANGED size
  <2>1. View(recent', handles', memory')
    BY Zenon, <1>3, <1>5, EvictedView DEF Becomes
  <2>2. View(recent, handles, memory)'
    BY Zenon, <1>1, <1>5, <2>1 DEF View
  <2>3. ListInv'
    BY Zenon, <1>5, <2>2 DEF Fail, ListInv, Writing, Initialising
  <2>4. FilesInv'
    BY Zenon, <1>1, <1>5, FilesStay DEF RegionInv, image
  <2>5. WriteInv'
    BY Zenon, <1>1, <1>5, WriteGoesOn DEF Fail
  <2> QED BY Zenon, <2>3, <2>4, <2>5 DEF RegionInv
<1>6. CASE /\ \/ IsOpen(Target) /\ MoveToFront(Target)
              \/ ~IsOpen(Target) /\ size[Target] = "whole" /\ Load(Target)
           /\ pc' = "payload" /\ UNCHANGED <<size, op>>
  <2>1. View(recent', handles', memory') /\ Target \in Listed(recent')
    BY Zenon, <1>2, <1>3, <1>4, <1>6, FrontView, LoadView
  <2>2. View(recent, handles, memory)' /\ Target' = Target
    BY Zenon, <1>1, <1>6, <2>1 DEF View, Target
  <2>3. ListInv'
    BY Zenon, <1>6, <2>1, <2>2 DEF ListInv, Writing, Initialising
  <2>4. FilesInv'
    BY Zenon, <1>1, <1>6, FilesStay DEF RegionInv, image
  <2>5. WriteInv'
    BY Zenon, <1>1, <1>6, WriteGoesOn DEF Writing
  <2> QED BY Zenon, <2>3, <2>4, <2>5 DEF RegionInv
<1>7. CASE /\ ~IsOpen(Target)
           /\ size[Target] \in {"none", "empty"}
           /\ Becomes([Evicted EXCEPT !.handles = @ \cup {Target}])
           /\ size' = [size EXCEPT ![Target] = "empty"]
           /\ pc' = "header"
           /\ UNCHANGED op
  <2>1. /\ View(Evicted.recent, Evicted.handles, Evicted.memory)
        /\ Len(Evicted.recent) < MaxOpenRegions
        /\ Listed(Evicted.recent) \subseteq Listed(recent)
    BY Zenon, <1>3, EvictedView
  <2>2. Target \notin Evicted.handles
    BY Zenon, <1>3, <1>7, <2>1 DEF View
  <2>3. recent' = Evicted.recent /\ memory' = Evicted.memory /\ handles' = Evicted.handles \cup {Target}
    BY Zenon, <1>7 DEF Becomes, Evicted, Discarded, Kept
  <2>4. View(recent', handles' \ {Target}, memory')
    <3>1. handles' \ {Target} = Evicted.handles
      BY Zenon, <2>2, <2>3
    <3> QED BY <2>1, <2>3, <3>1, Zenon
  <2>5. Target' = Target
    BY Zenon, <1>7 DEF Target
  <2>6. View(recent, handles \ {Target}, memory)'
    <3>1. \A x \in Regions : size[x] = "whole" => size'[x] = "whole"
      BY Zenon, <1>4, <1>7
    <3> QED BY Zenon, <1>1, <2>4, <2>5, <3>1 DEF View
  <2>7. Target' \in handles' /\ Len(recent') < MaxOpenRegions /\ size'[Target'] # "whole"
    BY Zenon, <1>2, <1>4, <1>7, <2>1, <2>3, <2>5
  <2>8. ListInv'
    BY Zenon, <1>7, <2>6, <2>7 DEF ListInv, Writing, Initialising
  <2>9. FilesInv'
    BY <1>1, <1>2, <1>7, SizeChanges, Zenon DEF RegionInv
  <2>10. WriteInv'
    BY Zenon, <1>1, <1>7, WriteGoesOn DEF Writing, Initialising
  <2> QED BY Zenon, <2>8, <2>9, <2>10 DEF RegionInv
<1> QED BY Zenon, <1>5, <1>6, <1>7 DEF acquireImage, EvictionFails

(* A write of initialize succeeds or closes the file again. *)
LEMMA InitializeStep ==
    ASSUME RegionInv, initialize
    PROVE  RegionInv'
<1>1. PICK from \in Initialising, to \in {"header", "directory", "whole"}, next \in Writing :
        /\ Initialize(from, to, next)
        /\ to = "whole" <=> next = "payload"
        /\ to # "whole" => next \in Initialising
  BY Zenon DEF initialize, Initialising, Writing
<1>2. /\ pc = from /\ pc \in Initialising /\ pc \in Writing /\ next # "publish"
      /\ directory' = directory /\ slots' = slots /\ memory' = memory /\ expected' = expected
  BY Zenon, <1>1 DEF Initialize, Initialising, Writing
<1>3. Target \in Regions
  BY Zenon, <1>2, TargetIsRegion DEF RegionInv
<1>4. /\ View(recent, handles \ {Target}, memory)
      /\ Target \in handles /\ Len(recent) < MaxOpenRegions /\ size[Target] # "whole"
      /\ Target \notin Listed(recent)
  BY Zenon, <1>2 DEF RegionInv, ListInv, View
<1>5. /\ directory[Target] = NothingPresent
      /\ size \in [Regions -> {"none", "empty", "header", "directory", "whole"}]
  BY Zenon, <1>3, <1>4 DEF RegionInv, FilesInv
<1>6. CASE /\ size' = [size EXCEPT ![Target] = to]
           /\ pc' = next
           /\ recent' = IF to = "whole" THEN <<Target>> \o recent ELSE recent
           /\ UNCHANGED <<op, handles>>
  <2>1. FilesInv'
    BY <1>2, <1>3, <1>4, <1>6, SizeChanges, Zenon DEF RegionInv
  <2>2. WriteInv'
    BY Zenon, <1>2, <1>6, WriteGoesOn
  <2>3. Target' = Target
    BY Zenon, <1>6 DEF Target
  <2>4. CASE to = "whole"
    <3>1. recent \in Seq(Regions) /\ Distinct(recent) /\ recent' = <<Target>> \o recent
      BY Zenon, <1>4, <1>6, <2>4 DEF View
    <3>2. /\ recent' \in Seq(Regions) /\ Distinct(recent')
          /\ Len(recent') = Len(recent) + 1 /\ Listed(recent') = Listed(recent) \cup {Target}
      BY <1>3, <1>4, <3>1, AddedToList
    <3>3. Len(recent') <= MaxOpenRegions
      BY <1>4, <3>1, <3>2, RegionAssumption
    <3>4. handles' = Listed(recent')
      BY <1>4, <1>6, <3>2, Zenon DEF View
    <3>5. ASSUME NEW x \in Regions
          PROVE  /\ x \in Listed(recent') => size'[x] = "whole" /\ memory'[x] = directory'[x]
                 /\ x \notin Listed(recent') => memory'[x] = NothingPresent
      BY Zenon, <1>2, <1>3, <1>4, <1>5, <1>6, <2>4, <3>2 DEF View
    <3>6. View(recent, handles, memory)'
      BY Zenon, <1>2, <1>4, <3>2, <3>3, <3>4, <3>5 DEF View
    <3>7. Target' \in Listed(recent')
      BY Zenon, <2>3, <3>2
    <3>8. pc' = "payload"
      BY Zenon, <1>1, <1>6, <2>4
    <3>9. ListInv'
      BY Zenon, <3>6, <3>7, <3>8 DEF ListInv, Writing, Initialising
    <3> QED BY Zenon, <2>1, <2>2, <3>9 DEF RegionInv
  <2>5. CASE to # "whole"
    <3>1. pc' \in Initialising /\ recent' = recent /\ handles' = handles
      BY Zenon, <1>1, <1>6, <2>5
    <3>2. \A x \in Regions : size[x] = "whole" => size'[x] = "whole"
      BY Zenon, <1>4, <1>5, <1>6
    <3>3. View(recent, handles \ {Target}, memory)'
      BY Zenon, <1>2, <1>4, <2>3, <3>1, <3>2 DEF View
    <3>4. size'[Target'] # "whole"
      BY Zenon, <1>3, <1>5, <1>6, <2>3, <2>5
    <3>5. ListInv'
      BY Zenon, <1>4, <2>3, <3>1, <3>3, <3>4 DEF ListInv, Writing, Initialising
    <3> QED BY Zenon, <2>1, <2>2, <3>5 DEF RegionInv
  <2> QED BY Zenon, <2>4, <2>5
<1>7. CASE /\ \E left \in {size[Target], to} \ {"whole"} : size' = [size EXCEPT ![Target] = left]
           /\ handles' = handles \ {Target}
           /\ Fail
           /\ UNCHANGED recent
  <2>1. PICK left \in {size[Target], to} \ {"whole"} : size' = [size EXCEPT ![Target] = left]
    BY <1>7, Zenon
  <2>2. left \in {"none", "empty", "header", "directory", "whole"}
    BY Zenon, <1>3, <1>5, <2>1
  <2>3. FilesInv'
    BY <1>2, <1>3, <1>4, <2>1, <2>2, SizeChanges, Zenon DEF RegionInv
  <2>4. WriteInv'
    BY Zenon, <1>2, <1>7, WriteGoesOn DEF Fail
  <2>5. \A x \in Regions : size[x] = "whole" => size'[x] = "whole"
    BY Zenon, <1>4, <1>5, <2>1
  <2>6. View(recent, handles, memory)'
    BY Zenon, <1>2, <1>4, <1>7, <2>5 DEF View
  <2>7. ListInv'
    BY Zenon, <1>7, <2>6 DEF Fail, ListInv, Writing, Initialising
  <2> QED BY Zenon, <2>3, <2>4, <2>7 DEF RegionInv
<1> QED BY Zenon, <1>1, <1>6, <1>7 DEF Initialize

(* The image is closed and forgotten after an error. *)
LEMMA DiscardStep ==
    ASSUME RegionInv, pc \in {"payload", "publish"}, DiscardAfterError,
           size' = size, directory' = directory, pc' = "idle"
    PROVE  ListInv'
<1>1. Target \in Regions
  BY Zenon, TargetIsRegion DEF RegionInv, Writing
<1>2. View(recent, handles, memory)
  BY Zenon DEF RegionInv, ListInv, Initialising
<1>3. View(recent', handles', memory')
  BY Zenon, <1>1, <1>2, DiscardedView DEF DiscardAfterError, Becomes
<1>4. View(recent, handles, memory)'
  BY Zenon, <1>3 DEF View
<1> QED BY Zenon, <1>4 DEF ListInv, Writing, Initialising

(* A payload, whole or torn, reaches only the slot of its chunk. *)
LEMMA PayloadStep ==
    ASSUME RegionInv, WritePayload
    PROVE  RegionInv'
<1> DEFINE c == op.chunk
<1>1. /\ pc = "payload" /\ size' = size /\ directory' = directory /\ expected' = expected
      /\ pc \in Writing
  BY Zenon DEF WritePayload, Writing
<1>2. /\ c \in Chunks /\ op.payload \in Payloads /\ Target \in Regions
      /\ Target = Region(c) /\ Slot(c) \in Slots
  BY Zenon, <1>1, TargetIsRegion, Places DEF RegionInv, Target
<1>3. slots \in [Regions -> [Slots -> Payloads \cup {Zero, Torn}]]
  BY Zenon DEF RegionInv, FilesInv
<1> HIDE DEF c
<1>4. PICK left \in Payloads \cup {Zero, Torn} :
        slots' = [slots EXCEPT ![Target][Slot(c)] = left]
  <2>1. CASE slots' = [slots EXCEPT ![Target][Slot(c)] = op.payload]
    BY <1>2, <2>1, Zenon
  <2>2. CASE \E left \in {slots[Target][Slot(c)], Torn} : slots' = [slots EXCEPT ![Target][Slot(c)] = left]
    <3>1. slots[Target][Slot(c)] \in Payloads \cup {Zero, Torn}
      BY Zenon, <1>2, <1>3
    <3> QED BY <2>2, <3>1, Zenon
  <2> QED BY <2>1, <2>2, Zenon DEF WritePayload, c
<1>5. slots' \in [Regions -> [Slots -> Payloads \cup {Zero, Torn}]]
  BY Zenon, <1>2, <1>3, <1>4
<1>6. \A d : Entry(d)' = Entry(d)
  BY Zenon, <1>1 DEF Entry
<1>7. ASSUME NEW d \in Chunks, d # c
      PROVE  Content(d)' = Content(d)
  <2>1. Region(d) \in Regions /\ Slot(d) \in Slots /\ (Region(d) # Target \/ Slot(d) # Slot(c))
    BY Zenon, <1>2, <1>7, Places
  <2> QED BY Zenon, <1>2, <1>3, <1>4, <2>1 DEF Content
<1>8. Entry(c) = NoSum \/ Corrupt \in expected[c]
  BY Zenon, <1>1 DEF RegionInv, WriteInv, c
<1>9. FilesInv'
  <2>1. ASSUME NEW d \in Chunks
        PROVE  /\ Entry(d)' \in expected'[d]
               /\ Entry(d)' = NoSum \/ Content(d)' = Entry(d)' \/ Corrupt \in expected'[d]
    BY Zenon, <1>1, <1>6, <1>7, <1>8 DEF RegionInv, FilesInv
  <2> QED BY Zenon, <1>1, <1>5, <2>1 DEF RegionInv, FilesInv
<1>10. CASE /\ slots' = [slots EXCEPT ![Target][Slot(op.chunk)] = op.payload]
            /\ pc' = "publish"
            /\ UNCHANGED <<op, recent, memory, handles>>
  <2>1. Content(op.chunk)' = op.payload /\ Target' = Target
    BY Zenon, <1>2, <1>3, <1>10 DEF Content, Target, c
  <2>2. WriteInv'
    BY Zenon, <1>1, <1>6, <1>10, <2>1 DEF RegionInv, WriteInv, Writing
  <2>3. View(recent, handles, memory)
    BY Zenon, <1>1 DEF RegionInv, ListInv, Initialising
  <2>4. View(recent, handles, memory)'
    BY Zenon, <1>1, <1>10, <2>3 DEF View
  <2>5. ListInv'
    BY Zenon, <1>1, <1>10, <2>1, <2>4 DEF RegionInv, ListInv, Writing, Initialising
  <2> QED BY Zenon, <1>9, <2>2, <2>5 DEF RegionInv
<1>11. CASE DiscardAfterError /\ Fail
  <2>1. ListInv'
    BY Zenon, <1>1, <1>11, DiscardStep DEF Fail
  <2>2. WriteInv'
    BY Zenon, <1>11 DEF Fail, WriteInv, Writing, Initialising
  <2> QED BY Zenon, <1>9, <2>1, <2>2 DEF RegionInv
<1> QED BY Zenon, <1>10, <1>11 DEF WritePayload

(* The directory names the payload that is in the slot. *)
LEMMA PublishStep ==
    ASSUME RegionInv, PublishSlot
    PROVE  RegionInv'
<1>1. /\ pc = "publish" /\ size' = size /\ slots' = slots /\ pc' = "idle" /\ pc \in Writing
  BY Zenon DEF PublishSlot, Writing
<1>0. op.chunk \in Chunks /\ op.payload \in Payloads /\ Target \in Regions
  BY Zenon, <1>1, TargetIsRegion DEF RegionInv
<1> PICK c \in Chunks : c = op.chunk
  BY <1>0, Zenon
<1> PICK p \in Payloads : p = op.payload
  BY <1>0, Zenon
<1>2. Target \in Regions /\ Target = Region(c) /\ Slot(c) \in Slots
  BY Zenon, <1>0, Places DEF Target
<1>3. /\ View(recent, handles, memory) /\ Target \in Listed(recent)
      /\ memory[Target] = directory[Target] /\ size[Target] = "whole"
      /\ memory \in [Regions -> [Slots -> Entries]]
  BY Zenon, <1>1, <1>2 DEF RegionInv, ListInv, Initialising, View
<1>4. directory \in [Regions -> [Slots -> Entries]] /\ expected \in [Chunks -> SUBSET (Entries \cup {Corrupt})]
  BY Zenon DEF RegionInv, FilesInv
<1>5. WriteInv'
  BY Zenon, <1>1 DEF WriteInv, Writing, Initialising
<1>6. CASE /\ directory' = [directory EXCEPT ![Target] = Marked[Target]]
           /\ memory' = Marked
           /\ expected' = [expected EXCEPT ![op.chunk] = {op.payload}]
           /\ UNCHANGED <<recent, handles>>
  <2>1. Marked \in [Regions -> [Slots -> Entries]]
    BY Zenon, <1>2, <1>3 DEF Marked, Entries
  <2>2. /\ directory' \in [Regions -> [Slots -> Entries]]
        /\ expected' \in [Chunks -> SUBSET (Entries \cup {Corrupt})]
    BY <1>2, <1>4, <1>6, <2>1, Zenon DEF Entries
  <2>3. \A x \in Regions : x # Target => directory'[x] = directory[x] /\ memory'[x] = memory[x]
    BY Zenon, <1>2, <1>3, <1>4, <1>6 DEF Marked
  <2>4. directory'[Target] = memory'[Target]
    BY Zenon, <1>2, <1>4, <1>6
  <2>5. directory'[Region(c)] = [directory[Region(c)] EXCEPT ![Slot(c)] = p]
    BY Zenon, <1>2, <1>3, <1>4, <1>6 DEF Marked
  <2>6. Entry(c)' = p /\ Content(c)' = p /\ expected'[c] = {p}
    <3>1. Content(c) = p
      BY Zenon, <1>1 DEF RegionInv, WriteInv
    <3>2. Content(c)' = p
      BY Zenon, <1>1, <3>1 DEF Content
    <3>3. Entry(c)' = p
      BY <1>2, <1>4, <2>5 DEF Entry
    <3> QED BY Zenon, <1>4, <1>6, <3>2, <3>3
  <2>7. ASSUME NEW d \in Chunks, d # c
        PROVE  Entry(d)' = Entry(d) /\ Content(d)' = Content(d) /\ expected'[d] = expected[d]
    <3>1. Region(d) \in Regions /\ Slot(d) \in Slots /\ (Region(d) # Target \/ Slot(d) # Slot(c))
      BY Zenon, <1>2, <2>7, Places
    <3>2. Entry(d)' = Entry(d)
      BY <1>2, <1>4, <2>3, <2>5, <3>1 DEF Entry
    <3> QED BY Zenon, <1>1, <1>4, <1>6, <2>7, <3>2 DEF Content
  <2>8. FilesInv'
    <3>1. ASSUME NEW d \in Chunks
          PROVE  /\ Entry(d)' \in expected'[d]
                 /\ Entry(d)' = NoSum \/ Content(d)' = Entry(d)' \/ Corrupt \in expected'[d]
      BY Zenon, <2>6, <2>7 DEF RegionInv, FilesInv
    <3>2. \A x \in Regions : size'[x] # "whole" => directory'[x] = NothingPresent
      BY Zenon, <1>1, <1>3, <2>3 DEF RegionInv, FilesInv
    <3> QED BY Zenon, <1>1, <2>2, <3>1, <3>2 DEF RegionInv, FilesInv
  <2>9. View(recent, handles, memory)'
    <3>1. memory' \in [Regions -> [Slots -> Entries]]
      BY Zenon, <1>6, <2>1
    <3>2. ASSUME NEW x \in Regions
          PROVE  /\ x \in Listed(recent') => size'[x] = "whole" /\ memory'[x] = directory'[x]
                 /\ x \notin Listed(recent') => memory'[x] = NothingPresent
      BY Zenon, <1>1, <1>3, <1>6, <2>3, <2>4 DEF View
    <3> QED BY Zenon, <1>3, <1>6, <3>1, <3>2 DEF View
  <2>10. ListInv'
    BY Zenon, <1>1, <2>9 DEF ListInv, Writing, Initialising
  <2> QED BY Zenon, <1>5, <2>8, <2>10 DEF RegionInv
<1>7. CASE DiscardAfterError /\ UNCHANGED <<directory, expected>>
  <2>1. ListInv'
    BY Zenon, <1>1, <1>7, DiscardStep
  <2>2. FilesInv'
    BY Zenon, <1>1, <1>7, FilesStay DEF RegionInv, image
  <2> QED BY Zenon, <1>5, <2>1, <2>2 DEF RegionInv
<1> QED BY Zenon, <1>6, <1>7 DEF PublishSlot

(* The inductive invariant holds of every reachable state. *)
LEMMA InvHolds == Spec => []RegionInv
<1>1. RegionInv /\ [Next]_vars => RegionInv'
  <2> SUFFICES ASSUME RegionInv, [Next]_vars PROVE RegionInv'
    OBVIOUS
  <2>1. CASE OpenWithOptions
    BY Zenon, <2>1, OpenStep
  <2>2. CASE ReadChunk
    BY Zenon, <2>2, ReadStep
  <2>3. CASE WriteChunk
    BY Zenon, <2>3, WriteBegins
  <2>4. CASE acquireImage
    BY Zenon, <2>4, AcquireStep
  <2>5. CASE initialize
    BY Zenon, <2>5, InitializeStep
  <2>6. CASE WritePayload
    BY Zenon, <2>6, PayloadStep
  <2>7. CASE PublishSlot
    BY Zenon, <2>7, PublishStep
  <2>8. CASE Close \/ Crash
    BY Zenon, <2>8, GoneInv DEF Close, Crash
  <2>9. CASE UNCHANGED vars
    <3>1. FilesInv'
      BY Zenon, <2>9, FilesStay DEF RegionInv, vars
    <3>2. \A c : Entry(c)' = Entry(c) /\ Content(c)' = Content(c)
      BY Zenon, <2>9 DEF vars, image, Entry, Content
    <3>3. WriteInv'
      BY Zenon, <2>9, <3>2 DEF RegionInv, WriteInv, vars, process
    <3>4. ListInv'
      BY Zenon, <2>9 DEF RegionInv, ListInv, View, Target, vars, image, process
    <3> QED BY Zenon, <3>1, <3>3, <3>4 DEF RegionInv
  <2> QED BY Zenon, <2>1, <2>2, <2>3, <2>4, <2>5, <2>6, <2>7, <2>8, <2>9 DEF Next
<1> QED BY <1>1, InitInv, PTL DEF Spec

(* ReadChunk between two calls answers what was acknowledged last, or what *)
(* a write that failed since may have left, whatever failed or crashed.    *)
THEOREM ReadsStayExpected == Spec => []ReadsAnswerExpected
<1>1. RegionInv => ReadsAnswerExpected
  <2> SUFFICES ASSUME RegionInv, NEW c \in Chunks
               PROVE  \/ Answer(c) \in expected[c]
                      \/ Answer(c) = Corrupt /\ size[Region(c)] # "whole" /\ NoSum \in expected[c]
    BY Zenon DEF ReadsAnswerExpected
  <2> DEFINE r == Region(c)
             s == Slot(c)
  <2>1. r \in Regions /\ s \in Slots
    BY Zenon, Places
  <2>2. /\ Entry(c) \in expected[c]
        /\ Entry(c) = NoSum \/ Content(c) = Entry(c) \/ Corrupt \in expected[c]
        /\ size[r] # "whole" => Entry(c) = NoSum
    BY Zenon, <2>1 DEF RegionInv, FilesInv, Entry, NothingPresent
  <2>3. IsOpen(r) => size[r] = "whole" /\ memory[r] = directory[r]
    BY Zenon, <2>1, OpenIsListed DEF RegionInv, ListInv, View
  <2> HIDE DEF r, s
  <2>4. CASE ~IsOpen(r) /\ size[r] # "whole"
    <3>1. Answer(c) \in {NoSum, Corrupt}
      BY Zenon, <2>4 DEF Answer, r, s
    <3> QED BY Zenon, <2>2, <2>4, <3>1 DEF r
  <2>5. CASE IsOpen(r) \/ size[r] = "whole"
    <3>1. Answer(c) = IF Entry(c) = NoSum THEN NoSum
                      ELSE IF Content(c) # Entry(c) THEN Corrupt ELSE Entry(c)
      BY Zenon, <2>3, <2>5 DEF Answer, Entry, Content, r, s
    <3> QED BY Zenon, <2>2, <3>1
  <2> QED BY Zenon, <2>4, <2>5
<1> QED BY <1>1, InvHolds, PTL

(* The files that acquireImage holds open never exceed MaxOpenRegions, and *)
(* between calls they are the images in the list, on every path.           *)
THEOREM HandlesStayBounded == Spec => []HandlesBounded
<1>1. RegionInv => HandlesBounded
  <2> SUFFICES ASSUME RegionInv PROVE HandlesBounded
    OBVIOUS
  <2> DEFINE n == Len(recent)
             listed == Listed(recent)
  <2>1. /\ recent \in Seq(Regions) /\ n \in Nat /\ n <= MaxOpenRegions
        /\ MaxOpenRegions \in Nat
    BY RegionAssumption DEF RegionInv, ListInv, View
  <2>2. IsFiniteSet(listed) /\ Cardinality(listed) <= n /\ Cardinality(listed) \in Nat
    <3>1. recent \in Surjection(1..n, listed)
      <4>1. recent \in [1..n -> listed]
        <5>1. recent \in [1..n -> Regions]
          BY <2>1
        <5>2. \A j \in 1..n : recent[j] \in listed
          BY Zenon DEF Listed
        <5> HIDE DEF n, listed
        <5> QED BY Zenon, <5>1, <5>2
      <4>2. \A x \in listed : \E j \in 1..n : recent[j] = x
        BY Zenon DEF Listed
      <4> HIDE DEF n, listed
      <4> QED BY <4>1, <4>2, Zenon DEF Surjection
    <3>2. IsFiniteSet(1..n) /\ Cardinality(1..n) = n
      <4> HIDE DEF n
      <4>1. 1 \in Int /\ n \in Int
        BY <2>1
      <4>2. IsFiniteSet(1..n) /\ Cardinality(1..n) = IF 1 > n THEN 0 ELSE n - 1 + 1
        BY <4>1, FS_Interval, Zenon
      <4> QED BY <2>1, <4>2
    <3>3. IsFiniteSet(listed) /\ Cardinality(listed) <= Cardinality(1..n)
      BY Zenon, <3>1, <3>2, FS_Surjection
    <3> QED BY Zenon, <3>2, <3>3, FS_CardinalityType
  <2> HIDE DEF n, listed
  <2>3. CASE pc \in Initialising
    <3>1. handles = listed \cup {Target} /\ n < MaxOpenRegions
      BY Zenon, <2>3 DEF RegionInv, ListInv, View, n, listed
    <3>2. Cardinality(handles) = IF Target \in listed THEN Cardinality(listed) ELSE Cardinality(listed) + 1
      BY <2>2, <3>1, FS_AddElement, Zenon
    <3>3. Cardinality(handles) <= MaxOpenRegions
      <4>1. Cardinality(handles) \in Nat
        BY Zenon, <2>2, <3>1, FS_AddElement, FS_CardinalityType
      <4> QED BY <2>1, <2>2, <3>1, <3>2, <4>1
    <3> QED BY Zenon, <2>3, <3>3 DEF HandlesBounded, Initialising
  <2>4. CASE pc \notin Initialising
    <3>1. handles = listed
      BY Zenon, <2>4 DEF RegionInv, ListInv, View, listed
    <3>2. Cardinality(handles) <= MaxOpenRegions
      BY <2>1, <2>2, <3>1
    <3>3. \A r \in Regions : r \in handles <=> IsOpen(r)
      BY Zenon, <2>1, <3>1, OpenIsListed DEF listed
    <3> QED BY Zenon, <3>2, <3>3 DEF HandlesBounded
  <2> QED BY Zenon, <2>3, <2>4
<1> QED BY <1>1, InvHolds, PTL
================================================================================
