------------------------------ MODULE WriterLock ------------------------------
(***************************************************************************)
(* Ownership of a data directory (lock.go, lock_owner.go,                  *)
(* lock_migration.go).  A writer makes sure that the lock path is a        *)
(* directory, moving away the lock file of an older release, locks the     *)
(* guard file in it, refuses an owner record that is not stale, writes its *)
(* own record and refreshes it by a heartbeat until it releases the lock.  *)
(*                                                                         *)
(* A step is one operation on the lock path.  Times matter only as the age *)
(* of the heartbeat in the record; what passes StaleAfter is one age.      *)
(* Locks of the operating system go when their process dies.  An older     *)
(* release locks the lock path itself, a file, and never removes it.       *)
(***************************************************************************)
EXTENDS Integers, FiniteSets

CONSTANTS
    Procs,       \* processes that open the directory for writing
    Legacy,      \* processes of an older release
    Sessions,    \* session identifiers, more than can be in use at once
    None,        \* nobody
    StaleAfter,  \* writerStaleAfter, in ticks of the clock
    MaxInodes,   \* bound on the lock files older releases create
    MaxMishaps   \* bound on crashes, failing operations and clock changes

ASSUME LockAssumption ==
    /\ None \notin Procs \cup Legacy \cup Sessions
    /\ Procs \cap Legacy = {}
    /\ StaleAfter \in Nat
    /\ MaxInodes \in Nat \ {0}
    /\ MaxMishaps \in Nat

VARIABLES
    path,     \* what the lock path is: "absent", "file" or "dir"
    inode,    \* the file last created at the lock path
    flock,    \* who has locked a file of an older release
    guard,    \* who has locked the guard file
    owner,    \* the session in owner.json, None when there is no record
    age,      \* the age of its heartbeat, negative for a future one
    orphan,   \* "yes" if the record outlived its writer (history)
    stage,    \* where a process is
    fd,       \* the file of an older release it has open, 0 for none
    session,  \* the session of its lock
    beat,     \* its heartbeat: "off", "running" or "lost"
    mishaps   \* mishaps so far

files == <<path, inode, flock>>
record == <<owner, age, orphan>>
mine == <<fd, session, beat>>
lockVars == <<files, guard, record, stage, mine, mishaps>>

Inodes == 1..MaxInodes

LockInit ==
    /\ path \in {"absent", "file", "dir"}
    /\ inode = IF path = "file" THEN 1 ELSE 0
    /\ flock = [i \in Inodes |-> None]
    /\ guard = None
    /\ owner = None
    /\ age = 0
    /\ orphan = "no"
    /\ stage = [p \in Procs |-> "idle"]
    /\ fd = [p \in Procs |-> 0]
    /\ session = [p \in Procs |-> None]
    /\ beat = [p \in Procs |-> "off"]
    /\ mishaps = 0

Mishap == mishaps < MaxMishaps /\ mishaps' = mishaps + 1

Goto(p, at) == stage' = [stage EXCEPT ![p] = at]

(* Locks on files that p holds go when it closes them or dies. *)
Unlocked(p) == [i \in Inodes |-> IF flock[i] = p THEN None ELSE flock[i]]

----------------------------------------------------------------------------
(* ensureLockDirectory and migrateLegacyLockFile *)

Start(p) ==
    /\ stage[p] = "idle"
    /\ Goto(p, "inspecting")
    /\ UNCHANGED <<files, guard, record, mine, mishaps>>

Inspect(p) ==
    /\ stage[p] = "inspecting"
    /\ Goto(p, CASE path = "absent" -> "creating"
                 [] path = "dir" -> "guarding"
                 [] path = "file" -> "opening")
    /\ UNCHANGED <<files, guard, record, mine, mishaps>>

Mkdir(p) ==
    /\ stage[p] = "creating"
    /\ Goto(p, IF path = "absent" THEN "guarding" ELSE "inspecting")
    /\ path' = IF path = "absent" THEN "dir" ELSE path
    /\ UNCHANGED <<inode, flock, guard, record, mine, mishaps>>

(* openExistingWriterGuard opens the file, and fails on a directory. *)
OpenLegacy(p) ==
    /\ stage[p] = "opening"
    /\ Goto(p, CASE path = "absent" -> "inspecting"
                 [] path = "dir" -> "idle"
                 [] path = "file" -> "locking")
    /\ fd' = [fd EXCEPT ![p] = IF path = "file" THEN inode ELSE 0]
    /\ UNCHANGED <<files, guard, record, session, beat, mishaps>>

LockLegacy(p) ==
    /\ stage[p] = "locking"
    /\ \/ /\ flock[fd[p]] = None
          /\ flock' = [flock EXCEPT ![fd[p]] = p]
          /\ Goto(p, "rechecking")
          /\ UNCHANGED fd
       \/ /\ flock[fd[p]] # None
          /\ fd' = [fd EXCEPT ![p] = 0]
          /\ Goto(p, "idle")
          /\ UNCHANGED flock
    /\ UNCHANGED <<path, inode, guard, record, session, beat, mishaps>>

(* migrateLegacyLockFile returns and closes its file. *)
CloseLegacy(p, at) ==
    /\ flock' = Unlocked(p)
    /\ fd' = [fd EXCEPT ![p] = 0]
    /\ Goto(p, at)

(* Wrong: any file at the path will do. *)
SameFileUnchecked(p) == path = "file"

(* The locked file is moved only if it is still the one at the path. *)
SameFile(p) == path = "file" /\ fd[p] = inode

Recheck(p) ==
    /\ stage[p] = "rechecking"
    /\ \/ /\ SameFile(p)
          /\ Goto(p, "moving")
          /\ UNCHANGED <<flock, fd>>
       \/ /\ ~SameFile(p)
          /\ CloseLegacy(p, "inspecting")
    /\ UNCHANGED <<path, inode, guard, record, session, beat, mishaps>>

Move(p) ==
    /\ stage[p] = "moving"
    /\ path # "absent"
    /\ path' = "absent"
    /\ Goto(p, "moved")
    /\ UNCHANGED <<inode, flock, guard, record, mine, mishaps>>

MkdirMoved(p) ==
    /\ stage[p] = "moved"
    /\ path' = IF path = "absent" THEN "dir" ELSE path
    /\ CloseLegacy(p, IF path = "absent" THEN "guarding" ELSE "inspecting")
    /\ UNCHANGED <<inode, guard, record, session, beat, mishaps>>

----------------------------------------------------------------------------
(* acquireWriterLockWithConfig *)

openWriterGuard(p) ==
    /\ stage[p] = "guarding"
    /\ \/ /\ guard = None
          /\ guard' = p
          /\ Goto(p, "checking")
       \/ /\ guard # None
          /\ Goto(p, "idle")
          /\ UNCHANGED guard
    /\ UNCHANGED <<files, record, mine, mishaps>>

Stale == age > StaleAfter

(* Wrong: a refused process keeps the guard. *)
CheckOwnerKeepsGuard(p) ==
    /\ stage[p] = "checking"
    /\ Goto(p, IF owner = None \/ Stale THEN "writing" ELSE "idle")
    /\ UNCHANGED <<files, guard, record, mine, mishaps>>

(* A record whose heartbeat is not stale, or lies in the future, refuses   *)
(* the lock.                                                               *)
CheckOwner(p) ==
    /\ stage[p] = "checking"
    /\ \/ /\ owner = None \/ Stale
          /\ Goto(p, "writing")
          /\ UNCHANGED guard
       \/ /\ owner # None
          /\ ~Stale
          /\ guard' = None
          /\ Goto(p, "idle")
    /\ UNCHANGED <<files, record, mine, mishaps>>

(* The record has the time of the check, which may be long ago. *)
WriteOwner(p) ==
    /\ stage[p] = "writing"
    /\ \E s \in Sessions :
          /\ s # owner
          /\ \A q \in Procs : session[q] # s
          /\ owner' = s
          /\ session' = [session EXCEPT ![p] = s]
    /\ age' \in 0..(StaleAfter + 1)
    /\ orphan' = "no"
    /\ beat' = [beat EXCEPT ![p] = "running"]
    /\ Goto(p, "owner")
    /\ UNCHANGED <<files, guard, fd, mishaps>>

(* An operation fails on the way: everything is closed again. *)
LetGo(p) ==
    /\ flock' = Unlocked(p)
    /\ fd' = [fd EXCEPT ![p] = 0]
    /\ guard' = IF guard = p THEN None ELSE guard

Acquiring ==
    {"inspecting", "creating", "opening", "locking", "rechecking", "moving", "moved",
     "guarding", "checking", "writing"}

GiveUp(p) ==
    /\ stage[p] \in Acquiring
    /\ Mishap
    /\ LetGo(p)
    /\ Goto(p, "idle")
    /\ UNCHANGED <<path, inode, record, session, beat>>

----------------------------------------------------------------------------
(* heartbeatLoop and release *)

(* A tick may have waited in its channel, and never moves the heartbeat    *)
(* back.                                                                   *)
heartbeat(p) ==
    /\ beat[p] = "running"
    /\ owner' = session[p]
    /\ age' \in {age} \cup 0..age
    /\ orphan' = "no"
    /\ UNCHANGED <<files, guard, stage, mine, mishaps>>

heartbeatFails(p) ==
    /\ beat[p] = "running"
    /\ Mishap
    /\ beat' = [beat EXCEPT ![p] = "lost"]
    /\ UNCHANGED <<files, guard, record, stage, fd, session>>

release(p) ==
    /\ stage[p] = "owner"
    /\ Goto(p, "stopping")
    /\ UNCHANGED <<files, guard, record, mine, mishaps>>

heartbeatStops(p) ==
    /\ stage[p] \in {"stopping", "removing", "closing"}
    /\ beat[p] = "running"
    /\ beat' = [beat EXCEPT ![p] = "off"]
    /\ UNCHANGED <<files, guard, record, stage, fd, session, mishaps>>

(* Wrong: release does not wait for the heartbeat to end. *)
ReadOwnUnstopped(p) ==
    /\ stage[p] = "stopping"
    /\ Goto(p, IF owner = session[p] THEN "removing" ELSE "closing")
    /\ UNCHANGED <<files, guard, record, mine, mishaps>>

(* Once the heartbeat has ended, release reads the record, *)
ReadOwn(p) ==
    /\ stage[p] = "stopping"
    /\ beat[p] # "running"
    /\ Goto(p, IF owner = session[p] THEN "removing" ELSE "closing")
    /\ UNCHANGED <<files, guard, record, mine, mishaps>>

(* removes it if it is its own *)
Remove(p) ==
    /\ stage[p] = "removing"
    /\ owner' = None
    /\ age' = 0
    /\ orphan' = "no"
    /\ Goto(p, "closing")
    /\ UNCHANGED <<files, guard, mine, mishaps>>

(* - reading or removing may fail, and the record stays - *)
RemoveFails(p) ==
    /\ stage[p] \in {"stopping", "removing"}
    /\ beat[p] # "running"
    /\ Mishap
    /\ orphan' = IF owner = session[p] THEN "yes" ELSE orphan
    /\ Goto(p, "closing")
    /\ UNCHANGED <<files, guard, owner, age, mine>>

(* and closes the guard. *)
closeWriterGuard(p) ==
    /\ stage[p] = "closing"
    /\ guard' = IF guard = p THEN None ELSE guard
    /\ session' = [session EXCEPT ![p] = None]
    /\ beat' = [beat EXCEPT ![p] = "off"]
    /\ Goto(p, "idle")
    /\ UNCHANGED <<files, record, fd, mishaps>>

----------------------------------------------------------------------------
(* What happens around it *)

Dies(p) ==
    /\ stage[p] # "idle"
    /\ Mishap
    /\ flock' = Unlocked(p)
    /\ fd' = [fd EXCEPT ![p] = 0]
    /\ guard' = IF guard = p THEN None ELSE guard
    /\ orphan' = IF owner # None /\ owner = session[p] THEN "yes" ELSE orphan
    /\ session' = [session EXCEPT ![p] = None]
    /\ beat' = [beat EXCEPT ![p] = "off"]
    /\ Goto(p, "idle")
    /\ UNCHANGED <<path, inode, owner, age>>

Tick ==
    /\ owner # None
    /\ age <= StaleAfter
    /\ age' = age + 1
    /\ UNCHANGED <<files, guard, owner, orphan, stage, mine, mishaps>>

ClockSetBack ==
    /\ owner # None
    /\ age >= 0
    /\ Mishap
    /\ age' = -1
    /\ UNCHANGED <<files, guard, owner, orphan, stage, mine>>

(* A writer of an older release opens the lock path, creating a file if    *)
(* there is none, and locks it; later it is done.                          *)
LegacyStart(l) ==
    /\ \A i \in Inodes : flock[i] # l
    /\ \/ /\ path = "absent"
          /\ inode < MaxInodes
          /\ path' = "file"
          /\ inode' = inode + 1
          /\ flock' = [flock EXCEPT ![inode + 1] = l]
       \/ /\ path = "file"
          /\ flock[inode] = None
          /\ flock' = [flock EXCEPT ![inode] = l]
          /\ UNCHANGED <<path, inode>>
    /\ UNCHANGED <<guard, record, stage, mine, mishaps>>

LegacyStop(l) ==
    /\ \E i \in Inodes : flock[i] = l
    /\ flock' = [i \in Inodes |-> IF flock[i] = l THEN None ELSE flock[i]]
    /\ UNCHANGED <<path, inode, guard, record, stage, mine, mishaps>>

ensureLockDirectory(p) ==
    Inspect(p) \/ Mkdir(p) \/ OpenLegacy(p) \/ LockLegacy(p) \/ Recheck(p) \/ Move(p) \/ MkdirMoved(p)

acquireWriterLock(p) ==
    Start(p) \/ ensureLockDirectory(p) \/ openWriterGuard(p) \/ CheckOwner(p) \/ WriteOwner(p)

Releasing(p) == heartbeatStops(p) \/ ReadOwn(p) \/ Remove(p) \/ closeWriterGuard(p)

LockNext ==
    \/ \E p \in Procs :
          \/ acquireWriterLock(p) \/ GiveUp(p)
          \/ heartbeat(p) \/ heartbeatFails(p)
          \/ release(p) \/ Releasing(p) \/ RemoveFails(p)
          \/ Dies(p)
    \/ Tick
    \/ ClockSetBack
    \/ \E l \in Legacy : LegacyStart(l) \/ LegacyStop(l)

LockSpec == LockInit /\ [][LockNext]_lockVars

(* Processes keep trying, an orderly release runs to its end, and time     *)
(* passes; mishaps are finitely many.                                      *)
FairLockSpec ==
    /\ LockSpec
    /\ WF_lockVars(Tick)
    /\ \A p \in Procs : WF_lockVars(acquireWriterLock(p)) /\ WF_lockVars(Releasing(p))

(***************************************************************************)
(* Properties                                                              *)
(***************************************************************************)

(* Processes that may change data: the store of a current release between  *)
(* acquire and release, one of an older release while it has the lock.     *)
Owners == {p \in Procs : stage[p] = "owner"}
LegacyOwners == {l \in Legacy : \E i \in Inodes : flock[i] = l}

(* "A second writer is rejected while that lock is held"                   *)
(* (docs/CONCURRENCY.md), and so is a writer of an older release, while    *)
(* lock files are moved away, crash or no crash.                           *)
OneWriter == Cardinality(Owners \cup LegacyOwners) <= 1

(* An orderly close removes the record for good, so that the next writer   *)
(* need not wait for it to become stale: a record without a live owner was *)
(* left by a crash or a failed removal.                                    *)
CloseRemovesRecord ==
    owner # None /\ orphan = "no" => \E p \in Procs : session[p] = owner

(* A directory without a writer gets one: records of the dead become stale *)
(* and interrupted migrations are completed.                               *)
DirectoryIsTaken == Owners \cup LegacyOwners = {} ~> Owners \cup LegacyOwners # {}
================================================================================
