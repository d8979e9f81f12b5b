---------------------------- MODULE WALHandlePool ----------------------------
(***************************************************************************)
(* The pool of WAL handles (wal_pool.go): goroutines acquire the append or *)
(* the scan stream, share a stream that is open, wait on one condition     *)
(* variable for a place when every open stream is in use, give up when     *)
(* their deadline has passed, and close waits on the same variable for all *)
(* leases to end.                                                          *)
(*                                                                         *)
(* What a goroutine does from taking the mutex to releasing it or waiting  *)
(* is one step.  A file is a number, counted in the order of opening.      *)
(***************************************************************************)
EXTENDS Lists, FiniteSets

CONSTANTS
    Users,      \* goroutines
    Kinds,      \* stream kinds: append and scan
    Append0,    \* the kind of the handle the pool is created with
    MaxOpen,    \* bound on open handles (pool.maxOpen)
    MaxFiles    \* bound on the files ever opened

ASSUME PoolAssumption ==
    /\ IsFiniteSet(Users)
    /\ Append0 \in Kinds
    /\ MaxOpen \in Nat \ {0}
    /\ MaxFiles \in Nat \ {0}

VARIABLES
    handles,   \* kinds with an open handle (pool.handles)
    file,      \* the file of a handle, 0 when it is not open
    users,     \* leases of a handle (entry.users)
    recent,    \* kinds with a handle, most recent first (pool.recent)
    active,    \* leases in all (pool.active)
    closed,    \* "no", or "yes" once close was called (pool.closed)
    files,     \* files opened so far (pool.opens)
    pc,        \* where a goroutine is
    kind,      \* the kind it acquires or holds
    lease,     \* the file it was given, 0 when it holds none
    timer,     \* "off", "armed", "due" once its time is over, "fired"
    stray      \* goroutines whose stopped timer has yet to broadcast

pool == <<handles, file, users, recent, active, closed, files>>
vars == <<pool, pc, kind, lease, timer, stray>>

(* newWALHandlePool with the append handle the store has opened. *)
Init ==
    /\ handles = {Append0}
    /\ file = [k \in Kinds |-> IF k = Append0 THEN 1 ELSE 0]
    /\ users = [k \in Kinds |-> 0]
    /\ recent = <<Append0>>
    /\ active = 0
    /\ closed = "no"
    /\ files = 1
    /\ pc = [u \in Users |-> "idle"]
    /\ kind = [u \in Users |-> Append0]
    /\ lease = [u \in Users |-> 0]
    /\ timer = [u \in Users |-> "off"]
    /\ stray = {}

(* Everyone waiting on pool.available runs again. *)
Woken(at) ==
    [u \in Users |-> CASE at[u] = "waiting" -> "trying"
                       [] at[u] = "draining" -> "closing"
                       [] OTHER -> at[u]]

Call(u, k) ==
    /\ pc[u] = "idle"
    /\ pc' = [pc EXCEPT ![u] = "trying"]
    /\ kind' = [kind EXCEPT ![u] = k]
    /\ UNCHANGED <<pool, lease, timer, stray>>

(* acquire returns: its timer is stopped, unless the callback already      *)
(* waits for the mutex.                                                    *)
Return(u, at, f) ==
    /\ pc' = [pc EXCEPT ![u] = at]
    /\ lease' = [lease EXCEPT ![u] = f]
    /\ timer' = [timer EXCEPT ![u] = "off"]
    /\ \/ UNCHANGED stray
       \/ timer[u] = "due" /\ stray' = stray \cup {u}
    /\ UNCHANGED kind

(* MoveToFront(entry.recent): the entry knows its place in the list. *)
ToFront(k) == <<k>> \o RemoveAt(recent, CHOOSE i \in DOMAIN recent : recent[i] = k)

(* Wrong: leased handles may be evicted. *)
IdleOrNot == DOMAIN recent

(* Places in the order of use whose handle nobody has leased. *)
Idle == {i \in DOMAIN recent : users[recent[i]] = 0}

acquireClosed(u) ==
    /\ pc[u] = "trying"
    /\ closed = "yes"
    /\ Return(u, "idle", 0)
    /\ UNCHANGED pool

acquireShared(u) ==
    /\ pc[u] = "trying"
    /\ closed = "no"
    /\ kind[u] \in handles
    /\ users' = [users EXCEPT ![kind[u]] = @ + 1]
    /\ active' = active + 1
    /\ recent' = ToFront(kind[u])
    /\ Return(u, "holding", file[kind[u]])
    /\ UNCHANGED <<handles, file, closed, files>>

(* openHandle on top of the handles that stay. *)
Open(u, stay, order) ==
    /\ files < MaxFiles
    /\ files' = files + 1
    /\ handles' = stay \cup {kind[u]}
    /\ file' = [k \in Kinds |-> CASE k = kind[u] -> files + 1
                                  [] k \in stay -> file[k]
                                  [] OTHER -> 0]
    /\ users' = [users EXCEPT ![kind[u]] = 1]
    /\ recent' = <<kind[u]>> \o order
    /\ active' = active + 1
    /\ Return(u, "holding", files + 1)
    /\ UNCHANGED closed

(* openHandle fails, or closing the evicted handle does. *)
OpenFails(u, stay, order) ==
    /\ handles' = stay
    /\ file' = [k \in Kinds |-> IF k \in stay THEN file[k] ELSE 0]
    /\ recent' = order
    /\ Return(u, "idle", 0)
    /\ UNCHANGED <<users, active, closed, files>>

(* Wrong: one handle more than allowed. *)
acquireOpenedOneMore(u) ==
    /\ pc[u] = "trying"
    /\ closed = "no"
    /\ kind[u] \notin handles
    /\ Cardinality(handles) <= MaxOpen
    /\ Open(u, handles, recent) \/ OpenFails(u, handles, recent)

acquireOpened(u) ==
    /\ pc[u] = "trying"
    /\ closed = "no"
    /\ kind[u] \notin handles
    /\ Cardinality(handles) < MaxOpen
    /\ Open(u, handles, recent) \/ OpenFails(u, handles, recent)

(* evictLeastRecentIdle closes the idle handle used longest ago, and the   *)
(* loop continues under the mutex.                                         *)
acquireEvicting(u) ==
    /\ pc[u] = "trying"
    /\ closed = "no"
    /\ kind[u] \notin handles
    /\ Cardinality(handles) >= MaxOpen
    /\ \E i \in Idle :
          /\ \A j \in Idle : j <= i
          /\ LET stay == handles \ {recent[i]}
                 order == RemoveAt(recent, i)
             IN  Open(u, stay, order) \/ OpenFails(u, stay, order)

Full(u) ==
    /\ closed = "no"
    /\ kind[u] \notin handles
    /\ Cardinality(handles) >= MaxOpen
    /\ Idle = {}

acquireWaits(u) ==
    /\ pc[u] = "trying"
    /\ Full(u)
    /\ timer[u] \in {"off", "armed"}
    /\ timer' = [timer EXCEPT ![u] = "armed"]
    /\ pc' = [pc EXCEPT ![u] = "waiting"]
    /\ UNCHANGED <<pool, kind, lease, stray>>

acquireBusy(u) ==
    /\ pc[u] = "trying"
    /\ Full(u)
    /\ timer[u] \in {"due", "fired"}
    /\ Return(u, "idle", 0)
    /\ UNCHANGED pool

acquire(u) ==
    \/ acquireClosed(u)
    \/ acquireShared(u)
    \/ acquireOpened(u)
    \/ acquireEvicting(u)
    \/ acquireWaits(u)
    \/ acquireBusy(u)

(* The deadline passes; from then on the callback may run. *)
DeadlinePasses(u) ==
    /\ timer[u] = "armed"
    /\ timer' = [timer EXCEPT ![u] = "due"]
    /\ UNCHANGED <<pool, pc, kind, lease, stray>>

(* Wrong: the callback wakes nobody. *)
wakeAtDeadlineSilent(u) ==
    /\ timer[u] = "due"
    /\ timer' = [timer EXCEPT ![u] = "fired"]
    /\ UNCHANGED <<pool, pc, kind, lease, stray>>

wakeAtDeadline(u) ==
    \/ /\ timer[u] = "due"
       /\ timer' = [timer EXCEPT ![u] = "fired"]
       /\ pc' = Woken(pc)
       /\ UNCHANGED <<pool, kind, lease, stray>>
    \/ /\ u \in stray
       /\ stray' = stray \ {u}
       /\ pc' = Woken(pc)
       /\ UNCHANGED <<pool, kind, lease, timer>>

(* Wrong: no broadcast. *)
releaseSilent(u) ==
    /\ pc[u] = "holding"
    /\ users' = [users EXCEPT ![kind[u]] = @ - 1]
    /\ active' = active - 1
    /\ pc' = [pc EXCEPT ![u] = "idle"]
    /\ lease' = [lease EXCEPT ![u] = 0]
    /\ UNCHANGED <<handles, file, recent, closed, files, kind, timer, stray>>

release(u) ==
    /\ pc[u] = "holding"
    /\ users' = [users EXCEPT ![kind[u]] = @ - 1]
    /\ active' = active - 1
    /\ pc' = Woken([pc EXCEPT ![u] = "idle"])
    /\ lease' = [lease EXCEPT ![u] = 0]
    /\ UNCHANGED <<handles, file, recent, closed, files, kind, timer, stray>>

(* The loop of close, under the mutex: wait while there are leases, else   *)
(* close every handle and return.                                          *)
CloseOrWait(u, at) ==
    \/ /\ active # 0
       /\ pc' = [at EXCEPT ![u] = "draining"]
       /\ UNCHANGED <<handles, file, recent>>
    \/ /\ active = 0
       /\ handles' = {}
       /\ file' = [k \in Kinds |-> 0]
       /\ recent' = <<>>
       /\ pc' = [at EXCEPT ![u] = "idle"]

(* close refuses new leases and wakes the waiting; a second close returns  *)
(* at once.                                                                *)
close(u) ==
    /\ pc[u] = "idle"
    /\ closed = "no"
    /\ closed' = "yes"
    /\ CloseOrWait(u, Woken(pc))
    /\ UNCHANGED <<users, active, files, kind, lease, timer, stray>>

closeResumes(u) ==
    /\ pc[u] = "closing"
    /\ CloseOrWait(u, pc)
    /\ UNCHANGED <<users, active, closed, files, kind, lease, timer, stray>>

Next ==
    \E u \in Users :
       \/ \E k \in Kinds : Call(u, k)
       \/ acquire(u)
       \/ DeadlinePasses(u)
       \/ wakeAtDeadline(u)
       \/ release(u)
       \/ close(u)
       \/ closeResumes(u)

Spec == Init /\ [][Next]_vars

(* Goroutines that can run do, time passes and timers fire.  Nothing is    *)
(* said of release: a lease may be held for ever.                          *)
Scheduled ==
    \A u \in Users :
       /\ WF_vars(acquire(u))
       /\ WF_vars(DeadlinePasses(u))
       /\ WF_vars(wakeAtDeadline(u))
       /\ WF_vars(closeResumes(u))

FairSpec == Spec /\ Scheduled

(***************************************************************************)
(* Properties                                                              *)
(***************************************************************************)

(* "A checked-out handle cannot be evicted or closed" (walHandlePool): the *)
(* file a goroutine was given is the open file of its kind until it        *)
(* releases it, whoever evicts or closes meanwhile.                        *)
LeaseStaysOpen ==
    \A u \in Users : pc[u] = "holding" => kind[u] \in handles /\ lease[u] = file[kind[u]]

Holding(k) == {u \in Users : pc[u] = "holding" /\ kind[u] = k}

(* The counters of acquire and release agree with who holds a lease. *)
LeasesCounted ==
    /\ \A k \in Kinds : users[k] = Cardinality(Holding(k))
    /\ active = Cardinality({u \in Users : pc[u] = "holding"})

(* evictLeastRecentIdle and acquire keep the number of open handles within *)
(* the bound, in step with the order of use, and the leases are counted.   *)
PoolAccounted ==
    /\ Cardinality(handles) <= MaxOpen
    /\ Range(recent) = handles
    /\ Len(recent) = Cardinality(handles)
    /\ LeasesCounted

(* acquire returns, with a handle or an error, even if nobody ever         *)
(* releases: its deadline wakes it.                                        *)
AcquireReturns == \A u \in Users : pc[u] = "waiting" ~> pc[u] \in {"idle", "holding"}

(* close returns if the leases are released, as the store does on every    *)
(* path, and no wake-up is lost on the condition variable it shares with   *)
(* acquire.                                                                *)
CloseReturns ==
    (\A u \in Users : WF_vars(release(u)))
       => \A u \in Users : pc[u] = "draining" ~> (pc[u] = "idle" /\ handles = {})
================================================================================
