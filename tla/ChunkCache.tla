------------------------------ MODULE ChunkCache ------------------------------
(***************************************************************************)
(* The bounded cache of decoded chunks (cache.go, cache_eviction.go,       *)
(* cache_maintenance.go).  Callers share it under its mutex; an evicted    *)
(* entry goes through a bounded queue to one maintenance worker, or is     *)
(* maintained by the caller when the queue takes nothing, and its buffers  *)
(* are used again for a later admission.                                   *)
(*                                                                         *)
(* An entry is a number, counted in the order of allocation.  What happens *)
(* under the mutex is one step.  The store also guards the cache with its  *)
(* own read-write mutex; the model does without it, so callers interleave  *)
(* more freely than the store lets them.  What the buffers of an entry     *)
(* hold after it left the ring is never read and left out; the store sets  *)
(* no maintenance callback, so maintaining an entry only takes time.       *)
(***************************************************************************)
EXTENDS Lists, FiniteSets, FiniteSetsExt

CONSTANTS
    Coords,        \* chunk coordinates
    Values,        \* chunk states
    Callers,       \* goroutines that call the cache
    MaxLoaded,     \* bound on resident entries (cache.max)
    QueueSize,     \* capacity of the maintenance queue
    MaxEntries     \* bound on allocations, more than the cache can need

ASSUME CacheAssumption ==
    /\ MaxLoaded \in Nat \ {0}
    /\ QueueSize \in Nat
    /\ MaxEntries \in Nat

VARIABLES
    ring,      \* resident entries, most recent first (cache.recent)
    index,     \* resident entry of a coordinate, 0 if none (cache.entries)
    free,      \* entries whose buffers may be used again (cache.free)
    queue,     \* evicted entries waiting for the worker (cache.maintenance)
    worker,    \* entry the worker maintains, 0 when it waits
    inline,    \* entry a caller maintains itself, 0 for none
    coord,     \* the coordinate of a resident entry
    buffer,    \* the chunk state in the buffers of a resident entry
    used,      \* entries touched since they were last passed over
    allocated, \* entries allocated so far
    loaded,    \* the resident counter (cache.loaded)
    phase,     \* "fresh", "started", "closing" or "closed"
    last       \* the state last put for a resident coordinate (history)

buffers == <<coord, buffer, used>>
tasks == <<queue, worker, inline>>
cached == <<ring, index, free, tasks, buffers, allocated, loaded, phase, last>>

Entries == 1..allocated

CacheInit ==
    /\ ring = <<>>
    /\ index = [c \in Coords |-> 0]
    /\ free = <<>>
    /\ queue = <<>>
    /\ worker = 0
    /\ inline = [p \in Callers |-> 0]
    /\ coord = <<>>
    /\ buffer = <<>>
    /\ used = {}
    /\ allocated = 0
    /\ loaded = 0
    /\ phase = "fresh"
    /\ last = <<>>

(* The ring without an entry, which knows its own place (ring.remove). *)
Without(e) == RemoveAt(ring, CHOOSE i \in DOMAIN ring : ring[i] = e)

moveToFront(e) == <<e>> \o Without(e)

startMaintenance ==
    /\ phase = "fresh"
    /\ phase' = "started"
    /\ UNCHANGED <<ring, index, free, tasks, buffers, allocated, loaded, last>>

(* A hit marks the entry used and makes it the most recent; the caller     *)
(* gets a copy of the buffers.                                             *)
get(p, c) ==
    /\ inline[p] = 0
    /\ index[c] # 0
    /\ used' = used \cup {index[c]}
    /\ ring' = moveToFront(index[c])
    /\ UNCHANGED <<index, free, tasks, coord, buffer, allocated, loaded, phase, last>>

(* The loop of evictionCandidate, from the least recent end: used entries  *)
(* lose their mark and move to the front one by one, which keeps their     *)
(* order, until an unused entry is last or all have been passed over.      *)
PassedOver ==
    SubSeq(ring, Max({i \in DOMAIN ring : ring[i] \notin used} \cup {0}) + 1, Len(ring))

Rotated == PassedOver \o SubSeq(ring, 1, Len(ring) - Len(PassedOver))

evictionCandidate == Last(Rotated)

scheduleMaintenance == phase = "started" /\ Len(queue) < QueueSize

(* takeFreeEntry: the last free entry, or a new one. *)
takeFreeEntry(e) ==
    \/ /\ free # <<>>
       /\ e = Last(free)
       /\ free' = Front(free)
       /\ UNCHANGED allocated
    \/ /\ free = <<>>
       /\ e = allocated + 1
       /\ allocated' = e
       /\ UNCHANGED free

(* admit fills an entry and puts it in front of the residents that stay. *)
admit(e, c, v, stay, touched) ==
    /\ ring' = <<e>> \o stay
    /\ coord' = [i \in Range(stay) \cup {e} |-> IF i = e THEN c ELSE coord[i]]
    /\ buffer' = [i \in Range(stay) \cup {e} |-> IF i = e THEN v ELSE buffer[i]]
    /\ used' = (touched \cap Range(stay)) \ {e}
    /\ last' = [x \in {coord[i] : i \in Range(stay)} \cup {c} |-> IF x = c THEN v ELSE last[x]]

(* Wrong: the buffers of a resident chunk keep the old state. *)
UpdateDropped(p, c, v) ==
    /\ inline[p] = 0
    /\ phase \in {"fresh", "started"}
    /\ index[c] # 0
    /\ used' = used \cup {index[c]}
    /\ ring' = moveToFront(index[c])
    /\ last' = [last EXCEPT ![c] = v]
    /\ UNCHANGED <<index, free, tasks, coord, buffer, allocated, loaded, phase>>

(* putState for a resident chunk overwrites its buffers in place. *)
Update(p, c, v) ==
    /\ inline[p] = 0
    /\ phase \in {"fresh", "started"}
    /\ index[c] # 0
    /\ buffer' = [buffer EXCEPT ![index[c]] = v]
    /\ used' = used \cup {index[c]}
    /\ ring' = moveToFront(index[c])
    /\ last' = [last EXCEPT ![c] = v]
    /\ UNCHANGED <<index, free, tasks, coord, allocated, loaded, phase>>

(* putState of a chunk that is not resident while there is room. *)
Admit(p, c, v) ==
    /\ inline[p] = 0
    /\ phase \in {"fresh", "started"}
    /\ index[c] = 0
    /\ Len(ring) < MaxLoaded
    /\ \E e \in 1..MaxEntries :
          /\ takeFreeEntry(e)
          /\ admit(e, c, v, ring, used)
          /\ index' = [index EXCEPT ![c] = e]
    /\ loaded' = loaded + 1
    /\ UNCHANGED <<tasks, phase>>

(* Wrong: a queued entry is used again before it was maintained. *)
ReplacementShared(e) ==
    /\ e = evictionCandidate
    /\ queue' = IF scheduleMaintenance THEN Append(queue, e) ELSE queue
    /\ UNCHANGED <<free, allocated>>

(* The entry a full cache admits into.  The evicted entry goes to the      *)
(* worker if the queue takes it; otherwise it is used again at once, and   *)
(* the caller maintains its old coordinate without it.                     *)
Replacement(e) ==
    \/ /\ scheduleMaintenance
       /\ queue' = Append(queue, evictionCandidate)
       /\ takeFreeEntry(e)
    \/ /\ ~scheduleMaintenance
       /\ e = evictionCandidate
       /\ UNCHANGED <<queue, free, allocated>>

(* putState of a chunk that is not resident while the cache is full. *)
Evict(p, c, v) ==
    /\ inline[p] = 0
    /\ phase \in {"fresh", "started"}
    /\ index[c] = 0
    /\ Len(ring) = MaxLoaded
    /\ \E e \in 1..MaxEntries :
          /\ Replacement(e)
          /\ admit(e, c, v, Front(Rotated), used \ Range(PassedOver))
          /\ index' = [index EXCEPT ![coord[evictionCandidate]] = 0, ![c] = e]
    /\ UNCHANGED <<worker, inline, loaded, phase>>

(* remove takes a chunk out; its entry goes to the worker or the caller. *)
Unlink(p, c) ==
    /\ inline[p] = 0
    /\ index[c] # 0
    /\ index' = [index EXCEPT ![c] = 0]
    /\ ring' = Without(index[c])
    /\ coord' = Restrict(coord, Range(ring'))
    /\ buffer' = Restrict(buffer, Range(ring'))
    /\ used' = used \ {index[c]}
    /\ \/ /\ scheduleMaintenance
          /\ queue' = Append(queue, index[c])
          /\ UNCHANGED inline
       \/ /\ ~scheduleMaintenance
          /\ inline' = [inline EXCEPT ![p] = index[c]]
          /\ UNCHANGED queue
    /\ last' = Restrict(last, DOMAIN last \ {c})
    /\ UNCHANGED <<free, worker, allocated, phase>>

(* Wrong: loaded is not decremented. *)
removeUncounted(p, c) == Unlink(p, c) /\ UNCHANGED loaded

remove(p, c) == Unlink(p, c) /\ loaded' = loaded - 1

(* The caller has maintained the entry it could not hand over. *)
runInlineMaintenance(p) ==
    /\ inline[p] # 0
    /\ free' = Append(free, inline[p])
    /\ inline' = [inline EXCEPT ![p] = 0]
    /\ UNCHANGED <<ring, index, queue, worker, buffers, allocated, loaded, phase, last>>

(* Wrong: the worker leaves what is queued when the cache closes. *)
runMaintenanceStopsEarly ==
    /\ phase = "started"
    /\ worker = 0
    /\ queue # <<>>
    /\ worker' = Head(queue)
    /\ queue' = Tail(queue)
    /\ UNCHANGED <<ring, index, free, inline, buffers, allocated, loaded, phase, last>>

(* The worker ranges over the queue until it is closed and empty. *)
runMaintenance ==
    /\ phase \in {"started", "closing"}
    /\ worker = 0
    /\ queue # <<>>
    /\ worker' = Head(queue)
    /\ queue' = Tail(queue)
    /\ UNCHANGED <<ring, index, free, inline, buffers, allocated, loaded, phase, last>>

finishEviction ==
    /\ worker # 0
    /\ free' = Append(free, worker)
    /\ worker' = 0
    /\ UNCHANGED <<ring, index, queue, inline, buffers, allocated, loaded, phase, last>>

(* close closes the queue and waits for the worker, if there is one. *)
closeCache ==
    /\ phase \in {"fresh", "started"}
    /\ phase' = IF phase = "started" THEN "closing" ELSE "closed"
    /\ UNCHANGED <<ring, index, free, tasks, buffers, allocated, loaded, last>>

closeReturns ==
    /\ phase = "closing"
    /\ queue = <<>>
    /\ worker = 0
    /\ phase' = "closed"
    /\ UNCHANGED <<ring, index, free, tasks, buffers, allocated, loaded, last>>

CacheNext ==
    \/ startMaintenance
    \/ \E p \in Callers, c \in Coords : get(p, c) \/ remove(p, c)
    \/ \E p \in Callers, c \in Coords, v \in Values : Update(p, c, v) \/ Admit(p, c, v) \/ Evict(p, c, v)
    \/ \E p \in Callers : runInlineMaintenance(p)
    \/ runMaintenance
    \/ finishEviction
    \/ closeCache
    \/ closeReturns

CacheSpec == CacheInit /\ [][CacheNext]_cached

(* The worker and a caller that waits for it run whenever they can. *)
FairCacheSpec == CacheSpec /\ WF_cached(runMaintenance \/ finishEviction) /\ WF_cached(closeReturns)

(***************************************************************************)
(* Properties                                                              *)
(***************************************************************************)

(* How often an entry is held: resident, free, queued or in maintenance. *)
Holders(e) ==
    Cardinality({i \in DOMAIN ring : ring[i] = e})
    + Cardinality({i \in DOMAIN free : free[i] = e})
    + Cardinality({i \in DOMAIN queue : queue[i] = e})
    + Cardinality({p \in Callers : inline[p] = e})
    + (IF worker = e THEN 1 ELSE 0)

(* The buffers of an entry have one owner: nothing free or in maintenance  *)
(* is resident, nothing is free twice, and no entry is lost.               *)
OneOwner == \A e \in Entries : Holders(e) = 1

(* Index, ring and counter of resident entries agree, within the bound. *)
ResidentsAgree ==
    /\ \A c \in Coords : index[c] # 0 => index[c] \in Range(ring) /\ coord[index[c]] = c
    /\ \A i \in DOMAIN ring : index[coord[ring[i]]] = ring[i]
    /\ loaded = Len(ring)
    /\ Len(ring) <= MaxLoaded

(* What get copies out is what was last put for the coordinate. *)
HitIsLatest == \A c \in Coords : index[c] # 0 => c \in DOMAIN last /\ buffer[index[c]] = last[c]

(* close returns, and only when every queued entry has been maintained. *)
CloseDrains == phase = "closing" ~> (phase = "closed" /\ queue = <<>> /\ worker = 0)
================================================================================
