----------------------------- MODULE ServerProofs -----------------------------
(***************************************************************************)
(* Proofs about the TCP server, for every number of connections, workers   *)
(* and queue places, every number of sources, every limit and every size   *)
(* of the table of failures: the accept loop, the workers and the shutdown *)
(* of ServerPool, then the bans of AuthThrottle.                           *)
(***************************************************************************)
EXTENDS ServerPool, AuthThrottle, FiniteSetTheorems, TLAPS

(***************************************************************************)
(* No connection outlives the server.  The argument is about who will      *)
(* close an open connection: shutdown, if it is known and shutdown has yet *)
(* to reach it; the accept loop, if it was stored too late for shutdown; a *)
(* worker that has already taken it out of the map.                        *)
(***************************************************************************)

(* The types the argument needs. *)
Typed ==
    /\ sock \in [Conns -> {"new", "open", "closed"}]
    /\ at \in [Workers -> {"idle", "received", "serving", "served", "leaving", "gone"}]
    /\ conn \in [Workers -> Conns \cup {None}]
    /\ queue \in Seq(Conns)
    /\ cur \in Conns \cup {None}
    /\ main \in {"accepted", "stored", "placing", "slotted"} => cur \in Conns

(* Shutdown begins after the context was cancelled, and the loop leaves    *)
(* only then.                                                              *)
Cancelled ==
    /\ ctx \in {"live", "cancelled"}
    /\ shut \in {"idle", "closed", "ranging", "done"}
    /\ shut # "idle" => ctx = "cancelled" /\ listener = "closed"
    /\ main \in {"leaving", "returned"} => ctx = "cancelled"
    /\ main = "returned" => shut = "done" /\ \A w \in Workers : at[w] = "gone"

ClosedByWorker(c) == \E w \in Workers : at[w] \in {"served", "leaving"} /\ conn[w] = c

(* Somebody will close every open connection. *)
HasCloser ==
    \A c \in Conns : sock[c] = "open" =>
       \/ c \in known
       \/ main = "accepted" /\ cur = c
       \/ ClosedByWorker(c)

(* A known connection that the range of shutdown misses is in the hands of *)
(* the accept loop, which has yet to look at the context.                  *)
RangeCovers ==
    \A c \in Conns : sock[c] = "open" /\ c \in known =>
       /\ shut = "ranging" => c \in visit \/ (main = "stored" /\ cur = c)
       /\ shut = "done" => main = "stored" /\ cur = c

ServeInv == Typed /\ Cancelled /\ HasCloser /\ RangeCovers

(* Nothing has been accepted at the start. *)
LEMMA ServeInit == Init => ServeInv
  BY DEF Init, ServeInv, Typed, Cancelled, HasCloser, RangeCovers

(* Dropping its connection, the accept loop closes what it takes away. *)
LEMMA DropKeeps ==
    ASSUME ServeInv, NEW then \in {"accept", "leaving"}, Drop(then),
           main \in {"stored", "placing", "slotted"},
           then = "leaving" => ctx = "cancelled"
    PROVE  ServeInv'
  <1>1. Typed'
    BY Zenon DEF ServeInv, Typed, Drop, crew
  <1>2. Cancelled'
    BY Zenon DEF ServeInv, Cancelled, Drop, crew, closing
  <1>3. HasCloser'
    BY DEF ServeInv, Typed, HasCloser, ClosedByWorker, Drop, crew
  <1>4. RangeCovers'
    BY Zenon DEF ServeInv, Typed, RangeCovers, Drop, crew, closing
  <1> QED BY Zenon, <1>1, <1>2, <1>3, <1>4 DEF ServeInv

(* A step of the accept loop keeps the invariant. *)
LEMMA LoopStep ==
    ASSUME ServeInv, (\E c \in Conns : Accept(c)) \/ AcceptFails \/ AcceptLoop
    PROVE  ServeInv'
  <1> USE DEF crew, closing, loop
  <1>1. ASSUME NEW c \in Conns, Accept(c)
        PROVE  ServeInv'
    <2>1. Typed' /\ Cancelled'
      BY Zenon, <1>1 DEF Accept, ServeInv, Typed, Cancelled
    <2>2. HasCloser'
      BY Zenon, <1>1 DEF Accept, ServeInv, Typed, HasCloser, ClosedByWorker
    <2>3. RangeCovers'
      BY Zenon, <1>1 DEF Accept, ServeInv, Typed, Cancelled, RangeCovers
    <2> QED BY Zenon, <2>1, <2>2, <2>3 DEF ServeInv
  <1>2. CASE AcceptFails
    <2>1. Typed' /\ Cancelled'
      BY Zenon, <1>2 DEF AcceptFails, ServeInv, Typed, Cancelled
    <2>2. HasCloser' /\ RangeCovers'
      BY Zenon, <1>2 DEF AcceptFails, ServeInv, HasCloser, RangeCovers, ClosedByWorker
    <2> QED BY Zenon, <2>1, <2>2 DEF ServeInv
  <1>3. CASE Store
    <2>1. Typed' /\ Cancelled'
      BY Zenon, <1>3 DEF Store, ServeInv, Typed, Cancelled
    <2>2. HasCloser'
      BY Zenon, <1>3 DEF Store, ServeInv, HasCloser, ClosedByWorker
    <2>3. RangeCovers'
      BY Zenon, <1>3 DEF Store, ServeInv, RangeCovers
    <2> QED BY Zenon, <2>1, <2>2, <2>3 DEF ServeInv
  <1>4. CASE CheckContext
    <2>1. CASE ctx = "cancelled"
      BY Zenon, <1>4, <2>1, DropKeeps DEF CheckContext
    <2>2. CASE ctx = "live"
      <3>1. main = "stored" /\ main' = "placing" /\ shut = "idle"
            /\ UNCHANGED <<ctx, listener, sock, known, queue, slots, cur, crew, closing>>
        BY Zenon, <1>4, <2>2 DEF CheckContext, ServeInv, Cancelled
      <3>2. Typed' /\ Cancelled'
        BY Zenon, <3>1 DEF ServeInv, Typed, Cancelled
      <3>3. HasCloser' /\ RangeCovers'
        BY Zenon, <3>1 DEF ServeInv, HasCloser, RangeCovers, ClosedByWorker
      <3> QED BY Zenon, <3>2, <3>3 DEF ServeInv
    <2> QED BY Zenon, <2>1, <2>2 DEF ServeInv, Cancelled
  <1>5. CASE TakeSlot
    <2>1. Typed' /\ Cancelled'
      BY Zenon, <1>5 DEF TakeSlot, ServeInv, Typed, Cancelled
    <2>2. HasCloser' /\ RangeCovers'
      BY Zenon, <1>5 DEF TakeSlot, ServeInv, HasCloser, RangeCovers, ClosedByWorker
    <2> QED BY Zenon, <2>1, <2>2 DEF ServeInv
  <1>6. CASE PlaceCancelled \/ rejectOverloadedConnection \/ EnqueueCancelled
    BY Zenon, <1>6, DropKeeps DEF PlaceCancelled, rejectOverloadedConnection, EnqueueCancelled
  <1>7. CASE Enqueue
    <2>1. Typed' /\ Cancelled'
      BY <1>7 DEF Enqueue, ServeInv, Typed, Cancelled
    <2>2. HasCloser' /\ RangeCovers'
      BY Zenon, <1>7 DEF Enqueue, ServeInv, HasCloser, RangeCovers, ClosedByWorker
    <2> QED BY Zenon, <2>1, <2>2 DEF ServeInv
  <1>8. CASE waitForWorkers
    <2>1. Typed' /\ Cancelled'
      BY Zenon, <1>8 DEF waitForWorkers, ServeInv, Typed, Cancelled
    <2>2. HasCloser' /\ RangeCovers'
      BY Zenon, <1>8 DEF waitForWorkers, ServeInv, HasCloser, RangeCovers, ClosedByWorker
    <2> QED BY Zenon, <2>1, <2>2 DEF ServeInv
  <1> QED BY Zenon, <1>1, <1>2, <1>3, <1>4, <1>5, <1>6, <1>7, <1>8 DEF AcceptLoop

(* A step of shutdown, or cancelling, keeps the invariant. *)
LEMMA ShutdownStep ==
    ASSUME ServeInv, Shutdown \/ Cancel
    PROVE  ServeInv'
  <1> USE DEF crew, closing, loop
  <1>1. CASE Cancel
    BY Zenon, <1>1 DEF Cancel, ServeInv, Typed, Cancelled, HasCloser, RangeCovers, ClosedByWorker
  <1>2. CASE CloseListener
    BY Zenon, <1>2 DEF CloseListener, ServeInv, Typed, Cancelled, HasCloser, RangeCovers, ClosedByWorker
  <1>3. CASE RangeBegins
    BY Zenon, <1>3 DEF RangeBegins, ServeInv, Typed, Cancelled, HasCloser, RangeCovers, ClosedByWorker
  <1>4. ASSUME NEW c \in Conns, RangeVisits(c)
        PROVE  ServeInv'
    <2>1. Typed' /\ Cancelled'
      BY Zenon, <1>4 DEF RangeVisits, ServeInv, Typed, Cancelled
    <2>2. HasCloser' /\ RangeCovers'
      BY Zenon, <1>4 DEF RangeVisits, ServeInv, Typed, HasCloser, RangeCovers, ClosedByWorker
    <2> QED BY Zenon, <2>1, <2>2 DEF ServeInv
  <1>5. CASE RangeEnds
    BY <1>5 DEF RangeEnds, ServeInv, Typed, Cancelled, HasCloser, RangeCovers, ClosedByWorker
  <1> QED BY Zenon, <1>1, <1>2, <1>3, <1>4, <1>5 DEF Shutdown

(* A step of a worker keeps the invariant. *)
LEMMA WorkerStep ==
    ASSUME ServeInv, NEW w \in Workers, Work(w) \/ serveConnectionEnds(w)
    PROVE  ServeInv'
  <1> USE DEF crew, closing, loop
  <1>1. main # "returned"
    BY Zenon DEF ServeInv, Cancelled, Work, Receive, Leave, Begin, Close, serveConnectionEnds
  <1>2. CASE Receive(w)
    <2>1. Cancelled' /\ HasCloser' /\ RangeCovers'
      BY Zenon, <1>1, <1>2 DEF Receive, ServeInv, Typed, Cancelled, HasCloser, RangeCovers, ClosedByWorker
    <2> QED BY <1>2, <2>1 DEF Receive, ServeInv, Typed
  <1>3. CASE Leave(w)
    BY <1>1, <1>3 DEF Leave, ServeInv, Typed, Cancelled, HasCloser, RangeCovers, ClosedByWorker
  <1>4. CASE Begin(w) \/ serveConnectionEnds(w)
    <2>1. Typed' /\ Cancelled'
      BY Zenon, <1>1, <1>4 DEF Begin, serveConnectionEnds, ServeInv, Typed, Cancelled
    <2>2. HasCloser'
      BY <1>4 DEF Begin, serveConnectionEnds, ServeInv, Typed, HasCloser, ClosedByWorker
    <2>3. RangeCovers'
      BY Zenon, <1>4 DEF Begin, serveConnectionEnds, ServeInv, RangeCovers
    <2> QED BY Zenon, <2>1, <2>2, <2>3 DEF ServeInv
  <1>5. CASE Close(w)
    <2>1. Typed' /\ Cancelled'
      BY <1>1, <1>5, Zenon DEF Close, ServeInv, Typed, Cancelled
    <2>2. HasCloser'
      BY Zenon, <1>5 DEF Close, ServeInv, Typed, HasCloser, ClosedByWorker
    <2>3. RangeCovers'
      BY Zenon, <1>5 DEF Close, ServeInv, Typed, RangeCovers
    <2> QED BY Zenon, <2>1, <2>2, <2>3 DEF ServeInv
  <1> QED BY Zenon, <1>2, <1>3, <1>4, <1>5 DEF Work

(* Every step keeps the invariant. *)
LEMMA ServeStep == ServeInv /\ [Next]_vars => ServeInv'
  <1> SUFFICES ASSUME ServeInv, [Next]_vars PROVE ServeInv'
    OBVIOUS
  <1>1. CASE Next
    BY Zenon, <1>1, LoopStep, ShutdownStep, WorkerStep DEF Next
  <1>2. CASE UNCHANGED vars
    BY <1>2 DEF vars, loop, crew, closing, ServeInv, Typed, Cancelled, HasCloser, RangeCovers, ClosedByWorker
  <1> QED BY Zenon, <1>1, <1>2

(* When ServeWithOptions returns, the listener and every connection it     *)
(* accepted are closed, however accepting, queueing, serving and shutdown  *)
(* interleaved.                                                            *)
THEOREM NothingStaysOpen == Spec => []NothingLeftOpen
  <1>1. ServeInv => NothingLeftOpen
    BY Zenon DEF ServeInv, Cancelled, HasCloser, RangeCovers, ClosedByWorker, NothingLeftOpen
  <1> QED BY ServeInit, ServeStep, <1>1, PTL DEF Spec

----------------------------------------------------------------------------
(* Slots *)

(* A worker has a connection exactly from the receive to the close. *)
HandsFull ==
    \A w \in Workers : conn[w] # None <=> at[w] \in {"received", "serving", "served", "leaving"}

Slotted == IF main = "slotted" THEN 1 ELSE 0

SlotCount == slots = Len(queue) + Cardinality(Busy) + Slotted

SlotInv == ServeInv /\ HandsFull /\ SlotCount /\ slots \in Nat /\ slots <= capacity

(* The numbers that are added up are natural numbers. *)
LEMMA BusyFinite ==
    ASSUME Typed
    PROVE  IsFiniteSet(Busy) /\ Cardinality(Busy) \in Nat /\ Len(queue) \in Nat /\ capacity \in Nat
  <1>1. Busy \subseteq Workers
    BY Zenon DEF Busy
  <1> QED BY <1>1, FS_Subset, FS_CardinalityType, ServerAssumption DEF Typed, capacity

(* Nothing is queued and nobody has a connection at the start. *)
LEMMA SlotInit == Init => SlotInv
  <1> SUFFICES ASSUME Init PROVE SlotInv
    OBVIOUS
  <1>1. ServeInv
    BY Zenon, ServeInit
  <1>2. Busy = {} /\ HandsFull
    BY Zenon DEF Init, Busy, HandsFull
  <1>3. SlotCount
    BY <1>2, FS_EmptySet DEF Init, SlotCount, Slotted
  <1>4. slots \in Nat /\ slots <= capacity
    BY <1>1, BusyFinite DEF Init, ServeInv
  <1> QED BY Zenon, <1>1, <1>2, <1>3, <1>4 DEF SlotInv

(* Every step accounts for the slots it takes and gives back. *)
LEMMA SlotStep == SlotInv /\ [Next]_vars => SlotInv'
  <1> SUFFICES ASSUME SlotInv, [Next]_vars PROVE SlotInv'
    OBVIOUS
  <1> USE DEF crew, closing, loop
  <1>1. ServeInv' /\ Typed /\ Typed' /\ HandsFull /\ SlotCount /\ slots \in Nat /\ slots <= capacity
    BY Zenon, ServeStep DEF SlotInv, ServeInv
  <1>2. /\ IsFiniteSet(Busy) /\ Cardinality(Busy) \in Nat /\ Len(queue) \in Nat
        /\ Cardinality(Busy') \in Nat /\ Len(queue') \in Nat /\ capacity \in Nat
    <2>1. Busy' \subseteq Workers
      BY Zenon DEF Busy
    <2> QED BY <1>1, <2>1, BusyFinite, FS_Subset, FS_CardinalityType, ServerAssumption DEF Typed
  <1>3. ASSUME conn' = conn, at' = at, queue' = queue, slots' = slots, Slotted' = Slotted
        PROVE  SlotInv'
    <2>1. Busy' = Busy /\ HandsFull'
      BY Zenon, <1>1, <1>3 DEF Busy, HandsFull
    <2> QED BY Zenon, <1>1, <1>3, <2>1 DEF SlotInv, SlotCount, capacity
  <1>4. CASE UNCHANGED vars
    BY Zenon, <1>3, <1>4 DEF vars, Slotted
  <1>5. CASE Cancel \/ Shutdown
    BY Zenon, <1>3, <1>5 DEF Cancel, Shutdown, CloseListener, RangeBegins, RangeVisits, RangeEnds, Slotted
  <1>6. CASE (\E c \in Conns : Accept(c)) \/ AcceptFails \/ Store \/ CheckContext
             \/ PlaceCancelled \/ rejectOverloadedConnection \/ waitForWorkers
    BY Zenon, <1>3, <1>6 DEF Accept, AcceptFails, Store, CheckContext, PlaceCancelled, rejectOverloadedConnection,
       waitForWorkers, Drop, Slotted
  <1>7. CASE TakeSlot \/ EnqueueCancelled
    <2>1. /\ conn' = conn /\ at' = at /\ queue' = queue
          /\ \/ slots < capacity /\ slots' = slots + 1 /\ Slotted = 0 /\ Slotted' = 1
             \/ slots' = slots - 1 /\ Slotted = 1 /\ Slotted' = 0
      BY Zenon, <1>7 DEF TakeSlot, EnqueueCancelled, Drop, Slotted
    <2>2. Busy' = Busy /\ HandsFull'
      BY Zenon, <1>1, <2>1 DEF Busy, HandsFull
    <2>3. SlotCount' /\ slots' \in Nat /\ slots' <= capacity
      BY <1>1, <1>2, <2>1, <2>2 DEF SlotCount
    <2> QED BY Zenon, <1>1, <2>2, <2>3 DEF SlotInv, capacity
  <1>8. CASE Enqueue
    <2>1. /\ conn' = conn /\ at' = at /\ slots' = slots
          /\ queue' = Append(queue, cur) /\ Slotted = 1 /\ Slotted' = 0 /\ cur \in Conns
      BY Zenon, <1>1, <1>8 DEF Enqueue, Slotted, Typed
    <2>2. Busy' = Busy /\ HandsFull'
      BY Zenon, <1>1, <2>1 DEF Busy, HandsFull
    <2>3. Len(queue') = Len(queue) + 1
      BY <1>1, <2>1 DEF Typed
    <2>4. SlotCount'
      BY <1>1, <1>2, <2>1, <2>2, <2>3 DEF SlotCount
    <2> QED BY Zenon, <1>1, <2>1, <2>2, <2>4 DEF SlotInv, capacity
  <1>9. ASSUME NEW w \in Workers, Work(w) \/ serveConnectionEnds(w)
        PROVE  SlotInv'
    <2>1. Slotted' = Slotted
      BY Zenon, <1>9 DEF Work, Receive, Leave, Begin, Close, serveConnectionEnds, Slotted
    <2>2. CASE Leave(w) \/ Begin(w) \/ serveConnectionEnds(w)
      <3>1. conn' = conn /\ queue' = queue /\ slots' = slots
        BY Zenon, <2>2 DEF Leave, Begin, serveConnectionEnds
      <3>2. Busy' = Busy
        BY Zenon, <3>1 DEF Busy
      <3>3. HandsFull'
        BY <1>1, <2>2 DEF Leave, Begin, serveConnectionEnds, HandsFull, Typed
      <3> QED BY Zenon, <1>1, <2>1, <3>1, <3>2, <3>3 DEF SlotInv, SlotCount, capacity
    <2>3. CASE Receive(w)
      <3>1. /\ queue # <<>> /\ queue' = Tail(queue) /\ slots' = slots
            /\ conn' = [conn EXCEPT ![w] = Head(queue)] /\ Head(queue) \in Conns
            /\ conn[w] = None
        BY <1>1, <2>3 DEF Receive, Typed, HandsFull
      <3>2. Busy' = Busy \cup {w} /\ w \notin Busy
        BY <1>1, <3>1, ServerAssumption DEF Busy, Typed
      <3>3. HandsFull'
        BY <1>1, <2>3, <3>1, ServerAssumption DEF Receive, HandsFull, Typed
      <3>4. Cardinality(Busy') = Cardinality(Busy) + 1
        BY <1>2, <3>2, FS_AddElement, Zenon
      <3>5. Len(queue') = Len(queue) - 1
        BY <1>1, <3>1 DEF Typed
      <3>6. SlotCount'
        BY <1>1, <1>2, <2>1, <3>1, <3>4, <3>5 DEF SlotCount, Slotted
      <3> QED BY Zenon, <1>1, <3>1, <3>3, <3>6 DEF SlotInv, capacity
    <2>4. CASE Close(w)
      <3>1. /\ queue' = queue /\ slots' = slots - 1
            /\ conn' = [conn EXCEPT ![w] = None] /\ conn[w] # None
        BY Zenon, <1>1, <2>4 DEF Close, HandsFull
      <3>2. Busy' = Busy \ {w} /\ w \in Busy
        BY Zenon, <1>1, <3>1 DEF Busy, Typed
      <3>3. HandsFull'
        BY <1>1, <2>4, <3>1 DEF Close, HandsFull, Typed
      <3>4. Cardinality(Busy') = Cardinality(Busy) - 1
        BY <1>2, <3>2, FS_RemoveElement, Zenon
      <3>5. SlotCount' /\ slots' \in Nat /\ slots' <= capacity
        BY <1>1, <1>2, <2>1, <3>1, <3>4 DEF SlotCount, Slotted
      <3> QED BY Zenon, <1>1, <3>3, <3>5 DEF SlotInv, capacity
    <2> QED BY Zenon, <1>9, <2>2, <2>3, <2>4 DEF Work
  <1> QED BY Zenon, <1>4, <1>5, <1>6, <1>7, <1>8, <1>9 DEF Next, AcceptLoop

(***************************************************************************)
(* Sockets                                                                 *)
(***************************************************************************)

Queued == {queue[i] : i \in 1..Len(queue)}

InHands == {conn[w] : w \in Busy}

(* An open connection is queued, with a worker or with the accept loop. *)
Held ==
    \A c \in Conns : sock[c] = "open" =>
       \/ c \in Queued
       \/ c \in InHands
       \/ main \in {"accepted", "stored", "placing", "slotted"} /\ cur = c

SocketInv == SlotInv /\ Held

(* A connection with a worker that has the same connection after the step  *)
(* is still with it.                                                       *)
LEMMA HandsKeep ==
    ASSUME NEW c \in Conns, c \in InHands, \A w \in Workers : conn[w] = c => conn'[w] = c
    PROVE  c \in InHands'
  BY Zenon, ServerAssumption DEF InHands, Busy

(* The accept loop hands over what it has, or closes it. *)
LEMMA LoopHolds ==
    ASSUME SocketInv, (\E c \in Conns : Accept(c)) \/ AcceptFails \/ AcceptLoop
    PROVE  Held'
  <1> USE DEF crew, closing, loop
  <1>1. Typed /\ Held /\ conn' = conn
    BY Zenon DEF SocketInv, SlotInv, ServeInv, Accept, AcceptFails, AcceptLoop, Store, CheckContext, TakeSlot,
       PlaceCancelled, rejectOverloadedConnection, Enqueue, EnqueueCancelled, waitForWorkers, Drop
  <1> SUFFICES ASSUME NEW c \in Conns, sock'[c] = "open"
               PROVE  \/ c \in Queued'
                      \/ c \in InHands'
                      \/ main' \in {"accepted", "stored", "placing", "slotted"} /\ cur' = c
    BY Zenon DEF Held
  <1>2. c \in InHands => c \in InHands'
    BY Zenon, <1>1, HandsKeep
  <1>3. CASE Enqueue
    <2>1. /\ queue' = Append(queue, cur) /\ queue \in Seq(Conns) /\ cur \in Conns
          /\ sock' = sock /\ main = "slotted"
      BY Zenon, <1>1, <1>3 DEF Enqueue, Typed
    <2>2. /\ Len(queue') = Len(queue) + 1 /\ Len(queue) \in Nat
          /\ queue'[Len(queue) + 1] = cur
          /\ \A i \in 1..Len(queue) : queue'[i] = queue[i]
      BY <2>1
    <2>3. cur \in Queued' /\ (c \in Queued => c \in Queued')
      BY <2>2 DEF Queued
    <2> QED BY Zenon, <1>1, <1>2, <2>1, <2>3 DEF Held
  <1>4. CASE ~Enqueue
    <2>1. queue' = queue
      BY Zenon, <1>4 DEF Accept, AcceptFails, AcceptLoop, Store, CheckContext, TakeSlot, PlaceCancelled,
         rejectOverloadedConnection, EnqueueCancelled, waitForWorkers, Drop
    <2>2. c \in Queued => c \in Queued'
      BY Zenon, <2>1 DEF Queued
    <2>3. CASE \E d \in Conns : Accept(d)
      BY Zenon, <1>1, <1>2, <2>2, <2>3 DEF Accept, Typed, Held
    <2>4. CASE AcceptFails \/ Store \/ TakeSlot \/ waitForWorkers
      BY Zenon, <1>1, <1>2, <2>2, <2>4 DEF AcceptFails, Store, TakeSlot, waitForWorkers, Held
    <2>5. CASE \E then \in {"accept", "leaving"} : Drop(then)
      BY Zenon, <1>1, <1>2, <2>2, <2>5 DEF Drop, Typed, Held
    <2>6. CASE CheckContext /\ ctx = "live"
      BY Zenon, <1>1, <1>2, <2>2, <2>6 DEF CheckContext, Drop, Held
    <2> QED
      BY Zenon, <1>4, <2>3, <2>4, <2>5, <2>6 DEF AcceptLoop, CheckContext, PlaceCancelled,
         rejectOverloadedConnection, EnqueueCancelled
  <1> QED BY Zenon, <1>3, <1>4

(* A worker takes a connection from the queue and lets it go when it has   *)
(* closed it.                                                              *)
LEMMA WorkerHolds ==
    ASSUME SocketInv, NEW w \in Workers, Work(w) \/ serveConnectionEnds(w)
    PROVE  Held'
  <1> USE DEF crew, closing, loop
  <1>1. Typed /\ HandsFull /\ Held /\ main' = main /\ cur' = cur
    BY Zenon DEF SocketInv, SlotInv, ServeInv, Work, Receive, Leave, Begin, Close, serveConnectionEnds
  <1> SUFFICES ASSUME NEW c \in Conns, sock'[c] = "open"
               PROVE  \/ c \in Queued'
                      \/ c \in InHands'
                      \/ main' \in {"accepted", "stored", "placing", "slotted"} /\ cur' = c
    BY Zenon DEF Held
  <1>2. CASE Receive(w)
    <2>1. /\ queue # <<>> /\ queue' = Tail(queue) /\ queue \in Seq(Conns) /\ sock' = sock
          /\ conn' = [conn EXCEPT ![w] = Head(queue)] /\ conn[w] = None
      BY Zenon, <1>1, <1>2 DEF Receive, Typed, HandsFull
    <2>2. /\ Len(queue) \in Nat \ {0} /\ Len(queue') = Len(queue) - 1
          /\ queue[1] = Head(queue)
          /\ \A i \in 1..Len(queue) : i # 1 => i - 1 \in 1..Len(queue') /\ queue'[i - 1] = queue[i]
      BY <2>1
    <2>3. c \in Queued => c \in Queued' \/ c = Head(queue)
      BY <2>2 DEF Queued
    <2>4. conn' \in [Workers -> Conns \cup {None}] /\ conn'[w] = Head(queue)
      BY <1>1, <2>1, <2>2 DEF Typed
    <2>5. c = Head(queue) => c \in InHands'
      BY Zenon, <2>4, ServerAssumption DEF InHands, Busy
    <2>6. c \in InHands => c \in InHands'
      BY Zenon, <1>1, <2>1, HandsKeep, ServerAssumption DEF Typed
    <2> QED BY Zenon, <1>1, <2>1, <2>3, <2>5, <2>6 DEF Held
  <1>3. CASE Leave(w) \/ Begin(w) \/ serveConnectionEnds(w)
    <2>1. sock' = sock /\ queue' = queue /\ conn' = conn
      BY Zenon, <1>3 DEF Leave, Begin, serveConnectionEnds
    <2> QED BY Zenon, <1>1, <2>1 DEF Held, Queued, InHands, Busy
  <1>4. CASE Close(w)
    <2>1. /\ queue' = queue /\ conn' = [conn EXCEPT ![w] = None] /\ conn[w] \in Conns
          /\ sock' = [sock EXCEPT ![conn[w]] = "closed"]
      BY Zenon, <1>1, <1>4 DEF Close, Typed, HandsFull
    <2>2. c # conn[w] /\ sock[c] = "open"
      BY Zenon, <1>1, <2>1 DEF Typed
    <2>3. c \in InHands => c \in InHands'
      BY Zenon, <1>1, <2>1, <2>2, HandsKeep DEF Typed
    <2>4. c \in Queued => c \in Queued'
      BY Zenon, <2>1 DEF Queued
    <2> QED BY Zenon, <1>1, <2>2, <2>3, <2>4 DEF Held
  <1> QED BY Zenon, <1>2, <1>3, <1>4 DEF Work

(* Every step keeps track of the open connections. *)
LEMMA SocketStep == SocketInv /\ [Next]_vars => SocketInv'
  <1> SUFFICES ASSUME SocketInv, [Next]_vars PROVE SocketInv'
    OBVIOUS
  <1>1. SlotInv'
    BY Zenon, SlotStep DEF SocketInv
  <1>2. CASE UNCHANGED vars
    BY Zenon, <1>1, <1>2 DEF SocketInv, Held, Queued, InHands, Busy, vars, loop, crew
  <1>3. CASE Cancel \/ Shutdown
    <2>1. /\ queue' = queue /\ conn' = conn /\ main' = main /\ cur' = cur
          /\ \A c \in Conns : sock'[c] = "open" => sock[c] = "open"
      BY Zenon, <1>3 DEF SocketInv, SlotInv, ServeInv, Typed, Cancel, Shutdown, CloseListener, RangeBegins,
         RangeVisits, RangeEnds, loop, crew
    <2> QED BY Zenon, <1>1, <2>1 DEF SocketInv, Held, Queued, InHands, Busy
  <1>4. CASE (\E c \in Conns : Accept(c)) \/ AcceptFails \/ AcceptLoop
    BY Zenon, <1>1, <1>4, LoopHolds DEF SocketInv
  <1>5. CASE \E w \in Workers : Work(w) \/ serveConnectionEnds(w)
    BY Zenon, <1>1, <1>5, WorkerHolds DEF SocketInv
  <1> QED BY Zenon, <1>2, <1>3, <1>4, <1>5 DEF Next

(* The listener, what is queued, what the workers have and what the accept *)
(* loop has is all there is, and fits the reserve.                         *)
LEMMA SocketsFit ==
    ASSUME SocketInv
    PROVE  Sockets <= serverDescriptorReserve(Cardinality(Workers), AcceptQueue)
  <1> DEFINE Open == {c \in Conns : sock[c] = "open"}
             Loop == IF main \in {"accepted", "stored", "placing", "slotted"} THEN {cur} ELSE {}
  <1>1. /\ Typed /\ SlotCount /\ slots \in Nat /\ slots <= capacity
        /\ IsFiniteSet(Busy) /\ Cardinality(Busy) \in Nat /\ Len(queue) \in Nat /\ capacity \in Nat
    BY Zenon, BusyFinite DEF SocketInv, SlotInv, ServeInv
  <1>2. IsFiniteSet(Queued) /\ Cardinality(Queued) <= Len(queue)
    <2> DEFINE f == [i \in 1..Len(queue) |-> queue[i]]
    <2>1. f \in Surjection(1..Len(queue), Queued)
      BY Zenon DEF Surjection, Queued
    <2>2. IsFiniteSet(1..Len(queue)) /\ Cardinality(1..Len(queue)) = Len(queue)
      <3>1. Len(queue) \in Int /\ 1 \in Int
        BY <1>1
      <3>2. /\ IsFiniteSet(1..Len(queue))
            /\ Cardinality(1..Len(queue)) = IF 1 > Len(queue) THEN 0 ELSE Len(queue) - 1 + 1
        BY <3>1, FS_Interval, Zenon
      <3> QED BY <1>1, <3>2
    <2> HIDE DEF f
    <2> QED BY <2>1, <2>2, FS_Surjection
  <1>3. IsFiniteSet(InHands) /\ Cardinality(InHands) <= Cardinality(Busy)
    <2> DEFINE f == [w \in Busy |-> conn[w]]
    <2>1. f \in Surjection(Busy, InHands)
      BY Zenon DEF Surjection, InHands
    <2> HIDE DEF f
    <2> QED BY Zenon, <1>1, <2>1, FS_Surjection
  <1>4. IsFiniteSet(Loop) /\ Cardinality(Loop) \in {0, 1}
    <2>1. CASE Loop = {cur}
      <3>1. IsFiniteSet({cur}) /\ Cardinality({cur}) = 1
        BY FS_Singleton, Zenon
      <3> QED BY Zenon, <2>1, <3>1
    <2>2. CASE Loop = {}
      <3>1. IsFiniteSet({}) /\ Cardinality({}) = 0
        BY FS_EmptySet, Zenon
      <3> QED BY Zenon, <2>2, <3>1
    <2> QED BY Zenon, <2>1, <2>2
  <1>5. Open \subseteq (Queued \cup InHands) \cup Loop
    BY Zenon DEF SocketInv, Held
  <1> HIDE DEF Open, Loop
  <1>6. /\ IsFiniteSet(Queued \cup InHands)
        /\ Cardinality(Queued \cup InHands) <= Len(queue) + Cardinality(Busy)
        /\ Cardinality(Queued \cup InHands) \in Nat
    <2>1. IsFiniteSet(Queued \cap InHands)
      BY Zenon, <1>2, FS_Subset
    <2>2. /\ IsFiniteSet(Queued \cup InHands)
          /\ Cardinality(Queued \cup InHands) =
                Cardinality(Queued) + Cardinality(InHands) - Cardinality(Queued \cap InHands)
      BY <1>2, <1>3, FS_Union, Zenon
    <2>3. /\ Cardinality(Queued) \in Nat /\ Cardinality(InHands) \in Nat
          /\ Cardinality(Queued \cap InHands) \in Nat /\ Cardinality(Queued \cup InHands) \in Nat
      BY <1>2, <1>3, <2>1, <2>2, FS_CardinalityType, Zenon
    <2> QED BY <1>1, <1>2, <1>3, <2>2, <2>3
  <1>7. /\ IsFiniteSet((Queued \cup InHands) \cup Loop)
        /\ Cardinality((Queued \cup InHands) \cup Loop) <= Len(queue) + Cardinality(Busy) + 1
        /\ Cardinality((Queued \cup InHands) \cup Loop) \in Nat
    <2>1. IsFiniteSet((Queued \cup InHands) \cap Loop)
      BY Zenon, <1>4, FS_Subset
    <2>2. /\ IsFiniteSet((Queued \cup InHands) \cup Loop)
          /\ Cardinality((Queued \cup InHands) \cup Loop) =
                Cardinality(Queued \cup InHands) + Cardinality(Loop)
                   - Cardinality((Queued \cup InHands) \cap Loop)
      BY <1>4, <1>6, FS_Union, Zenon
    <2>3. /\ Cardinality((Queued \cup InHands) \cap Loop) \in Nat
          /\ Cardinality((Queued \cup InHands) \cup Loop) \in Nat
      BY <2>1, <2>2, FS_CardinalityType, Zenon
    <2> QED BY <1>1, <1>4, <1>6, <2>2, <2>3
  <1>8. Cardinality(Open) \in Nat /\ Cardinality(Open) <= Len(queue) + Cardinality(Busy) + 1
    BY <1>1, <1>5, <1>7, FS_Subset, FS_CardinalityType
  <1>9. Cardinality(Open) <= capacity + 1
    BY <1>1, <1>8 DEF SlotCount, Slotted
  <1>10. Cardinality(Workers) \in Nat /\ AcceptQueue \in Nat
    BY Zenon, ServerAssumption, FS_CardinalityType
  <1> QED BY <1>8, <1>9, <1>10 DEF Sockets, Open, capacity, serverDescriptorReserve

(* The slots taken are the connections kept, at most Workers + AcceptQueue *)
(* of them, whoever has a slot finds room in the queue, and the sockets    *)
(* never exceed the descriptors that start-up reserved for them.           *)
THEOREM SlotsStayAccounted == Spec => []SlotsAccounted
  <1>1. Init => SocketInv
    BY Zenon, SlotInit DEF Init, SocketInv, Held
  <1>2. SocketInv => SlotsAccounted
    <2> SUFFICES ASSUME SocketInv PROVE SlotsAccounted
      OBVIOUS
    <2>1. Cardinality(Busy) \in Nat /\ Len(queue) \in Nat /\ capacity \in Nat
      BY Zenon, BusyFinite DEF SocketInv, SlotInv, ServeInv
    <2> QED BY <2>1, SocketsFit DEF SocketInv, SlotInv, SlotCount, Slotted, SlotsAccounted
  <1> QED BY SocketStep, <1>1, <1>2, PTL DEF Spec

(***************************************************************************)
(* An active ban survives.  Connections decide with the time they read     *)
(* before they took the mutex; the argument needs that this time is never  *)
(* ahead of the clock.  Failures during a ban are bounded by the           *)
(* connections of the source that need not pass the check of the ban       *)
(* before their next answer.                                               *)
(***************************************************************************)

(* The types the argument needs, and times that are not from the future. *)
ClockInv ==
    /\ now \in Nat
    /\ until \in [Sources -> Nat]
    /\ pc \in [Connections -> {"closed", "top", "checking", "reading", "failed", "passed"}]
    /\ stamp \in [Connections -> Nat]
    /\ \A c \in Connections : stamp[c] <= now

(* An active ban that a step removes was removed by authenticated. *)
KeepsBans ==
    \A s \in Sources :
       now < until[s] /\ until'[s] # until[s]
          => \E c \in Connections : Source[c] = s /\ pc[c] = "passed" /\ pc'[c] = "top"

(* Steps that only move a connection keep bans and bring no future time. *)
LEMMA PlainSteps ==
    ASSUME ClockInv, NEW c \in Connections,
           BeginServing(c) \/ End(c) \/ Top(c) \/ AuthFails(c) \/ AuthSucceeds(c) \/ OtherCommand(c)
    PROVE  ClockInv' /\ until' = until
  <1> USE DEF ClockInv, table
  <1>1. CASE BeginServing(c)
    BY Zenon, <1>1 DEF BeginServing
  <1>2. CASE End(c)
    BY Zenon, <1>2 DEF End
  <1>3. CASE Top(c)
    BY <1>3 DEF Top
  <1>4. CASE AuthFails(c)
    BY <1>4 DEF AuthFails
  <1>5. CASE AuthSucceeds(c)
    BY Zenon, <1>5 DEF AuthSucceeds
  <1>6. CASE OtherCommand(c)
    BY Zenon, <1>6 DEF OtherCommand
  <1> QED BY Zenon, <1>1, <1>2, <1>3, <1>4, <1>5, <1>6

(* Counting a failure changes the end of the ban of its own source and of  *)
(* the sources that left the table, and of no other.                       *)
LEMMA CountFailureBans ==
    ASSUME ClockInv, NEW s \in Sources, NEW t \in Nat, NEW gone, CountFailure(s, t, gone)
    PROVE  /\ until' \in [Sources -> Nat]
           /\ \A x \in Sources : until'[x] # until[x] => x = s \/ x \in gone
  BY ThrottleAssumption DEF ClockInv, CountFailure

(* registerFailure changes no ban that is active at the time it was given, *)
(* hence none that is active now.                                          *)
LEMMA RegisterFailureStep ==
    ASSUME ClockInv, NEW c \in Connections, registerFailure(c)
    PROVE  ClockInv' /\ KeepsBans
  <1> DEFINE s == Source[c]
             t == stamp[c]
  <1>1. s \in Sources /\ t \in Nat /\ t <= now
    BY Zenon, ThrottleAssumption DEF ClockInv
  <1>2. now' = now /\ stamp' = stamp /\ pc' = [pc EXCEPT ![c] = "top"]
    BY Zenon DEF registerFailure
  <1>3. \/ until' = until
        \/ t >= until[s] /\ \E gone : CountFailure(s, t, gone) /\ (gone = {} \/ makeRoom(t, gone))
    BY Zenon DEF registerFailure, table
  <1> HIDE DEF s, t
  <1>4. ASSUME t >= until[s], NEW gone, CountFailure(s, t, gone), gone = {} \/ makeRoom(t, gone)
        PROVE  until' \in [Sources -> Nat] /\ KeepsBans
    <2>1. until' \in [Sources -> Nat]
          /\ \A x \in Sources : until'[x] # until[x] => x = s \/ x \in gone
      BY Zenon, <1>1, <1>4, CountFailureBans
    <2>2. \A x \in gone : t >= until[x]
      BY Zenon, <1>4 DEF makeRoom, Inactive
    <2>3. \A x \in Sources : until'[x] # until[x] => ~(now < until[x])
      BY <1>1, <1>4, <2>1, <2>2 DEF ClockInv
    <2> QED BY Zenon, <2>1, <2>3 DEF KeepsBans
  <1>5. until' \in [Sources -> Nat] /\ KeepsBans
    BY Zenon, <1>3, <1>4 DEF ClockInv, KeepsBans
  <1> QED BY Zenon, <1>2, <1>5 DEF ClockInv

(* banned clears only a ban whose end has come. *)
LEMMA BannedStep ==
    ASSUME ClockInv, NEW c \in Connections, banned(c)
    PROVE  ClockInv' /\ KeepsBans
  <1>1. Source[c] \in Sources /\ stamp[c] \in Nat /\ stamp[c] <= now
    BY Zenon, ThrottleAssumption DEF ClockInv
  <1>2. ClockInv'
    BY <1>1 DEF banned, ClockInv
  <1>3. \A s \in Sources : until'[s] # until[s] => s = Source[c] /\ stamp[c] >= until[s]
    BY Zenon, <1>1 DEF banned, ClockInv
  <1>4. \A s \in Sources : until'[s] # until[s] => ~(now < until[s])
    BY <1>1, <1>3 DEF ClockInv
  <1> QED BY Zenon, <1>2, <1>4 DEF KeepsBans

(* authenticated clears the state of its own source. *)
LEMMA AuthenticatedStep ==
    ASSUME ClockInv, NEW c \in Connections, authenticated(c)
    PROVE  ClockInv' /\ KeepsBans
  <1>1. Source[c] \in Sources
    BY Zenon, ThrottleAssumption
  <1>2. ClockInv'
    BY Zenon, <1>1 DEF authenticated, ClockInv
  <1>3. \A s \in Sources : until'[s] # until[s] => s = Source[c]
    BY Zenon, <1>1 DEF authenticated, ClockInv
  <1>4. pc[c] = "passed" /\ pc'[c] = "top"
    BY Zenon DEF authenticated, ClockInv
  <1> QED BY Zenon, <1>2, <1>3, <1>4 DEF KeepsBans

(* Every step keeps the invariant and the active bans. *)
LEMMA ThrottleStep == ClockInv /\ [ThrottleNext]_throttleVars => ClockInv' /\ (KeepsBans \/ UNCHANGED throttleVars)
  <1> SUFFICES ASSUME ClockInv, [ThrottleNext]_throttleVars
               PROVE  ClockInv' /\ (KeepsBans \/ UNCHANGED throttleVars)
    OBVIOUS
  <1>1. CASE Tick
    BY <1>1 DEF Tick, ClockInv, KeepsBans, table
  <1>2. ASSUME NEW c \in Connections, Serve(c)
        PROVE  ClockInv' /\ KeepsBans
    <2>1. CASE BeginServing(c) \/ End(c) \/ Top(c) \/ AuthFails(c) \/ AuthSucceeds(c) \/ OtherCommand(c)
      BY Zenon, <2>1, PlainSteps DEF KeepsBans
    <2> QED BY Zenon, <1>2, <2>1, BannedStep, RegisterFailureStep, AuthenticatedStep DEF Serve
  <1>3. CASE UNCHANGED throttleVars
    BY Zenon, <1>3 DEF throttleVars, table, ClockInv
  <1> QED BY Zenon, <1>1, <1>2, <1>3 DEF ThrottleNext

(* "An active ban is not evicted": only authentication of its own source   *)
(* ends a ban before its time, although every call of the tracker decides  *)
(* by a clock it read earlier.                                             *)
THEOREM BansHold == ThrottleSpec => BanHolds
  <1>1. ThrottleInit => ClockInv
    BY DEF ThrottleInit, ClockInv
  <1>2. ClockInv /\ [ThrottleNext]_throttleVars => ClockInv'
    BY Zenon, ThrottleStep
  <1>3. ClockInv /\ [ThrottleNext]_throttleVars => [KeepsBans]_throttleVars
    BY Zenon, ThrottleStep
  <1>4. ThrottleSpec => [][KeepsBans]_throttleVars
    BY <1>1, <1>2, <1>3, PTL DEF ThrottleSpec
  <1> QED BY Zenon, <1>4 DEF BanHolds, KeepsBans

----------------------------------------------------------------------------
(* Failures during a ban *)

Of(s) == {c \in Connections : Source[c] = s}

(* A connection that reaches a failure without passing banned. *)
Unchecked(c) == pc[c] \in {"reading", "failed", "passed"} \/ (pc[c] = "top" /\ authed[c] = "yes")

Ahead(s) == {c \in Of(s) : Unchecked(c)}

(* During a ban, late failures and the connections that may still bring    *)
(* one are together fewer than the connections of the source: the one that *)
(* brought the ban has to pass the check.                                  *)
SourceBounded(s) ==
    IF until[s] = 0 THEN late[s] # 0 => late[s] < Cardinality(Of(s))
    ELSE late[s] + Cardinality(Ahead(s)) < Cardinality(Of(s))

LateInv ==
    /\ late \in [Sources -> Nat]
    /\ authed \in [Connections -> {"yes", "no"}]
    /\ \A c \in Connections : pc[c] = "failed" => authed[c] = "no"
    /\ \A s \in Sources : SourceBounded(s)

(* The sets that are counted are finite. *)
LEMMA Counted ==
    ASSUME NEW s
    PROVE  /\ IsFiniteSet(Of(s)) /\ Cardinality(Of(s)) \in Nat
           /\ IsFiniteSet(Ahead(s)) /\ Cardinality(Ahead(s)) \in Nat
           /\ IsFiniteSet(Ahead(s)') /\ Cardinality(Ahead(s)') \in Nat
           /\ Cardinality(Ahead(s)) <= Cardinality(Of(s))
  <1>1. IsFiniteSet(Of(s))
    <2>1. Of(s) \subseteq Connections
      BY Zenon DEF Of
    <2> QED BY Zenon, <2>1, FS_Subset, ThrottleAssumption
  <1>2. Ahead(s) \subseteq Of(s) /\ Ahead(s)' \subseteq Of(s)
    BY Zenon DEF Ahead, Of
  <1> QED BY Zenon, <1>1, <1>2, FS_Subset, FS_CardinalityType

(* Connections that may bring a late failure become no more, *)
LEMMA AheadShrinks ==
    ASSUME NEW s, Ahead(s)' \subseteq Ahead(s)
    PROVE  Cardinality(Ahead(s)') <= Cardinality(Ahead(s))
  BY Zenon, Counted, FS_Subset

(* and one fewer when one of them has brought it. *)
LEMMA AheadLoses ==
    ASSUME NEW s, NEW c \in Ahead(s), Ahead(s)' \subseteq Ahead(s) \ {c}
    PROVE  Cardinality(Ahead(s)') + 1 <= Cardinality(Ahead(s))
  <1>1. IsFiniteSet(Ahead(s) \ {c}) /\ Cardinality(Ahead(s) \ {c}) = Cardinality(Ahead(s)) - 1
    BY Zenon, Counted, FS_RemoveElement
  <1>2. Cardinality(Ahead(s)') <= Cardinality(Ahead(s) \ {c})
    BY Zenon, <1>1, FS_Subset
  <1> QED BY <1>1, <1>2, Counted

(* A step that keeps counters and bans, or clears the ban, and lets nobody *)
(* get ahead of the check keeps the bound.                                 *)
LEMMA BoundKept ==
    ASSUME ClockInv, LateInv, NEW s \in Sources, late'[s] = late[s],
           \/ until'[s] = until[s] /\ (until[s] # 0 => Ahead(s)' \subseteq Ahead(s))
           \/ until'[s] = 0
    PROVE  SourceBounded(s)'
  <1>1. Of(s)' = Of(s)
    BY Zenon DEF Of
  <1>2. SourceBounded(s) /\ late[s] \in Nat
    BY Zenon DEF LateInv
  <1>3. CASE until[s] = 0 /\ until'[s] = 0
    BY Zenon, <1>1, <1>2, <1>3 DEF SourceBounded
  <1>4. CASE until[s] # 0 /\ until'[s] = 0
    <2>1. late[s] < Cardinality(Of(s))
      BY <1>2, <1>4, Counted DEF SourceBounded
    <2> QED BY Zenon, <1>1, <1>4, <2>1 DEF SourceBounded
  <1>5. CASE until[s] # 0 /\ until'[s] = until[s]
    <2>1. Cardinality(Ahead(s)') <= Cardinality(Ahead(s))
      BY Zenon, <1>5, AheadShrinks
    <2>2. late[s] + Cardinality(Ahead(s)) < Cardinality(Of(s))
      BY Zenon, <1>2, <1>5 DEF SourceBounded
    <2>3. late'[s] + Cardinality(Ahead(s)') < Cardinality(Of(s))
      BY <1>2, <2>1, <2>2, Counted
    <2> QED BY Zenon, <1>1, <1>5, <2>3 DEF SourceBounded
  <1> QED BY Zenon, <1>3, <1>4, <1>5

(* A ban that is new finds every connection ahead of the check but the one *)
(* that brought it; so does a source whose counters are cleared.           *)
LEMMA BoundReset ==
    ASSUME NEW s \in Sources, late'[s] = 0,
           until'[s] = 0 \/ \E c \in Of(s) : c \notin Ahead(s)'
    PROVE  SourceBounded(s)'
  <1>1. Of(s)' = Of(s) /\ Ahead(s)' \subseteq Of(s)
    BY Zenon DEF Of, Ahead
  <1>2. CASE until'[s] = 0
    BY Zenon, <1>2 DEF SourceBounded
  <1>3. ASSUME NEW c \in Of(s), c \notin Ahead(s)' PROVE SourceBounded(s)'
    <2>1. IsFiniteSet(Of(s) \ {c}) /\ Cardinality(Of(s) \ {c}) = Cardinality(Of(s)) - 1
      BY Zenon, Counted, FS_RemoveElement
    <2>2. Ahead(s)' \subseteq Of(s) \ {c}
      BY Zenon, <1>1, <1>3
    <2>3. Cardinality(Ahead(s)') <= Cardinality(Of(s)) - 1
      BY <2>1, <2>2, FS_Subset
    <2>4. 0 + Cardinality(Ahead(s)') < Cardinality(Of(s))
      BY <2>3, Counted
    <2> QED BY Zenon, <1>1, <2>4 DEF SourceBounded
  <1> QED BY Zenon, <1>2, <1>3

(* A connection gets ahead of the check only by passing it, which clears   *)
(* the ban, or by authenticating, which it does from ahead of the check.   *)
LEMMA LatePlainSteps ==
    ASSUME ClockInv, LateInv, NEW c \in Connections,
           BeginServing(c) \/ End(c) \/ Top(c) \/ AuthFails(c) \/ AuthSucceeds(c) \/ OtherCommand(c)
    PROVE  LateInv'
  <1> USE DEF ClockInv, LateInv, table
  <1>1. /\ late' = late /\ until' = until
        /\ authed' \in [Connections -> {"yes", "no"}]
        /\ \A d \in Connections : pc'[d] = "failed" => authed'[d] = "no"
        /\ \A d \in Connections : Unchecked(d)' => Unchecked(d)
    <2> USE DEF Unchecked
    <2>1. CASE BeginServing(c)
      BY Zenon, <2>1 DEF BeginServing
    <2>2. CASE End(c)
      BY Zenon, <2>2 DEF End
    <2>3. CASE Top(c)
      BY Zenon, <2>3 DEF Top
    <2>4. CASE AuthFails(c)
      BY Zenon, <2>4 DEF AuthFails
    <2>5. CASE AuthSucceeds(c)
      BY Zenon, <2>5 DEF AuthSucceeds
    <2>6. CASE OtherCommand(c)
      BY Zenon, <2>6 DEF OtherCommand
    <2> QED BY Zenon, <2>1, <2>2, <2>3, <2>4, <2>5, <2>6
  <1>2. \A s \in Sources : Ahead(s)' \subseteq Ahead(s)
    BY Zenon, <1>1 DEF Ahead, Of
  <1>3. \A s \in Sources : SourceBounded(s)'
    BY Zenon, <1>1, <1>2, BoundKept
  <1> QED BY Zenon, <1>1, <1>3

(* The check itself lets a connection pass only when it clears the ban. *)
LEMMA LateBannedStep ==
    ASSUME ClockInv, LateInv, NEW c \in Connections, banned(c)
    PROVE  LateInv'
  <1>1. Source[c] \in Sources /\ late' = late /\ authed' = authed /\ pc[c] = "checking"
    BY Zenon, ThrottleAssumption DEF banned
  <1>2. \A d \in Connections : pc'[d] = "failed" => authed'[d] = "no"
    BY Zenon, <1>1 DEF banned, ClockInv, LateInv
  <1>3. ASSUME NEW s \in Sources PROVE SourceBounded(s)'
    <2>1. CASE until'[s] = 0
      BY Zenon, <1>1, <2>1, BoundKept
    <2>2. CASE until'[s] # 0
      <3>1. until'[s] = until[s] /\ (s = Source[c] => pc' = [pc EXCEPT ![c] = "closed"])
        BY Zenon, <1>1, <2>2 DEF banned, ClockInv
      <3>2. \A d \in Of(s) : Unchecked(d)' => Unchecked(d)
        BY Zenon, <1>1, <3>1 DEF banned, ClockInv, Unchecked, Of
      <3>3. Ahead(s)' \subseteq Ahead(s)
        BY Zenon, <3>2 DEF Ahead, Of
      <3> QED BY Zenon, <1>1, <3>1, <3>3, BoundKept
    <2> QED BY Zenon, <2>1, <2>2
  <1> QED BY Zenon, <1>1, <1>2, <1>3 DEF LateInv

(* Authentication clears the source; nobody gets ahead at another one. *)
LEMMA LateAuthenticatedStep ==
    ASSUME ClockInv, LateInv, NEW c \in Connections, authenticated(c)
    PROVE  LateInv'
  <1>1. Source[c] \in Sources /\ authed' = authed /\ pc' = [pc EXCEPT ![c] = "top"]
    BY Zenon, ThrottleAssumption DEF authenticated
  <1>2. /\ late' \in [Sources -> Nat]
        /\ \A d \in Connections : pc'[d] = "failed" => authed'[d] = "no"
    BY Zenon, <1>1 DEF authenticated, ClockInv, LateInv
  <1>3. ASSUME NEW s \in Sources PROVE SourceBounded(s)'
    <2>1. CASE s = Source[c]
      <3>1. late'[s] = 0 /\ until'[s] = 0
        BY Zenon, <1>1, <2>1 DEF authenticated, ClockInv, LateInv
      <3> QED BY Zenon, <3>1, BoundReset
    <2>2. CASE s # Source[c]
      <3>1. late'[s] = late[s] /\ until'[s] = until[s]
        BY Zenon, <1>1, <2>2 DEF authenticated, ClockInv, LateInv
      <3>2. Ahead(s)' \subseteq Ahead(s)
        BY Zenon, <1>1, <2>2 DEF Ahead, Of, Unchecked, ClockInv
      <3> QED BY Zenon, <3>1, <3>2, BoundKept
    <2> QED BY Zenon, <2>1, <2>2
  <1> QED BY Zenon, <1>1, <1>2, <1>3 DEF LateInv

(* A failure during the ban uses up one connection that was ahead of the   *)
(* check; one that brings a ban starts the count anew.                     *)
LEMMA LateRegisterStep ==
    ASSUME ClockInv, LateInv, NEW c \in Connections, registerFailure(c)
    PROVE  LateInv'
  <1> DEFINE s == Source[c]
             t == stamp[c]
  <1>1. s \in Sources /\ t \in Nat /\ c \in Of(s) /\ c \in Ahead(s) /\ authed[c] = "no"
    BY ThrottleAssumption, Zenon DEF registerFailure, ClockInv, LateInv, Of, Ahead, Unchecked
  <1>2. authed' = authed /\ pc' = [pc EXCEPT ![c] = "top"]
    BY Zenon DEF registerFailure
  <1>3. \A d \in Connections : pc'[d] = "failed" => authed'[d] = "no"
    BY Zenon, <1>2 DEF ClockInv, LateInv
  <1>4. \A x \in Sources : Ahead(x)' \subseteq Ahead(x) \ {c}
    BY Zenon, <1>1, <1>2 DEF ClockInv, Ahead, Unchecked, Of
  <1>5. \/ t < until[s] /\ late' = [late EXCEPT ![s] = @ + 1] /\ until' = until
        \/ late' = late /\ until' = until
        \/ \E gone : CountFailure(s, t, gone)
    BY Zenon DEF registerFailure, table
  <1> HIDE DEF s, t
  <1>6. CASE t < until[s] /\ late' = [late EXCEPT ![s] = @ + 1] /\ until' = until
    <2>1. late' \in [Sources -> Nat]
      BY <1>1, <1>6 DEF LateInv
    <2>2. SourceBounded(s)'
      <3>1. until[s] # 0 /\ late[s] \in Nat /\ late'[s] = late[s] + 1
        BY <1>1, <1>6 DEF ClockInv, LateInv
      <3>2. late[s] + Cardinality(Ahead(s)) < Cardinality(Of(s))
        BY Zenon, <1>1, <3>1 DEF LateInv, SourceBounded
      <3>3. Cardinality(Ahead(s)') + 1 <= Cardinality(Ahead(s))
        BY Zenon, <1>1, <1>4, AheadLoses
      <3>4. late'[s] + Cardinality(Ahead(s)') < Cardinality(Of(s))
        BY <3>1, <3>2, <3>3, Counted
      <3>5. until'[s] # 0 /\ Of(s)' = Of(s)
        BY Zenon, <1>6, <3>1 DEF Of
      <3> QED BY Zenon, <3>4, <3>5 DEF SourceBounded
    <2>3. ASSUME NEW x \in Sources, x # s PROVE SourceBounded(x)'
      <3>1. late'[x] = late[x] /\ until'[x] = until[x] /\ Ahead(x)' \subseteq Ahead(x)
        BY Zenon, <1>4, <1>6, <2>3 DEF LateInv
      <3> QED BY Zenon, <3>1, BoundKept
    <2> QED BY Zenon, <1>1, <1>2, <1>3, <2>1, <2>2, <2>3 DEF LateInv
  <1>7. CASE late' = late /\ until' = until
    <2>1. ASSUME NEW x \in Sources PROVE SourceBounded(x)'
      BY Zenon, <1>4, <1>7, BoundKept
    <2> QED BY Zenon, <1>2, <1>3, <1>7, <2>1 DEF LateInv
  <1>8. ASSUME NEW gone, CountFailure(s, t, gone) PROVE LateInv'
    <2>1. late' \in [Sources -> Nat]
      BY Zenon, <1>8 DEF CountFailure, LateInv
    <2>2. ASSUME NEW x \in Sources PROVE SourceBounded(x)'
      <3>1. \/ late'[x] = late[x] /\ until'[x] = until[x]
            \/ late'[x] = 0 /\ until'[x] = 0
            \/ late'[x] = 0 /\ x = s
        BY Zenon, <1>8 DEF CountFailure
      <3>2. Ahead(x)' \subseteq Ahead(x) /\ c \notin Ahead(x)'
        BY Zenon, <1>4
      <3>3. CASE late'[x] = late[x] /\ until'[x] = until[x]
        BY Zenon, <3>2, <3>3, BoundKept
      <3>4. CASE late'[x] = 0 /\ until'[x] = 0
        BY Zenon, <3>4, BoundReset
      <3>5. CASE late'[x] = 0 /\ x = s
        BY Zenon, <1>1, <3>2, <3>5, BoundReset
      <3> QED BY Zenon, <3>1, <3>3, <3>4, <3>5
    <2> QED BY Zenon, <1>2, <1>3, <2>1, <2>2 DEF LateInv
  <1> QED BY Zenon, <1>5, <1>6, <1>7, <1>8

LEMMA LateNext == ClockInv /\ LateInv /\ [ThrottleNext]_throttleVars => LateInv'
  <1> SUFFICES ASSUME ClockInv, LateInv, [ThrottleNext]_throttleVars
               PROVE  LateInv'
    OBVIOUS
  <1>1. CASE Tick \/ UNCHANGED throttleVars
    <2>1. UNCHANGED <<late, until, authed, pc>>
      BY Zenon, <1>1 DEF Tick, throttleVars, table
    <2>2. \A s \in Sources : SourceBounded(s)'
      BY Zenon, <2>1 DEF LateInv, SourceBounded, Ahead, Of, Unchecked
    <2> QED BY Zenon, <2>1, <2>2 DEF LateInv
  <1>2. ASSUME NEW c \in Connections, Serve(c) PROVE LateInv'
    <2>1. CASE BeginServing(c) \/ End(c) \/ Top(c) \/ AuthFails(c) \/ AuthSucceeds(c) \/ OtherCommand(c)
      BY Zenon, <2>1, LatePlainSteps
    <2> QED BY Zenon, <1>2, <2>1, LateBannedStep, LateRegisterStep, LateAuthenticatedStep DEF Serve
  <1> QED BY Zenon, <1>1, <1>2 DEF ThrottleNext

(* After the failure that brings a ban a source gets at most one more      *)
(* answer for each of its other connections: registerFailure leaves the    *)
(* connection that failed in front of the check, and banned lets nobody    *)
(* pass it before the ban has ended.                                       *)
THEOREM LateFailuresStayBounded == ThrottleSpec => []LateFailuresBounded
  <1>1. ThrottleInit => ClockInv /\ LateInv
    BY DEF ThrottleInit, ClockInv, LateInv, SourceBounded
  <1>2. ClockInv /\ [ThrottleNext]_throttleVars => ClockInv'
    BY Zenon, ThrottleStep
  <1>3. ClockInv /\ LateInv => LateFailuresBounded
    <2> SUFFICES ASSUME LateInv, NEW s \in Sources, late[s] # 0
                 PROVE  late[s] < Cardinality(Of(s))
      BY Zenon DEF LateFailuresBounded, Of
    <2>1. SourceBounded(s) /\ late[s] \in Nat
      BY Zenon DEF LateInv
    <2> QED BY <2>1, Counted DEF SourceBounded
  <1> QED BY <1>1, <1>2, <1>3, LateNext, PTL DEF ThrottleSpec
================================================================================
