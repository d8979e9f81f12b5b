------------------------------ MODULE ServerPool ------------------------------
(***************************************************************************)
(* The accept loop, the workers and the shutdown of the TCP server         *)
(* (server/runtime.go, ServeWithOptions).  The accept loop takes a slot    *)
(* for a connection and queues it, or turns it away when all slots are     *)
(* taken; workers serve queued connections; cancelling the context closes  *)
(* the listener and every known connection while both go on.               *)
(*                                                                         *)
(* What is said on a connection is left out: serving ends when the peer or *)
(* the protocol ends it, and must end once the connection is closed.       *)
(***************************************************************************)
EXTENDS DescriptorBudget, Sequences, FiniteSets

CONSTANTS
    Conns,        \* connections that clients may open
    Workers,      \* worker goroutines
    AcceptQueue,  \* options.AcceptQueue
    None          \* no connection

ASSUME ServerAssumption ==
    /\ IsFiniteSet(Workers)
    /\ Workers # {}
    /\ AcceptQueue \in Nat
    /\ None \notin Conns

VARIABLES
    ctx,       \* the context: "live" or "cancelled"
    listener,  \* "open" or "closed"
    sock,      \* a connection: "new", "open" or "closed"
    known,     \* the connections in the map that shutdown ranges over
    queue,     \* the channel of accepted connections
    slots,     \* elements in the channel of slots
    main,      \* where the accept loop is
    cur,       \* the connection it handles
    at,        \* where a worker is
    conn,      \* the connection a worker handles
    shut,      \* where shutdown is
    visit      \* known connections the range of shutdown has not reached

loop == <<main, cur>>
crew == <<at, conn>>
closing == <<shut, visit>>
vars == <<ctx, listener, sock, known, queue, slots, loop, crew, closing>>

capacity == Cardinality(Workers) + AcceptQueue

Init ==
    /\ ctx = "live"
    /\ listener = "open"
    /\ sock = [c \in Conns |-> "new"]
    /\ known = {}
    /\ queue = <<>>
    /\ slots = 0
    /\ main = "accept"
    /\ cur = None
    /\ at = [w \in Workers |-> "idle"]
    /\ conn = [w \in Workers |-> None]
    /\ shut = "idle"
    /\ visit = {}

(* The owner of the context cancels it. *)
Cancel ==
    /\ ctx = "live"
    /\ ctx' = "cancelled"
    /\ UNCHANGED <<listener, sock, known, queue, slots, loop, crew, closing>>

----------------------------------------------------------------------------
(* The accept loop *)

Accept(c) ==
    /\ main = "accept"
    /\ listener = "open"
    /\ sock[c] = "new"
    /\ sock' = [sock EXCEPT ![c] = "open"]
    /\ cur' = c
    /\ main' = "accepted"
    /\ UNCHANGED <<ctx, listener, known, queue, slots, crew, closing>>

(* Accept reports an error, on its own or because the listener is closed;  *)
(* the loop cancels the context unless it is already cancelled.            *)
AcceptFails ==
    /\ main = "accept"
    /\ ctx' = "cancelled"
    /\ main' = "leaving"
    /\ UNCHANGED <<listener, sock, known, queue, slots, cur, crew, closing>>

Store ==
    /\ main = "accepted"
    /\ known' = known \cup {cur}
    /\ main' = "stored"
    /\ UNCHANGED <<ctx, listener, sock, queue, slots, cur, crew, closing>>

(* The loop closes its connection, forgets it and goes on or leaves.       *)
(* Shutdown may close it a second time, which changes nothing, so that the *)
(* two calls are one step.                                                 *)
Drop(then) ==
    /\ sock' = [sock EXCEPT ![cur] = "closed"]
    /\ known' = known \ {cur}
    /\ cur' = None
    /\ main' = then
    /\ UNCHANGED <<ctx, listener, queue, crew, closing>>

(* Wrong: the context is not looked at after the connection is stored. *)
CheckContextUnchecked ==
    /\ main = "stored"
    /\ main' = "placing"
    /\ UNCHANGED <<ctx, listener, sock, known, queue, slots, cur, crew, closing>>

CheckContext ==
    /\ main = "stored"
    /\ \/ /\ ctx = "cancelled"
          /\ Drop("leaving")
          /\ UNCHANGED slots
       \/ /\ ctx = "live"
          /\ main' = "placing"
          /\ UNCHANGED <<ctx, listener, sock, known, queue, slots, cur, crew, closing>>

(* select: a slot, the end of the context, or neither is ready. *)
TakeSlot ==
    /\ main = "placing"
    /\ slots < capacity
    /\ slots' = slots + 1
    /\ main' = "slotted"
    /\ UNCHANGED <<ctx, listener, sock, known, queue, cur, crew, closing>>

PlaceCancelled ==
    /\ main = "placing"
    /\ ctx = "cancelled"
    /\ Drop("leaving")
    /\ UNCHANGED slots

rejectOverloadedConnection ==
    /\ main = "placing"
    /\ slots = capacity
    /\ ctx = "live"
    /\ Drop("accept")
    /\ UNCHANGED slots

Enqueue ==
    /\ main = "slotted"
    /\ Len(queue) < capacity
    /\ queue' = Append(queue, cur)
    /\ cur' = None
    /\ main' = "accept"
    /\ UNCHANGED <<ctx, listener, sock, known, slots, crew, closing>>

EnqueueCancelled ==
    /\ main = "slotted"
    /\ ctx = "cancelled"
    /\ Drop("leaving")
    /\ slots' = slots - 1

(* waitForWorkers: the loop runs shutdown or waits for it, then for the    *)
(* workers.                                                                *)
waitForWorkers ==
    /\ main = "leaving"
    /\ shut = "done"
    /\ \A w \in Workers : at[w] = "gone"
    /\ main' = "returned"
    /\ UNCHANGED <<ctx, listener, sock, known, queue, slots, cur, crew, closing>>

AcceptLoop ==
    \/ Store
    \/ CheckContext
    \/ TakeSlot
    \/ PlaceCancelled
    \/ rejectOverloadedConnection
    \/ Enqueue
    \/ EnqueueCancelled
    \/ waitForWorkers

----------------------------------------------------------------------------
(* shutdown, run once: by the context's AfterFunc or by the accept loop *)

(* Wrong: cancellation does not close the listener. *)
CloseListenerByLoop ==
    /\ shut = "idle"
    /\ main = "leaving"
    /\ listener' = "closed"
    /\ shut' = "closed"
    /\ UNCHANGED <<ctx, sock, known, queue, slots, loop, crew, visit>>

CloseListener ==
    /\ shut = "idle"
    /\ ctx = "cancelled" \/ main = "leaving"
    /\ listener' = "closed"
    /\ shut' = "closed"
    /\ UNCHANGED <<ctx, sock, known, queue, slots, loop, crew, visit>>

(* Range reaches what is in the map from its start to its end, and perhaps *)
(* what is stored meanwhile.                                               *)
RangeBegins ==
    /\ shut = "closed"
    /\ visit' = known
    /\ shut' = "ranging"
    /\ UNCHANGED <<ctx, listener, sock, known, queue, slots, loop, crew>>

RangeVisits(c) ==
    /\ shut = "ranging"
    /\ c \in known
    /\ sock[c] = "open"
    /\ sock' = [sock EXCEPT ![c] = "closed"]
    /\ visit' = visit \ {c}
    /\ UNCHANGED <<ctx, listener, known, queue, slots, loop, crew, shut>>

RangeEnds ==
    /\ shut = "ranging"
    /\ \A c \in visit \cap known : sock[c] = "closed"
    /\ visit' = {}
    /\ shut' = "done"
    /\ UNCHANGED <<ctx, listener, sock, known, queue, slots, loop, crew>>

Shutdown == CloseListener \/ RangeBegins \/ (\E c \in Conns : RangeVisits(c)) \/ RangeEnds

----------------------------------------------------------------------------
(* Workers *)

Receive(w) ==
    /\ at[w] = "idle"
    /\ queue # <<>>
    /\ conn' = [conn EXCEPT ![w] = Head(queue)]
    /\ queue' = Tail(queue)
    /\ at' = [at EXCEPT ![w] = "received"]
    /\ UNCHANGED <<ctx, listener, sock, known, slots, loop, closing>>

Leave(w) ==
    /\ at[w] = "idle"
    /\ ctx = "cancelled"
    /\ at' = [at EXCEPT ![w] = "gone"]
    /\ UNCHANGED <<ctx, listener, sock, known, queue, slots, loop, conn, closing>>

(* After the receive: serve, or drop the connection and return. *)
Begin(w) ==
    /\ at[w] = "received"
    /\ \/ /\ ctx = "live"
          /\ at' = [at EXCEPT ![w] = "serving"]
          /\ UNCHANGED known
       \/ /\ ctx = "cancelled"
          /\ at' = [at EXCEPT ![w] = "leaving"]
          /\ known' = known \ {conn[w]}
    /\ UNCHANGED <<ctx, listener, sock, queue, slots, loop, conn, closing>>

(* serveConnection returns: the peer or the protocol ended it, or its      *)
(* socket is closed.                                                       *)
serveConnectionEnds(w) ==
    /\ at[w] = "serving"
    /\ at' = [at EXCEPT ![w] = "served"]
    /\ known' = known \ {conn[w]}
    /\ UNCHANGED <<ctx, listener, sock, queue, slots, loop, conn, closing>>

serveConnectionBroken(w) ==
    /\ at[w] = "serving"
    /\ sock[conn[w]] = "closed"
    /\ serveConnectionEnds(w)

(* Wrong: a served connection keeps its slot. *)
CloseKeepsSlot(w) ==
    /\ at[w] \in {"served", "leaving"}
    /\ sock' = [sock EXCEPT ![conn[w]] = "closed"]
    /\ conn' = [conn EXCEPT ![w] = None]
    /\ at' = [at EXCEPT ![w] = IF @ = "served" THEN "idle" ELSE "gone"]
    /\ UNCHANGED <<ctx, listener, known, queue, slots, loop, closing>>

Close(w) ==
    /\ at[w] \in {"served", "leaving"}
    /\ sock' = [sock EXCEPT ![conn[w]] = "closed"]
    /\ conn' = [conn EXCEPT ![w] = None]
    /\ slots' = slots - 1
    /\ at' = [at EXCEPT ![w] = IF @ = "served" THEN "idle" ELSE "gone"]
    /\ UNCHANGED <<ctx, listener, known, queue, loop, closing>>

Work(w) == Receive(w) \/ Leave(w) \/ Begin(w) \/ Close(w)

Next ==
    \/ Cancel
    \/ \E c \in Conns : Accept(c)
    \/ AcceptFails
    \/ AcceptLoop
    \/ Shutdown
    \/ \E w \in Workers : Work(w) \/ serveConnectionEnds(w)

Spec == Init /\ [][Next]_vars

(* Goroutines that can run do: the loop, once Accept has returned,         *)
(* shutdown and the workers.  Accept returns once the listener is closed,  *)
(* and serveConnection once its socket is.                                 *)
FairSpec ==
    /\ Spec
    /\ WF_vars(AcceptLoop)
    /\ WF_vars(listener = "closed" /\ AcceptFails)
    /\ WF_vars(Shutdown)
    /\ \A w \in Workers : WF_vars(Work(w)) /\ WF_vars(serveConnectionBroken(w))

(***************************************************************************)
(* Properties                                                              *)
(***************************************************************************)

Busy == {w \in Workers : conn[w] # None}

Sockets ==
    Cardinality({c \in Conns : sock[c] = "open"}) + (IF listener = "open" THEN 1 ELSE 0)

(* Every slot stands for one connection that is queued, with a worker or   *)
(* about to be queued: no more than Workers + AcceptQueue connections are  *)
(* kept, the accept loop that has a slot never waits for the queue, and    *)
(* the sockets of the server stay within serverDescriptorReserve, by which *)
(* start-up divides the descriptors.                                       *)
SlotsAccounted ==
    /\ Sockets <= serverDescriptorReserve(Cardinality(Workers), AcceptQueue)
    /\ slots = Len(queue) + Cardinality(Busy) + (IF main = "slotted" THEN 1 ELSE 0)
    /\ slots <= capacity
    /\ main = "slotted" => Len(queue) < capacity

(* The start-ups that are tried: what is asked for, and the limit of       *)
(* descriptors of the process.                                             *)
StartUps ==
    [config : [workers : {1, Cardinality(Workers)}, acceptQueue : 0..9, streams : 1..5], limit : 30..54]

EveryStartUpIsBest == \A s \in StartUps : BestFit(s.config, s.limit)

(* The WAL handles and the limit of the start-ups that settle on this      *)
(* server.                                                                 *)
SettledHere ==
    LET reserve == serverDescriptorReserve(Cardinality(Workers), AcceptQueue)
        fitted(s) == autoFitDescriptorLimits(s.config, s.limit)
        here(s) == fitted(s).workers = Cardinality(Workers) /\ fitted(s).acceptQueue = AcceptQueue
    IN {[handles |-> EffectiveWALHandleLimit(fitted(s).streams, s.limit, reserve), limit |-> s.limit] :
            s \in {x \in StartUps : here(x)}}

(* Start-up gives up as little as the limit of the process asks for, and   *)
(* what it settles on is enough for as long as the server runs: its        *)
(* sockets, the WAL handles of the store and the reserve of the process    *)
(* stay within the limit, so that Accept is never short of descriptors.    *)
FittedLimitsAreBest ==
    /\ EveryStartUpIsBest
    /\ \A s \in SettledHere : ProcessReserve + Sockets + s.handles <= s.limit

(* "Cancelling the server context closes the listener plus active and      *)
(* queued connections, then waits for all workers to return"               *)
(* (docs/CONCURRENCY.md): when ServeWithOptions returns, no connection it  *)
(* ever accepted is open.                                                  *)
NothingLeftOpen ==
    main = "returned" => listener = "closed" /\ \A c \in Conns : sock[c] # "open"

(* A cancelled server returns, whatever its clients do. *)
ServeReturns == ctx = "cancelled" ~> main = "returned"
================================================================================
