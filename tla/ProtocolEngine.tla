---------------------------- MODULE ProtocolEngine ----------------------------
(***************************************************************************)
(* Sessions of the protocol engine (protocol/engine.go, world_read.go)     *)
(* over one chunk store.  A command takes the engine's read-write mutex    *)
(* for its work on the store: single-block commands and each item of MGET  *)
(* and MSET for themselves, world reads and batches once.                  *)
(*                                                                         *)
(* A call of the store is one step, as AtomicChunks has it; it may fail    *)
(* without effect.  Parsing and encoding are left out: Commands are those  *)
(* that passed it, and a command that did not changes nothing.  Forms of a *)
(* command that differ only in encoding are one command, GET is an MGET    *)
(* and SET an MSET of one item, and UNSET sets Absent.                     *)
(***************************************************************************)
EXTENDS Lists, FiniteSets, FiniteSetsExt

CONSTANTS
    Sessions,       \* clients, with one session at a time
    MaxChunk,       \* chunk coordinates are 1..MaxChunk, in their order
    Offsets,        \* blocks of a chunk
    Values,         \* values of a block
    Absent,         \* a block that does not exist
    None,           \* no session
    Commands,       \* commands that each session sends
    ScanLimit,      \* the limit of CHUNKSCAN
    MaxWorldItems,  \* chunks that fit the largest response of a world read
    MaxVersion      \* bound on the version clock of the store

Chunks == 1..MaxChunk

States == [Offsets -> Values \cup {Absent}]

(* What a command is about, as it passed parsing. *)
ItemsOf(name) ==
    CASE name = "MGET" -> Seq(Chunks \X Offsets) \ {<<>>}
      [] name = "MSET" -> Seq(Chunks \X Offsets \X (Values \cup {Absent})) \ {<<>>}
      [] name \in {"CHUNKSET", "CHUNKBATCH"} -> Seq(Chunks \X States)
      [] name \in {"CHUNK", "CHUNKVER", "CHUNKRANGE"} -> Seq(Chunks) \ {<<>>}
      [] name \in {"CHUNKSCAN", "WALFLUSH"} -> {<<>>}

ASSUME EngineAssumption ==
    /\ MaxChunk \in Nat \ {0}
    /\ ScanLimit \in Nat \ {0}
    /\ MaxWorldItems \in Nat
    /\ MaxVersion \in Nat
    /\ None \notin Sessions
    /\ Absent \notin Values
    /\ \A s \in Sessions : \A c \in Commands[s] :
          /\ c.name \in {"MGET", "MSET", "CHUNKSET", "CHUNKBATCH", "WALFLUSH",
                         "CHUNK", "CHUNKVER", "CHUNKRANGE", "CHUNKSCAN"}
          /\ c.items \in ItemsOf(c.name)

VARIABLES
    content,    \* what ReadChunk returns for a chunk
    persisted,  \* chunks that exist in the store; the others are Blank
    ver,        \* version of a chunk
    clock,      \* version clock of the store
    readers,    \* sessions that hold the mutex shared
    writer,     \* the session that holds it exclusively
    auth,       \* "yes" while the session of a client is authenticated
    pc,         \* where a session is in its command
    cmd,        \* the command
    left,       \* items it has not handled
    seen,       \* what it collected for its response
    status,     \* "ok", or "failed" when it answers with an error
    copy,       \* the chunk it modifies
    expected,   \* versions as the client of a session knows them
    cursor,     \* cursor of the pages of a session, 0 at their start
    at,         \* cursor of the loop inside CHUNKSCAN
    paging,     \* "new", "on" between pages, "end" on the last
    listed,     \* chunks on the pages so far (history)
    stable,     \* chunks populated since the pages began (history)
    world       \* blocks as the successful writes left them (history)

store == <<content, persisted, ver, clock, stable, world>>
mutex == <<readers, writer>>
request == <<cmd, left, seen, status, copy, expected>>
pages == <<cursor, at, paging, listed>>
vars == <<store, mutex, auth, pc, request, pages>>

NoCommand == [name |-> "none", items |-> <<>>]

Blank == [o \in Offsets |-> Absent]

chunkPopulated(state) == \E o \in Offsets : state[o] # Absent

Populated == {c \in Chunks : chunkPopulated(content[c])}

Init ==
    /\ content = [c \in Chunks |-> Blank]
    /\ persisted = {}
    /\ ver = [c \in Chunks |-> 0]
    /\ clock = 0
    /\ readers = {}
    /\ writer = None
    /\ auth = [s \in Sessions |-> "no"]
    /\ pc = [s \in Sessions |-> "idle"]
    /\ cmd = [s \in Sessions |-> NoCommand]
    /\ left = [s \in Sessions |-> <<>>]
    /\ seen = [s \in Sessions |-> <<>>]
    /\ status = [s \in Sessions |-> "ok"]
    /\ copy = [s \in Sessions |-> Blank]
    /\ expected = [s \in Sessions |-> ver]
    /\ cursor = [s \in Sessions |-> 0]
    /\ at = [s \in Sessions |-> 0]
    /\ paging = [s \in Sessions |-> "new"]
    /\ listed = [s \in Sessions |-> <<>>]
    /\ stable = [s \in Sessions |-> {}]
    /\ world = content

Goto(s, where) == pc' = [pc EXCEPT ![s] = where]

----------------------------------------------------------------------------
(* Sessions *)

(* AUTH, with the right token or a wrong one. *)
authenticate(s) ==
    /\ pc[s] = "idle"
    /\ \E answer \in {"yes", "no"} : auth' = [auth EXCEPT ![s] = answer]
    /\ UNCHANGED <<store, mutex, pc, request, pages>>

(* QUIT closes the session for good; the client goes on with a new one,    *)
(* which is not authenticated.                                             *)
Quit(s) ==
    /\ pc[s] = "idle"
    /\ auth' = [auth EXCEPT ![s] = "no"]
    /\ UNCHANGED <<store, mutex, pc, request, pages>>

(* Execute: a command of an authenticated session; any other is refused. *)
Execute(s, c) ==
    /\ pc[s] = "idle"
    /\ auth[s] = "yes"
    /\ cmd' = [cmd EXCEPT ![s] = c]
    /\ left' = [left EXCEPT ![s] = c.items]
    /\ at' = [at EXCEPT ![s] = cursor[s]]
    /\ Goto(s, "lock")
    /\ UNCHANGED <<store, mutex, auth, seen, status, copy, expected, cursor, paging, listed>>

Exclusive(s) == cmd[s].name \in {"MSET", "CHUNKSET", "CHUNKBATCH", "WALFLUSH"}

(* The first page of CHUNKSCAN starts the history of its pages. *)
BeginPages(s) ==
    LET first == cmd[s].name = "CHUNKSCAN" /\ paging[s] = "new"
    IN  /\ paging' = [paging EXCEPT ![s] = IF first THEN "on" ELSE @]
        /\ listed' = [listed EXCEPT ![s] = IF first THEN <<>> ELSE @]
        /\ stable' = [stable EXCEPT ![s] = IF first THEN Populated ELSE @]

(* Wrong: writes take the mutex shared. *)
LockShared(s) ==
    /\ pc[s] = "lock"
    /\ writer = None
    /\ readers' = readers \cup {s}
    /\ BeginPages(s)
    /\ Goto(s, "work")
    /\ UNCHANGED <<content, persisted, ver, clock, world, writer, auth, request, cursor, at>>

(* RLock or Lock, by the kind of the command. *)
Lock(s) ==
    /\ pc[s] = "lock"
    /\ writer = None
    /\ \/ /\ Exclusive(s)
          /\ readers = {}
          /\ writer' = s
          /\ UNCHANGED readers
       \/ /\ ~Exclusive(s)
          /\ readers' = readers \cup {s}
          /\ UNCHANGED writer
    /\ BeginPages(s)
    /\ Goto(s, "work")
    /\ UNCHANGED <<content, persisted, ver, clock, world, auth, request, cursor, at>>

(* The history of the pages ends with the response that holds the last. *)
EndPages(s) ==
    LET last == paging[s] = "end"
    IN  /\ paging' = [paging EXCEPT ![s] = IF last THEN "new" ELSE @]
        /\ listed' = [listed EXCEPT ![s] = IF last THEN <<>> ELSE @]
        /\ stable' = [stable EXCEPT ![s] = IF last THEN {} ELSE @]

(* The deferred unlock; MGET and MSET go on with their next item, and any  *)
(* other command has its response: its locals are gone.                    *)
Unlock(s) ==
    /\ pc[s] = "unlock"
    /\ readers' = readers \ {s}
    /\ writer' = IF writer = s THEN None ELSE writer
    /\ copy' = [copy EXCEPT ![s] = Blank]
    /\ \/ /\ left[s] # <<>>
          /\ Goto(s, "lock")
          /\ UNCHANGED <<cmd, seen, status, at>>
       \/ /\ left[s] = <<>>
          /\ cmd' = [cmd EXCEPT ![s] = NoCommand]
          /\ seen' = [seen EXCEPT ![s] = <<>>]
          /\ status' = [status EXCEPT ![s] = "ok"]
          /\ at' = [at EXCEPT ![s] = 0]
          /\ Goto(s, "idle")
    /\ EndPages(s)
    /\ UNCHANGED <<content, persisted, ver, clock, world, auth, left, expected, cursor>>

(* A call of the store fails: the command ends with an error alone. *)
StoreFails(s) ==
    /\ pc[s] \in {"work", "loaded"}
    /\ left' = [left EXCEPT ![s] = <<>>]
    /\ seen' = [seen EXCEPT ![s] = <<>>]
    /\ copy' = [copy EXCEPT ![s] = Blank]
    /\ status' = [status EXCEPT ![s] = "failed"]
    /\ Goto(s, "unlock")
    /\ UNCHANGED <<store, mutex, auth, cmd, expected, pages>>

----------------------------------------------------------------------------
(* Reading and writing blocks *)

Item(s) == Head(left[s])

(* GET and EXISTS; GET answers 0 for Absent. *)
get(s) ==
    /\ pc[s] = "work"
    /\ cmd[s].name = "MGET"
    /\ seen' = [seen EXCEPT ![s] = Append(@, content[Item(s)[1]][Item(s)[2]])]
    /\ left' = [left EXCEPT ![s] = Tail(@)]
    /\ Goto(s, "unlock")
    /\ UNCHANGED <<store, mutex, auth, cmd, status, copy, expected, pages>>

(* The store refuses to pass the last version. *)
VersionsLeft(n) == clock + n <= MaxVersion

(* What the store does when it writes chunks: new versions in the order of *)
(* the request, and perhaps collection of chunks without blocks.           *)
StoreWrite(new, order) ==
    /\ VersionsLeft(Len(order))
    /\ content' = [c \in Chunks |-> IF c \in DOMAIN new THEN new[c] ELSE content[c]]
    /\ ver' = [c \in Chunks |-> IF c \in DOMAIN new
                                THEN clock + (CHOOSE i \in DOMAIN order : order[i] = c) ELSE ver[c]]
    /\ clock' = clock + Len(order)
    /\ \E collected \in SUBSET {c \in Chunks : ~chunkPopulated(content'[c])} :
          persisted' = (persisted \cup DOMAIN new) \ collected
    /\ stable' = [s \in Sessions |-> {c \in stable[s] : chunkPopulated(content'[c])}]

(* Wrong: an item that needs no write is not counted as handled. *)
ReadForUpdateRepeats(s) ==
    /\ pc[s] = "work"
    /\ cmd[s].name = "MSET"
    /\ \/ /\ Item(s)[3] = Absent
          /\ Item(s)[1] \notin persisted
          /\ Goto(s, "unlock")
          /\ UNCHANGED copy
       \/ /\ Item(s)[3] # Absent \/ Item(s)[1] \in persisted
          /\ copy' = [copy EXCEPT ![s] = content[Item(s)[1]]]
          /\ Goto(s, "loaded")
    /\ UNCHANGED <<store, mutex, auth, cmd, left, seen, status, expected, pages>>

(* set and unset read the chunk of the block first, *)
ReadForUpdate(s) ==
    /\ pc[s] = "work"
    /\ cmd[s].name = "MSET"
    /\ \/ /\ Item(s)[3] = Absent
          /\ Item(s)[1] \notin persisted
          /\ left' = [left EXCEPT ![s] = Tail(@)]
          /\ Goto(s, "unlock")
          /\ UNCHANGED copy
       \/ /\ Item(s)[3] # Absent \/ Item(s)[1] \in persisted
          /\ copy' = [copy EXCEPT ![s] = content[Item(s)[1]]]
          /\ Goto(s, "loaded")
          /\ UNCHANGED left
    /\ UNCHANGED <<store, mutex, auth, cmd, seen, status, expected, pages>>

(* and then write it back. *)
WriteBack(s) ==
    /\ pc[s] = "loaded"
    /\ LET c == Item(s)[1]
           o == Item(s)[2]
           v == Item(s)[3]
       IN  /\ StoreWrite([x \in {c} |-> [copy[s] EXCEPT ![o] = v]], <<c>>)
           /\ world' = [world EXCEPT ![c] = [@ EXCEPT ![o] = v]]
    /\ left' = [left EXCEPT ![s] = Tail(@)]
    /\ Goto(s, "unlock")
    /\ UNCHANGED <<mutex, auth, cmd, seen, status, copy, expected, pages>>

----------------------------------------------------------------------------
(* Whole chunks *)

Targets(s) == [i \in DOMAIN cmd[s].items |-> cmd[s].items[i][1]]

(* The chunks a CHUNKSET or a batch writes; canonicalizeChunkState has     *)
(* cleared what is absent in them.                                         *)
NewStates(s) ==
    [c \in Range(Targets(s)) |->
        cmd[s].items[CHOOSE i \in DOMAIN cmd[s].items : cmd[s].items[i][1] = c][2]]

WriteStates(s) ==
    /\ StoreWrite(NewStates(s), Targets(s))
    /\ world' = [c \in Chunks |-> IF c \in DOMAIN NewStates(s) THEN NewStates(s)[c] ELSE world[c]]
    /\ left' = [left EXCEPT ![s] = <<>>]
    /\ Goto(s, "unlock")
    /\ UNCHANGED <<mutex, auth, cmd, seen, status, copy, expected, pages>>

chunkSet(s) ==
    /\ pc[s] = "work"
    /\ cmd[s].name = "CHUNKSET"
    /\ WriteStates(s)

(* CHUNKCAS is a batch of one.  All chunks have the versions the client    *)
(* expects, or nothing is written.                                         *)
chunkBatch(s) ==
    /\ pc[s] = "work"
    /\ cmd[s].name = "CHUNKBATCH"
    /\ \/ /\ \A c \in Range(Targets(s)) : ver[c] = expected[s][c]
          /\ WriteStates(s)
       \/ /\ \E c \in Range(Targets(s)) : ver[c] # expected[s][c]
          /\ left' = [left EXCEPT ![s] = <<>>]
          /\ status' = [status EXCEPT ![s] = "failed"]
          /\ Goto(s, "unlock")
          /\ UNCHANGED <<store, mutex, auth, cmd, seen, copy, expected, pages>>

walFlush(s) ==
    /\ pc[s] = "work"
    /\ cmd[s].name = "WALFLUSH"
    /\ Goto(s, "unlock")
    /\ UNCHANGED <<store, mutex, auth, request, pages>>

----------------------------------------------------------------------------
(* Reading chunks *)

(* CHUNK, CHUNKBIN, CHUNKBINC and CHUNKEXISTS: a chunk that exists, with   *)
(* blocks or without.                                                      *)
readChunkCommand(s) ==
    /\ pc[s] = "work"
    /\ cmd[s].name = "CHUNK"
    /\ \/ /\ Item(s) \in persisted
          /\ seen' = [seen EXCEPT ![s] = Append(@, <<Item(s), content[Item(s)]>>)]
          /\ UNCHANGED status
       \/ /\ Item(s) \notin persisted
          /\ status' = [status EXCEPT ![s] = "failed"]
          /\ UNCHANGED seen
    /\ left' = [left EXCEPT ![s] = <<>>]
    /\ Goto(s, "unlock")
    /\ UNCHANGED <<store, mutex, auth, cmd, copy, expected, pages>>

(* CHUNKVER; its client will expect the version it is told. *)
chunkVersion(s) ==
    /\ pc[s] = "work"
    /\ cmd[s].name = "CHUNKVER"
    /\ expected' = [expected EXCEPT ![s][Item(s)] = ver[Item(s)]]
    /\ left' = [left EXCEPT ![s] = <<>>]
    /\ Goto(s, "unlock")
    /\ UNCHANGED <<store, mutex, auth, cmd, seen, status, copy, pages>>

(* Wrong: the mutex is released after every chunk. *)
appendWorldChunkUnlocking(s) ==
    /\ pc[s] = "work"
    /\ cmd[s].name = "CHUNKRANGE"
    /\ left[s] # <<>>
    /\ seen' = [seen EXCEPT ![s] =
          IF chunkPopulated(content[Item(s)]) THEN Append(@, <<Item(s), content[Item(s)]>>) ELSE @]
    /\ left' = [left EXCEPT ![s] = Tail(@)]
    /\ Goto(s, "unlock")
    /\ UNCHANGED <<store, mutex, auth, cmd, status, copy, expected, pages>>

(* CHUNKRANGE and CHUNKRADIUS read one chunk after the other. *)
appendWorldChunk(s) ==
    /\ pc[s] = "work"
    /\ cmd[s].name = "CHUNKRANGE"
    /\ left[s] # <<>>
    /\ \/ /\ ~chunkPopulated(content[Item(s)])
          /\ left' = [left EXCEPT ![s] = Tail(@)]
          /\ UNCHANGED <<seen, status>>
       \/ /\ chunkPopulated(content[Item(s)])
          /\ Len(seen[s]) < MaxWorldItems
          /\ seen' = [seen EXCEPT ![s] = Append(@, <<Item(s), content[Item(s)]>>)]
          /\ left' = [left EXCEPT ![s] = Tail(@)]
          /\ UNCHANGED status
       \/ /\ chunkPopulated(content[Item(s)])
          /\ Len(seen[s]) >= MaxWorldItems
          /\ left' = [left EXCEPT ![s] = <<>>]
          /\ status' = [status EXCEPT ![s] = "failed"]
          /\ UNCHANGED seen
    /\ Goto(s, IF left'[s] = <<>> THEN "unlock" ELSE "work")
    /\ UNCHANGED <<store, mutex, auth, cmd, copy, expected, pages>>

----------------------------------------------------------------------------
(* CHUNKSCAN: one page *)

(* A finite set of chunks in their order. *)
InOrder(set) == [i \in 1..Cardinality(set) |-> CHOOSE c \in set : Cardinality({d \in set : d < c}) = i - 1]

(* ScanChunkCoords: the smallest n members of a set of chunks, in order. *)
Smallest(set, n) == SubSeq(InOrder(set), 1, Min({n, Cardinality(set)}))

(* Wrong: the next page starts after the chunk that did not fit this one. *)
chunkScanResponseSkips(s, coords, more, next) ==
    /\ listed' = [listed EXCEPT ![s] = @ \o coords]
    /\ cursor' = [cursor EXCEPT ![s] = IF more THEN next ELSE 0]
    /\ paging' = [paging EXCEPT ![s] = IF more THEN "on" ELSE "end"]
    /\ Goto(s, "unlock")
    /\ UNCHANGED <<seen, at>>

(* A page is complete: what it lists, and the cursor for the next one. *)
chunkScanResponse(s, coords, more, next) ==
    /\ listed' = [listed EXCEPT ![s] = @ \o coords]
    /\ cursor' = [cursor EXCEPT ![s] = IF more THEN Last(coords) ELSE 0]
    /\ paging' = [paging EXCEPT ![s] = IF more THEN "on" ELSE "end"]
    /\ Goto(s, "unlock")
    /\ UNCHANGED <<seen, at>>

(* One turn of the loop: the store lists the next coordinates, one more    *)
(* than the page has room for, and those without blocks are passed over.   *)
chunkScan(s) ==
    /\ pc[s] = "work"
    /\ cmd[s].name = "CHUNKSCAN"
    /\ LET after == {c \in persisted : c > at[s]}
           candidates == Smallest(after, ScanLimit + 1 - Len(seen[s]))
           found == seen[s] \o InOrder(Range(candidates) \cap Populated)
       IN  \/ /\ Len(found) > ScanLimit
              /\ chunkScanResponse(s, SubSeq(found, 1, ScanLimit), TRUE, found[ScanLimit + 1])
           \/ /\ Len(found) <= ScanLimit
              /\ Len(candidates) = Cardinality(after)
              /\ chunkScanResponse(s, found, FALSE, 0)
           \/ /\ Len(found) <= ScanLimit
              /\ Len(candidates) < Cardinality(after)
              /\ seen' = [seen EXCEPT ![s] = found]
              /\ at' = [at EXCEPT ![s] = Last(candidates)]
              /\ UNCHANGED <<listed, cursor, paging, pc>>
    /\ UNCHANGED <<store, mutex, auth, cmd, left, status, copy, expected>>

Step(s) ==
    \/ Lock(s)
    \/ get(s)
    \/ ReadForUpdate(s)
    \/ WriteBack(s)
    \/ chunkSet(s)
    \/ chunkBatch(s)
    \/ walFlush(s)
    \/ readChunkCommand(s)
    \/ chunkVersion(s)
    \/ appendWorldChunk(s)
    \/ chunkScan(s)
    \/ StoreFails(s)
    \/ Unlock(s)

Next ==
    \E s \in Sessions :
       \/ authenticate(s)
       \/ Quit(s)
       \/ \E c \in Commands[s] : Execute(s, c)
       \/ Step(s)

Spec == Init /\ [][Next]_vars

(* A goroutine that can go on does, and sync.RWMutex starves nobody: a     *)
(* session that can lock it again and again does lock it.                  *)
FairSpec == Spec /\ \A s \in Sessions : SF_vars(Step(s))

(***************************************************************************)
(* Properties                                                              *)
(***************************************************************************)

(* "These locks prevent in-process races and lost updates through one      *)
(* engine" (docs/CONCURRENCY.md): every block is as the last successful    *)
(* write of it left it, although a write replaces its whole chunk.         *)
NoLostUpdate == content = world

(* CHUNKRANGE and CHUNKRADIUS answer with the chunks as they are at one    *)
(* moment: what is collected agrees with the store until the answer is     *)
(* complete, so no batch is seen in part.                                  *)
WorldReadsAreSnapshots ==
    \A s \in Sessions :
       pc[s] = "unlock" /\ cmd[s].name = "CHUNKRANGE" /\ left[s] = <<>> /\ status[s] = "ok"
          => Range(seen[s]) = {<<c, content[c]>> : c \in Range(cmd[s].items) \cap Populated}

(* Pages of CHUNKSCAN list a chunk at most once, and by the last page have *)
(* listed every chunk that was populated all the time, whatever is written *)
(* and collected between them.                                             *)
PagesCoverStable ==
    \A s \in Sessions :
       /\ \A i, j \in DOMAIN listed[s] : i < j => listed[s][i] < listed[s][j]
       /\ paging[s] = "end" => stable[s] \subseteq Range(listed[s])

(* Every command is answered: no path leaves the mutex locked. *)
RequestsAnswered == \A s \in Sessions : pc[s] = "lock" ~> pc[s] = "idle"
================================================================================
