----------------------------- MODULE EngineProofs -----------------------------
(***************************************************************************)
(* The protocol engine, for every set of sessions, every set of commands,  *)
(* every number of chunks and every limit: updates are kept, world reads   *)
(* show one moment, and pages miss nothing that stays.                     *)
(*                                                                         *)
(* All three rest on the mutex of the engine, so the inductive invariant   *)
(* says what a session may rely on while it holds it: the copy that set    *)
(* modifies is the chunk in the store, and what a world read collected is  *)
(* the content of the chunks it has handled.  Pages are read between       *)
(* locks; there it says what the cursor means to the client.               *)
(***************************************************************************)
EXTENDS ProtocolEngine, FiniteSetTheorems, TLAPS

(***************************************************************************)
(* The inductive invariant                                                 *)
(***************************************************************************)

Holding == {"work", "loaded", "unlock"}

BlockWrites == Chunks \X Offsets \X (Values \cup {Absent})

Tables ==
    /\ pc \in [Sessions -> {"idle", "lock"} \cup Holding]
    /\ DOMAIN cmd = Sessions
    /\ DOMAIN left = Sessions
    /\ DOMAIN seen = Sessions
    /\ DOMAIN status = Sessions
    /\ DOMAIN copy = Sessions
    /\ DOMAIN cursor = Sessions
    /\ DOMAIN at = Sessions
    /\ DOMAIN paging = Sessions
    /\ DOMAIN listed = Sessions
    /\ DOMAIN stable = Sessions

(* Every chunk with blocks exists. *)
StoreInv ==
    /\ content \in [Chunks -> States]
    /\ Populated \subseteq persisted
    /\ persisted \subseteq Chunks

(* A session inside its command holds the mutex the way the command asks,  *)
(* and a writer holds it alone.                                            *)
MutexInv ==
    /\ writer # None => readers = {}
    /\ \A s \in Sessions : pc[s] \in Holding => IF Exclusive(s) THEN writer = s ELSE s \in readers

(* What a session has left to do. *)
CommandInv(s) ==
    /\ pc[s] = "idle" => seen[s] = <<>> /\ status[s] = "ok"
    /\ pc[s] # "idle" => cmd[s] \in Commands[s]
    /\ pc[s] # "idle" /\ cmd[s].name = "MSET" => left[s] \in Seq(BlockWrites)
    /\ pc[s] \in {"lock", "work", "loaded"} /\ cmd[s].name = "MSET" => left[s] # <<>>
    /\ pc[s] # "idle" /\ cmd[s].name = "CHUNKSCAN" => left[s] = <<>>

(* The chunk that set and unset modify is still the one in the store. *)
CopyInv(s) == pc[s] = "loaded" => cmd[s].name = "MSET" /\ copy[s] = content[Item(s)[1]]

(* The chunks of a world read that are handled, and what it collected.     *)
Collects(s, done) ==
    /\ Range(cmd[s].items) = done \cup Range(left[s])
    /\ Range(seen[s]) = {<<c, content[c]>> : c \in done \cap Populated}

RangeInv(s) ==
    pc[s] # "idle" /\ cmd[s].name = "CHUNKRANGE" =>
       /\ left[s] \in Seq(Chunks)
       /\ seen[s] \in Seq(Chunks \X States)
       /\ pc[s] = "lock" => left[s] = cmd[s].items /\ seen[s] = <<>>
       /\ pc[s] \in {"lock", "work"} => status[s] = "ok"
       /\ pc[s] = "unlock" => left[s] = <<>>
       /\ pc[s] \in Holding /\ status[s] = "ok" => \E done \in SUBSET Chunks : Collects(s, done)

Ascending(q) == \A i, j \in 1..Len(q) : i < j => q[i] < q[j]

(* The pages so far list what was populated all the time up to the cursor, *)
(* and the loop of CHUNKSCAN has found the rest of it up to at.            *)
PagesInv(s) ==
    /\ cursor[s] \in Nat
    /\ paging[s] \in {"new", "on", "end"}
    /\ listed[s] \in Seq(Chunks)
    /\ stable[s] \subseteq Populated
    /\ Ascending(listed[s])
    /\ paging[s] = "new" => listed[s] = <<>> /\ cursor[s] = 0
    /\ paging[s] = "end" => pc[s] = "unlock" /\ cursor[s] = 0 /\ stable[s] \subseteq Range(listed[s])
    /\ paging[s] = "on" => /\ \A i \in 1..Len(listed[s]) : listed[s][i] <= cursor[s]
                           /\ \A c \in stable[s] : c <= cursor[s] => c \in Range(listed[s])

ScanInv(s) ==
    cmd[s].name = "CHUNKSCAN" =>
       /\ pc[s] = "lock" => at[s] = cursor[s] /\ seen[s] = <<>>
       /\ pc[s] = "work" =>
             /\ paging[s] = "on"
             /\ at[s] \in Nat
             /\ seen[s] \in Seq(Chunks)
             /\ Len(seen[s]) <= ScanLimit
             /\ cursor[s] <= at[s]
             /\ Ascending(seen[s])
             /\ \A i \in 1..Len(seen[s]) : cursor[s] < seen[s][i] /\ seen[s][i] <= at[s]
             /\ \A c \in stable[s] : cursor[s] < c /\ c <= at[s] => c \in Range(seen[s])

SessionInv(s) == CommandInv(s) /\ CopyInv(s) /\ RangeInv(s) /\ PagesInv(s) /\ ScanInv(s)

EngineInv == Tables /\ StoreInv /\ MutexInv /\ NoLostUpdate /\ \A s \in Sessions : SessionInv(s)

(***************************************************************************)
(* Sets of chunks in their order                                           *)
(***************************************************************************)

Below(set, c) == {d \in set : d < c}

(* The rank of a member among the members of a finite set of numbers. *)
LEMMA RanksDiffer ==
    ASSUME NEW S \in SUBSET Nat, IsFiniteSet(S), NEW x \in S
    PROVE  /\ Cardinality(Below(S, x)) \in 0..(Cardinality(S) - 1)
           /\ \A y \in S : x < y => Cardinality(Below(S, x)) < Cardinality(Below(S, y))
<1>1. \A T \in SUBSET S : IsFiniteSet(T) /\ Cardinality(T) \in Nat
  BY Zenon, FS_Subset, FS_CardinalityType
<1>2. ASSUME NEW T \in SUBSET S, x \in T, Below(S, x) \subseteq T
      PROVE  Cardinality(Below(S, x)) < Cardinality(T)
  <2>1. Below(S, x) \in SUBSET T /\ x \notin Below(S, x)
    BY <1>2 DEF Below
  <2>2. Cardinality(Below(S, x)) <= Cardinality(T) /\ Cardinality(Below(S, x)) # Cardinality(T)
    BY Zenon, <1>1, <1>2, <2>1, FS_Subset
  <2>3. Cardinality(Below(S, x)) \in Nat /\ Cardinality(T) \in Nat
    BY Zenon, <1>1, <1>2, <2>1
  <2>4. QED
    BY <2>2, <2>3
<1>3. Cardinality(Below(S, x)) < Cardinality(S)
  BY Zenon, <1>2 DEF Below
<1>4. ASSUME NEW y \in S, x < y PROVE Cardinality(Below(S, x)) < Cardinality(Below(S, y))
  <2>a. \A z \in S : z \in Nat
    BY Zenon
  <2>b. \A d \in S : d < x => d < y
    BY <1>4, <2>a
  <2>1. Below(S, y) \in SUBSET S /\ x \in Below(S, y) /\ Below(S, x) \subseteq Below(S, y)
    BY Zenon, <1>4, <2>b DEF Below
  <2>2. QED
    BY Zenon, <1>2, <2>1
<1>5. Cardinality(Below(S, x)) \in Nat /\ Cardinality(S) \in Nat
  BY Zenon, <1>1 DEF Below
<1>6. QED
  BY <1>3, <1>4, <1>5

(* Every rank is that of a member. *)
LEMMA RanksExist ==
    ASSUME NEW S \in SUBSET Nat, IsFiniteSet(S), NEW i \in 1..Cardinality(S)
    PROVE  \E c \in S : Cardinality(Below(S, c)) = i - 1
<1> DEFINE T == 0..(Cardinality(S) - 1)
           f == [c \in S |-> Cardinality(Below(S, c))]
<1>1. Cardinality(S) \in Nat
  BY Zenon, FS_CardinalityType
<1>2. IsFiniteSet(T) /\ Cardinality(T) = Cardinality(S)
  <2>1. 0 \in Int /\ Cardinality(S) - 1 \in Int
    BY <1>1
  <2>2. IsFiniteSet(T) /\ Cardinality(T) = IF 0 > Cardinality(S) - 1 THEN 0 ELSE Cardinality(S) - 1 - 0 + 1
    BY Zenon, <2>1, FS_Interval
  <2>3. QED
    BY <1>1, <2>2
<1>3. f \in [S -> T]
  BY Zenon, RanksDiffer
<1>4. ASSUME NEW x \in S, NEW y \in S, f[x] = f[y] PROVE x = y
  <2>1. ~(x < y) /\ ~(y < x)
    BY <1>4, <1>3, RanksDiffer
  <2>2. QED
    BY <2>1
<1>5. f \in Injection(S, T)
  BY Zenon, <1>3, <1>4 DEF Injection, IsInjective
<1>6. f \in Surjection(S, T)
  BY Zenon, <1>2, <1>5, FS_Injection
<1>7. i - 1 \in T
  BY <1>1
<1>8. PICK c \in S : f[c] = i - 1
  BY Zenon, <1>6, <1>7 DEF Surjection
<1>9. QED
  BY Zenon, <1>8

LEMMA OrderedSet ==
    ASSUME NEW S \in SUBSET Nat, IsFiniteSet(S)
    PROVE  /\ InOrder(S) \in Seq(S)
           /\ Len(InOrder(S)) = Cardinality(S)
           /\ Cardinality(S) \in Nat
           /\ Ascending(InOrder(S))
           /\ Range(InOrder(S)) = S
<1> DEFINE q == InOrder(S)
           n == Cardinality(S)
<1>1. n \in Nat
  BY Zenon, FS_CardinalityType
<1>2. q = [i \in 1..n |-> CHOOSE c \in S : Cardinality(Below(S, c)) = i - 1]
  BY Zenon DEF InOrder, Below
<1>3. ASSUME NEW i \in 1..n PROVE q[i] \in S /\ Cardinality(Below(S, q[i])) = i - 1
  <2>1. q[i] = CHOOSE c \in S : Cardinality(Below(S, c)) = i - 1
    BY Zenon, <1>2
  <2>2. QED
    BY Zenon, <2>1, RanksExist
<1>4. q \in Seq(S) /\ Len(q) = n /\ DOMAIN q = 1..n
  BY <1>1, <1>2, <1>3
<1>5. Ascending(q)
  <2>1. SUFFICES ASSUME NEW i \in 1..n, NEW j \in 1..n, i < j PROVE q[i] < q[j]
    BY Zenon, <1>4 DEF Ascending
  <2>2. q[i] \in S /\ q[j] \in S /\ Cardinality(Below(S, q[i])) < Cardinality(Below(S, q[j]))
    BY <1>1, <1>3, <2>1
  <2>a. q[i] \in Nat /\ q[j] \in Nat
    BY Zenon, <2>2
  <2>3. ~(q[j] < q[i]) /\ q[i] # q[j]
    <3>1. Cardinality(Below(S, q[i])) \in Nat /\ Cardinality(Below(S, q[j])) \in Nat
      BY <1>1, <1>3
    <3>2. q[j] < q[i] => Cardinality(Below(S, q[j])) < Cardinality(Below(S, q[i]))
      BY Zenon, <2>2, RanksDiffer
    <3>3. QED
      BY <2>2, <3>1, <3>2
  <2>4. QED
    BY <2>a, <2>3
<1>6. ASSUME NEW c \in S PROVE c \in Range(q)
  <2>1. Cardinality(Below(S, c)) \in 0..(n - 1)
    BY Zenon, RanksDiffer
  <2> DEFINE i == Cardinality(Below(S, c)) + 1
  <2>2. i \in 1..n /\ i - 1 = Cardinality(Below(S, c))
    BY <1>1, <2>1
  <2>3. q[i] \in S /\ Cardinality(Below(S, q[i])) = Cardinality(Below(S, c))
    BY Zenon, <1>3, <2>2
  <2>4. ~(q[i] < c) /\ ~(c < q[i])
    <3>1. /\ c < q[i] => Cardinality(Below(S, c)) < Cardinality(Below(S, q[i]))
          /\ q[i] < c => Cardinality(Below(S, q[i])) < Cardinality(Below(S, c))
      BY Zenon, <2>3, RanksDiffer
    <3>2. QED
      BY <2>1, <2>3, <3>1
  <2>5. q[i] = c
    <3>1. q[i] \in Nat /\ c \in Nat
      BY Zenon, <2>3
    <3>2. QED
      BY <2>4, <3>1
  <2>6. QED
    BY Zenon, <1>4, <2>2, <2>5 DEF Range
<1>7. Range(q) \subseteq S
  BY Zenon, <1>3, <1>4 DEF Range
<1>8. QED
  BY Zenon, <1>1, <1>4, <1>5, <1>6, <1>7

(* The candidates of one turn of the loop: an initial part of the set, and *)
(* all of it if there is room.                                             *)
LEMMA SmallestOnes ==
    ASSUME NEW S \in SUBSET Nat, IsFiniteSet(S), NEW n \in Nat \ {0}, NEW q, q = Smallest(S, n)
    PROVE  /\ q \in Seq(S)
           /\ Cardinality(S) \in Nat
           /\ Len(q) <= n
           /\ Len(q) <= Cardinality(S)
           /\ Ascending(q)
           /\ Len(q) = Cardinality(S) => Range(q) = S
           /\ Len(q) < Cardinality(S) => Len(q) = n
           /\ \A c \in S : \A i \in 1..Len(q) : c <= q[i] => c \in Range(q)
<1> DEFINE r == InOrder(S)
           m == Min({n, Cardinality(S)})
<1>1. /\ r \in Seq(S) /\ Len(r) = Cardinality(S) /\ Cardinality(S) \in Nat /\ Ascending(r) /\ Range(r) = S
      /\ DOMAIN r = 1..Cardinality(S)
  BY OrderedSet
<1>2. m = IF n <= Cardinality(S) THEN n ELSE Cardinality(S)
  BY <1>1 DEF Min
<1>3. q = SubSeq(r, 1, m)
  BY Zenon DEF Smallest
<1> HIDE DEF r, m
<1>4. /\ q \in Seq(S) /\ Len(q) = m /\ DOMAIN q = 1..m /\ m \in Nat /\ m <= Cardinality(S)
      /\ \A i \in 1..m : q[i] = r[i]
  BY <1>1, <1>2, <1>3
<1>5. Ascending(q)
  BY <1>1, <1>4 DEF Ascending
<1>6. m = Cardinality(S) => Range(q) = S
  BY <1>1, <1>4 DEF Range
<1>7. ASSUME NEW c \in S, NEW i \in 1..m, c <= q[i] PROVE c \in Range(q)
  <2>1. PICK j \in 1..Cardinality(S) : r[j] = c
    BY Zenon, <1>1 DEF Range
  <2>a. i \in 1..Cardinality(S)
    BY <1>1, <1>4
  <2>2. r[i] \in Nat /\ r[j] \in Nat
    <3>1. r[i] \in S /\ r[j] \in S
      BY <1>1, <2>1, <2>a
    <3>2. QED
      BY Zenon, <3>1
  <2>3. ~(i < j)
    BY <1>1, <1>4, <1>7, <2>1, <2>2, <2>a DEF Ascending
  <2>4. j \in 1..m /\ q[j] = c
    BY <1>4, <2>1, <2>3
  <2>5. QED
    BY Zenon, <1>4, <2>4 DEF Range
<1>8. QED
  BY <1>2, <1>4, <1>5, <1>6, <1>7, <1>1

(***************************************************************************)
(* Commands, the mutex and the store                                       *)
(***************************************************************************)

LEMMA ItemsTyped ==
    ASSUME NEW s \in Sessions, NEW c \in Commands[s]
    PROVE  /\ c.name = "MSET" => c.items \in Seq(BlockWrites) /\ c.items # <<>>
           /\ c.name \in {"CHUNKSET", "CHUNKBATCH"} => c.items \in Seq(Chunks \X States)
           /\ c.name = "CHUNKRANGE" => c.items \in Seq(Chunks)
           /\ c.name = "CHUNKSCAN" => c.items = <<>>
<1>1. c.items \in ItemsOf(c.name)
  BY Zenon, EngineAssumption
<1>2. QED
  BY Zenon, <1>1 DEF ItemsOf, BlockWrites

(* A writer is alone with the store. *)
LEMMA WriterAlone ==
    ASSUME MutexInv, NEW s \in Sessions, pc[s] \in Holding, Exclusive(s), NEW t \in Sessions, t # s
    PROVE  pc[t] \notin Holding
<1>1. writer = s /\ s # None
  BY Zenon, EngineAssumption DEF MutexInv
<1>2. QED
  BY Zenon, <1>1 DEF MutexInv

(* A step that leaves a session alone. *)
Untouched(t) ==
    /\ pc'[t] = pc[t] /\ cmd'[t] = cmd[t] /\ left'[t] = left[t] /\ seen'[t] = seen[t]
    /\ status'[t] = status[t] /\ copy'[t] = copy[t] /\ cursor'[t] = cursor[t] /\ at'[t] = at[t]
    /\ paging'[t] = paging[t] /\ listed'[t] = listed[t]

(* What keeps the invariant of a session no step of which is taken. *)
LEMMA SessionWaits ==
    ASSUME NEW t \in Sessions, SessionInv(t), Untouched(t), stable'[t] \subseteq stable[t] \cap Populated',
           content' = content \/ pc[t] \notin Holding
    PROVE  SessionInv(t)'
<1>1. CommandInv(t)'
  BY Zenon DEF SessionInv, CommandInv, Untouched
<1>2. CopyInv(t)'
  BY Zenon DEF SessionInv, CopyInv, Untouched, Holding, Item
<1>3. RangeInv(t)'
  <2>1. CASE pc[t] \notin Holding
    BY Zenon, <2>1 DEF SessionInv, RangeInv, Untouched
  <2>2. CASE content' = content
    <3>1. Populated' = Populated
      BY Zenon, <2>2 DEF Populated
    <3>2. ASSUME NEW done, Collects(t, done) PROVE Collects(t, done)'
      BY Zenon, <2>2, <3>1, <3>2 DEF Collects, Untouched
    <3>3. QED
      BY Zenon, <3>2 DEF SessionInv, RangeInv, Untouched
  <2>3. QED
    BY Zenon, <2>1, <2>2
<1>4. PagesInv(t)'
  BY Zenon DEF SessionInv, PagesInv, Untouched
<1>5. ScanInv(t)'
  BY Zenon DEF SessionInv, ScanInv, Untouched
<1>6. QED
  BY Zenon, <1>1, <1>2, <1>3, <1>4, <1>5 DEF SessionInv

(* What a write of the store leaves. *)
LEMMA StoreWritten ==
    ASSUME StoreInv, NEW new, NEW order, StoreWrite(new, order), DOMAIN new \subseteq Chunks,
           \A c \in DOMAIN new : new[c] \in States, \A s \in Sessions : PagesInv(s)
    PROVE  /\ content' \in [Chunks -> States]
           /\ Populated' \subseteq persisted'
           /\ persisted' \subseteq Chunks
           /\ DOMAIN stable' = Sessions
           /\ \A s \in Sessions : stable'[s] \subseteq stable[s] \cap Populated'
<1>1. content' = [c \in Chunks |-> IF c \in DOMAIN new THEN new[c] ELSE content[c]]
  BY Zenon DEF StoreWrite
<1>2. content' \in [Chunks -> States]
  BY Zenon, <1>1 DEF StoreInv
<1>3. PICK collected \in SUBSET {c \in Chunks : ~chunkPopulated(content'[c])} :
         persisted' = (persisted \cup DOMAIN new) \ collected
  BY Zenon DEF StoreWrite
<1>4. persisted' \subseteq Chunks
  BY Zenon, <1>3 DEF StoreInv
<1>5. ASSUME NEW c \in Populated' PROVE c \in persisted'
  <2>1. c \in Chunks /\ chunkPopulated(content'[c])
    BY Zenon DEF Populated
  <2>2. c \notin collected
    BY Zenon, <1>3, <2>1
  <2>3. c \notin DOMAIN new => content'[c] = content[c]
    BY Zenon, <1>1, <2>1
  <2>4. c \notin DOMAIN new => c \in persisted
    BY Zenon, <2>1, <2>3 DEF Populated, StoreInv
  <2>5. QED
    BY Zenon, <1>3, <2>2, <2>4
<1>6. stable' = [s \in Sessions |-> {c \in stable[s] : chunkPopulated(content'[c])}]
  BY Zenon DEF StoreWrite
<1>7. ASSUME NEW s \in Sessions PROVE stable'[s] \subseteq stable[s] \cap Populated'
  <2>1. stable'[s] = {c \in stable[s] : chunkPopulated(content'[c])}
    BY Zenon, <1>6
  <2>2. stable[s] \subseteq Chunks
    BY Zenon DEF PagesInv, Populated
  <2>3. QED
    BY Zenon, <2>1, <2>2 DEF Populated
<1>8. QED
  BY Zenon, <1>2, <1>4, <1>5, <1>6, <1>7

(* A step of one session. *)
Acts(s) == authenticate(s) \/ Quit(s) \/ (\E c \in Commands[s] : Execute(s, c)) \/ Step(s)

(* Every step changes the tables at one session only. *)
LEMMA StepTables ==
    ASSUME Tables, NEW s \in Sessions, Acts(s)
    PROVE  Tables' /\ \A t \in Sessions : t # s => Untouched(t)
<1> USE DEF Tables, Untouched, Goto, store, mutex, request, pages, Holding
<1>1. CASE authenticate(s) \/ Quit(s)
  BY Zenon, <1>1 DEF authenticate, Quit
<1>2. CASE \E c \in Commands[s] : Execute(s, c)
  BY <1>2 DEF Execute
<1>3. CASE Lock(s)
  BY Zenon, <1>3 DEF Lock, BeginPages
<1>4. CASE get(s) \/ StoreFails(s)
  BY <1>4 DEF get, StoreFails
<1>5. CASE ReadForUpdate(s)
  BY <1>5 DEF ReadForUpdate
<1>6. CASE WriteBack(s)
  BY Zenon, <1>6 DEF WriteBack, StoreWrite
<1>7. CASE chunkSet(s) \/ chunkBatch(s)
  BY Zenon, <1>7 DEF chunkSet, chunkBatch, WriteStates, StoreWrite
<1>8. CASE walFlush(s) \/ readChunkCommand(s) \/ chunkVersion(s)
  BY <1>8 DEF walFlush, readChunkCommand, chunkVersion
<1>9. CASE appendWorldChunk(s)
  BY <1>9 DEF appendWorldChunk
<1>10. CASE chunkScan(s)
  <2>1. /\ UNCHANGED <<cmd, left, status, copy, stable>>
        /\ \/ \E coords, more, next : chunkScanResponse(s, coords, more, next)
           \/ \E found, to : /\ seen' = [seen EXCEPT ![s] = found]
                             /\ at' = [at EXCEPT ![s] = to]
                             /\ UNCHANGED <<listed, cursor, paging, pc>>
    BY Zenon, <1>10 DEF chunkScan
  <2>2. CASE \E coords, more, next : chunkScanResponse(s, coords, more, next)
    BY <2>1, <2>2 DEF chunkScanResponse
  <2>3. CASE \E found, to : /\ seen' = [seen EXCEPT ![s] = found]
                            /\ at' = [at EXCEPT ![s] = to]
                            /\ UNCHANGED <<listed, cursor, paging, pc>>
    BY Zenon, <2>1, <2>3
  <2>4. QED
    BY Zenon, <2>1, <2>2, <2>3
<1>11. CASE Unlock(s)
  BY <1>11 DEF Unlock, EndPages
<1>12. QED
  BY Zenon, <1>1, <1>2, <1>3, <1>4, <1>5, <1>6, <1>7, <1>8, <1>9, <1>10, <1>11 DEF Acts, Step

LEMMA StepMutex ==
    ASSUME Tables, MutexInv, NEW s \in Sessions, Acts(s)
    PROVE  MutexInv'
<1>a. s # None
  BY Zenon, EngineAssumption
<1>b. ASSUME NEW t \in Sessions, t # s
      PROVE  /\ pc'[t] = pc[t] /\ (Exclusive(t)' <=> Exclusive(t)) /\ t # None
             /\ pc[t] \in Holding => IF Exclusive(t) THEN writer = t ELSE t \in readers
  <2>1. pc'[t] = pc[t] /\ cmd'[t] = cmd[t]
    BY Zenon, <1>b, StepTables DEF Untouched
  <2>2. Exclusive(t)' <=> Exclusive(t)
    BY Zenon, <2>1 DEF Exclusive
  <2>3. QED
    BY Zenon, <2>1, <2>2, EngineAssumption DEF MutexInv
<1>1. CASE authenticate(s) \/ Quit(s) \/ \E c \in Commands[s] : Execute(s, c)
  <2>1. pc'[s] \notin Holding /\ UNCHANGED <<readers, writer>>
    BY Zenon, <1>1 DEF authenticate, Quit, Execute, Goto, Tables, Holding, mutex
  <2>2. QED
    BY Zenon, <1>b, <2>1 DEF MutexInv
<1>2. CASE Lock(s)
  <2>1. writer = None /\ Exclusive(s)' = Exclusive(s)
    BY Zenon, <1>2 DEF Lock, Exclusive, request
  <2>2. CASE Exclusive(s)
    <3>1. readers = {} /\ readers' = {} /\ writer' = s
      BY Zenon, <1>2, <2>2 DEF Lock
    <3>2. QED
      BY Zenon, <1>b, <2>1, <2>2, <3>1 DEF MutexInv
  <2>3. CASE ~Exclusive(s)
    <3>1. readers' = readers \cup {s} /\ writer' = None
      BY Zenon, <1>2, <2>1, <2>3 DEF Lock
    <3>2. QED
      BY Zenon, <1>b, <2>1, <2>3, <3>1 DEF MutexInv
  <2>4. QED
    BY Zenon, <2>2, <2>3
<1>3. CASE Unlock(s)
  <2>1. /\ pc'[s] \notin Holding /\ readers' = readers \ {s}
        /\ writer' = IF writer = s THEN None ELSE writer
    BY Zenon, <1>3 DEF Unlock, Goto, Tables, Holding
  <2>2. QED
    BY Zenon, <1>b, <2>1 DEF MutexInv
<1>4. CASE Step(s) /\ ~Lock(s) /\ ~Unlock(s)
  <2>1. pc[s] \in Holding /\ UNCHANGED <<readers, writer>> /\ cmd'[s] = cmd[s]
    BY Zenon, <1>4 DEF Step, get, ReadForUpdate, WriteBack, chunkSet, chunkBatch, WriteStates, walFlush,
       readChunkCommand, chunkVersion, appendWorldChunk, chunkScan, chunkScanResponse, StoreFails, mutex, request,
       Holding
  <2>2. QED
    BY Zenon, <1>b, <2>1 DEF MutexInv, Exclusive
<1>5. QED
  BY Zenon, <1>1, <1>2, <1>3, <1>4 DEF Acts

(***************************************************************************)
(* Steps that write                                                        *)
(***************************************************************************)

(* A write leaves a session that only looks at its pages with all they     *)
(* promise.                                                                *)
LEMMA PagesHeld ==
    ASSUME NEW s \in Sessions, PagesInv(s), stable'[s] \subseteq stable[s] \cap Populated',
           cursor'[s] = cursor[s], paging'[s] = paging[s], listed'[s] = listed[s],
           pc[s] # "unlock" \/ pc'[s] = "unlock"
    PROVE  PagesInv(s)'
BY Zenon DEF PagesInv

LEMMA WriteBackStep ==
    ASSUME EngineInv, NEW s \in Sessions, WriteBack(s)
    PROVE  /\ StoreInv' /\ NoLostUpdate' /\ SessionInv(s)'
           /\ \A t \in Sessions : stable'[t] \subseteq stable[t] \cap Populated'
           /\ pc[s] \in Holding /\ Exclusive(s)
<1>a. pc[s] = "loaded" /\ cmd[s].name = "MSET" /\ copy[s] = content[Item(s)[1]] /\ pc[s] \in Holding
  BY Zenon DEF WriteBack, EngineInv, SessionInv, CopyInv, Holding
<1>b. left[s] \in Seq(BlockWrites) /\ left[s] # <<>>
  BY Zenon, <1>a DEF EngineInv, SessionInv, CommandInv
<1>c. Item(s) \in BlockWrites /\ Tail(left[s]) \in Seq(BlockWrites)
  BY <1>b DEF Item
<1> DEFINE c == Item(s)[1]
           o == Item(s)[2]
           v == Item(s)[3]
           new == [x \in {c} |-> [copy[s] EXCEPT ![o] = v]]
<1>d. c \in Chunks /\ o \in Offsets /\ v \in Values \cup {Absent}
  BY Zenon, <1>c DEF BlockWrites
<1>e. content[c] \in States /\ [copy[s] EXCEPT ![o] = v] \in States
  BY Zenon, <1>a, <1>d DEF EngineInv, StoreInv, States
<1>f. StoreWrite(new, <<c>>) /\ world' = [world EXCEPT ![c] = [@ EXCEPT ![o] = v]]
  BY Zenon DEF WriteBack
<1>g. DOMAIN new \subseteq Chunks /\ \A x \in DOMAIN new : new[x] \in States
  BY Zenon, <1>d, <1>e
<1>h. \A t \in Sessions : PagesInv(t)
  BY Zenon DEF EngineInv, SessionInv
<1>1. /\ StoreInv' /\ \A t \in Sessions : stable'[t] \subseteq stable[t] \cap Populated'
  <2>1. StoreInv
    BY Zenon DEF EngineInv
  <2>2. QED
    BY Zenon, <1>f, <1>g, <1>h, <2>1, StoreWritten DEF StoreInv
<1>2. NoLostUpdate'
  <2>1. content' = [x \in Chunks |-> IF x \in DOMAIN new THEN new[x] ELSE content[x]]
    BY Zenon, <1>f DEF StoreWrite
  <2>2. content \in [Chunks -> States] /\ world = content
    BY Zenon DEF EngineInv, StoreInv, NoLostUpdate
  <2>3. content' = [x \in Chunks |-> IF x = c THEN [content[c] EXCEPT ![o] = v] ELSE content[x]]
    BY Zenon, <1>a, <2>1
  <2>4. QED
    BY Zenon, <1>d, <1>f, <2>2, <2>3 DEF NoLostUpdate
<1>3. SessionInv(s)'
  <2>1. /\ pc'[s] = "unlock" /\ cmd'[s] = cmd[s] /\ left'[s] = Tail(left[s]) /\ cursor'[s] = cursor[s]
        /\ paging'[s] = paging[s] /\ listed'[s] = listed[s]
    BY Zenon DEF WriteBack, Goto, pages, EngineInv, Tables
  <2>2. CommandInv(s)'
    BY Zenon, <1>a, <1>c, <2>1 DEF EngineInv, SessionInv, CommandInv
  <2>3. CopyInv(s)' /\ RangeInv(s)' /\ ScanInv(s)'
    BY Zenon, <1>a, <2>1 DEF CopyInv, RangeInv, ScanInv
  <2>4. PagesInv(s)'
    BY Zenon, <1>1, <1>h, <2>1, PagesHeld
  <2>5. QED
    BY Zenon, <2>2, <2>3, <2>4 DEF SessionInv
<1>4. QED
  BY Zenon, <1>1, <1>2, <1>3, <1>a DEF Exclusive

LEMMA WriteStatesStep ==
    ASSUME EngineInv, NEW s \in Sessions, pc[s] = "work", cmd[s].name \in {"CHUNKSET", "CHUNKBATCH"}, WriteStates(s)
    PROVE  /\ StoreInv' /\ NoLostUpdate' /\ SessionInv(s)'
           /\ \A t \in Sessions : stable'[t] \subseteq stable[t] \cap Populated'
           /\ pc[s] \in Holding /\ Exclusive(s)
<1>a. cmd[s].items \in Seq(Chunks \X States) /\ cmd[s] \in Commands[s]
  BY Zenon, ItemsTyped DEF EngineInv, SessionInv, CommandInv
<1> DEFINE items == cmd[s].items
<1>b. \A i \in DOMAIN items : items[i][1] \in Chunks /\ items[i][2] \in States
  BY <1>a
<1>c. ASSUME NEW c \in DOMAIN NewStates(s) PROVE c \in Chunks /\ NewStates(s)[c] \in States
  <2>1. c \in Range(Targets(s))
    BY Zenon, <1>c DEF NewStates
  <2>2. \E i \in DOMAIN items : items[i][1] = c
    BY Zenon, <2>1 DEF Range, Targets
  <2>3. NewStates(s)[c] = items[CHOOSE i \in DOMAIN items : items[i][1] = c][2]
    BY Zenon, <2>1 DEF NewStates
  <2>4. QED
    BY Zenon, <1>b, <2>2, <2>3
<1>h. \A t \in Sessions : PagesInv(t)
  BY Zenon DEF EngineInv, SessionInv
<1>f. /\ StoreWrite(NewStates(s), Targets(s))
      /\ world' = [c \in Chunks |-> IF c \in DOMAIN NewStates(s) THEN NewStates(s)[c] ELSE world[c]]
  BY Zenon DEF WriteStates
<1>1. /\ StoreInv' /\ \A t \in Sessions : stable'[t] \subseteq stable[t] \cap Populated'
  <2>1. StoreInv
    BY Zenon DEF EngineInv
  <2>2. QED
    BY Zenon, <1>c, <1>f, <1>h, <2>1, StoreWritten DEF StoreInv
<1>2. NoLostUpdate'
  BY Zenon, <1>f DEF StoreWrite, EngineInv, NoLostUpdate
<1>3. SessionInv(s)'
  <2>1. /\ pc'[s] = "unlock" /\ cmd'[s] = cmd[s] /\ cursor'[s] = cursor[s]
        /\ paging'[s] = paging[s] /\ listed'[s] = listed[s]
    BY Zenon DEF WriteStates, Goto, pages, EngineInv, Tables
  <2>2. CommandInv(s)'
    BY Zenon, <1>a, <2>1 DEF CommandInv
  <2>3. CopyInv(s)' /\ RangeInv(s)' /\ ScanInv(s)'
    BY Zenon, <1>a, <2>1 DEF CopyInv, RangeInv, ScanInv
  <2>4. PagesInv(s)'
    BY Zenon, <1>1, <1>h, <2>1, PagesHeld
  <2>5. QED
    BY Zenon, <2>2, <2>3, <2>4 DEF SessionInv
<1>4. QED
  BY Zenon, <1>1, <1>2, <1>3 DEF Exclusive, Holding

(***************************************************************************)
(* Steps that do not write                                                 *)
(***************************************************************************)

LEMMA ExecuteStep ==
    ASSUME EngineInv, NEW s \in Sessions, NEW c \in Commands[s], Execute(s, c)
    PROVE  SessionInv(s)'
<1>1. SessionInv(s) /\ pc[s] = "idle" /\ UNCHANGED <<content, seen, status, cursor, paging, listed, stable>>
  BY Zenon DEF EngineInv, Execute, store
<1>2. /\ pc'[s] = "lock" /\ cmd'[s] = c /\ left'[s] = c.items /\ at'[s] = cursor[s]
  BY Zenon DEF Execute, Goto, EngineInv, Tables
<1>3. seen'[s] = <<>> /\ status'[s] = "ok" /\ paging[s] # "end"
  BY Zenon, <1>1 DEF SessionInv, CommandInv, PagesInv
<1>4. CommandInv(s)'
  BY Zenon, <1>2, ItemsTyped DEF CommandInv
<1>5. CopyInv(s)' /\ ScanInv(s)'
  BY Zenon, <1>1, <1>2, <1>3 DEF CopyInv, ScanInv
<1>6. RangeInv(s)'
  <2>1. <<>> \in Seq(Chunks \X States)
    OBVIOUS
  <2>2. QED
    BY Zenon, <1>2, <1>3, <2>1, ItemsTyped DEF RangeInv, Holding
<1>7. PagesInv(s)'
  BY Zenon, <1>1, <1>3 DEF SessionInv, PagesInv, Populated
<1>8. QED
  BY Zenon, <1>4, <1>5, <1>6, <1>7 DEF SessionInv

LEMMA LockStep ==
    ASSUME EngineInv, NEW s \in Sessions, Lock(s)
    PROVE  SessionInv(s)'
<1>1. /\ SessionInv(s) /\ pc[s] = "lock"
      /\ UNCHANGED <<content, cmd, left, seen, status, cursor, at>>
  BY Zenon DEF EngineInv, Lock, request
<1>2. pc'[s] = "work"
  BY Zenon DEF Lock, Goto, EngineInv, Tables
<1>3. CommandInv(s)' /\ CopyInv(s)'
  BY Zenon, <1>1, <1>2 DEF SessionInv, CommandInv, CopyInv
<1>4. RangeInv(s)'
  <2>1. SUFFICES ASSUME cmd[s].name = "CHUNKRANGE" PROVE RangeInv(s)'
    BY Zenon, <1>1 DEF RangeInv
  <2>2. /\ left[s] \in Seq(Chunks) /\ seen[s] \in Seq(Chunks \X States) /\ left[s] = cmd[s].items
        /\ seen[s] = <<>> /\ status[s] = "ok"
    BY Zenon, <1>1, <2>1 DEF SessionInv, RangeInv
  <2>3. Range(<<>>) = {}
    BY DEF Range
  <2>4. Collects(s, {})'
    BY Zenon, <1>1, <2>2, <2>3 DEF Collects
  <2>5. QED
    BY Zenon, <1>1, <1>2, <2>2, <2>4 DEF RangeInv
<1>5. paging[s] \in {"new", "on"}
  BY Zenon, <1>1 DEF SessionInv, PagesInv
<1>6. CASE cmd[s].name = "CHUNKSCAN" /\ paging[s] = "new"
  <2>1. paging'[s] = "on" /\ listed'[s] = <<>> /\ stable'[s] = Populated
    BY Zenon, <1>6 DEF Lock, BeginPages, EngineInv, Tables
  <2>2. cursor[s] = 0 /\ Populated' = Populated
    BY Zenon, <1>1, <1>6 DEF SessionInv, PagesInv, Populated
  <2>3. \A c \in Populated : ~(c <= 0)
    BY EngineAssumption DEF Populated, Chunks
  <2>4. PagesInv(s)'
    BY <1>1, <2>1, <2>2, <2>3 DEF PagesInv, Ascending
  <2>5. QED
    <3>1. at[s] = 0 /\ seen[s] = <<>>
      BY Zenon, <1>1, <1>6, <2>2 DEF SessionInv, ScanInv
    <3>2. ScanInv(s)'
      BY <1>1, <1>2, <2>1, <2>2, <2>3, <3>1, EngineAssumption DEF ScanInv, Ascending
    <3>3. QED
      BY Zenon, <1>3, <1>4, <2>4, <3>2 DEF SessionInv
<1>7. CASE ~(cmd[s].name = "CHUNKSCAN" /\ paging[s] = "new")
  <2>1. paging'[s] = paging[s] /\ listed'[s] = listed[s] /\ stable'[s] = stable[s]
    BY Zenon, <1>7 DEF Lock, BeginPages, EngineInv, Tables
  <2>2. PagesInv(s)'
    BY Zenon, <1>1, <1>2, <1>5, <2>1 DEF SessionInv, PagesInv, Populated
  <2>3. ScanInv(s)'
    <3>1. SUFFICES ASSUME cmd[s].name = "CHUNKSCAN" PROVE ScanInv(s)'
      BY Zenon, <1>1 DEF ScanInv
    <3>2. at[s] = cursor[s] /\ seen[s] = <<>> /\ cursor[s] \in Nat /\ paging[s] = "on"
      BY Zenon, <1>1, <1>5, <1>7, <3>1 DEF SessionInv, ScanInv, PagesInv
    <3>3. \A c \in stable[s] : c \in Nat
      BY <1>1 DEF SessionInv, PagesInv, Populated, Chunks
    <3>4. QED
      BY <1>1, <1>2, <2>1, <3>2, <3>3, EngineAssumption DEF ScanInv, Ascending
  <2>4. QED
    BY Zenon, <1>3, <1>4, <2>2, <2>3 DEF SessionInv
<1>8. QED
  BY Zenon, <1>6, <1>7

(* Steps that end their work on the store. *)
LEMMA DoneStep ==
    ASSUME EngineInv, NEW s \in Sessions,
           \/ get(s) \/ walFlush(s) \/ readChunkCommand(s) \/ chunkVersion(s) \/ StoreFails(s)
           \/ chunkBatch(s) /\ ~WriteStates(s)
    PROVE  SessionInv(s)'
<1>1. /\ SessionInv(s) /\ pc[s] \in {"work", "loaded"}
      /\ UNCHANGED <<content, persisted, cmd, cursor, at, paging, listed, stable>>
  BY Zenon DEF EngineInv, get, walFlush, readChunkCommand, chunkVersion, StoreFails, chunkBatch, store, request,
     pages
<1>2. pc'[s] = "unlock"
  BY Zenon DEF get, walFlush, readChunkCommand, chunkVersion, StoreFails, chunkBatch, Goto, EngineInv, Tables
<1>3. StoreFails(s) => left'[s] = <<>> /\ seen'[s] = <<>> /\ status'[s] = "failed"
  BY DEF StoreFails, EngineInv, Tables
<1>4. ~StoreFails(s) => cmd[s].name \notin {"MSET", "CHUNKRANGE", "CHUNKSCAN"}
  BY Zenon DEF get, walFlush, readChunkCommand, chunkVersion, chunkBatch
<1>5. <<>> \in Seq(Chunks) /\ <<>> \in Seq(Chunks \X States) /\ <<>> \in Seq(BlockWrites)
  OBVIOUS
<1>6. CommandInv(s)'
  BY Zenon, <1>1, <1>2, <1>3, <1>4, <1>5 DEF SessionInv, CommandInv
<1>7. CopyInv(s)' /\ ScanInv(s)'
  BY Zenon, <1>2 DEF CopyInv, ScanInv
<1>8. RangeInv(s)'
  BY Zenon, <1>1, <1>2, <1>3, <1>4, <1>5 DEF RangeInv
<1>9. PagesInv(s)'
  BY Zenon, <1>1 DEF SessionInv, PagesInv, Populated
<1>10. QED
  BY Zenon, <1>6, <1>7, <1>8, <1>9 DEF SessionInv

LEMMA ReadForUpdateStep ==
    ASSUME EngineInv, NEW s \in Sessions, ReadForUpdate(s)
    PROVE  SessionInv(s)'
<1>1. /\ SessionInv(s) /\ pc[s] = "work" /\ cmd[s].name = "MSET"
      /\ UNCHANGED <<content, cmd, cursor, at, paging, listed, stable>>
  BY Zenon DEF EngineInv, ReadForUpdate, store, pages
<1>2. left[s] \in Seq(BlockWrites) /\ left[s] # <<>>
  BY Zenon, <1>1 DEF SessionInv, CommandInv
<1>3. \/ pc'[s] = "unlock" /\ left'[s] = Tail(left[s])
      \/ pc'[s] = "loaded" /\ left'[s] = left[s] /\ copy'[s] = content[Item(s)[1]]
  BY Zenon DEF ReadForUpdate, Goto, EngineInv, Tables
<1>4. CommandInv(s)'
  <2>1. Tail(left[s]) \in Seq(BlockWrites)
    BY <1>2
  <2>2. QED
    BY Zenon, <1>1, <1>2, <1>3, <2>1 DEF SessionInv, CommandInv
<1>5. CopyInv(s)' /\ RangeInv(s)' /\ ScanInv(s)'
  BY Zenon, <1>1, <1>3 DEF CopyInv, RangeInv, ScanInv, Item
<1>6. PagesInv(s)'
  BY Zenon, <1>1 DEF SessionInv, PagesInv, Populated
<1>7. QED
  BY Zenon, <1>4, <1>5, <1>6 DEF SessionInv

LEMMA ListedParts ==
    ASSUME NEW S, NEW q \in Seq(S)
    PROVE  /\ q # <<>> => Head(q) \in S /\ Tail(q) \in Seq(S) /\ Range(q) = {Head(q)} \cup Range(Tail(q))
           /\ \A e \in S : Append(q, e) \in Seq(S) /\ Range(Append(q, e)) = Range(q) \cup {e}
<1>1. ASSUME q # <<>> PROVE Range(q) = {Head(q)} \cup Range(Tail(q))
  <2>1. /\ Len(q) \in Nat /\ Len(q) >= 1 /\ DOMAIN q = 1..Len(q) /\ Head(q) = q[1]
        /\ DOMAIN Tail(q) = 1..(Len(q) - 1) /\ \A i \in 1..(Len(q) - 1) : Tail(q)[i] = q[i + 1]
    BY <1>1
  <2>2. ASSUME NEW i \in 1..Len(q), i # 1 PROVE q[i] \in Range(Tail(q))
    <3>1. i - 1 \in 1..(Len(q) - 1) /\ Tail(q)[i - 1] = q[i]
      BY <2>1, <2>2
    <3>2. QED
      BY Zenon, <2>1, <3>1 DEF Range
  <2>3. \A i \in 1..(Len(q) - 1) : i + 1 \in 1..Len(q)
    BY <2>1
  <2>4. Head(q) \in Range(q)
    <3>1. 1 \in DOMAIN q
      BY <2>1
    <3>2. QED
      BY Zenon, <2>1, <3>1 DEF Range
  <2>5. Range(Tail(q)) \subseteq Range(q)
    <3>1. \A i \in DOMAIN Tail(q) : i + 1 \in DOMAIN q /\ Tail(q)[i] = q[i + 1]
      BY Zenon, <2>1, <2>3
    <3>2. QED
      BY Zenon, <3>1 DEF Range
  <2>6. Range(q) \subseteq {Head(q)} \cup Range(Tail(q))
    <3>1. \A i \in DOMAIN q : q[i] = Head(q) \/ q[i] \in Range(Tail(q))
      BY Zenon, <2>1, <2>2
    <3>2. QED
      BY Zenon, <3>1 DEF Range
  <2>7. QED
    BY Zenon, <2>4, <2>5, <2>6
<1>2. ASSUME NEW e \in S PROVE Range(Append(q, e)) = Range(q) \cup {e}
  <2>1. /\ DOMAIN Append(q, e) = 1..(Len(q) + 1) /\ Len(q) \in Nat /\ DOMAIN q = 1..Len(q)
        /\ Append(q, e)[Len(q) + 1] = e /\ \A i \in 1..Len(q) : Append(q, e)[i] = q[i]
    OBVIOUS
  <2>2. /\ \A i \in 1..(Len(q) + 1) : i \in 1..Len(q) \/ i = Len(q) + 1
        /\ \A i \in 1..Len(q) : i \in 1..(Len(q) + 1)
        /\ Len(q) + 1 \in 1..(Len(q) + 1)
    BY <2>1
  <2>3. QED
    BY Zenon, <2>1, <2>2 DEF Range
<1>3. QED
  BY <1>1, <1>2

LEMMA WorldChunkStep ==
    ASSUME EngineInv, NEW s \in Sessions, appendWorldChunk(s)
    PROVE  SessionInv(s)'
<1>1. /\ SessionInv(s) /\ pc[s] = "work" /\ cmd[s].name = "CHUNKRANGE" /\ left[s] # <<>>
      /\ UNCHANGED <<content, cmd, cursor, at, paging, listed, stable>>
  BY Zenon DEF EngineInv, appendWorldChunk, store, pages
<1>2. left[s] \in Seq(Chunks) /\ seen[s] \in Seq(Chunks \X States) /\ status[s] = "ok" /\ pc[s] \in Holding
  BY Zenon, <1>1 DEF SessionInv, RangeInv, Holding
<1>3. pc'[s] = (IF left'[s] = <<>> THEN "unlock" ELSE "work")
  BY Zenon DEF appendWorldChunk, Goto, EngineInv, Tables
<1>4. \/ left'[s] = Tail(left[s]) /\ seen'[s] = seen[s] /\ status'[s] = "ok" /\ ~chunkPopulated(content[Item(s)])
      \/ /\ left'[s] = Tail(left[s]) /\ status'[s] = "ok" /\ chunkPopulated(content[Item(s)])
         /\ seen'[s] = Append(seen[s], <<Item(s), content[Item(s)]>>)
      \/ left'[s] = <<>> /\ seen'[s] = seen[s] /\ status'[s] = "failed"
  BY Zenon, <1>2 DEF appendWorldChunk, EngineInv, Tables
<1> DEFINE c == Item(s)
           e == <<c, content[c]>>
<1>5. c \in Chunks /\ Tail(left[s]) \in Seq(Chunks) /\ Range(left[s]) = {c} \cup Range(Tail(left[s]))
  BY Zenon, <1>1, <1>2, ListedParts DEF Item
<1>6. e \in Chunks \X States
  BY Zenon, <1>5 DEF EngineInv, StoreInv
<1> HIDE DEF e
<1>7. Append(seen[s], e) \in Seq(Chunks \X States) /\ Range(Append(seen[s], e)) = Range(seen[s]) \cup {e}
  <2> DEFINE S == Chunks \X States
  <2>1. e \in S /\ seen[s] \in Seq(S)
    BY Zenon, <1>2, <1>6
  <2> HIDE DEF S
  <2>2. Append(seen[s], e) \in Seq(S) /\ Range(Append(seen[s], e)) = Range(seen[s]) \cup {e}
    BY <2>1, ListedParts
  <2>3. QED
    BY Zenon, <2>2 DEF S
<1>8. PICK done \in SUBSET Chunks : Collects(s, done)
  BY Zenon, <1>1, <1>2 DEF SessionInv, RangeInv
<1>9. Populated' = Populated /\ (c \in Populated <=> chunkPopulated(content[c]))
  BY Zenon, <1>1, <1>5 DEF Populated
<1>10. status'[s] = "ok" => \E more \in SUBSET Chunks : Collects(s, more)'
  <2>0. PICK more \in SUBSET Chunks : more = done \cup {c}
    BY Zenon, <1>5
  <2>1. SUFFICES ASSUME status'[s] = "ok" PROVE Collects(s, more)'
    BY Zenon
  <2>2. left'[s] = Tail(left[s])
    BY Zenon, <1>4, <2>1
  <2>3. Range(cmd'[s].items) = more \cup Range(left'[s])
    BY Zenon, <1>1, <1>5, <1>8, <2>0, <2>2 DEF Collects
  <2>4. Range(seen[s]) = {<<d, content[d]>> : d \in done \cap Populated}
    BY Zenon, <1>8 DEF Collects
  <2>5. Range(seen'[s]) = {<<d, content[d]>> : d \in more \cap Populated}
    <3>1. CASE chunkPopulated(content[c])
      <4>1. seen'[s] = Append(seen[s], e) /\ c \in Populated
        BY Zenon, <1>4, <1>9, <2>1, <3>1 DEF e
      <4>2. QED
        BY Zenon, <1>7, <2>0, <2>4, <4>1 DEF e
    <3>2. CASE ~chunkPopulated(content[c])
      <4>1. seen'[s] = seen[s] /\ more \cap Populated = done \cap Populated
        BY Zenon, <1>4, <1>9, <2>0, <2>1, <3>2
      <4>2. QED
        BY Zenon, <2>4, <4>1
    <3>3. QED
      BY Zenon, <3>1, <3>2
  <2>6. QED
    BY Zenon, <1>1, <1>9, <2>3, <2>5 DEF Collects
<1>11. RangeInv(s)'
  <2>1. left'[s] \in Seq(Chunks) /\ seen'[s] \in Seq(Chunks \X States)
    <3>1. <<>> \in Seq(Chunks)
      OBVIOUS
    <3>2. QED
      BY Zenon, <1>2, <1>4, <1>5, <1>7, <3>1 DEF e
  <2>2. pc'[s] = "work" => status'[s] = "ok"
    BY Zenon, <1>3, <1>4
  <2>3. QED
    BY Zenon, <1>3, <1>10, <2>1, <2>2 DEF RangeInv
<1>12. CommandInv(s)' /\ CopyInv(s)' /\ ScanInv(s)'
  BY Zenon, <1>1, <1>3 DEF SessionInv, CommandInv, CopyInv, ScanInv
<1>13. PagesInv(s)'
  BY Zenon, <1>1 DEF SessionInv, PagesInv, Populated
<1>14. QED
  BY Zenon, <1>11, <1>12, <1>13 DEF SessionInv

LEMMA UnlockStep ==
    ASSUME EngineInv, NEW s \in Sessions, Unlock(s)
    PROVE  SessionInv(s)'
<1>1. SessionInv(s) /\ pc[s] = "unlock" /\ UNCHANGED <<content, left, cursor>>
  BY Zenon DEF EngineInv, Unlock
<1>2. \/ left[s] # <<>> /\ pc'[s] = "lock" /\ cmd'[s] = cmd[s]
      \/ pc'[s] = "idle" /\ cmd'[s] = NoCommand /\ seen'[s] = <<>> /\ status'[s] = "ok"
  BY DEF Unlock, Goto, EngineInv, Tables
<1>3. CommandInv(s)'
  BY Zenon, <1>1, <1>2 DEF SessionInv, CommandInv
<1>4. CopyInv(s)' /\ RangeInv(s)' /\ ScanInv(s)'
  <2>1. left[s] # <<>> => cmd[s].name \notin {"CHUNKRANGE", "CHUNKSCAN"}
    BY Zenon, <1>1 DEF SessionInv, CommandInv, RangeInv
  <2>2. NoCommand.name = "none"
    BY Zenon DEF NoCommand
  <2>3. QED
    BY Zenon, <1>2, <2>1, <2>2 DEF CopyInv, RangeInv, ScanInv
<1>5. PagesInv(s)'
  <2>1. CASE paging[s] = "end"
    <3>1. paging'[s] = "new" /\ listed'[s] = <<>> /\ stable'[s] = {} /\ cursor[s] = 0
      BY Zenon, <1>1, <2>1 DEF Unlock, EndPages, EngineInv, Tables, SessionInv, PagesInv
    <3>2. QED
      BY <1>1, <3>1 DEF PagesInv, Ascending
  <2>2. CASE paging[s] # "end"
    <3>1. paging'[s] = paging[s] /\ listed'[s] = listed[s] /\ stable'[s] = stable[s]
      BY Zenon, <2>2 DEF Unlock, EndPages, EngineInv, Tables
    <3>2. QED
      BY Zenon, <1>1, <2>2, <3>1 DEF SessionInv, PagesInv, Populated
  <2>3. QED
    BY Zenon, <2>1, <2>2
<1>6. QED
  BY Zenon, <1>3, <1>4, <1>5 DEF SessionInv

LEMMA SequenceOf ==
    ASSUME NEW S, NEW T, S \subseteq T, NEW q \in Seq(S)
    PROVE  /\ q \in Seq(T)
           /\ Len(q) \in Nat
           /\ DOMAIN q = 1..Len(q)
           /\ \A i \in 1..Len(q) : q[i] \in S
<1>1. Len(q) \in Nat /\ DOMAIN q = 1..Len(q) /\ q = [i \in 1..Len(q) |-> q[i]] /\ \A i \in 1..Len(q) : q[i] \in S
  OBVIOUS
<1>2. \A i \in 1..Len(q) : q[i] \in T
  BY Zenon, <1>1
<1>3. q \in [1..Len(q) -> T]
  BY Zenon, <1>1, <1>2
<1>4. q \in Seq(T)
  BY <1>1, <1>3
<1>5. QED
  BY Zenon, <1>1, <1>4

LEMMA ChunksAreFinite == Chunks \in SUBSET Nat /\ IsFiniteSet(Chunks)
<1>1. MaxChunk \in Int /\ 1 \in Int /\ \A c \in 1..MaxChunk : c \in Nat
  BY EngineAssumption
<1>2. IsFiniteSet(1..MaxChunk)
  BY Zenon, <1>1, FS_Interval
<1>3. QED
  BY Zenon, <1>1, <1>2 DEF Chunks

(* Two ascending lists, one after the other. *)
LEMMA AscendingJoin ==
    ASSUME NEW u \in Seq(Chunks), NEW v \in Seq(Chunks), Ascending(u), Ascending(v),
           \A i \in 1..Len(u), j \in 1..Len(v) : u[i] < v[j]
    PROVE  /\ u \o v \in Seq(Chunks)
           /\ Len(u \o v) = Len(u) + Len(v)
           /\ Ascending(u \o v)
           /\ Range(u \o v) = Range(u) \cup Range(v)
           /\ \A i \in 1..Len(u) : (u \o v)[i] = u[i]
           /\ \A i \in (Len(u) + 1)..(Len(u) + Len(v)) : (u \o v)[i] = v[i - Len(u)] /\ i - Len(u) \in 1..Len(v)
<1> DEFINE w == u \o v
<1>1. /\ w \in Seq(Chunks) /\ Len(w) = Len(u) + Len(v) /\ Len(u) \in Nat /\ Len(v) \in Nat
      /\ DOMAIN w = 1..(Len(u) + Len(v)) /\ DOMAIN u = 1..Len(u) /\ DOMAIN v = 1..Len(v)
      /\ \A i \in 1..Len(u) : w[i] = u[i]
      /\ \A i \in (Len(u) + 1)..(Len(u) + Len(v)) : w[i] = v[i - Len(u)] /\ i - Len(u) \in 1..Len(v)
      /\ \A i \in 1..Len(v) : i + Len(u) \in DOMAIN w /\ w[i + Len(u)] = v[i]
      /\ \A i \in 1..Len(u) : i \in DOMAIN w
      /\ \A i \in DOMAIN w : i \in 1..Len(u) \/ i \in (Len(u) + 1)..(Len(u) + Len(v))
  OBVIOUS
<1> HIDE DEF w
<1>2. Ascending(w)
  <2>1. SUFFICES ASSUME NEW i \in DOMAIN w, NEW j \in DOMAIN w, i < j PROVE w[i] < w[j]
    BY Zenon, <1>1 DEF Ascending
  <2>2. CASE j \in 1..Len(u)
    <3>1. i \in 1..Len(u)
      BY <1>1, <2>1, <2>2
    <3>2. QED
      BY Zenon, <1>1, <2>1, <2>2, <3>1 DEF Ascending
  <2>3. CASE i \in 1..Len(u) /\ j \in (Len(u) + 1)..(Len(u) + Len(v))
    BY Zenon, <1>1, <2>3
  <2>4. CASE i \in (Len(u) + 1)..(Len(u) + Len(v))
    <3>1. j \in (Len(u) + 1)..(Len(u) + Len(v)) /\ i - Len(u) < j - Len(u)
      BY <1>1, <2>1, <2>4
    <3>2. v[i - Len(u)] < v[j - Len(u)]
      BY Zenon, <1>1, <2>4, <3>1 DEF Ascending
    <3>3. QED
      BY Zenon, <1>1, <2>4, <3>1, <3>2
  <2>5. QED
    BY Zenon, <1>1, <2>1, <2>2, <2>3, <2>4
<1>3. Range(w) = Range(u) \cup Range(v)
  <2>1. Range(w) \subseteq Range(u) \cup Range(v)
    <3>1. \A i \in DOMAIN w : (i \in DOMAIN u /\ w[i] = u[i]) \/ (i - Len(u) \in DOMAIN v /\ w[i] = v[i - Len(u)])
      BY Zenon, <1>1
    <3>2. QED
      BY Zenon, <3>1 DEF Range
  <2>2. Range(u) \subseteq Range(w)
    <3>1. \A i \in DOMAIN u : i \in DOMAIN w /\ w[i] = u[i]
      BY Zenon, <1>1
    <3>2. QED
      BY Zenon, <3>1 DEF Range
  <2>3. Range(v) \subseteq Range(w)
    <3>1. \A i \in DOMAIN v : i + Len(u) \in DOMAIN w /\ w[i + Len(u)] = v[i]
      BY Zenon, <1>1
    <3>2. QED
      BY Zenon, <3>1 DEF Range
  <2>4. QED
    BY Zenon, <2>1, <2>2, <2>3
<1>4. QED
  BY Zenon, <1>1, <1>2, <1>3 DEF w

(* What one turn of the loop has found, when it looked at the candidates. *)
Finds(s, after, candidates, found) ==
    /\ found \in Seq(Chunks) /\ Ascending(found)
    /\ \A i \in 1..Len(found) : cursor[s] < found[i] /\ (found[i] <= at[s] \/ found[i] \in Range(candidates))
    /\ candidates \in Seq(Chunks) /\ Ascending(candidates)
    /\ \A i \in 1..Len(candidates) : at[s] < candidates[i]
    /\ Len(candidates) = Cardinality(after) => \A c \in stable[s] : cursor[s] < c => c \in Range(found)
    /\ Len(candidates) < Cardinality(after) => Len(candidates) >= 1
    /\ \A c \in stable[s] : cursor[s] < c /\ c <= at[s] => c \in Range(found)
    /\ \A c \in stable[s] : \A i \in 1..Len(candidates) :
          cursor[s] < c /\ c <= candidates[i] => c \in Range(found)

(* One turn of the loop: the candidates, and what it has found with them. *)
LEMMA ScanFinds ==
    ASSUME EngineInv, NEW s \in Sessions, pc[s] = "work", cmd[s].name = "CHUNKSCAN",
           NEW after, after = {c \in persisted : c > at[s]},
           NEW candidates, candidates = Smallest(after, ScanLimit + 1 - Len(seen[s])),
           NEW found, found = seen[s] \o InOrder(Range(candidates) \cap Populated)
    PROVE  Finds(s, after, candidates, found)
<1>a. SessionInv(s) /\ persisted \subseteq Chunks /\ Populated \subseteq persisted
  BY Zenon DEF EngineInv, StoreInv
<1>b. /\ at[s] \in Nat /\ cursor[s] \in Nat /\ seen[s] \in Seq(Chunks) /\ Len(seen[s]) <= ScanLimit
      /\ cursor[s] <= at[s] /\ Ascending(seen[s]) /\ stable[s] \subseteq Populated
      /\ \A i \in 1..Len(seen[s]) : cursor[s] < seen[s][i] /\ seen[s][i] <= at[s]
      /\ \A c \in stable[s] : cursor[s] < c /\ c <= at[s] => c \in Range(seen[s])
  BY Zenon, <1>a DEF SessionInv, ScanInv, PagesInv
<1> DEFINE n == ScanLimit + 1 - Len(seen[s])
           extra == Range(candidates) \cap Populated
           more == InOrder(extra)
<1>c. n \in Nat \ {0}
  BY <1>b, EngineAssumption
<1>d. Chunks \subseteq Nat /\ IsFiniteSet(Chunks)
  BY Zenon, ChunksAreFinite
<1>e. after \in SUBSET Nat /\ IsFiniteSet(after) /\ after \subseteq Chunks
  <2>1. after \in SUBSET Chunks
    BY Zenon, <1>a
  <2>2. QED
    BY Zenon, <1>d, <2>1, FS_Subset
<1>f. candidates = Smallest(after, n)
  OBVIOUS
<1> HIDE DEF n
<1>1. /\ candidates \in Seq(after) /\ Cardinality(after) \in Nat /\ Ascending(candidates)
      /\ Len(candidates) = Cardinality(after) => Range(candidates) = after
      /\ Len(candidates) < Cardinality(after) => Len(candidates) = n
      /\ \A c \in after : \A i \in 1..Len(candidates) : c <= candidates[i] => c \in Range(candidates)
  BY Zenon, <1>c, <1>e, <1>f, SmallestOnes
<1>2. candidates \in Seq(Chunks) /\ \A i \in 1..Len(candidates) : candidates[i] \in after
  <2>1. candidates \in Seq(after) /\ after \subseteq Chunks
    BY Zenon, <1>1, <1>e
  <2>2. \A S, T : S \subseteq T => \A q \in Seq(S) : q \in Seq(T) /\ \A i \in 1..Len(q) : q[i] \in S
    BY Zenon, SequenceOf
  <2>3. \A q \in Seq(after) : q \in Seq(Chunks) /\ \A i \in 1..Len(q) : q[i] \in after
    BY Zenon, <2>1, <2>2
  <2>4. QED
    BY Zenon, <2>1, <2>3
<1>3. \A i \in 1..Len(candidates) : at[s] < candidates[i]
  <2>1. \A c \in after : c \in Nat /\ c > at[s]
    BY Zenon, <1>e
  <2>2. QED
    BY Zenon, <1>2, <2>1
<1>4. Range(candidates) \subseteq after
  <2>1. DOMAIN candidates = 1..Len(candidates)
    BY <1>2
  <2>2. QED
    BY Zenon, <1>2, <2>1 DEF Range
<1>5. extra \in SUBSET Nat /\ IsFiniteSet(extra) /\ extra \subseteq Chunks
  <2>1. extra \in SUBSET after
    BY Zenon, <1>4
  <2>2. QED
    BY Zenon, <1>e, <2>1, FS_Subset
<1> HIDE DEF extra
<1>6. more \in Seq(extra) /\ Ascending(more) /\ Range(more) = extra
  BY Zenon, <1>5, OrderedSet
<1> HIDE DEF more
<1>7. more \in Seq(Chunks) /\ \A i \in 1..Len(more) : more[i] \in extra
  BY Zenon, <1>5, <1>6, SequenceOf
<1>8. ASSUME NEW i \in 1..Len(seen[s]), NEW j \in 1..Len(more) PROVE seen[s][i] < more[j]
  <2>1. seen[s][i] <= at[s] /\ seen[s][i] \in Nat
    BY Zenon, <1>b, <1>d, SequenceOf
  <2>2. more[j] \in Nat /\ more[j] > at[s]
    <3>1. more[j] \in after
      BY Zenon, <1>4, <1>7 DEF extra
    <3>2. QED
      BY Zenon, <1>e, <3>1
  <2>3. QED
    BY <1>b, <2>1, <2>2
<1>g. found = seen[s] \o more
  BY Zenon DEF more, extra
<1>9. /\ found \in Seq(Chunks) /\ Ascending(found) /\ Range(found) = Range(seen[s]) \cup extra
      /\ DOMAIN found = 1..Len(found)
  <2>1. /\ seen[s] \o more \in Seq(Chunks) /\ Ascending(seen[s] \o more)
        /\ Range(seen[s] \o more) = Range(seen[s]) \cup Range(more)
    BY Zenon, <1>6, <1>7, <1>8, <1>b, AscendingJoin
  <2>2. found \in Seq(Chunks) /\ Ascending(found) /\ Range(found) = Range(seen[s]) \cup extra
    BY Zenon, <1>6, <1>g, <2>1
  <2>3. DOMAIN found = 1..Len(found)
    BY <2>2
  <2>4. QED
    BY Zenon, <2>2, <2>3
<1>10. ASSUME NEW i \in 1..Len(found)
       PROVE  cursor[s] < found[i] /\ (found[i] <= at[s] \/ found[i] \in Range(candidates))
  <2>1. found[i] \in Range(seen[s]) \cup extra
    BY Zenon, <1>9 DEF Range
  <2>2. CASE found[i] \in Range(seen[s])
    <3>1. PICK j \in DOMAIN seen[s] : found[i] = seen[s][j]
      BY Zenon, <2>2 DEF Range
    <3>2. j \in 1..Len(seen[s])
      BY <1>b, <3>1
    <3>3. QED
      BY Zenon, <1>b, <3>1, <3>2
  <2>3. CASE found[i] \in extra
    <3>1. found[i] \in Range(candidates) /\ found[i] \in after
      BY Zenon, <1>4, <2>3 DEF extra
    <3>2. found[i] \in Nat /\ found[i] > at[s]
      BY Zenon, <1>e, <3>1
    <3>3. QED
      BY <1>b, <3>1, <3>2
  <2>4. QED
    BY Zenon, <2>1, <2>2, <2>3
<1>11. ASSUME NEW c \in stable[s] PROVE c \in Nat /\ (c \in after \/ c <= at[s])
  <2>1. c \in persisted
    BY Zenon, <1>a, <1>b
  <2>2. c \in Nat
    BY Zenon, <1>a, <1>d, <2>1
  <2>3. c > at[s] \/ c <= at[s]
    BY <1>b, <2>2
  <2>4. QED
    BY Zenon, <2>1, <2>2, <2>3
<1>12. ASSUME NEW c \in stable[s], cursor[s] < c, c <= at[s] \/ c \in Range(candidates) PROVE c \in Range(found)
  BY Zenon, <1>9, <1>12, <1>b DEF extra
<1>13. ASSUME NEW c \in stable[s], NEW i \in 1..Len(candidates), cursor[s] < c, c <= candidates[i]
       PROVE  c \in Range(found)
  BY Zenon, <1>1, <1>11, <1>12, <1>13
<1>14. ASSUME Len(candidates) = Cardinality(after), NEW c \in stable[s], cursor[s] < c PROVE c \in Range(found)
  BY Zenon, <1>1, <1>11, <1>12, <1>14
<1>15. Len(candidates) < Cardinality(after) => Len(candidates) >= 1
  BY <1>1, <1>c
<1>16. QED
  BY Zenon, <1>1, <1>2, <1>3, <1>9, <1>10, <1>12, <1>13, <1>14, <1>15 DEF Finds

(* A page is complete: what follows the listed chunks, up to the new       *)
(* cursor.                                                                 *)
LEMMA PageListed ==
    ASSUME NEW s \in Sessions, PagesInv(s), paging[s] = "on", NEW coords \in Seq(Chunks), Ascending(coords),
           \A i \in 1..Len(coords) : cursor[s] < coords[i],
           listed'[s] = listed[s] \o coords
    PROVE  /\ listed'[s] \in Seq(Chunks) /\ Ascending(listed'[s])
           /\ Range(listed'[s]) = Range(listed[s]) \cup Range(coords)
           /\ \A i \in 1..Len(listed'[s]) : listed'[s][i] \in Range(listed[s]) \cup Range(coords)
<1>1. /\ cursor[s] \in Nat /\ listed[s] \in Seq(Chunks) /\ Ascending(listed[s])
      /\ \A i \in 1..Len(listed[s]) : listed[s][i] <= cursor[s]
  BY Zenon DEF PagesInv
<1>2. ASSUME NEW i \in 1..Len(listed[s]), NEW j \in 1..Len(coords) PROVE listed[s][i] < coords[j]
  <2>1. listed[s][i] \in Nat /\ coords[j] \in Nat
    BY Zenon, <1>1, ChunksAreFinite, SequenceOf
  <2>2. listed[s][i] <= cursor[s] /\ cursor[s] < coords[j]
    BY Zenon, <1>1
  <2>3. QED
    BY <1>1, <2>1, <2>2
<1> DEFINE w == listed[s] \o coords
<1>3. w \in Seq(Chunks) /\ Ascending(w) /\ Range(w) = Range(listed[s]) \cup Range(coords)
  BY Zenon, <1>1, <1>2, AscendingJoin
<1>4. DOMAIN w = 1..Len(w)
  BY <1>3
<1> HIDE DEF w
<1>5. \A i \in 1..Len(w) : w[i] \in Range(w)
  BY Zenon, <1>4 DEF Range
<1>6. QED
  BY Zenon, <1>3, <1>5 DEF w

LEMMA ScanStep ==
    ASSUME EngineInv, NEW s \in Sessions, chunkScan(s)
    PROVE  SessionInv(s)'
<1>1. /\ SessionInv(s) /\ pc[s] = "work" /\ cmd[s].name = "CHUNKSCAN"
      /\ UNCHANGED <<content, persisted, stable, cmd, left, status>>
  BY Zenon DEF EngineInv, chunkScan, store
<1>2. Populated' = Populated
  BY Zenon, <1>1 DEF Populated
<1>3. PICK after, candidates, found :
         /\ after = {c \in persisted : c > at[s]}
         /\ candidates = Smallest(after, ScanLimit + 1 - Len(seen[s]))
         /\ found = seen[s] \o InOrder(Range(candidates) \cap Populated)
         /\ \/ /\ Len(found) > ScanLimit
               /\ chunkScanResponse(s, SubSeq(found, 1, ScanLimit), TRUE, found[ScanLimit + 1])
            \/ /\ Len(found) <= ScanLimit
               /\ Len(candidates) = Cardinality(after)
               /\ chunkScanResponse(s, found, FALSE, 0)
            \/ /\ Len(found) <= ScanLimit
               /\ Len(candidates) < Cardinality(after)
               /\ seen' = [seen EXCEPT ![s] = found]
               /\ at' = [at EXCEPT ![s] = Last(candidates)]
               /\ UNCHANGED <<listed, cursor, paging, pc>>
  BY Zenon DEF chunkScan
<1>b. Finds(s, after, candidates, found)
  BY Zenon, <1>1, <1>3, ScanFinds
<1>4. /\ found \in Seq(Chunks) /\ Ascending(found)
      /\ \A i \in 1..Len(found) : cursor[s] < found[i] /\ (found[i] <= at[s] \/ found[i] \in Range(candidates))
      /\ candidates \in Seq(Chunks) /\ Ascending(candidates)
      /\ \A i \in 1..Len(candidates) : at[s] < candidates[i]
      /\ Len(candidates) = Cardinality(after) => \A c \in stable[s] : cursor[s] < c => c \in Range(found)
      /\ Len(candidates) < Cardinality(after) => Len(candidates) >= 1
      /\ \A c \in stable[s] : cursor[s] < c /\ c <= at[s] => c \in Range(found)
      /\ \A c \in stable[s] : \A i \in 1..Len(candidates) :
            cursor[s] < c /\ c <= candidates[i] => c \in Range(found)
  BY Zenon, <1>b DEF Finds
<1>5. /\ at[s] \in Nat /\ cursor[s] \in Nat /\ cursor[s] <= at[s] /\ paging[s] = "on" /\ PagesInv(s)
      /\ stable[s] \subseteq Populated /\ \A c \in stable[s] : c <= cursor[s] => c \in Range(listed[s])
      /\ \A i \in 1..Len(listed[s]) : listed[s][i] <= cursor[s]
      /\ listed[s] \in Seq(Chunks)
  BY Zenon, <1>1 DEF SessionInv, ScanInv, PagesInv
<1>6. Chunks \subseteq Nat /\ stable[s] \subseteq Nat /\ ScanLimit \in Nat \ {0}
  BY Zenon, <1>5, ChunksAreFinite, EngineAssumption DEF Populated
<1>7. /\ Len(found) \in Nat /\ DOMAIN found = 1..Len(found) /\ \A i \in 1..Len(found) : found[i] \in Nat
      /\ Len(candidates) \in Nat /\ DOMAIN candidates = 1..Len(candidates)
      /\ \A i \in 1..Len(candidates) : candidates[i] \in Nat
  BY Zenon, <1>4, <1>6, SequenceOf
<1>c. \A q : \A n : DOMAIN q = 1..n => \A x \in Range(q) : \E i \in 1..n : x = q[i]
  BY Zenon DEF Range
<1>d. /\ \A x \in Range(found) : \E i \in 1..Len(found) : x = found[i]
      /\ \A x \in Range(candidates) : \E i \in 1..Len(candidates) : x = candidates[i]
  BY Zenon, <1>7, <1>c
<1>8. ASSUME NEW coords, NEW next, NEW more \in BOOLEAN, chunkScanResponse(s, coords, more, next)
      PROVE  /\ pc'[s] = "unlock" /\ listed'[s] = listed[s] \o coords /\ CommandInv(s)' /\ CopyInv(s)' /\ RangeInv(s)'
             /\ ScanInv(s)' /\ cursor'[s] = (IF more THEN Last(coords) ELSE 0)
             /\ paging'[s] = (IF more THEN "on" ELSE "end")
  <2>1. /\ pc'[s] = "unlock" /\ listed'[s] = listed[s] \o coords
        /\ cursor'[s] = (IF more THEN Last(coords) ELSE 0) /\ paging'[s] = (IF more THEN "on" ELSE "end")
    BY Zenon, <1>8 DEF chunkScanResponse, Goto, EngineInv, Tables
  <2>2. CommandInv(s)' /\ CopyInv(s)' /\ RangeInv(s)' /\ ScanInv(s)'
    BY Zenon, <1>1, <2>1 DEF SessionInv, CommandInv, CopyInv, RangeInv, ScanInv
  <2>3. QED
    BY Zenon, <2>1, <2>2
<1>9. CASE Len(found) > ScanLimit /\ chunkScanResponse(s, SubSeq(found, 1, ScanLimit), TRUE, found[ScanLimit + 1])
  <2> DEFINE coords == SubSeq(found, 1, ScanLimit)
  <2>1. /\ coords \in Seq(Chunks) /\ Len(coords) = ScanLimit /\ DOMAIN coords = 1..ScanLimit
        /\ \A i \in 1..ScanLimit : coords[i] = found[i] /\ i \in 1..Len(found)
    BY <1>4, <1>6, <1>7, <1>9
  <2> HIDE DEF coords
  <2>2. Ascending(coords) /\ \A i \in 1..Len(coords) : cursor[s] < coords[i]
    BY Zenon, <1>4, <2>1 DEF Ascending
  <2>3. /\ pc'[s] = "unlock" /\ listed'[s] = listed[s] \o coords /\ CommandInv(s)' /\ CopyInv(s)' /\ RangeInv(s)'
        /\ ScanInv(s)' /\ cursor'[s] = Last(coords) /\ paging'[s] = "on"
    BY Zenon, <1>8, <1>9 DEF coords
  <2> DEFINE top == found[ScanLimit]
  <2>4. cursor'[s] = top /\ top \in Nat /\ cursor[s] < top /\ ScanLimit \in 1..Len(found)
    BY <1>4, <1>6, <1>7, <2>1, <2>3 DEF Last
  <2>5. ASSUME NEW c \in stable[s], c <= top PROVE c \in Range(listed'[s])
    <3>1. c \in Nat
      BY Zenon, <1>6
    <3>2. c \in Range(found) => c \in Range(coords)
      <4>1. SUFFICES ASSUME NEW i \in 1..Len(found), c = found[i] PROVE c \in Range(coords)
        BY Zenon, <1>d
      <4>2. ~(ScanLimit < i)
        BY <1>4, <1>6, <1>7, <2>4, <2>5, <4>1 DEF Ascending
      <4>3. i \in 1..ScanLimit
        BY <1>6, <4>2
      <4>4. QED
        BY Zenon, <2>1, <4>1, <4>3 DEF Range
    <3>3. cursor[s] < c => c \in Range(found)
      <4>1. CASE top <= at[s]
        <5>1. c <= at[s]
          BY <1>5, <2>4, <2>5, <3>1, <4>1
        <5>2. QED
          BY Zenon, <1>4, <5>1
      <4>2. CASE top \in Range(candidates)
        <5>1. PICK i \in 1..Len(candidates) : top = candidates[i]
          BY Zenon, <1>d, <4>2
        <5>2. QED
          BY Zenon, <1>4, <2>5, <5>1
      <4>3. QED
        BY Zenon, <1>4, <2>4, <4>1, <4>2
    <3>4. c <= cursor[s] \/ cursor[s] < c
      BY <1>5, <3>1
    <3>5. Range(listed'[s]) = Range(listed[s]) \cup Range(coords)
      BY Zenon, <1>5, <2>1, <2>2, <2>3, PageListed
    <3>6. QED
      BY Zenon, <1>5, <3>2, <3>3, <3>4, <3>5
  <2>6. ASSUME NEW x \in Range(listed[s]) \cup Range(coords) PROVE x <= top
    <3>1. CASE x \in Range(listed[s])
      <4>1. DOMAIN listed[s] = 1..Len(listed[s]) /\ \A i \in 1..Len(listed[s]) : listed[s][i] \in Nat
        BY Zenon, <1>5, <1>6, SequenceOf
      <4>2. x <= cursor[s] /\ x \in Nat
        BY Zenon, <1>5, <3>1, <4>1 DEF Range
      <4>3. QED
        BY <1>5, <2>4, <4>2
    <3>2. CASE x \in Range(coords)
      <4>1. PICK i \in 1..ScanLimit : x = coords[i]
        BY Zenon, <2>1, <3>2 DEF Range
      <4>2. x = found[i] /\ i \in 1..Len(found)
        BY Zenon, <2>1, <4>1
      <4>3. i = ScanLimit \/ i < ScanLimit
        BY <1>6, <4>1
      <4>4. QED
        BY <1>4, <1>7, <2>4, <4>2, <4>3 DEF Ascending
    <3>3. QED
      BY Zenon, <2>6, <3>1, <3>2
  <2>7. /\ listed'[s] \in Seq(Chunks) /\ Ascending(listed'[s])
        /\ \A i \in 1..Len(listed'[s]) : listed'[s][i] \in Range(listed[s]) \cup Range(coords)
    BY Zenon, <1>5, <2>1, <2>2, <2>3, PageListed
  <2>8. PagesInv(s)'
    BY Zenon, <1>1, <1>2, <1>5, <2>3, <2>4, <2>5, <2>6, <2>7 DEF PagesInv
  <2>9. QED
    BY Zenon, <2>3, <2>8 DEF SessionInv
<1>10. CASE Len(candidates) = Cardinality(after) /\ chunkScanResponse(s, found, FALSE, 0)
  <2>1. /\ pc'[s] = "unlock" /\ listed'[s] = listed[s] \o found /\ CommandInv(s)' /\ CopyInv(s)' /\ RangeInv(s)'
        /\ ScanInv(s)' /\ cursor'[s] = 0 /\ paging'[s] = "end"
    BY Zenon, <1>8, <1>10
  <2>2. /\ listed'[s] \in Seq(Chunks) /\ Ascending(listed'[s])
        /\ Range(listed'[s]) = Range(listed[s]) \cup Range(found)
    BY Zenon, <1>4, <1>5, <2>1, PageListed
  <2>3. ASSUME NEW c \in stable[s] PROVE c \in Range(listed'[s])
    <3>1. c <= cursor[s] \/ cursor[s] < c
      BY <1>5, <1>6
    <3>2. QED
      BY Zenon, <1>4, <1>5, <1>10, <2>2, <3>1
  <2>4. 0 \in Nat
    OBVIOUS
  <2>5. PagesInv(s)'
    BY Zenon, <1>1, <1>2, <1>5, <2>1, <2>2, <2>3, <2>4 DEF PagesInv
  <2>6. QED
    BY Zenon, <2>1, <2>5 DEF SessionInv
<1>11. CASE /\ Len(found) <= ScanLimit
            /\ Len(candidates) < Cardinality(after)
            /\ seen' = [seen EXCEPT ![s] = found]
            /\ at' = [at EXCEPT ![s] = Last(candidates)]
            /\ UNCHANGED <<listed, cursor, paging, pc>>
  <2> DEFINE k == Len(candidates)
             top == candidates[k]
  <2>1. seen'[s] = found /\ at'[s] = top /\ UNCHANGED <<listed, cursor, paging, pc>>
    BY Zenon, <1>11 DEF EngineInv, Tables, Last
  <2>2. k \in 1..Len(candidates) /\ top \in Nat /\ at[s] < top
    BY <1>4, <1>7, <1>11
  <2>3. CommandInv(s)' /\ CopyInv(s)' /\ RangeInv(s)'
    BY Zenon, <1>1, <2>1 DEF SessionInv, CommandInv, CopyInv, RangeInv
  <2>4. PagesInv(s)'
    BY Zenon, <1>1, <1>2, <2>1 DEF SessionInv, PagesInv
  <2>5. cursor[s] <= top
    BY <1>5, <2>2
  <2>a. \A m \in Nat : \A j \in 1..m : j = m \/ j < m
    OBVIOUS
  <2>b. ASSUME NEW j \in 1..Len(candidates) PROVE candidates[j] <= top
    <3>1. candidates[j] = top \/ candidates[j] < top
      BY Zenon, <1>4, <1>7, <2>2, <2>a DEF Ascending
    <3>2. candidates[j] \in Nat
      BY Zenon, <1>7
    <3>3. QED
      BY <2>2, <3>1, <3>2
  <2>6. ASSUME NEW i \in 1..Len(found) PROVE found[i] <= top
    <3>1. CASE found[i] <= at[s]
      <4>1. found[i] \in Nat
        BY Zenon, <1>7
      <4>2. QED
        BY <1>5, <2>2, <3>1, <4>1
    <3>2. CASE found[i] \in Range(candidates)
      <4>1. \A x \in Range(candidates) : x <= top
        BY Zenon, <1>7, <2>b DEF Range
      <4>2. QED
        BY Zenon, <3>2, <4>1
    <3>3. QED
      BY Zenon, <1>4, <3>1, <3>2
  <2>7. ASSUME NEW c \in stable[s], cursor[s] < c, c <= top PROVE c \in Range(found)
    BY Zenon, <1>4, <2>2, <2>7
  <2> HIDE DEF top
  <2>8. ScanInv(s)'
    BY Zenon, <1>1, <1>4, <1>5, <1>11, <2>1, <2>2, <2>5, <2>6, <2>7 DEF ScanInv
  <2>9. QED
    BY Zenon, <2>3, <2>4, <2>8 DEF SessionInv
<1>12. QED
  BY Zenon, <1>3, <1>9, <1>10, <1>11

(***************************************************************************)
(* The invariant holds                                                     *)
(***************************************************************************)

LEMMA EngineStart == Init => EngineInv
<1> SUFFICES ASSUME Init PROVE EngineInv
  OBVIOUS
<1>1. Blank \in States /\ Populated = {}
  BY Zenon DEF Init, Blank, States, Populated, chunkPopulated
<1>2. Tables /\ MutexInv /\ NoLostUpdate
  BY Zenon DEF Init, Tables, MutexInv, NoLostUpdate, Holding
<1>3. StoreInv
  BY Zenon, <1>1 DEF Init, StoreInv
<1>4. ASSUME NEW s \in Sessions PROVE SessionInv(s)
  <2>1. /\ pc[s] = "idle" /\ seen[s] = <<>> /\ status[s] = "ok" /\ cursor[s] = 0 /\ paging[s] = "new"
        /\ listed[s] = <<>> /\ stable[s] = {} /\ cmd[s].name = "none"
    BY Zenon DEF Init, NoCommand
  <2>2. CommandInv(s) /\ CopyInv(s) /\ RangeInv(s) /\ ScanInv(s)
    BY Zenon, <2>1 DEF CommandInv, CopyInv, RangeInv, ScanInv
  <2>3. PagesInv(s)
    BY <2>1 DEF PagesInv, Ascending
  <2>4. QED
    BY Zenon, <2>2, <2>3 DEF SessionInv
<1>5. QED
  BY Zenon, <1>2, <1>3, <1>4 DEF EngineInv

LEMMA ActsStep ==
    ASSUME EngineInv, NEW s \in Sessions, Acts(s)
    PROVE  EngineInv'
<1>1. Tables' /\ MutexInv' /\ \A t \in Sessions : t # s => Untouched(t)
  BY Zenon, StepTables, StepMutex DEF EngineInv
<1>2. \A t \in Sessions : SessionInv(t) /\ stable[t] \subseteq Populated
  BY Zenon DEF EngineInv, SessionInv, PagesInv
<1>3. CASE WriteBack(s) \/ chunkSet(s) \/ (chunkBatch(s) /\ WriteStates(s))
  <2>1. /\ StoreInv' /\ NoLostUpdate' /\ SessionInv(s)'
        /\ \A t \in Sessions : stable'[t] \subseteq stable[t] \cap Populated'
        /\ pc[s] \in Holding /\ Exclusive(s)
    <3>1. WriteBack(s) \/ (/\ pc[s] = "work" /\ cmd[s].name \in {"CHUNKSET", "CHUNKBATCH"} /\ WriteStates(s))
      BY Zenon, <1>3 DEF chunkSet, chunkBatch
    <3>2. QED
      BY Zenon, <3>1, WriteBackStep, WriteStatesStep
  <2>2. ASSUME NEW t \in Sessions, t # s PROVE SessionInv(t)'
    <3>1. pc[t] \notin Holding
      BY Zenon, <2>1, <2>2, WriterAlone DEF EngineInv
    <3>2. QED
      BY Zenon, <1>1, <1>2, <2>1, <2>2, <3>1, SessionWaits
  <2>3. QED
    BY Zenon, <1>1, <2>1, <2>2 DEF EngineInv
<1>4. CASE ~(WriteBack(s) \/ chunkSet(s) \/ (chunkBatch(s) /\ WriteStates(s)))
  <2>1. /\ UNCHANGED <<content, persisted, world>>
        /\ \A t \in Sessions : t # s => stable'[t] = stable[t]
    <3>1. CASE Lock(s)
      BY Zenon, <3>1 DEF Lock, BeginPages, EngineInv, Tables
    <3>2. CASE Unlock(s)
      BY Zenon, <3>2 DEF Unlock, EndPages, EngineInv, Tables
    <3>3. CASE ~Lock(s) /\ ~Unlock(s)
      BY Zenon, <1>4, <3>3 DEF Acts, Step, authenticate, Quit, Execute, get, ReadForUpdate, chunkBatch, walFlush,
         readChunkCommand, chunkVersion, appendWorldChunk, chunkScan, StoreFails, store
    <3>4. QED
      BY Zenon, <3>1, <3>2, <3>3
  <2>2. Populated' = Populated
    BY Zenon, <2>1 DEF Populated
  <2>3. StoreInv' /\ NoLostUpdate'
    BY Zenon, <2>1, <2>2 DEF EngineInv, StoreInv, NoLostUpdate
  <2>4. ASSUME NEW t \in Sessions, t # s PROVE SessionInv(t)'
    BY Zenon, <1>1, <1>2, <2>1, <2>2, <2>4, SessionWaits
  <2>5. SessionInv(s)'
    <3>1. CASE authenticate(s) \/ Quit(s)
      <4>1. Untouched(s) /\ stable'[s] = stable[s]
        BY Zenon, <3>1 DEF authenticate, Quit, Untouched, store, request, pages
      <4>2. QED
        BY Zenon, <1>2, <2>1, <2>2, <4>1, SessionWaits
    <3>2. CASE ~(authenticate(s) \/ Quit(s))
      BY Zenon, <1>4, <3>2, ExecuteStep, LockStep, DoneStep, ReadForUpdateStep, WorldChunkStep, UnlockStep,
         ScanStep DEF Acts, Step
    <3>3. QED
      BY Zenon, <3>1, <3>2
  <2>6. QED
    BY Zenon, <1>1, <2>3, <2>4, <2>5 DEF EngineInv
<1>5. QED
  BY Zenon, <1>3, <1>4

LEMMA EngineInvariant == Spec => []EngineInv
<1>1. EngineInv /\ UNCHANGED vars => EngineInv'
  <2> SUFFICES ASSUME EngineInv, UNCHANGED vars PROVE EngineInv'
    OBVIOUS
  <2>1. /\ UNCHANGED <<content, persisted, world, readers, writer, pc, cmd, left, seen, status, copy, cursor, at>>
        /\ UNCHANGED <<paging, listed, stable>>
    BY Zenon DEF vars, store, mutex, request, pages
  <2>2. Populated' = Populated
    BY Zenon, <2>1 DEF Populated
  <2>3. Tables' /\ StoreInv' /\ MutexInv' /\ NoLostUpdate'
    BY Zenon, <2>1, <2>2 DEF EngineInv, Tables, StoreInv, MutexInv, NoLostUpdate, Exclusive
  <2>4. ASSUME NEW t \in Sessions PROVE SessionInv(t)'
    <3>1. Untouched(t) /\ SessionInv(t) /\ stable'[t] \subseteq stable[t] \cap Populated'
      BY Zenon, <2>1, <2>2 DEF Untouched, EngineInv, SessionInv, PagesInv
    <3>2. QED
      BY Zenon, <2>1, <3>1, SessionWaits
  <2>5. QED
    BY Zenon, <2>3, <2>4 DEF EngineInv
<1>2. EngineInv /\ [Next]_vars => EngineInv'
  BY Zenon, <1>1, ActsStep DEF Next, Acts
<1>3. QED
  BY <1>2, EngineStart, PTL DEF Spec

(* Commands of different sessions do not lose each other's updates: a      *)
(* block written by set or unset goes into the chunk as it is, because the *)
(* engine's mutex is held from the read to the write, and nothing else     *)
(* replaces a chunk meanwhile.                                             *)
THEOREM UpdatesAreKept == Spec => []NoLostUpdate
<1>1. EngineInv => NoLostUpdate
  BY Zenon DEF EngineInv
<1>2. QED
  BY <1>1, EngineInvariant, PTL

(* CHUNKRANGE and CHUNKRADIUS answer with chunks as they are at one        *)
(* moment, whatever batches are written before and after: the mutex is     *)
(* held shared from the first chunk to the last.                           *)
THEOREM WorldReadsStaySnapshots == Spec => []WorldReadsAreSnapshots
<1>1. EngineInv => WorldReadsAreSnapshots
  <2>1. SUFFICES ASSUME EngineInv, NEW s \in Sessions, pc[s] = "unlock", cmd[s].name = "CHUNKRANGE",
                        left[s] = <<>>, status[s] = "ok"
                 PROVE  Range(seen[s]) = {<<c, content[c]>> : c \in Range(cmd[s].items) \cap Populated}
    BY Zenon DEF WorldReadsAreSnapshots
  <2>2. PICK done \in SUBSET Chunks : Collects(s, done)
    BY Zenon, <2>1 DEF EngineInv, SessionInv, RangeInv, Holding
  <2>3. Range(<<>>) = {}
    BY DEF Range
  <2>4. Range(cmd[s].items) = done
    BY Zenon, <2>1, <2>2, <2>3 DEF Collects
  <2>5. QED
    BY Zenon, <2>2, <2>4 DEF Collects
<1>2. QED
  BY <1>1, EngineInvariant, PTL

(* The pages of CHUNKSCAN list no chunk twice and, by the last of them,    *)
(* every chunk that had blocks all the time, whatever is written between   *)
(* two pages and whatever the page limit: the cursor is the last chunk     *)
(* listed, not the last one looked at.                                     *)
THEOREM PagesStayComplete == Spec => []PagesCoverStable
<1>1. EngineInv => PagesCoverStable
  <2>1. SUFFICES ASSUME EngineInv, NEW s \in Sessions
                 PROVE  /\ \A i, j \in DOMAIN listed[s] : i < j => listed[s][i] < listed[s][j]
                        /\ paging[s] = "end" => stable[s] \subseteq Range(listed[s])
    BY Zenon DEF PagesCoverStable
  <2>2. /\ listed[s] \in Seq(Chunks) /\ Ascending(listed[s])
        /\ paging[s] = "end" => stable[s] \subseteq Range(listed[s])
    BY Zenon, <2>1 DEF EngineInv, SessionInv, PagesInv
  <2>3. DOMAIN listed[s] = 1..Len(listed[s])
    BY <2>2
  <2>4. QED
    BY Zenon, <2>2, <2>3 DEF Ascending
<1>2. QED
  BY <1>1, EngineInvariant, PTL
================================================================================
