------------------------------ MODULE PoolProofs ------------------------------
(***************************************************************************)
(* The two bounded pools of the store.                                     *)
(*                                                                         *)
(* The WAL handles, for every number of goroutines, kinds and handles: a   *)
(* leased handle stays open.  That an idle handle, or a pool without       *)
(* leases, may be closed is read from counters, so the inductive invariant *)
(* has to say that the counters count: users[k] is the number of           *)
(* goroutines that hold kind k.                                            *)
(*                                                                         *)
(* The entries of the chunk cache, for every number of callers, chunks and *)
(* entries and every size of the maintenance queue: an entry has one       *)
(* owner, and a hit returns what was last put.  The inductive invariant    *)
(* says that the ring, the free list, the queue, the worker and the        *)
(* callers divide the allocated entries among them.                        *)
(***************************************************************************)
EXTENDS WALHandlePool, ChunkCache, FiniteSetTheorems, WellFoundedInduction, TLAPS

(***************************************************************************)
(* Lists without repetitions                                               *)
(***************************************************************************)

Distinct(q) == \A j, k \in 1..Len(q) : q[j] = q[k] => j = k

Listed(q) == {q[j] : j \in 1..Len(q)}

(* What the concatenation of two sequences holds. *)
LEMMA Concatenated ==
    ASSUME NEW S, NEW u \in Seq(S), NEW v \in Seq(S)
    PROVE  /\ u \o v \in Seq(S)
           /\ Len(u \o v) = Len(u) + Len(v)
           /\ \A j \in 1..(Len(u) + Len(v)) :
                 (u \o v)[j] = IF j <= Len(u) THEN u[j] ELSE v[j - Len(u)]
OBVIOUS

(* A list without one of its places. *)
LEMMA RemovedFromList ==
    ASSUME NEW S, NEW q \in Seq(S), Distinct(q), NEW i \in 1..Len(q),
           NEW p, p = RemoveAt(q, i)
    PROVE  /\ p \in Seq(S)
           /\ Len(p) = Len(q) - 1
           /\ Distinct(p)
           /\ Listed(p) = Listed(q) \ {q[i]}
<1> DEFINE u == SubSeq(q, 1, i - 1)
           v == SubSeq(q, i + 1, Len(q))
           w == u \o v
           n == Len(q)
<1>0. n \in Nat /\ i \in 1..n /\ u \in Seq(S) /\ v \in Seq(S)
  OBVIOUS
<1>1. /\ Len(u) = i - 1 /\ \A j \in 1..(i - 1) : u[j] = q[j]
      /\ Len(v) = n - i /\ \A j \in 1..(n - i) : v[j] = q[i + j]
  OBVIOUS
<1> HIDE DEF u, v
<1>c. /\ w \in Seq(S) /\ Len(w) = Len(u) + Len(v)
      /\ \A j \in 1..(Len(u) + Len(v)) : w[j] = IF j <= Len(u) THEN u[j] ELSE v[j - Len(u)]
  BY <1>0, Concatenated, Zenon
<1> HIDE DEF w, n
<1>2. w \in Seq(S) /\ Len(w) = n - 1
  BY <1>0, <1>1, <1>c
<1>3. \A j \in 1..(n - 1) : w[j] = IF j < i THEN q[j] ELSE q[j + 1]
  <2> SUFFICES ASSUME NEW j \in 1..(n - 1)
               PROVE  w[j] = IF j < i THEN q[j] ELSE q[j + 1]
    BY Zenon
  <2>1. w[j] = IF j <= Len(u) THEN u[j] ELSE v[j - Len(u)]
    BY <1>0, <1>1, <1>c
  <2>2. CASE j < i
    BY <1>0, <1>1, <2>1, <2>2
  <2>3. CASE j >= i
    <3>1. j - Len(u) \in 1..(n - i) /\ i + (j - Len(u)) = j + 1
      BY <1>0, <1>1, <2>3
    <3> QED BY <1>0, <1>1, <2>1, <2>3, <3>1
  <2> QED BY <1>0, <2>2, <2>3
<1>4. Distinct(w)
  <2> SUFFICES ASSUME NEW j \in 1..(n - 1), NEW k \in 1..(n - 1), w[j] = w[k]
               PROVE  j = k
    BY Zenon, <1>2 DEF Distinct
  <2>0. i \in Int /\ n \in Nat /\ Len(q) = n
    BY <1>0 DEF n
  <2> DEFINE place(x) == IF x < i THEN x ELSE x + 1
  <2>1. place(j) \in 1..n /\ place(k) \in 1..n /\ q[place(j)] = q[place(k)]
    <3>1. place(j) \in 1..n /\ place(k) \in 1..n
      BY <2>0
    <3>2. w[j] = q[place(j)] /\ w[k] = q[place(k)]
      BY <1>3, Zenon
    <3> QED BY <3>1, <3>2, Zenon
  <2>2. place(j) = place(k)
    BY Zenon, <2>0, <2>1 DEF Distinct, n
  <2> QED BY <1>0, <2>2
<1>5. Listed(w) = Listed(q) \ {q[i]}
  <2>1. ASSUME NEW j \in 1..(n - 1)
        PROVE  w[j] \in Listed(q) \ {q[i]}
    <3> DEFINE k == IF j < i THEN j ELSE j + 1
    <3>1. k \in 1..n /\ k # i /\ w[j] = q[k]
      BY <1>0, <1>3
    <3>2. q[k] # q[i]
      BY Zenon, <1>0, <3>1 DEF Distinct, n
    <3> QED BY Zenon, <3>1, <3>2 DEF Listed, n
  <2>2. ASSUME NEW k \in 1..n, q[k] # q[i]
        PROVE  q[k] \in Listed(w)
    <3>1. CASE k < i
      <4>1. k \in 1..(n - 1) /\ w[k] = q[k]
        BY <1>0, <1>3, <3>1
      <4> QED BY Zenon, <1>2, <4>1 DEF Listed
    <3>2. CASE k > i
      <4>1. k - 1 \in 1..(n - 1) /\ w[k - 1] = q[k]
        BY <1>0, <1>3, <3>2
      <4> QED BY Zenon, <1>2, <4>1 DEF Listed
    <3> QED BY <1>0, <2>2, <3>1, <3>2
  <2>3. \A x \in Listed(w) : x \in Listed(q) \ {q[i]}
    BY Zenon, <1>2, <2>1 DEF Listed
  <2>4. \A x \in Listed(q) \ {q[i]} : x \in Listed(w)
    BY <2>2, Zenon DEF Listed, n
  <2> QED BY Zenon, <2>3, <2>4
<1>6. p = w
  BY Zenon DEF w, u, v, RemoveAt
<1> QED BY <1>2, <1>4, <1>5, <1>6, Zenon DEF n

(* A list with a new first place. *)
LEMMA AddedToList ==
    ASSUME NEW S, NEW q \in Seq(S), Distinct(q), NEW r \in S, r \notin Listed(q)
    PROVE  /\ <<r>> \o q \in Seq(S)
           /\ Len(<<r>> \o q) = Len(q) + 1
           /\ Distinct(<<r>> \o q)
           /\ Listed(<<r>> \o q) = Listed(q) \cup {r}
<1> DEFINE w == <<r>> \o q
           n == Len(q)
<1>1. /\ n \in Nat /\ w \in Seq(S) /\ Len(w) = n + 1
      /\ w[1] = r /\ \A j \in 2..(n + 1) : w[j] = q[j - 1]
  OBVIOUS
<1> HIDE DEF w
<1>2. \A j \in 2..(n + 1) : j - 1 \in 1..n
  BY <1>1
<1>3. Distinct(w)
  <2> SUFFICES ASSUME NEW j \in 1..(n + 1), NEW k \in 1..(n + 1), w[j] = w[k]
               PROVE  j = k
    BY Zenon, <1>1 DEF Distinct
  <2>1. CASE j = 1 /\ k = 1
    BY Zenon, <2>1
  <2>2. CASE j # 1 /\ k # 1
    <3>1. j \in 2..(n + 1) /\ k \in 2..(n + 1)
      BY <1>1, <2>2
    <3>2. q[j - 1] = q[k - 1] /\ j - 1 \in 1..n /\ k - 1 \in 1..n
      BY Zenon, <1>1, <1>2, <3>1
    <3>3. j - 1 = k - 1
      BY Zenon, <3>2 DEF Distinct
    <3> QED BY <3>1, <3>3
  <2>3. CASE j = 1 /\ k # 1
    BY <1>1, <1>2, <2>3 DEF Listed
  <2>4. CASE j # 1 /\ k = 1
    BY <1>1, <1>2, <2>4 DEF Listed
  <2> QED BY Zenon, <2>1, <2>2, <2>3, <2>4
<1>4. Listed(w) = Listed(q) \cup {r}
  <2>1. ASSUME NEW j \in 1..(n + 1) PROVE w[j] \in Listed(q) \cup {r}
    <3>1. j = 1 \/ j \in 2..(n + 1)
      BY <1>1
    <3>2. QED
      BY Zenon, <1>1, <1>2, <3>1 DEF Listed
  <2>2. r \in Listed(w)
    BY <1>1 DEF Listed
  <2>3. ASSUME NEW k \in 1..n PROVE q[k] \in Listed(w)
    <3>1. k + 1 \in 2..(n + 1) /\ k + 1 \in 1..(n + 1) /\ (k + 1) - 1 = k
      BY <1>1
    <3>2. w[k + 1] = q[k]
      BY Zenon, <1>1, <3>1
    <3> QED BY Zenon, <1>1, <3>1, <3>2 DEF Listed
  <2>4. \A x \in Listed(w) : x \in Listed(q) \cup {r}
    BY Zenon, <1>1, <2>1 DEF Listed
  <2>5. \A x \in Listed(q) : x \in Listed(w)
    BY Zenon, <2>3 DEF Listed
  <2> QED BY Zenon, <2>2, <2>4, <2>5
<1> QED BY Zenon, <1>1, <1>3, <1>4 DEF w

(* A list without its last place. *)
LEMMA LastOfList ==
    ASSUME NEW S, NEW q \in Seq(S), Distinct(q), Len(q) > 0
    PROVE  /\ Front(q) \in Seq(S)
           /\ Len(Front(q)) = Len(q) - 1
           /\ Distinct(Front(q))
           /\ Listed(Front(q)) = Listed(q) \ {Last(q)}
           /\ Last(q) \in Listed(q)
<1>1. Len(q) \in 1..Len(q) /\ Front(q) = RemoveAt(q, Len(q))
  <2>1. Len(q) \in Nat /\ Len(q) \in 1..Len(q) /\ SubSeq(q, Len(q) + 1, Len(q)) = <<>>
    OBVIOUS
  <2>2. SubSeq(q, 1, Len(q) - 1) \in Seq(S)
    BY <2>1
  <2>3. SubSeq(q, 1, Len(q) - 1) \o <<>> = SubSeq(q, 1, Len(q) - 1)
    BY <2>2
  <2>4. QED
    BY Zenon, <2>1, <2>3 DEF RemoveAt, Front
<1>2. Last(q) = q[Len(q)] /\ q[Len(q)] \in Listed(q)
  BY Zenon, <1>1 DEF Last, Listed
<1>3. /\ Front(q) \in Seq(S) /\ Len(Front(q)) = Len(q) - 1 /\ Distinct(Front(q))
      /\ Listed(Front(q)) = Listed(q) \ {q[Len(q)]}
  BY <1>1, RemovedFromList
<1>4. QED
  BY <1>2, <1>3, Zenon

(* A list without its first place. *)
LEMMA HeadOfList ==
    ASSUME NEW S, NEW q \in Seq(S), Distinct(q), q # <<>>
    PROVE  /\ Tail(q) \in Seq(S)
           /\ Distinct(Tail(q))
           /\ Listed(Tail(q)) = Listed(q) \ {Head(q)}
           /\ Head(q) \in Listed(q)
<1>1. 1 \in 1..Len(q) /\ Tail(q) = RemoveAt(q, 1) /\ Head(q) = q[1]
  <2>1. Len(q) \in Nat /\ 1 \in 1..Len(q) /\ SubSeq(q, 1, 0) = <<>> /\ Head(q) = q[1]
    OBVIOUS
  <2>2. SubSeq(q, 2, Len(q)) = Tail(q) /\ Tail(q) \in Seq(S)
    OBVIOUS
  <2>3. <<>> \o Tail(q) = Tail(q)
    BY <2>2
  <2>4. QED
    BY <2>1, <2>2, <2>3 DEF RemoveAt
<1>2. q[1] \in Listed(q)
  BY Zenon, <1>1 DEF Listed
<1>3. Tail(q) \in Seq(S) /\ Distinct(Tail(q)) /\ Listed(Tail(q)) = Listed(q) \ {q[1]}
  BY <1>1, RemovedFromList, Zenon
<1>4. QED
  BY <1>1, <1>2, <1>3, Zenon

(* A list with a new last place. *)
LEMMA AppendedToList ==
    ASSUME NEW S, NEW q \in Seq(S), Distinct(q), NEW r \in S, r \notin Listed(q)
    PROVE  /\ Append(q, r) \in Seq(S)
           /\ Distinct(Append(q, r))
           /\ Listed(Append(q, r)) = Listed(q) \cup {r}
<1> DEFINE w == Append(q, r)
           n == Len(q)
<1>1. /\ n \in Nat /\ w \in Seq(S) /\ Len(w) = n + 1
      /\ w[n + 1] = r /\ \A j \in 1..n : w[j] = q[j]
  OBVIOUS
<1> HIDE DEF w
<1>2. \A j \in 1..(n + 1) : j = n + 1 \/ j \in 1..n
  BY <1>1
<1>3. \A j \in 1..n : w[j] # r /\ j \in 1..(n + 1)
  BY <1>1 DEF Listed
<1>4. Distinct(w)
  <2>1. ASSUME NEW j \in 1..(n + 1), NEW k \in 1..(n + 1), w[j] = w[k] PROVE j = k
    <3>1. CASE j \in 1..n /\ k \in 1..n
      BY Zenon, <1>1, <2>1, <3>1 DEF Distinct
    <3>2. QED
      BY <1>1, <1>2, <1>3, <2>1, <3>1, Zenon
  <2>2. QED
    BY Zenon, <1>1, <2>1 DEF Distinct
<1>5. Listed(w) = Listed(q) \cup {r}
  <2>1. \A j \in 1..(n + 1) : w[j] \in Listed(q) \cup {r}
    BY Zenon, <1>1, <1>2 DEF Listed
  <2>2. n + 1 \in 1..(n + 1)
    BY <1>1
  <2>3. \A j \in 1..n : q[j] \in Listed(w)
    BY Zenon, <1>1, <1>3 DEF Listed
  <2>4. r \in Listed(w)
    BY Zenon, <1>1, <2>2 DEF Listed
  <2>5. Listed(w) \subseteq Listed(q) \cup {r}
    BY Zenon, <1>1, <2>1 DEF Listed
  <2>6. Listed(q) \subseteq Listed(w)
    BY Zenon, <2>3 DEF Listed
  <2>7. QED
    BY Zenon, <2>4, <2>5, <2>6
<1>6. QED
  BY <1>1, <1>4, <1>5, Zenon DEF w

(* A list whose places from n + 1 on were moved in front of the others. *)
LEMMA RotatedList ==
    ASSUME NEW S, NEW q \in Seq(S), Distinct(q), NEW n \in 0..Len(q),
           NEW p, p = SubSeq(q, n + 1, Len(q)) \o SubSeq(q, 1, n)
    PROVE  /\ p \in Seq(S)
           /\ Len(p) = Len(q)
           /\ Distinct(p)
           /\ Listed(p) = Listed(q)
<1> DEFINE u == SubSeq(q, n + 1, Len(q))
           v == SubSeq(q, 1, n)
           w == u \o v
           m == Len(q)
           place(j) == IF j <= m - n THEN n + j ELSE j - (m - n)
<1>1. m \in Nat /\ n \in Nat /\ n <= m /\ u \in Seq(S) /\ v \in Seq(S)
  OBVIOUS
<1>2. /\ Len(u) = m - n /\ \A j \in 1..(m - n) : u[j] = q[n + j]
      /\ Len(v) = n /\ \A j \in 1..n : v[j] = q[j]
  BY <1>1
<1> HIDE DEF u, v
<1>3. /\ w \in Seq(S) /\ Len(w) = Len(u) + Len(v)
      /\ \A j \in 1..(Len(u) + Len(v)) : w[j] = IF j <= Len(u) THEN u[j] ELSE v[j - Len(u)]
  BY <1>1, Concatenated, Zenon
<1> HIDE DEF w, m
<1>4. w \in Seq(S) /\ Len(w) = m
  BY <1>1, <1>2, <1>3
<1>5. ASSUME NEW j \in 1..m PROVE place(j) \in 1..m /\ w[j] = q[place(j)]
  <2>1. w[j] = IF j <= m - n THEN u[j] ELSE v[j - (m - n)]
    <3>1. Len(u) + Len(v) = m
      BY <1>1, <1>2
    <3>2. QED
      BY <1>2, <1>3, <3>1, Zenon
  <2>2. CASE j <= m - n
    BY <1>1, <1>2, <2>1, <2>2
  <2>3. CASE ~(j <= m - n)
    <3>1. j - (m - n) \in 1..n /\ j - (m - n) \in 1..m
      BY <1>1, <2>3
    <3>2. QED
      BY Zenon, <1>2, <2>1, <2>3, <3>1
  <2>4. QED
    BY Zenon, <2>2, <2>3
<1>6. ASSUME NEW i \in 1..m PROVE \E j \in 1..m : place(j) = i
  <2>1. CASE i <= n
    <3>1. i + (m - n) \in 1..m /\ place(i + (m - n)) = i
      BY <1>1, <2>1
    <3>2. QED
      BY Zenon, <3>1
  <2>2. CASE ~(i <= n)
    <3>1. i - n \in 1..m /\ place(i - n) = i
      BY <1>1, <2>2
    <3>2. QED
      BY Zenon, <3>1
  <2>3. QED
    BY Zenon, <2>1, <2>2
<1>7. ASSUME NEW j \in 1..m, NEW k \in 1..m, place(j) = place(k) PROVE j = k
  BY <1>1, <1>7
<1> HIDE DEF place
<1>8. Distinct(w)
  <2>1. ASSUME NEW j \in 1..m, NEW k \in 1..m, w[j] = w[k] PROVE j = k
    <3>1. place(j) = place(k)
      BY <1>5, <2>1, Zenon DEF Distinct, m
    <3>2. QED
      BY Zenon, <1>7, <3>1
  <2>2. QED
    BY Zenon, <1>4, <2>1 DEF Distinct
<1>9. Listed(w) = Listed(q)
  <2>1. \A j \in 1..m : w[j] \in Listed(q)
    BY <1>5, Zenon DEF Listed, m
  <2>2. \A i \in 1..m : q[i] \in Listed(w)
    <3>1. ASSUME NEW i \in 1..m PROVE q[i] \in Listed(w)
      <4>1. PICK j \in 1..m : place(j) = i
        BY Zenon, <1>6
      <4>2. w[j] = q[i]
        BY Zenon, <1>5, <4>1
      <4>3. QED
        BY Zenon, <1>4, <4>2 DEF Listed
    <3>2. QED
      BY Zenon, <3>1
  <2>3. Listed(w) \subseteq Listed(q)
    BY Zenon, <1>4, <2>1 DEF Listed
  <2>4. Listed(q) \subseteq Listed(w)
    BY Zenon, <2>2 DEF Listed, m
  <2>5. QED
    BY <2>3, <2>4, Zenon
<1>10. p = w
  BY Zenon DEF w, u, v
<1>11. QED
  BY <1>4, <1>8, <1>9, <1>10, Zenon DEF m

(***************************************************************************)
(* The leases of WAL handles                                               *)
(***************************************************************************)

Places == {"idle", "trying", "waiting", "holding", "closing", "draining"}

(* The types the argument needs. *)
Typed ==
    /\ pc \in [Users -> Places]
    /\ kind \in [Users -> Kinds]
    /\ users \in [Kinds -> Nat]
    /\ active \in Nat
    /\ DOMAIN lease = Users

LeaseInv == Typed /\ LeasesCounted /\ LeaseStaysOpen

Leaseholders == {u \in Users : pc[u] = "holding"}

(* Waking the waiters of the condition variable ends and begins no lease. *)
LEMMA WokenHolds ==
    ASSUME NEW at \in [Users -> Places]
    PROVE  /\ Woken(at) \in [Users -> Places]
           /\ \A u \in Users : Woken(at)[u] = "holding" <=> at[u] = "holding"
  BY Zenon DEF Woken, Places

(* The sets whose sizes the counters keep are finite. *)
LEMMA LeaseholdersFinite ==
    /\ IsFiniteSet(Leaseholders)
    /\ \A k \in Kinds : IsFiniteSet(Holding(k))
  <1>1. Leaseholders \subseteq Users /\ \A k \in Kinds : Holding(k) \subseteq Users
    BY Zenon DEF Leaseholders, Holding
  <1> QED BY Zenon, <1>1, FS_Subset, PoolAssumption

(* Steps that end and begin no lease keep the counters right. *)
LEMMA CountsKept ==
    ASSUME LeasesCounted, users' = users, active' = active,
           \A u \in Users : pc'[u] = "holding" <=> pc[u] = "holding",
           \A u \in Users : pc[u] = "holding" => kind'[u] = kind[u]
    PROVE  LeasesCounted'
  <1>1. Leaseholders' = Leaseholders
    BY Zenon DEF Leaseholders
  <1>2. \A k \in Kinds : Holding(k)' = Holding(k)
    BY Zenon DEF Holding
  <1> QED BY Zenon, <1>1, <1>2 DEF LeasesCounted, Leaseholders

(* A counter that stands at zero has nobody to count. *)
LEMMA ZeroMeansNobody ==
    ASSUME Typed, LeasesCounted
    PROVE  /\ active = 0 => Leaseholders = {}
           /\ \A u \in Users : pc[u] = "holding" => users[kind[u]] # 0
  <1>1. active = Cardinality(Leaseholders)
    BY Zenon DEF LeasesCounted, Leaseholders
  <1>2. active = 0 => Leaseholders = {}
    BY <1>1, LeaseholdersFinite, FS_EmptySet, Zenon
  <1>3. ASSUME NEW u \in Users, pc[u] = "holding"
        PROVE  users[kind[u]] # 0
    <2>1. kind[u] \in Kinds /\ u \in Holding(kind[u])
      BY Zenon, <1>3 DEF Typed, Holding
    <2>2. users[kind[u]] = Cardinality(Holding(kind[u]))
      BY Zenon, <2>1 DEF LeasesCounted
    <2> QED BY Zenon, <2>1, <2>2, LeaseholdersFinite, FS_EmptySet
  <1> QED BY Zenon, <1>2, <1>3

(* A new lease is counted once, for its kind and in all. *)
LEMMA CountsGrow ==
    ASSUME Typed, LeasesCounted, NEW u \in Users, pc[u] # "holding",
           pc' = [pc EXCEPT ![u] = "holding"], kind' = kind,
           users' = [users EXCEPT ![kind[u]] = users[kind[u]] + 1],
           active' = active + 1
    PROVE  LeasesCounted'
  <1>1. kind[u] \in Kinds
    BY Zenon DEF Typed
  <1>2. Leaseholders' = Leaseholders \cup {u} /\ u \notin Leaseholders
    BY Zenon DEF Leaseholders, Typed
  <1>3. active' = Cardinality(Leaseholders')
    <2>1. active = Cardinality(Leaseholders)
      BY Zenon DEF LeasesCounted, Leaseholders
    <2> QED BY Zenon, <1>2, <2>1, LeaseholdersFinite, FS_AddElement
  <1>4. ASSUME NEW k \in Kinds
        PROVE  users'[k] = Cardinality(Holding(k)')
    <2>1. users[k] = Cardinality(Holding(k))
      BY Zenon DEF LeasesCounted
    <2>2. CASE k = kind[u]
      <3>1. Holding(k)' = Holding(k) \cup {u} /\ u \notin Holding(k)
        BY Zenon, <2>2 DEF Holding, Typed
      <3>2. users'[k] = users[k] + 1
        BY Zenon, <2>2 DEF Typed
      <3> QED BY <2>1, <3>1, <3>2, LeaseholdersFinite, FS_AddElement, Zenon
    <2>3. CASE k # kind[u]
      <3>1. Holding(k)' = Holding(k)
        BY Zenon, <2>3 DEF Holding, Typed
      <3>2. users'[k] = users[k]
        BY Zenon, <2>3 DEF Typed
      <3> QED BY Zenon, <2>1, <3>1, <3>2
    <2> QED BY Zenon, <2>2, <2>3
  <1> QED BY Zenon, <1>3, <1>4 DEF LeasesCounted, Leaseholders

(* A lease that ends is no longer counted. *)
LEMMA CountsShrink ==
    ASSUME Typed, LeasesCounted, NEW u \in Users, pc[u] = "holding",
           pc'[u] # "holding",
           \A w \in Users \ {u} : pc'[w] = "holding" <=> pc[w] = "holding",
           kind' = kind,
           users' = [users EXCEPT ![kind[u]] = users[kind[u]] - 1],
           active' = active - 1
    PROVE  LeasesCounted'
  <1>1. kind[u] \in Kinds
    BY Zenon DEF Typed
  <1>2. Leaseholders' = Leaseholders \ {u} /\ u \in Leaseholders
    BY Zenon DEF Leaseholders
  <1>3. active' = Cardinality(Leaseholders')
    <2>1. active = Cardinality(Leaseholders)
      BY Zenon DEF LeasesCounted, Leaseholders
    <2> QED BY <1>2, <2>1, LeaseholdersFinite, FS_RemoveElement, Zenon
  <1>4. ASSUME NEW k \in Kinds
        PROVE  users'[k] = Cardinality(Holding(k)')
    <2>1. users[k] = Cardinality(Holding(k))
      BY Zenon DEF LeasesCounted
    <2>2. CASE k = kind[u]
      <3>1. Holding(k)' = Holding(k) \ {u} /\ u \in Holding(k)
        BY Zenon, <2>2 DEF Holding
      <3>2. users'[k] = users[k] - 1
        BY Zenon, <2>2 DEF Typed
      <3> QED BY <2>1, <3>1, <3>2, LeaseholdersFinite, FS_RemoveElement, Zenon
    <2>3. CASE k # kind[u]
      <3>1. Holding(k)' = Holding(k)
        BY Zenon, <2>3 DEF Holding
      <3>2. users'[k] = users[k]
        BY Zenon, <2>3 DEF Typed
      <3> QED BY Zenon, <2>1, <3>1, <3>2
    <2> QED BY Zenon, <2>2, <2>3
  <1> QED BY Zenon, <1>3, <1>4 DEF LeasesCounted, Leaseholders

(* Opening a handle for u on top of handles that include every leased one. *)
LEMMA OpenKeeps ==
    ASSUME LeaseInv, NEW u \in Users, pc[u] = "trying", kind[u] \notin handles,
           NEW stay, NEW order, kind[u] \notin stay,
           \A w \in Users : pc[w] = "holding" => kind[w] \in stay,
           Open(u, stay, order)
    PROVE  LeaseInv'
  <1>1. /\ pc' = [pc EXCEPT ![u] = "holding"]
        /\ lease' = [lease EXCEPT ![u] = files + 1]
        /\ kind' = kind
        /\ active' = active + 1
        /\ users' = [users EXCEPT ![kind[u]] = 1]
        /\ handles' = stay \cup {kind[u]}
        /\ \A k \in Kinds : file'[k] = IF k = kind[u] THEN files + 1 ELSE
                                       IF k \in stay THEN file[k] ELSE 0
    BY Zenon DEF Open, Return
  <1>2. kind[u] \in Kinds
    BY Zenon DEF LeaseInv, Typed
  <1>3. users[kind[u]] = 0
    <2>1. Holding(kind[u]) = {}
      BY Zenon DEF Holding, LeaseInv, LeaseStaysOpen
    <2> QED BY Zenon, <1>2, <2>1, FS_EmptySet DEF LeaseInv, LeasesCounted
  <1>4. users' = [users EXCEPT ![kind[u]] = users[kind[u]] + 1]
    BY <1>1, <1>3
  <1>5. LeasesCounted'
    BY <1>1, <1>4, CountsGrow, Zenon DEF LeaseInv
  <1>6. Typed'
    BY <1>1, <1>2 DEF LeaseInv, Typed, Places
  <1>7. LeaseStaysOpen'
    BY Zenon, <1>1, <1>2 DEF LeaseInv, Typed, LeaseStaysOpen
  <1> QED BY Zenon, <1>5, <1>6, <1>7 DEF LeaseInv

(* A step that moves goroutines which hold nothing, and closes no leased   *)
(* handle, keeps the invariant.                                            *)
LEMMA OtherStepKeeps ==
    ASSUME LeaseInv, pc' \in [Users -> Places], kind' \in [Users -> Kinds],
           users' = users, active' = active, DOMAIN lease' = Users,
           \A w \in Users : pc'[w] = "holding" <=> pc[w] = "holding",
           \A w \in Users : pc[w] = "holding" =>
               /\ kind'[w] = kind[w] /\ lease'[w] = lease[w]
               /\ kind[w] \in handles' /\ file'[kind[w]] = file[kind[w]]
    PROVE  LeaseInv'
  <1>1. LeasesCounted'
    BY Zenon, CountsKept DEF LeaseInv
  <1>2. Typed'
    BY Zenon DEF LeaseInv, Typed
  <1>3. LeaseStaysOpen'
    BY DEF LeaseInv, LeaseStaysOpen
  <1> QED BY Zenon, <1>1, <1>2, <1>3 DEF LeaseInv

(* A failed open closes at most a handle that nobody has leased. *)
LEMMA OpenFailsKeeps ==
    ASSUME LeaseInv, NEW u \in Users, pc[u] = "trying", NEW stay, NEW order,
           \A w \in Users : pc[w] = "holding" => kind[w] \in stay,
           OpenFails(u, stay, order)
    PROVE  LeaseInv'
  <1>1. /\ pc' = [pc EXCEPT ![u] = "idle"]
        /\ lease' = [lease EXCEPT ![u] = 0]
        /\ kind' = kind /\ users' = users /\ active' = active
        /\ handles' = stay
        /\ \A k \in Kinds : k \in stay => file'[k] = file[k]
    BY Zenon DEF OpenFails, Return
  <1>2. Typed
    BY Zenon DEF LeaseInv
  <1>3. \A w \in Users : kind[w] \in Kinds
    BY Zenon, <1>2 DEF Typed
  <1>4. /\ pc' \in [Users -> Places] /\ kind' \in [Users -> Kinds] /\ DOMAIN lease' = Users
        /\ \A w \in Users : pc'[w] = "holding" <=> pc[w] = "holding"
        /\ \A w \in Users : pc[w] = "holding" => lease'[w] = lease[w]
    BY Zenon, <1>1, <1>2 DEF Typed, Places
  <1> QED BY Zenon, <1>1, <1>3, <1>4, OtherStepKeeps

(* acquire keeps the invariant: it evicts by the counters of leases. *)
LEMMA AcquireStep ==
    ASSUME LeaseInv, NEW u \in Users, acquire(u)
    PROVE  LeaseInv'
  <1>1. Typed /\ LeasesCounted /\ LeaseStaysOpen /\ pc[u] = "trying"
    BY Zenon DEF LeaseInv, acquire, acquireClosed, acquireShared, acquireOpened, acquireEvicting, acquireWaits,
       acquireBusy
  <1>2. \A w \in Users : pc[w] = "holding" => kind[w] \in handles
    BY Zenon, <1>1 DEF LeaseStaysOpen
  <1>3. CASE acquireClosed(u) \/ acquireBusy(u)
    <2>1. /\ pc' = [pc EXCEPT ![u] = "idle"]
          /\ lease' = [lease EXCEPT ![u] = 0]
          /\ kind' = kind /\ users' = users /\ active' = active
          /\ handles' = handles /\ file' = file
      BY Zenon, <1>3 DEF acquireClosed, acquireBusy, Return, pool
    <2>2. /\ pc' \in [Users -> Places] /\ kind' \in [Users -> Kinds] /\ DOMAIN lease' = Users
          /\ \A w \in Users : pc'[w] = "holding" <=> pc[w] = "holding"
          /\ \A w \in Users : pc[w] = "holding" => lease'[w] = lease[w]
      BY Zenon, <1>1, <2>1 DEF Typed, Places
    <2> QED BY Zenon, <1>2, <2>1, <2>2, OtherStepKeeps
  <1>4. CASE acquireWaits(u)
    <2>1. /\ pc' = [pc EXCEPT ![u] = "waiting"]
          /\ lease' = lease /\ kind' = kind /\ users' = users /\ active' = active
          /\ handles' = handles /\ file' = file
      BY Zenon, <1>4 DEF acquireWaits, pool
    <2>2. /\ pc' \in [Users -> Places] /\ kind' \in [Users -> Kinds] /\ DOMAIN lease' = Users
          /\ \A w \in Users : pc'[w] = "holding" <=> pc[w] = "holding"
      BY Zenon, <1>1, <2>1 DEF Typed, Places
    <2> QED BY Zenon, <1>2, <2>1, <2>2, OtherStepKeeps
  <1>5. CASE acquireShared(u)
    <2>1. /\ pc' = [pc EXCEPT ![u] = "holding"]
          /\ lease' = [lease EXCEPT ![u] = file[kind[u]]]
          /\ users' = [users EXCEPT ![kind[u]] = users[kind[u]] + 1]
          /\ active' = active + 1
          /\ kind' = kind /\ handles' = handles /\ file' = file
          /\ kind[u] \in handles
      BY Zenon, <1>5 DEF acquireShared, Return
    <2>2. LeasesCounted'
      BY <1>1, <2>1, CountsGrow, Zenon
    <2>3. Typed'
      BY <1>1, <2>1 DEF Typed, Places
    <2>4. LeaseStaysOpen'
      BY Zenon, <1>1, <2>1 DEF Typed, LeaseStaysOpen
    <2> QED BY Zenon, <2>2, <2>3, <2>4 DEF LeaseInv
  <1>6. CASE acquireOpened(u)
    <2>1. kind[u] \notin handles
      BY Zenon, <1>6 DEF acquireOpened
    <2>2. CASE Open(u, handles, recent)
      BY Zenon, <1>1, <1>2, <2>1, <2>2, OpenKeeps
    <2>3. CASE OpenFails(u, handles, recent)
      BY Zenon, <1>1, <1>2, <2>3, OpenFailsKeeps
    <2> QED BY Zenon, <1>6, <2>2, <2>3 DEF acquireOpened
  <1>7. CASE acquireEvicting(u)
    <2>1. kind[u] \notin handles
      BY Zenon, <1>7 DEF acquireEvicting
    <2>2. PICK i \in Idle :
             LET stay == handles \ {recent[i]}
                 order == RemoveAt(recent, i)
             IN  Open(u, stay, order) \/ OpenFails(u, stay, order)
      BY <1>7, Zenon DEF acquireEvicting
    <2> DEFINE stay == handles \ {recent[i]}
               order == RemoveAt(recent, i)
    <2>3. users[recent[i]] = 0
      BY Zenon DEF Idle
    <2>4. \A w \in Users : pc[w] = "holding" => kind[w] \in stay
      BY Zenon, <1>1, <1>2, <2>3, ZeroMeansNobody
    <2>5. kind[u] \notin stay
      BY Zenon, <2>1
    <2> HIDE DEF stay, order
    <2>6. CASE Open(u, stay, order)
      BY Zenon, <1>1, <2>1, <2>4, <2>5, <2>6, OpenKeeps
    <2>7. CASE OpenFails(u, stay, order)
      BY Zenon, <1>1, <2>4, <2>7, OpenFailsKeeps
    <2> QED BY Zenon, <2>2, <2>6, <2>7 DEF stay, order
  <1> QED BY Zenon, <1>3, <1>4, <1>5, <1>6, <1>7 DEF acquire

(* Timers, release and close keep the invariant. *)
LEMMA OtherSteps ==
    ASSUME LeaseInv, NEW u \in Users,
           \/ \E k \in Kinds : Call(u, k)
           \/ DeadlinePasses(u) \/ wakeAtDeadline(u) \/ release(u)
           \/ close(u) \/ closeResumes(u)
    PROVE  LeaseInv'
  <1>1. Typed /\ LeasesCounted /\ LeaseStaysOpen
    BY Zenon DEF LeaseInv
  <1>2. \A w \in Users : pc[w] = "holding" => kind[w] \in handles
    BY Zenon, <1>1 DEF LeaseStaysOpen
  <1>3. pc \in [Users -> Places] /\ Woken(pc) \in [Users -> Places]
        /\ \A w \in Users : Woken(pc)[w] = "holding" <=> pc[w] = "holding"
    BY Zenon, <1>1, WokenHolds DEF Typed
  <1>4. ASSUME NEW k \in Kinds, Call(u, k)
        PROVE  LeaseInv'
    <2>1. /\ pc[u] = "idle" /\ pc' = [pc EXCEPT ![u] = "trying"]
          /\ kind' = [kind EXCEPT ![u] = k]
          /\ lease' = lease /\ users' = users /\ active' = active
          /\ handles' = handles /\ file' = file
      BY Zenon, <1>4 DEF Call, pool
    <2>2. /\ pc' \in [Users -> Places] /\ kind' \in [Users -> Kinds] /\ DOMAIN lease' = Users
          /\ \A w \in Users : pc'[w] = "holding" <=> pc[w] = "holding"
          /\ \A w \in Users : pc[w] = "holding" => kind'[w] = kind[w]
      BY Zenon, <1>1, <2>1 DEF Typed, Places
    <2> QED BY Zenon, <1>2, <2>1, <2>2, OtherStepKeeps
  <1>5. CASE DeadlinePasses(u) \/ wakeAtDeadline(u)
    <2>1. /\ pc' = pc \/ pc' = Woken(pc)
          /\ kind' = kind /\ lease' = lease /\ users' = users /\ active' = active
          /\ handles' = handles /\ file' = file
      BY Zenon, <1>5 DEF DeadlinePasses, wakeAtDeadline, pool
    <2>2. /\ pc' \in [Users -> Places] /\ kind' \in [Users -> Kinds] /\ DOMAIN lease' = Users
          /\ \A w \in Users : pc'[w] = "holding" <=> pc[w] = "holding"
      BY Zenon, <1>1, <1>3, <2>1 DEF Typed
    <2> QED BY Zenon, <1>2, <2>1, <2>2, OtherStepKeeps
  <1>6. CASE release(u)
    <2> DEFINE at == [pc EXCEPT ![u] = "idle"]
    <2>1. /\ pc[u] = "holding" /\ pc' = Woken(at)
          /\ users' = [users EXCEPT ![kind[u]] = users[kind[u]] - 1]
          /\ active' = active - 1
          /\ lease' = [lease EXCEPT ![u] = 0]
          /\ kind' = kind /\ handles' = handles /\ file' = file
      BY Zenon, <1>6 DEF release
    <2>2. at \in [Users -> Places] /\ at[u] = "idle"
          /\ \A w \in Users \ {u} : at[w] = pc[w]
      BY Zenon, <1>3 DEF Places
    <2> HIDE DEF at
    <2>3. /\ pc' \in [Users -> Places] /\ pc'[u] # "holding"
          /\ \A w \in Users \ {u} : pc'[w] = "holding" <=> pc[w] = "holding"
      BY Zenon, <2>1, <2>2, WokenHolds
    <2>4. LeasesCounted'
      BY ZenonT(40), <1>1, <2>1, <2>3, CountsShrink
    <2>5. Typed'
      <3>1. kind[u] \in Kinds /\ users[kind[u]] \in Nat /\ users[kind[u]] # 0
        BY Zenon, <1>1, <2>1, ZeroMeansNobody DEF Typed
      <3>2. active \in Nat /\ active # 0
        BY Zenon, <1>1, <2>1, ZeroMeansNobody DEF Typed, Leaseholders
      <3>3. users[kind[u]] - 1 \in Nat /\ active - 1 \in Nat
        BY <3>1, <3>2
      <3>4. users' \in [Kinds -> Nat]
        BY Zenon, <1>1, <2>1, <3>1, <3>3 DEF Typed
      <3>5. active' \in Nat /\ kind' \in [Users -> Kinds] /\ DOMAIN lease' = Users
        BY Zenon, <1>1, <2>1, <3>3 DEF Typed
      <3> QED BY Zenon, <2>3, <3>4, <3>5 DEF Typed
    <2>6. LeaseStaysOpen'
      BY Zenon, <1>1, <2>1, <2>3 DEF Typed, LeaseStaysOpen
    <2> QED BY Zenon, <2>4, <2>5, <2>6 DEF LeaseInv
  <1>7. ASSUME NEW at \in [Users -> Places], CloseOrWait(u, at), pc[u] \in {"idle", "closing"},
               \A w \in Users : at[w] = "holding" <=> pc[w] = "holding",
               kind' = kind, lease' = lease, users' = users, active' = active
        PROVE  LeaseInv'
    <2>1. /\ pc' \in [Users -> Places] /\ kind' \in [Users -> Kinds] /\ DOMAIN lease' = Users
          /\ \A w \in Users : pc'[w] = "holding" <=> pc[w] = "holding"
      BY Zenon, <1>1, <1>7 DEF Typed, Places, CloseOrWait
    <2>2. CASE active # 0
      BY Zenon, <1>2, <1>7, <2>1, <2>2, OtherStepKeeps DEF CloseOrWait
    <2>3. CASE active = 0
      <3>1. \A w \in Users : pc[w] # "holding"
        BY Zenon, <1>1, <2>3, ZeroMeansNobody DEF Leaseholders
      <3> QED BY Zenon, <1>7, <2>1, <3>1, OtherStepKeeps
    <2> QED BY Zenon, <2>2, <2>3
  <1>8. CASE close(u)
    BY Zenon, <1>3, <1>7, <1>8 DEF close
  <1>9. CASE closeResumes(u)
    BY Zenon, <1>3, <1>7, <1>9 DEF closeResumes
  <1> QED BY Zenon, <1>4, <1>5, <1>6, <1>7, <1>8, <1>9

(* The new pool has one handle and no lease. *)
LEMMA PoolInit == Init => LeaseInv
  <1> SUFFICES ASSUME Init PROVE LeaseInv
    OBVIOUS
  <1>1. Leaseholders = {} /\ \A k \in Kinds : Holding(k) = {}
    BY Zenon DEF Init, Leaseholders, Holding
  <1>2. LeasesCounted
    BY Zenon, <1>1, FS_EmptySet DEF Init, LeasesCounted, Leaseholders
  <1>3. Typed
    BY Zenon, PoolAssumption DEF Init, Typed, Places
  <1>4. LeaseStaysOpen
    BY Zenon DEF Init, LeaseStaysOpen
  <1> QED BY Zenon, <1>2, <1>3, <1>4 DEF LeaseInv

(* Every step of the pool keeps the invariant. *)
LEMMA PoolStep == LeaseInv /\ [Next]_vars => LeaseInv'
  <1> SUFFICES ASSUME LeaseInv, [Next]_vars PROVE LeaseInv'
    OBVIOUS
  <1>1. CASE Next
    <2>1. PICK u \in Users :
             \/ \E k \in Kinds : Call(u, k)
             \/ acquire(u) \/ DeadlinePasses(u) \/ wakeAtDeadline(u) \/ release(u)
             \/ close(u) \/ closeResumes(u)
      BY Zenon, <1>1 DEF Next
    <2>2. CASE acquire(u)
      BY Zenon, <2>2, AcquireStep
    <2> QED BY Zenon, <2>1, <2>2, OtherSteps
  <1>2. CASE UNCHANGED vars
    <2>1. /\ pc' = pc /\ kind' = kind /\ lease' = lease /\ users' = users
          /\ active' = active /\ handles' = handles /\ file' = file
      BY Zenon, <1>2 DEF vars, pool
    <2> QED BY Zenon, <2>1 DEF LeaseInv, Typed, LeasesCounted, Holding, LeaseStaysOpen
  <1> QED BY Zenon, <1>1, <1>2

(* "A checked-out handle cannot be evicted or closed": between acquire and *)
(* release the file a goroutine was given is the open one of its kind,     *)
(* whatever other goroutines acquire, evict or close.                      *)
THEOREM LeasesStayOpen == Spec => []LeaseStaysOpen
  <1>1. LeaseInv => LeaseStaysOpen
    BY Zenon DEF LeaseInv
  <1> QED BY PoolInit, PoolStep, <1>1, PTL DEF Spec

(* users and active count the leases, so that zero means idle: what        *)
(* evictLeastRecentIdle and close rely on.                                 *)
THEOREM LeasesStayCounted == Spec => []LeasesCounted
  <1>1. LeaseInv => LeasesCounted
    BY Zenon DEF LeaseInv
  <1> QED BY PoolInit, PoolStep, <1>1, PTL DEF Spec

(***************************************************************************)
(* The order of use of WAL handles                                         *)
(***************************************************************************)

(* The list of the pool holds every open handle once, and no more of them  *)
(* than the bound.                                                         *)
Ordered(q, open) ==
    /\ q \in Seq(Kinds) /\ Distinct(q)
    /\ Listed(q) = open
    /\ IsFiniteSet(open)
    /\ Len(q) = Cardinality(open)

OrderInv == Ordered(recent, handles) /\ Cardinality(handles) <= MaxOpen

(* A place less: what evictLeastRecentIdle leaves. *)
LEMMA OrderedWithout ==
    ASSUME NEW q, NEW open, Ordered(q, open), NEW i \in DOMAIN q
    PROVE  /\ Ordered(RemoveAt(q, i), open \ {q[i]})
           /\ q[i] \in open
           /\ Cardinality(open \ {q[i]}) = Cardinality(open) - 1
<1>1. q \in Seq(Kinds) /\ Distinct(q) /\ i \in 1..Len(q) /\ Listed(q) = open
      /\ IsFiniteSet(open) /\ Len(q) = Cardinality(open)
  BY DEF Ordered
<1>2. q[i] \in open
  BY Zenon, <1>1 DEF Listed
<1>3. IsFiniteSet(open \ {q[i]}) /\ Cardinality(open \ {q[i]}) = Cardinality(open) - 1
  BY Zenon, <1>1, <1>2, FS_RemoveElement
<1> DEFINE p == RemoveAt(q, i)
<1> HIDE DEF p
<1>4. p \in Seq(Kinds) /\ Len(p) = Len(q) - 1 /\ Distinct(p) /\ Listed(p) = Listed(q) \ {q[i]}
  <2>1. p = RemoveAt(q, i)
    BY Zenon DEF p
  <2> QED BY <1>1, <2>1, RemovedFromList, Zenon
<1>5. Ordered(p, open \ {q[i]})
  BY <1>1, <1>3, <1>4, Zenon DEF Ordered
<1> QED BY Zenon, <1>2, <1>3, <1>5 DEF p

(* A handle more, in front: what openHandle adds. *)
LEMMA OrderedWith ==
    ASSUME NEW q, NEW open, Ordered(q, open), NEW k \in Kinds, k \notin open
    PROVE  /\ Ordered(<<k>> \o q, open \cup {k})
           /\ Cardinality(open \cup {k}) = Cardinality(open) + 1
<1>1. q \in Seq(Kinds) /\ Distinct(q) /\ k \notin Listed(q) /\ Listed(q) = open
      /\ IsFiniteSet(open) /\ Len(q) = Cardinality(open)
  BY Zenon DEF Ordered
<1>2. IsFiniteSet(open \cup {k}) /\ Cardinality(open \cup {k}) = Cardinality(open) + 1
  BY Zenon, <1>1, FS_AddElement
<1> DEFINE p == <<k>> \o q
<1> HIDE DEF p
<1>3. p \in Seq(Kinds) /\ Len(p) = Len(q) + 1 /\ Distinct(p) /\ Listed(p) = Listed(q) \cup {k}
  <2>1. \A S : \A u \in Seq(S) : \A r \in S : Distinct(u) /\ r \notin Listed(u) =>
           /\ <<r>> \o u \in Seq(S) /\ Len(<<r>> \o u) = Len(u) + 1
           /\ Distinct(<<r>> \o u) /\ Listed(<<r>> \o u) = Listed(u) \cup {r}
    BY ZenonT(30), AddedToList
  <2>2. q \in Seq(Kinds) /\ Distinct(q) /\ k \notin Listed(q)
    BY Zenon, <1>1
  <2>3. QED
    BY ZenonT(30), <2>1, <2>2 DEF p
<1>4. Ordered(p, open \cup {k})
  BY <1>1, <1>2, <1>3, Zenon DEF Ordered
<1> QED BY Zenon, <1>2, <1>4 DEF p

(* acquire opens a handle, or fails to, where the others leave room. *)
LEMMA OpenOrdered ==
    ASSUME NEW u \in Users, kind[u] \in Kinds, NEW stay, NEW order,
           Ordered(order, stay), Cardinality(stay) < MaxOpen, kind[u] \notin stay,
           Open(u, stay, order) \/ OpenFails(u, stay, order)
    PROVE  OrderInv'
<1>1. IsFiniteSet(stay) /\ Cardinality(stay) \in Nat /\ MaxOpen \in Nat
  BY Zenon, FS_CardinalityType, PoolAssumption DEF Ordered
<1>2. CASE Open(u, stay, order)
  <2>1. handles' = stay \cup {kind[u]} /\ recent' = <<kind[u]>> \o order
    BY <1>2, Zenon DEF Open
  <2>2. /\ Ordered(<<kind[u]>> \o order, stay \cup {kind[u]})
        /\ Cardinality(stay \cup {kind[u]}) = Cardinality(stay) + 1
    BY OrderedWith, Zenon
  <2>3. Ordered(recent', handles') /\ Cardinality(handles') <= MaxOpen
    BY <1>1, <2>1, <2>2
  <2> QED BY Zenon, <2>3 DEF OrderInv, Ordered, Distinct, Listed
<1>3. CASE OpenFails(u, stay, order)
  <2>1. handles' = stay /\ recent' = order
    BY <1>3, Zenon DEF OpenFails
  <2>2. Ordered(recent', handles') /\ Cardinality(handles') <= MaxOpen
    BY <1>1, <2>1
  <2> QED BY Zenon, <2>2 DEF OrderInv, Ordered, Distinct, Listed
<1> QED BY Zenon, <1>2, <1>3

(* Sharing a handle moves it to the front. *)
LEMMA FrontOrdered ==
    ASSUME NEW k \in handles, Ordered(recent, handles)
    PROVE  Ordered(ToFront(k), handles)
<1> DEFINE i == CHOOSE i \in DOMAIN recent : recent[i] = k
<1>1. k \in Kinds /\ i \in DOMAIN recent /\ recent[i] = k
  <2>1. \E j \in DOMAIN recent : recent[j] = k
    BY DEF Ordered, Listed
  <2> QED BY <2>1 DEF Ordered
<1> HIDE DEF i
<1>2. Ordered(RemoveAt(recent, i), handles \ {k})
  BY Zenon, <1>1, OrderedWithout
<1>3. Ordered(<<k>> \o RemoveAt(recent, i), (handles \ {k}) \cup {k})
  <2>1. k \notin handles \ {k}
    OBVIOUS
  <2> QED BY <1>1, <1>2, <2>1, OrderedWith, Zenon
<1>4. (handles \ {k}) \cup {k} = handles
  OBVIOUS
<1> QED BY Zenon, <1>3, <1>4 DEF ToFront, i

(* Every step keeps the list in step with the open handles. *)
LEMMA OrderStep ==
    ASSUME Typed, OrderInv, [Next]_vars
    PROVE  OrderInv'
<1>1. /\ Ordered(recent, handles) /\ Cardinality(handles) <= MaxOpen
      /\ Cardinality(handles) \in Nat /\ MaxOpen \in Nat
  BY Zenon, FS_CardinalityType, PoolAssumption DEF OrderInv, Ordered
<1>2. CASE UNCHANGED <<recent, handles>>
  BY Zenon, <1>2 DEF OrderInv, Ordered, Distinct, Listed
<1>3. ASSUME NEW u \in Users, acquireShared(u) PROVE OrderInv'
  <2>1. recent' = ToFront(kind[u]) /\ handles' = handles /\ kind[u] \in handles
    BY <1>3, Zenon DEF acquireShared
  <2>2. Ordered(recent', handles')
    BY Zenon, <1>1, <2>1, FrontOrdered
  <2> QED BY Zenon, <1>1, <2>1, <2>2 DEF OrderInv, Ordered, Distinct, Listed
<1>4. ASSUME NEW u \in Users, acquireOpened(u) PROVE OrderInv'
  <2>1. /\ Open(u, handles, recent) \/ OpenFails(u, handles, recent)
        /\ kind[u] \notin handles /\ Cardinality(handles) < MaxOpen /\ kind[u] \in Kinds
    BY <1>4, Zenon DEF acquireOpened, Typed
  <2> QED BY <1>1, <2>1, OpenOrdered, Zenon
<1>5. ASSUME NEW u \in Users, acquireEvicting(u) PROVE OrderInv'
  <2>1. PICK i \in Idle :
           LET stay == handles \ {recent[i]}
               order == RemoveAt(recent, i)
           IN  Open(u, stay, order) \/ OpenFails(u, stay, order)
    BY <1>5, Zenon DEF acquireEvicting
  <2>2. i \in DOMAIN recent /\ kind[u] \notin handles /\ kind[u] \in Kinds
    BY Zenon, <1>5 DEF acquireEvicting, Idle, Typed
  <2> DEFINE stay == handles \ {recent[i]}
             order == RemoveAt(recent, i)
  <2>3. Ordered(order, stay) /\ Cardinality(stay) = Cardinality(handles) - 1
    BY <1>1, <2>2, OrderedWithout, Zenon
  <2>4. kind[u] \notin stay /\ (Open(u, stay, order) \/ OpenFails(u, stay, order))
    BY Zenon, <2>1, <2>2
  <2> HIDE DEF stay, order
  <2>5. Cardinality(stay) < MaxOpen
    BY <1>1, <2>3
  <2> QED BY <2>2, <2>3, <2>4, <2>5, OpenOrdered, Zenon
<1>6. ASSUME handles' = {}, recent' = <<>> PROVE OrderInv'
  <2>1. Ordered(recent', handles') /\ Cardinality(handles') <= MaxOpen
    BY <1>1, <1>6, FS_EmptySet DEF Ordered, Distinct, Listed
  <2> QED BY Zenon, <2>1 DEF OrderInv, Ordered, Distinct, Listed
<1>7. ASSUME NEW u \in Users, close(u) \/ closeResumes(u) PROVE OrderInv'
  <2>1. UNCHANGED <<recent, handles>> \/ (handles' = {} /\ recent' = <<>>)
    BY Zenon, <1>7 DEF close, closeResumes, CloseOrWait
  <2> QED BY Zenon, <1>2, <1>6, <2>1
<1>8. ASSUME NEW u \in Users, acquireClosed(u) \/ acquireWaits(u) \/ acquireBusy(u) PROVE OrderInv'
  BY Zenon, <1>2, <1>8 DEF acquireClosed, acquireWaits, acquireBusy, pool
<1>9. ASSUME NEW u \in Users,
             (\E k \in Kinds : Call(u, k)) \/ DeadlinePasses(u) \/ wakeAtDeadline(u) \/ release(u)
      PROVE  OrderInv'
  BY Zenon, <1>2, <1>9 DEF Call, DeadlinePasses, wakeAtDeadline, release, pool
<1>10. CASE UNCHANGED vars
  BY Zenon, <1>2, <1>10 DEF vars, pool
<1>11. CASE Next
  <2>1. PICK u \in Users :
           \/ \E k \in Kinds : Call(u, k)
           \/ acquire(u) \/ DeadlinePasses(u) \/ wakeAtDeadline(u) \/ release(u)
           \/ close(u) \/ closeResumes(u)
    BY Zenon, <1>11 DEF Next
  <2>2. CASE acquire(u)
    BY Zenon, <1>3, <1>4, <1>5, <1>8, <2>2 DEF acquire
  <2> QED BY Zenon, <1>7, <1>9, <2>1, <2>2
<1> QED BY Zenon, <1>10, <1>11

(* The bound on open handles holds, the order of use lists every open      *)
(* handle once, so that evictLeastRecentIdle considers all of them, and    *)
(* users and active count the leases, for every bound and every number of  *)
(* goroutines.                                                             *)
THEOREM PoolStaysAccounted == Spec => []PoolAccounted
<1>1. Init => OrderInv
  <2> SUFFICES ASSUME Init PROVE OrderInv
    OBVIOUS
  <2>1. handles = {Append0} /\ recent = <<Append0>> /\ Append0 \in Kinds
    BY Zenon, PoolAssumption DEF Init
  <2>2. IsFiniteSet({Append0}) /\ Cardinality({Append0}) = 1
    BY Zenon, FS_Singleton
  <2>3. /\ <<Append0>> \in Seq(Kinds) /\ Len(<<Append0>>) = 1
        /\ Distinct(<<Append0>>) /\ Listed(<<Append0>>) = {Append0}
    BY <2>1 DEF Distinct, Listed
  <2> QED BY <2>1, <2>2, <2>3, PoolAssumption DEF OrderInv, Ordered
<1>2. LeaseInv /\ OrderInv => PoolAccounted
  <2> SUFFICES ASSUME LeaseInv, OrderInv PROVE PoolAccounted
    OBVIOUS
  <2>1. Range(recent) = handles
    BY DEF OrderInv, Ordered, Listed, Range
  <2> QED BY Zenon, <2>1 DEF PoolAccounted, LeaseInv, OrderInv, Ordered
<1>3. LeaseInv /\ OrderInv /\ [Next]_vars => OrderInv'
  BY Zenon, OrderStep DEF LeaseInv
<1> QED BY PoolInit, PoolStep, <1>1, <1>2, <1>3, PTL DEF Spec

(***************************************************************************)
(* Who holds the entries of the cache                                      *)
(***************************************************************************)

(* Who holds the entries: the ring, the free list, the queue, the worker,  *)
(* a caller.                                                               *)
ByWorker == {worker} \ {0}

ByCallers == {inline[p] : p \in Callers} \ {0}

Apart(R, F, Q, W, I, A) ==
    /\ F \cap R = {}
    /\ Q \cap (R \cup F) = {}
    /\ W \cap (R \cup F \cup Q) = {}
    /\ I \cap (R \cup F \cup Q \cup W) = {}
    /\ R \cup F \cup Q \cup W \cup I = A

EntriesHeld == Apart(Listed(ring), Listed(free), Listed(queue), ByWorker, ByCallers, Entries)

CacheTyped ==
    /\ allocated \in Nat
    /\ ring \in Seq(Nat) /\ Distinct(ring)
    /\ free \in Seq(Nat) /\ Distinct(free)
    /\ queue \in Seq(Nat) /\ Distinct(queue)
    /\ worker \in Nat
    /\ inline \in [Callers -> Nat]
    /\ \A p, q \in Callers : inline[p] = inline[q] => p = q \/ inline[p] = 0

(* The index ix finds the residents R, which have the coordinates cd, and  *)
(* only them.                                                              *)
Mapped(ix, R, cd) ==
    /\ ix \in [Coords -> Nat]
    /\ \A e \in R : cd[e] \in Coords /\ ix[cd[e]] = e
    /\ \A c \in Coords : ix[c] # 0 => ix[c] \in R /\ cd[ix[c]] = c

(* The buffers bf of the residents R hold what was last put. *)
Latest(R, cd, bf, put) == \A e \in R : cd[e] \in DOMAIN put /\ bf[e] = put[cd[e]]

ResidentsFound == Mapped(index, Listed(ring), coord)

ResidentsCounted == loaded = Len(ring) /\ Len(ring) <= MaxLoaded

ResidentsLatest == DOMAIN buffer = Listed(ring) /\ Latest(Listed(ring), coord, buffer, last)

CacheInv == CacheTyped /\ EntriesHeld /\ ResidentsFound /\ ResidentsCounted /\ ResidentsLatest

(* Range and Listed name the same set. *)
LEMMA ListedIs ==
    ASSUME NEW q \in Seq(Nat)
    PROVE  Range(q) = Listed(q)
BY DEF Range, Listed

(* Moving to the front, or taking out, a resident entry. *)
LEMMA TakenOut ==
    ASSUME ring \in Seq(Nat), Distinct(ring), NEW e \in Listed(ring)
    PROVE  /\ Without(e) \in Seq(Nat) /\ Distinct(Without(e))
           /\ Len(Without(e)) = Len(ring) - 1 /\ Listed(Without(e)) = Listed(ring) \ {e}
           /\ moveToFront(e) \in Seq(Nat) /\ Distinct(moveToFront(e))
           /\ Len(moveToFront(e)) = Len(ring) /\ Listed(moveToFront(e)) = Listed(ring)
<1> DEFINE i == CHOOSE j \in DOMAIN ring : ring[j] = e
           w == Without(e)
<1>1. i \in 1..Len(ring) /\ ring[i] = e
  BY DEF Listed
<1>2. w = RemoveAt(ring, i)
  BY Zenon DEF Without
<1> HIDE DEF i, w
<1>3. w \in Seq(Nat) /\ Len(w) = Len(ring) - 1 /\ Distinct(w) /\ Listed(w) = Listed(ring) \ {ring[i]}
  BY <1>1, <1>2, RemovedFromList, Zenon
<1>4. e \in Nat /\ e \notin Listed(w) /\ Listed(w) = Listed(ring) \ {e} /\ Len(ring) \in Nat
  BY <1>1, <1>3
<1>5. /\ <<e>> \o w \in Seq(Nat) /\ Len(<<e>> \o w) = Len(w) + 1
      /\ Distinct(<<e>> \o w) /\ Listed(<<e>> \o w) = Listed(w) \cup {e}
  BY <1>3, <1>4, AddedToList
<1>6. Len(w) + 1 = Len(ring) /\ Listed(w) \cup {e} = Listed(ring)
  BY <1>3, <1>4
<1>7. moveToFront(e) = <<e>> \o w
  BY Zenon DEF moveToFront, w
<1>8. QED
  BY <1>3, <1>4, <1>5, <1>6, <1>7, Zenon DEF w

(* A non-empty set of places has a last one. *)
LEMMA MaxExists ==
    ASSUME NEW n \in Nat, NEW I \in SUBSET (0..n), I # {}
    PROVE  Max(I) \in I
<1> DEFINE T == {n - i : i \in I}
<1>1. \A i \in I : n - i \in Nat /\ i \in Int
  OBVIOUS
<1>0. T # {} /\ T \subseteq Nat
  BY Zenon, <1>1
<1>2. PICK m \in T : \A k \in T : ~(<<k, m>> \in OpToRel(<, Nat))
  BY <1>0, WFMin, NatLessThanWellFounded, Zenon
<1>3. \A k \in T : ~(k < m)
  BY <1>0, <1>2, Zenon DEF OpToRel
<1>4. PICK i \in I : m = n - i
  OBVIOUS
<1>5. \A j \in I : i >= j
  <2>1. ASSUME NEW j \in I PROVE i >= j
    <3>1. n - j \in T
      BY Zenon
    <3>2. ~(n - j < n - i) /\ i \in Int /\ j \in Int
      BY <1>1, <1>3, <1>4, <3>1, Zenon
    <3>3. QED
      BY <3>1, <3>2
  <2>2. QED
    BY Zenon, <2>1
<1>6. QED
  BY <1>5, Zenon DEF Max

(* The rotation of evictionCandidate keeps the residents. *)
LEMMA RotationKeeps ==
    ASSUME ring \in Seq(Nat), Distinct(ring)
    PROVE  /\ Rotated \in Seq(Nat) /\ Distinct(Rotated)
           /\ Len(Rotated) = Len(ring) /\ Listed(Rotated) = Listed(ring)
<1> DEFINE I == {i \in DOMAIN ring : ring[i] \notin used} \cup {0}
           n == Max(I)
           u == SubSeq(ring, n + 1, Len(ring))
<1>1. n \in 0..Len(ring)
  <2>1. Len(ring) \in Nat /\ I \in SUBSET (0..Len(ring)) /\ I # {}
    OBVIOUS
  <2>2. QED
    BY <2>1, MaxExists, Zenon
<1>2. PassedOver = u
  BY Zenon DEF PassedOver
<1> HIDE DEF n
<1>3. Len(ring) - Len(u) = n
  BY <1>1
<1>4. Rotated = u \o SubSeq(ring, 1, n)
  BY <1>2, <1>3, Zenon DEF Rotated
<1>5. QED
  BY <1>1, <1>4, RotatedList, Zenon

(***************************************************************************)
(* Moves of an entry between its holders                                   *)
(***************************************************************************)

LEMMA ApartAdmitted ==
    ASSUME NEW R, NEW F, NEW Q, NEW W, NEW I, NEW A, Apart(R, F, Q, W, I, A),
           NEW e, e \notin R \cup Q \cup W \cup I
    PROVE  Apart(R \cup {e}, F \ {e}, Q, W, I, A \cup {e})
BY Zenon DEF Apart

LEMMA ApartEvicted ==
    ASSUME NEW R, NEW F, NEW Q, NEW W, NEW I, NEW A, Apart(R, F, Q, W, I, A), NEW x \in R,
           NEW e, e \notin R \cup Q \cup W \cup I
    PROVE  Apart((R \ {x}) \cup {e}, F \ {e}, Q \cup {x}, W, I, A \cup {e})
BY Zenon DEF Apart

LEMMA ApartUnlinked ==
    ASSUME NEW R, NEW F, NEW Q, NEW W, NEW I, NEW A, Apart(R, F, Q, W, I, A), NEW x \in R
    PROVE  /\ Apart(R \ {x}, F, Q \cup {x}, W, I, A)
           /\ Apart(R \ {x}, F, Q, W, I \cup {x}, A)
BY Zenon DEF Apart

LEMMA ApartMaintained ==
    ASSUME NEW R, NEW F, NEW Q, NEW W, NEW I, NEW A, Apart(R, F, Q, W, I, A), NEW x
    PROVE  /\ x \in I => Apart(R, F \cup {x}, Q, W, I \ {x}, A)
           /\ W = {x} => Apart(R, F \cup {x}, Q, {}, I, A)
           /\ W = {} /\ x \in Q => Apart(R, F, Q \ {x}, {x}, I, A)
BY Zenon DEF Apart

(* takeFreeEntry returns an entry that nobody but the free list held. *)
LEMMA FreeEntryTaken ==
    ASSUME CacheTyped, EntriesHeld, NEW e, takeFreeEntry(e)
    PROVE  /\ e \in Nat \ {0}
           /\ e \notin Listed(ring) \cup Listed(queue) \cup ByWorker \cup ByCallers
           /\ free' \in Seq(Nat) /\ Distinct(free') /\ Listed(free') = Listed(free) \ {e}
           /\ allocated' \in Nat /\ Entries' = Entries \cup {e}
<1>1. CASE free # <<>> /\ e = Last(free) /\ free' = Front(free) /\ allocated' = allocated
  <2>1. free \in Seq(Nat) /\ Distinct(free) /\ Len(free) > 0 /\ allocated \in Nat
    BY <1>1 DEF CacheTyped
  <2>2. /\ free' \in Seq(Nat) /\ Distinct(free') /\ Listed(free') = Listed(free) \ {e}
        /\ e \in Listed(free)
    BY <1>1, <2>1, LastOfList, Zenon
  <2>3. e \in Entries /\ e \notin Listed(ring) \cup Listed(queue) \cup ByWorker \cup ByCallers
    BY Zenon, <2>2 DEF EntriesHeld, Apart
  <2>4. Entries' = Entries \cup {e} /\ e \in Nat \ {0}
    BY <1>1, <2>1, <2>3 DEF Entries
  <2>5. QED
    BY <1>1, <2>1, <2>2, <2>3, <2>4, Zenon
<1>2. CASE free = <<>> /\ e = allocated + 1 /\ allocated' = e /\ free' = free
  <2>1. allocated \in Nat /\ e \notin Entries /\ e \in Nat \ {0} /\ Entries' = Entries \cup {e}
    BY <1>2 DEF CacheTyped, Entries
  <2>2. e \notin Listed(ring) \cup Listed(free) \cup Listed(queue) \cup ByWorker \cup ByCallers
    BY Zenon, <2>1 DEF EntriesHeld, Apart
  <2>3. Listed(free) = Listed(free) \ {e}
    BY Zenon, <2>2
  <2>4. QED
    BY Zenon, <1>2, <2>1, <2>2, <2>3 DEF CacheTyped
<1>3. QED
  BY Zenon, <1>1, <1>2 DEF takeFreeEntry

(* What is resident is an entry, and not 0. *)
LEMMA ResidentIsEntry ==
    ASSUME CacheTyped, EntriesHeld, ResidentsFound
    PROVE  /\ 0 \notin Listed(ring) \cup Listed(free) \cup Listed(queue)
           /\ \A c \in Coords : index[c] # 0 => index[c] \in Listed(ring)
<1>1. 0 \notin Entries
  BY DEF CacheTyped, Entries
<1>2. QED
  BY Zenon, <1>1 DEF EntriesHeld, Apart, ResidentsFound, Mapped

(* admit puts a new resident in front. *)
LEMMA RingAdmitted ==
    ASSUME NEW stay \in Seq(Nat), Distinct(stay), NEW e \in Nat, e \notin Listed(stay),
           NEW c, NEW v, NEW touched, admit(e, c, v, stay, touched)
    PROVE  /\ ring' \in Seq(Nat) /\ Distinct(ring')
           /\ Len(ring') = Len(stay) + 1 /\ Listed(ring') = Listed(stay) \cup {e}
<1>1. ring' = <<e>> \o stay
  BY Zenon DEF admit
<1>2. QED
  BY <1>1, AddedToList

(* The victim leaves the residents, the others stay. *)
LEMMA VictimLeaves ==
    ASSUME CacheTyped, Len(ring) > 0
    PROVE  /\ evictionCandidate \in Listed(ring)
           /\ Front(Rotated) \in Seq(Nat) /\ Distinct(Front(Rotated))
           /\ Len(Front(Rotated)) = Len(ring) - 1
           /\ Listed(Front(Rotated)) = Listed(ring) \ {evictionCandidate}
<1>1. /\ Rotated \in Seq(Nat) /\ Distinct(Rotated)
      /\ Len(Rotated) = Len(ring) /\ Listed(Rotated) = Listed(ring)
  BY RotationKeeps, Zenon DEF CacheTyped
<1>2. Len(Rotated) > 0
  BY Zenon, <1>1
<1>3. QED
  BY Zenon, <1>1, <1>2, LastOfList DEF evictionCandidate

(***************************************************************************)
(* The entries keep one holder                                             *)
(***************************************************************************)

(* An entry given to a caller, or taken back from it. *)
LEMMA CallersHold ==
    ASSUME CacheTyped, NEW p \in Callers, NEW x \in Nat, inline' = [inline EXCEPT ![p] = x]
    PROVE  /\ inline[p] = 0 /\ x # 0 => ByCallers' = ByCallers \cup {x}
           /\ inline[p] # 0 /\ x = 0 => ByCallers' = ByCallers \ {inline[p]}
<1>1. /\ inline' \in [Callers -> Nat] /\ inline'[p] = x
      /\ \A q \in Callers : q # p => inline'[q] = inline[q]
  BY Zenon DEF CacheTyped
<1>2. CASE inline[p] = 0 /\ x # 0
  <2>1. \A y : y \in ByCallers' <=> y \in ByCallers \cup {x}
    BY Zenon, <1>1, <1>2 DEF ByCallers
  <2>2. QED
    BY Zenon, <1>2, <2>1
<1>3. CASE inline[p] # 0 /\ x = 0
  <2>1. \A q \in Callers : q # p => inline[q] # inline[p]
    BY Zenon, <1>3 DEF CacheTyped
  <2>2. \A y : y \in ByCallers' <=> y \in ByCallers \ {inline[p]}
    BY Zenon, <1>1, <1>3, <2>1 DEF ByCallers
  <2>3. QED
    BY Zenon, <1>3, <2>2
<1>4. QED
  BY Zenon, <1>2, <1>3

LEMMA HeldUnmoved ==
    ASSUME CacheTyped, EntriesHeld, ring' \in Seq(Nat), Distinct(ring'), Listed(ring') = Listed(ring),
           UNCHANGED <<free, tasks, allocated>>
    PROVE  CacheTyped' /\ EntriesHeld'
<1>1. UNCHANGED <<free, queue, worker, inline, allocated>>
  BY Zenon DEF tasks
<1>2. /\ Listed(free') = Listed(free) /\ Listed(queue') = Listed(queue)
      /\ ByWorker' = ByWorker /\ ByCallers' = ByCallers /\ Entries' = Entries
  BY <1>1, Zenon DEF ByWorker, ByCallers, Entries
<1>3. EntriesHeld'
  BY <1>2, Zenon DEF EntriesHeld
<1>4. CacheTyped'
  BY <1>1, Zenon DEF CacheTyped
<1>5. QED
  BY Zenon, <1>3, <1>4

LEMMA HeldAdmit ==
    ASSUME CacheTyped, EntriesHeld, NEW p \in Callers, NEW c \in Coords, NEW v \in Values, Admit(p, c, v)
    PROVE  CacheTyped' /\ EntriesHeld'
<1>1. PICK e \in 1..MaxEntries : takeFreeEntry(e) /\ admit(e, c, v, ring, used)
  BY Zenon DEF Admit
<1>2. UNCHANGED <<queue, worker, inline>>
  BY Zenon DEF Admit, tasks
<1>3. /\ e \in Nat \ {0}
      /\ e \notin Listed(ring) \cup Listed(queue) \cup ByWorker \cup ByCallers
      /\ free' \in Seq(Nat) /\ Distinct(free') /\ Listed(free') = Listed(free) \ {e}
      /\ allocated' \in Nat /\ Entries' = Entries \cup {e}
  BY <1>1, FreeEntryTaken, Zenon
<1>4. ring' \in Seq(Nat) /\ Distinct(ring') /\ Listed(ring') = Listed(ring) \cup {e}
  <2>1. ring \in Seq(Nat) /\ Distinct(ring) /\ e \in Nat /\ e \notin Listed(ring)
    BY Zenon, <1>3 DEF CacheTyped
  <2>2. QED
    BY <1>1, <2>1, RingAdmitted, Zenon
<1>5. Listed(queue') = Listed(queue) /\ ByWorker' = ByWorker /\ ByCallers' = ByCallers
  BY Zenon, <1>2 DEF ByWorker, ByCallers
<1>6. Apart(Listed(ring) \cup {e}, Listed(free) \ {e}, Listed(queue), ByWorker, ByCallers, Entries \cup {e})
  BY <1>3, ApartAdmitted, Zenon DEF EntriesHeld
<1>7. EntriesHeld'
  BY <1>3, <1>4, <1>5, <1>6, Zenon DEF EntriesHeld
<1>8. CacheTyped'
  BY <1>2, <1>3, <1>4, Zenon DEF CacheTyped
<1>9. QED
  BY Zenon, <1>7, <1>8

LEMMA HeldEvict ==
    ASSUME CacheTyped, EntriesHeld, NEW p \in Callers, NEW c \in Coords, NEW v \in Values, Evict(p, c, v)
    PROVE  CacheTyped' /\ EntriesHeld'
<1> DEFINE x == evictionCandidate
           stay == Front(Rotated)
<1>1. PICK e \in 1..MaxEntries : Replacement(e) /\ admit(e, c, v, stay, used \ Range(PassedOver))
  BY Zenon DEF Evict
<1>2. UNCHANGED <<worker, inline>> /\ Len(ring) > 0
  BY CacheAssumption DEF Evict
<1>3. x \in Listed(ring) /\ stay \in Seq(Nat) /\ Distinct(stay) /\ Listed(stay) = Listed(ring) \ {x}
  BY <1>2, VictimLeaves, Zenon
<1> HIDE DEF x, stay
<1>4. ByWorker' = ByWorker /\ ByCallers' = ByCallers
  BY Zenon, <1>2 DEF ByWorker, ByCallers
<1>5. CASE queue' = Append(queue, x) /\ takeFreeEntry(e)
  <2>1. /\ e \in Nat \ {0}
        /\ e \notin Listed(ring) \cup Listed(queue) \cup ByWorker \cup ByCallers
        /\ free' \in Seq(Nat) /\ Distinct(free') /\ Listed(free') = Listed(free) \ {e}
        /\ allocated' \in Nat /\ Entries' = Entries \cup {e}
    BY <1>5, FreeEntryTaken, Zenon
  <2>2. x \in Nat /\ x \notin Listed(queue) /\ queue \in Seq(Nat) /\ Distinct(queue)
    <3>1. x \in Nat
      BY <1>3 DEF CacheTyped, Listed
    <3>2. QED
      BY Zenon, <1>3, <3>1 DEF CacheTyped, EntriesHeld, Apart
  <2>3. queue' \in Seq(Nat) /\ Distinct(queue') /\ Listed(queue') = Listed(queue) \cup {x}
    BY <1>5, <2>2, AppendedToList
  <2>4. e \in Nat /\ e \notin Listed(stay)
    BY Zenon, <1>3, <2>1
  <2>5. ring' \in Seq(Nat) /\ Distinct(ring') /\ Listed(ring') = (Listed(ring) \ {x}) \cup {e}
    BY <1>1, <1>3, <2>4, RingAdmitted, Zenon
  <2>6. Apart((Listed(ring) \ {x}) \cup {e}, Listed(free) \ {e}, Listed(queue) \cup {x}, ByWorker, ByCallers,
              Entries \cup {e})
    BY <1>3, <2>1, ApartEvicted, Zenon DEF EntriesHeld
  <2>7. EntriesHeld'
    BY <1>4, <2>1, <2>3, <2>5, <2>6, Zenon DEF EntriesHeld
  <2>8. CacheTyped'
    BY <1>2, <2>1, <2>3, <2>5, Zenon DEF CacheTyped
  <2>9. QED
    BY Zenon, <2>7, <2>8
<1>6. CASE e = x /\ UNCHANGED <<queue, free, allocated>>
  <2>1. e \in Nat /\ e \notin Listed(stay)
    BY <1>3, <1>6
  <2>2. ring' \in Seq(Nat) /\ Distinct(ring') /\ Listed(ring') = (Listed(ring) \ {x}) \cup {e}
    BY <1>1, <1>3, <2>1, RingAdmitted, Zenon
  <2>3. Listed(ring') = Listed(ring)
    BY Zenon, <1>3, <1>6, <2>2
  <2>4. QED
    BY <1>2, <1>6, <2>2, <2>3, HeldUnmoved, Zenon DEF tasks
<1>7. QED
  BY Zenon, <1>1, <1>5, <1>6 DEF Replacement, x

LEMMA HeldRemove ==
    ASSUME CacheTyped, EntriesHeld, ResidentsFound, NEW p \in Callers, NEW c \in Coords, remove(p, c)
    PROVE  CacheTyped' /\ EntriesHeld'
<1> DEFINE x == index[c]
<1>1. /\ inline[p] = 0 /\ x # 0 /\ ring' = Without(x) /\ UNCHANGED <<free, worker, allocated>>
      /\ \/ queue' = Append(queue, x) /\ inline' = inline
         \/ inline' = [inline EXCEPT ![p] = x] /\ queue' = queue
  BY Zenon DEF remove, Unlink
<1>2. x \in Listed(ring)
  BY Zenon, <1>1, ResidentIsEntry
<1> HIDE DEF x
<1>3. x \in Nat /\ x \notin Listed(queue) \cup Listed(free) \cup ByWorker \cup ByCallers
  <2>1. x \in Nat
    BY <1>2 DEF CacheTyped, Listed
  <2>2. QED
    BY Zenon, <1>2, <2>1 DEF EntriesHeld, Apart
<1>4. ring' \in Seq(Nat) /\ Distinct(ring') /\ Listed(ring') = Listed(ring) \ {x}
  BY <1>1, <1>2, TakenOut, Zenon DEF CacheTyped
<1>5. /\ Apart(Listed(ring) \ {x}, Listed(free), Listed(queue) \cup {x}, ByWorker, ByCallers, Entries)
      /\ Apart(Listed(ring) \ {x}, Listed(free), Listed(queue), ByWorker, ByCallers \cup {x}, Entries)
  BY <1>2, ApartUnlinked, Zenon DEF EntriesHeld
<1>6. Listed(free') = Listed(free) /\ ByWorker' = ByWorker /\ Entries' = Entries
  BY Zenon, <1>1 DEF ByWorker, Entries
<1>7. CASE queue' = Append(queue, x) /\ inline' = inline
  <2>1. queue' \in Seq(Nat) /\ Distinct(queue') /\ Listed(queue') = Listed(queue) \cup {x}
    <3>1. queue \in Seq(Nat) /\ Distinct(queue) /\ x \notin Listed(queue)
      BY Zenon, <1>3 DEF CacheTyped
    <3>2. QED
      BY <1>3, <1>7, <3>1, AppendedToList
  <2>2. ByCallers' = ByCallers
    BY Zenon, <1>7 DEF ByCallers
  <2>3. EntriesHeld'
    BY <1>4, <1>5, <1>6, <2>1, <2>2, Zenon DEF EntriesHeld
  <2>4. CacheTyped'
    BY <1>1, <1>4, <1>7, <2>1, Zenon DEF CacheTyped
  <2>5. QED
    BY Zenon, <2>3, <2>4
<1>8. CASE inline' = [inline EXCEPT ![p] = x] /\ queue' = queue
  <2>1. ByCallers' = ByCallers \cup {x}
    BY <1>1, <1>3, <1>8, CallersHold, Zenon
  <2>2. /\ inline' \in [Callers -> Nat]
        /\ \A q, r \in Callers : inline'[q] = inline'[r] => q = r \/ inline'[q] = 0
    <3>1. \A q \in Callers : inline[q] # x
      BY Zenon, <1>1, <1>3 DEF ByCallers
    <3>2. QED
      BY Zenon, <1>3, <1>8, <3>1 DEF CacheTyped
  <2>3. EntriesHeld'
    BY <1>4, <1>5, <1>6, <1>8, <2>1, Zenon DEF EntriesHeld
  <2>4. CacheTyped'
    BY <1>1, <1>4, <1>8, <2>2, Zenon DEF CacheTyped
  <2>5. QED
    BY Zenon, <2>3, <2>4
<1>9. QED
  BY Zenon, <1>1, <1>7, <1>8

LEMMA HeldMaintenance ==
    ASSUME CacheTyped, EntriesHeld,
           (\E p \in Callers : runInlineMaintenance(p)) \/ runMaintenance \/ finishEviction
    PROVE  CacheTyped' /\ EntriesHeld'
<1>0. \A x : x \in ByWorker \cup ByCallers => x \notin Listed(free)
  BY Zenon DEF EntriesHeld, Apart
<1>1. ASSUME NEW p \in Callers, runInlineMaintenance(p) PROVE CacheTyped' /\ EntriesHeld'
  <2>1. /\ inline[p] # 0 /\ free' = Append(free, inline[p]) /\ inline' = [inline EXCEPT ![p] = 0]
        /\ UNCHANGED <<ring, queue, worker, allocated>>
    BY Zenon, <1>1 DEF runInlineMaintenance
  <2>2. inline[p] \in ByCallers /\ inline[p] \in Nat /\ ByCallers' = ByCallers \ {inline[p]}
    <3>1. inline[p] \in ByCallers /\ inline[p] \in Nat
      BY Zenon, <2>1 DEF ByCallers, CacheTyped
    <3>2. QED
      BY Zenon, <2>1, <3>1, CallersHold
  <2>3. free' \in Seq(Nat) /\ Distinct(free') /\ Listed(free') = Listed(free) \cup {inline[p]}
    <3>1. free \in Seq(Nat) /\ Distinct(free) /\ inline[p] \notin Listed(free)
      BY Zenon, <1>0, <2>2 DEF CacheTyped
    <3>2. QED
      BY <2>1, <2>2, <3>1, AppendedToList
  <2>4. Apart(Listed(ring), Listed(free) \cup {inline[p]}, Listed(queue), ByWorker, ByCallers \ {inline[p]}, Entries)
    BY <2>2, ApartMaintained, Zenon DEF EntriesHeld
  <2>5. Listed(ring') = Listed(ring) /\ Listed(queue') = Listed(queue) /\ ByWorker' = ByWorker /\ Entries' = Entries
    BY Zenon, <2>1 DEF ByWorker, Entries
  <2>6. EntriesHeld'
    BY <2>2, <2>3, <2>4, <2>5, Zenon DEF EntriesHeld
  <2>7. /\ inline' \in [Callers -> Nat]
        /\ \A q, r \in Callers : inline'[q] = inline'[r] => q = r \/ inline'[q] = 0
    BY Zenon, <2>1 DEF CacheTyped
  <2>8. CacheTyped'
    BY <2>1, <2>3, <2>7, Zenon DEF CacheTyped
  <2>9. QED
    BY Zenon, <2>6, <2>8
<1>2. CASE runMaintenance
  <2> DEFINE x == Head(queue)
  <2>1. /\ worker = 0 /\ queue # <<>> /\ worker' = x /\ queue' = Tail(queue)
        /\ UNCHANGED <<ring, free, inline, allocated>>
    BY Zenon, <1>2 DEF runMaintenance
  <2>2. queue' \in Seq(Nat) /\ Distinct(queue') /\ Listed(queue') = Listed(queue) \ {x} /\ x \in Listed(queue)
    BY <2>1, HeadOfList, Zenon DEF CacheTyped
  <2> HIDE DEF x
  <2>3. x \in Nat /\ x # 0
    BY <2>2 DEF CacheTyped, Listed, EntriesHeld, Apart, Entries
  <2>4. ByWorker = {} /\ ByWorker' = {x}
    BY Zenon, <2>1, <2>3 DEF ByWorker
  <2>5. Apart(Listed(ring), Listed(free), Listed(queue) \ {x}, {x}, ByCallers, Entries)
    BY <2>2, <2>4, ApartMaintained, Zenon DEF EntriesHeld
  <2>6. Listed(ring') = Listed(ring) /\ Listed(free') = Listed(free) /\ ByCallers' = ByCallers /\ Entries' = Entries
    BY Zenon, <2>1 DEF ByCallers, Entries
  <2>7. EntriesHeld'
    BY <2>2, <2>4, <2>5, <2>6, Zenon DEF EntriesHeld
  <2>8. CacheTyped'
    BY <2>1, <2>2, <2>3, Zenon DEF CacheTyped
  <2>9. QED
    BY Zenon, <2>7, <2>8
<1>3. CASE finishEviction
  <2>1. /\ worker # 0 /\ free' = Append(free, worker) /\ worker' = 0
        /\ UNCHANGED <<ring, queue, inline, allocated>>
    BY Zenon, <1>3 DEF finishEviction
  <2>2. ByWorker = {worker} /\ ByWorker' = {} /\ worker \in Nat /\ free \in Seq(Nat) /\ Distinct(free)
    BY Zenon, <2>1 DEF ByWorker, CacheTyped
  <2>3. free' \in Seq(Nat) /\ Distinct(free') /\ Listed(free') = Listed(free) \cup {worker}
    <3>1. worker \notin Listed(free)
      BY Zenon, <1>0, <2>2
    <3>2. QED
      BY <2>1, <2>2, <3>1, AppendedToList
  <2>4. Apart(Listed(ring), Listed(free) \cup {worker}, Listed(queue), {}, ByCallers, Entries)
    BY <2>2, ApartMaintained, Zenon DEF EntriesHeld
  <2>5. Listed(ring') = Listed(ring) /\ Listed(queue') = Listed(queue) /\ ByCallers' = ByCallers /\ Entries' = Entries
    BY Zenon, <2>1 DEF ByCallers, Entries
  <2>6. EntriesHeld'
    BY <2>2, <2>3, <2>4, <2>5, Zenon DEF EntriesHeld
  <2>7. CacheTyped'
    BY <2>1, <2>2, <2>3, Zenon DEF CacheTyped
  <2>8. QED
    BY Zenon, <2>6, <2>7
<1>4. QED
  BY Zenon, <1>1, <1>2, <1>3

(***************************************************************************)
(* The index and the buffers follow the residents                          *)
(***************************************************************************)

LEMMA MappedWithout ==
    ASSUME NEW ix, NEW R, NEW cd, Mapped(ix, R, cd), 0 \notin R, NEW x \in R
    PROVE  Mapped([ix EXCEPT ![cd[x]] = 0], R \ {x}, cd)
<1> DEFINE n == [ix EXCEPT ![cd[x]] = 0]
<1>1. /\ ix \in [Coords -> Nat] /\ cd[x] \in Coords /\ ix[cd[x]] = x /\ x # 0
      /\ \A e \in R : cd[e] \in Coords /\ ix[cd[e]] = e
      /\ \A c \in Coords : ix[c] # 0 => ix[c] \in R /\ cd[ix[c]] = c
  BY Zenon DEF Mapped
<1>2. n \in [Coords -> Nat] /\ n[cd[x]] = 0 /\ \A c \in Coords : c # cd[x] => n[c] = ix[c]
  BY Zenon, <1>1
<1> HIDE DEF n
<1>3. \A e \in R \ {x} : cd[e] \in Coords /\ n[cd[e]] = e
  BY Zenon, <1>1, <1>2
<1>4. \A c \in Coords : n[c] # 0 => n[c] \in R \ {x} /\ cd[n[c]] = c
  BY <1>1, <1>2
<1>5. QED
  BY Zenon, <1>2, <1>3, <1>4 DEF Mapped, n

LEMMA MappedWith ==
    ASSUME NEW ix, NEW R, NEW cd, Mapped(ix, R, cd), NEW c \in Coords, ix[c] = 0, 0 \notin R,
           NEW e \in Nat \ {0}, e \notin R, NEW to, to[e] = c, \A i \in R : to[i] = cd[i]
    PROVE  Mapped([ix EXCEPT ![c] = e], R \cup {e}, to)
<1> DEFINE n == [ix EXCEPT ![c] = e]
<1>1. /\ ix \in [Coords -> Nat]
      /\ \A i \in R : cd[i] \in Coords /\ ix[cd[i]] = i
      /\ \A b \in Coords : ix[b] # 0 => ix[b] \in R /\ cd[ix[b]] = b
  BY Zenon DEF Mapped
<1>2. n \in [Coords -> Nat] /\ n[c] = e /\ \A b \in Coords : b # c => n[b] = ix[b]
  BY Zenon, <1>1
<1> HIDE DEF n
<1>3. \A i \in R \cup {e} : to[i] \in Coords /\ n[to[i]] = i
  BY <1>1, <1>2
<1>4. \A b \in Coords : n[b] # 0 => n[b] \in R \cup {e} /\ to[n[b]] = b
  BY <1>1, <1>2
<1>5. QED
  BY Zenon, <1>2, <1>3, <1>4 DEF Mapped, n

LEMMA MappedSame ==
    ASSUME NEW ix, NEW R, NEW cd, Mapped(ix, R, cd), NEW to, \A i \in R : to[i] = cd[i]
    PROVE  Mapped(ix, R, to)
BY Zenon DEF Mapped

(* admit makes the new resident the only change to index and buffers. *)
LEMMA AdmitFinds ==
    ASSUME NEW stay \in Seq(Nat), 0 \notin Listed(stay), NEW e \in Nat \ {0}, e \notin Listed(stay),
           NEW c \in Coords, NEW v, NEW touched, admit(e, c, v, stay, touched), Listed(ring)' = Listed(stay) \cup {e},
           NEW ix, Mapped(ix, Listed(stay), coord), ix[c] = 0, index' = [ix EXCEPT ![c] = e],
           Latest(Listed(stay), coord, buffer, last)
    PROVE  ResidentsFound' /\ ResidentsLatest'
<1> DEFINE R == Listed(stay)
<1>1. /\ coord' = [i \in R \cup {e} |-> IF i = e THEN c ELSE coord[i]]
      /\ buffer' = [i \in R \cup {e} |-> IF i = e THEN v ELSE buffer[i]]
      /\ last' = [x \in {coord[i] : i \in R} \cup {c} |-> IF x = c THEN v ELSE last[x]]
  BY Zenon, ListedIs DEF admit
<1> HIDE DEF R
<1>2. coord'[e] = c /\ buffer'[e] = v /\ \A i \in R : coord'[i] = coord[i] /\ buffer'[i] = buffer[i]
  BY Zenon, <1>1 DEF R
<1>3. ResidentsFound'
  <2>1. \A to : to[e] = c /\ (\A i \in R : to[i] = coord[i]) => Mapped([ix EXCEPT ![c] = e], R \cup {e}, to)
    BY Zenon, MappedWith DEF R
  <2>2. Mapped(index', R \cup {e}, coord')
    BY Zenon, <1>2, <2>1
  <2>3. QED
    BY Zenon, <2>2 DEF ResidentsFound, R
<1>4. \A i \in R : coord[i] # c
  BY Zenon DEF Mapped, R
<1>5. last'[c] = v /\ c \in DOMAIN last' /\ \A i \in R : coord[i] \in DOMAIN last' /\ last'[coord[i]] = last[coord[i]]
  BY Zenon, <1>1, <1>4
<1>6. Latest(R \cup {e}, coord', buffer', last')
  BY Zenon, <1>2, <1>5 DEF Latest, R
<1>7. DOMAIN buffer' = R \cup {e}
  BY <1>1
<1>8. QED
  BY Zenon, <1>3, <1>6, <1>7 DEF ResidentsLatest, R

(***************************************************************************)
(* Every step                                                              *)
(***************************************************************************)

LEMMA CacheStart == CacheInit => CacheInv
<1> SUFFICES ASSUME CacheInit
             PROVE  CacheInv
  OBVIOUS
<1>1. Listed(<<>>) = {} /\ Distinct(<<>>)
  BY DEF Listed, Distinct
<1>2. CacheTyped
  BY <1>1 DEF CacheInit, CacheTyped
<1>3. ByWorker = {} /\ ByCallers = {} /\ Entries = {}
  BY DEF CacheInit, ByWorker, ByCallers, Entries
<1>4. EntriesHeld
  BY Zenon, <1>1, <1>3 DEF CacheInit, EntriesHeld, Apart
<1>5. ResidentsFound
  BY Zenon, <1>1 DEF CacheInit, ResidentsFound, Mapped
<1>6. ResidentsCounted
  BY CacheAssumption DEF CacheInit, ResidentsCounted
<1>7. ResidentsLatest
  BY <1>1 DEF CacheInit, ResidentsLatest, Latest
<1>8. QED
  BY Zenon, <1>2, <1>4, <1>5, <1>6, <1>7 DEF CacheInv

(* A hit, or an update in place, only moves the entry to the front. *)
LEMMA CacheTouch ==
    ASSUME CacheInv, NEW p \in Callers, NEW c \in Coords,
           get(p, c) \/ \E v \in Values : Update(p, c, v)
    PROVE  CacheInv'
<1> DEFINE x == index[c]
<1>1. /\ x # 0 /\ ring' = moveToFront(x)
      /\ UNCHANGED <<index, free, tasks, coord, allocated, loaded>>
  BY Zenon DEF get, Update
<1>2. x \in Listed(ring) /\ coord[x] = c /\ \A e \in Listed(ring) : coord[e] = c => e = x
  BY Zenon, <1>1 DEF CacheInv, ResidentsFound, Mapped
<1>3. ring' \in Seq(Nat) /\ Distinct(ring') /\ Len(ring') = Len(ring) /\ Listed(ring') = Listed(ring)
  BY Zenon, <1>1, <1>2, TakenOut DEF CacheInv, CacheTyped
<1>4. CacheTyped' /\ EntriesHeld'
  BY Zenon, <1>1, <1>3, HeldUnmoved DEF CacheInv
<1>5. ResidentsFound'
  BY Zenon, <1>1, <1>3 DEF CacheInv, ResidentsFound
<1>6. ResidentsCounted'
  BY Zenon, <1>1, <1>3 DEF CacheInv, ResidentsCounted
<1>7. ResidentsLatest'
  <2>1. DOMAIN buffer = Listed(ring) /\ Latest(Listed(ring), coord, buffer, last)
    BY Zenon DEF CacheInv, ResidentsLatest
  <2>2. CASE UNCHANGED <<buffer, last>>
    BY Zenon, <1>1, <1>3, <2>1, <2>2 DEF ResidentsLatest
  <2>3. ASSUME NEW v \in Values, buffer' = [buffer EXCEPT ![x] = v], last' = [last EXCEPT ![c] = v]
        PROVE  ResidentsLatest'
    <3>1. DOMAIN buffer' = Listed(ring)
      BY Zenon, <2>1, <2>3
    <3>2. Latest(Listed(ring), coord, buffer', last')
      BY Zenon, <1>2, <2>1, <2>3 DEF Latest
    <3>3. QED
      BY Zenon, <1>1, <1>3, <3>1, <3>2 DEF ResidentsLatest
  <2>4. QED
    BY Zenon, <2>2, <2>3 DEF get, Update
<1>8. QED
  BY Zenon, <1>4, <1>5, <1>6, <1>7 DEF CacheInv

LEMMA CacheAdmit ==
    ASSUME CacheInv, NEW p \in Callers, NEW c \in Coords, NEW v \in Values, Admit(p, c, v)
    PROVE  CacheInv'
<1>1. /\ CacheTyped /\ EntriesHeld /\ ResidentsFound /\ ResidentsLatest
      /\ loaded = Len(ring) /\ loaded' = loaded + 1 /\ Len(ring) < MaxLoaded
      /\ ring \in Seq(Nat) /\ Distinct(ring)
  BY Zenon DEF CacheInv, ResidentsCounted, Admit, CacheTyped
<1>2. PICK e \in 1..MaxEntries : /\ takeFreeEntry(e) /\ admit(e, c, v, ring, used)
                                 /\ index[c] = 0 /\ index' = [index EXCEPT ![c] = e]
  BY Zenon DEF Admit
<1>3. e \in Nat \ {0} /\ e \notin Listed(ring) /\ 0 \notin Listed(ring)
  <2>1. e \in Nat \ {0} /\ e \notin Listed(ring)
    BY Zenon, <1>1, <1>2, FreeEntryTaken
  <2>2. QED
    BY Zenon, <1>1, <2>1, ResidentIsEntry
<1>4. CacheTyped' /\ EntriesHeld'
  BY Zenon, <1>1, HeldAdmit
<1>5. Len(ring') = Len(ring) + 1 /\ Listed(ring') = Listed(ring) \cup {e}
  BY Zenon, <1>1, <1>2, <1>3, RingAdmitted
<1>6. ResidentsFound' /\ ResidentsLatest'
  BY Zenon, <1>1, <1>2, <1>3, <1>5, AdmitFinds DEF ResidentsFound, ResidentsLatest
<1>7. ResidentsCounted'
  BY <1>1, <1>5, CacheAssumption DEF ResidentsCounted
<1>8. QED
  BY Zenon, <1>4, <1>6, <1>7 DEF CacheInv

LEMMA CacheEvict ==
    ASSUME CacheInv, NEW p \in Callers, NEW c \in Coords, NEW v \in Values, Evict(p, c, v)
    PROVE  CacheInv'
<1> DEFINE x == evictionCandidate
           stay == Front(Rotated)
           ix == [index EXCEPT ![coord[x]] = 0]
<1>1. /\ CacheTyped /\ EntriesHeld /\ ResidentsFound /\ ResidentsLatest
      /\ loaded = Len(ring) /\ loaded' = loaded /\ Len(ring) = MaxLoaded /\ Len(ring) > 0
  BY CacheAssumption DEF CacheInv, ResidentsCounted, Evict
<1>2. PICK e \in 1..MaxEntries : /\ Replacement(e) /\ admit(e, c, v, stay, used \ Range(PassedOver))
                                 /\ index[c] = 0 /\ index' = [ix EXCEPT ![c] = e]
  BY Zenon DEF Evict
<1>3. /\ x \in Listed(ring) /\ stay \in Seq(Nat) /\ Distinct(stay) /\ Listed(stay) = Listed(ring) \ {x}
      /\ Len(stay) = Len(ring) - 1
  BY Zenon, <1>1, VictimLeaves
<1>4. 0 \notin Listed(ring)
  BY Zenon, <1>1, ResidentIsEntry
<1>5. e \in Nat \ {0} /\ e \notin Listed(stay)
  <2>1. takeFreeEntry(e) => e \in Nat \ {0} /\ e \notin Listed(ring)
    BY Zenon, <1>1, FreeEntryTaken
  <2>2. takeFreeEntry(e) \/ e = x
    BY Zenon, <1>2 DEF Replacement
  <2>3. QED
    BY <1>3, <1>4, <2>1, <2>2
<1>6. Mapped(ix, Listed(stay), coord) /\ ix[c] = 0 /\ Latest(Listed(stay), coord, buffer, last)
  <2>1. Mapped(ix, Listed(stay), coord)
    <3>1. Mapped(ix, Listed(ring) \ {x}, coord)
      BY Zenon, <1>1, <1>3, <1>4, MappedWithout DEF ResidentsFound
    <3>2. QED
      BY Zenon, <1>3, <3>1
  <2>2. ix[c] = 0
    BY Zenon, <1>1, <1>2 DEF ResidentsFound, Mapped
  <2>3. Latest(Listed(stay), coord, buffer, last)
    BY Zenon, <1>1, <1>3 DEF ResidentsLatest, Latest
  <2>4. QED
    BY Zenon, <2>1, <2>2, <2>3
<1> HIDE DEF x, stay, ix
<1>7. CacheTyped' /\ EntriesHeld'
  BY Zenon, <1>1, HeldEvict
<1>8. Len(ring') = Len(ring) /\ Listed(ring') = Listed(stay) \cup {e}
  <2>1. Len(ring') = Len(stay) + 1 /\ Listed(ring') = Listed(stay) \cup {e}
    BY Zenon, <1>2, <1>3, <1>5, RingAdmitted
  <2>2. QED
    BY <1>1, <1>3, <2>1 DEF CacheTyped
<1>9. ResidentsFound' /\ ResidentsLatest'
  <2>1. 0 \notin Listed(stay)
    BY Zenon, <1>3, <1>4
  <2>2. QED
    BY Zenon, <1>2, <1>3, <1>5, <1>6, <1>8, <2>1, AdmitFinds
<1>10. ResidentsCounted'
  BY <1>1, <1>8, CacheAssumption DEF ResidentsCounted
<1>11. QED
  BY Zenon, <1>7, <1>9, <1>10 DEF CacheInv

LEMMA CacheRemove ==
    ASSUME CacheInv, NEW p \in Callers, NEW c \in Coords, remove(p, c)
    PROVE  CacheInv'
<1> DEFINE x == index[c]
<1>1. /\ CacheTyped /\ EntriesHeld /\ ResidentsFound /\ ResidentsLatest
      /\ loaded = Len(ring) /\ Len(ring) <= MaxLoaded
      /\ ring \in Seq(Nat) /\ Distinct(ring)
  BY Zenon DEF CacheInv, ResidentsCounted, CacheTyped
<1>2. /\ x # 0 /\ ring' = Without(x) /\ index' = [index EXCEPT ![c] = 0] /\ loaded' = loaded - 1
      /\ coord' = [i \in Range(ring') |-> coord[i]] /\ buffer' = [i \in Range(ring') |-> buffer[i]]
      /\ last' = [d \in DOMAIN last \ {c} |-> last[d]]
  BY Zenon DEF remove, Unlink, Restrict
<1>3. x \in Listed(ring) /\ coord[x] = c /\ \A e \in Listed(ring) : coord[e] = c => e = x
  BY Zenon, <1>1, <1>2 DEF ResidentsFound, Mapped
<1>4. 0 \notin Listed(ring)
  BY Zenon, <1>1, ResidentIsEntry
<1>5. /\ ring' \in Seq(Nat) /\ Len(ring') = Len(ring) - 1 /\ Listed(ring') = Listed(ring) \ {x}
      /\ Range(ring') = Listed(ring')
  <2>1. ring' \in Seq(Nat) /\ Len(ring') = Len(ring) - 1 /\ Listed(ring') = Listed(ring) \ {x}
    BY Zenon, <1>1, <1>2, <1>3, TakenOut
  <2>2. QED
    BY Zenon, <2>1, ListedIs
<1> HIDE DEF x
<1>6. CacheTyped' /\ EntriesHeld'
  BY Zenon, <1>1, HeldRemove
<1>7. \A e \in Listed(ring') : coord'[e] = coord[e] /\ buffer'[e] = buffer[e] /\ coord[e] # c
  BY Zenon, <1>2, <1>3, <1>5
<1>8. ResidentsFound'
  <2>1. Mapped([index EXCEPT ![coord[x]] = 0], Listed(ring) \ {x}, coord)
    BY Zenon, <1>1, <1>3, <1>4, MappedWithout DEF ResidentsFound
  <2>2. Mapped(index', Listed(ring'), coord)
    BY Zenon, <1>2, <1>3, <1>5, <2>1
  <2>3. Mapped(index', Listed(ring'), coord')
    BY Zenon, <1>7, <2>2, MappedSame
  <2>4. QED
    BY Zenon, <2>3 DEF ResidentsFound
<1>9. ResidentsLatest'
  <2>1. \A e \in Listed(ring') : coord[e] \in DOMAIN last /\ buffer[e] = last[coord[e]]
    BY Zenon, <1>1, <1>5 DEF ResidentsLatest, Latest
  <2>2. Latest(Listed(ring'), coord', buffer', last')
    BY <1>2, <1>7, <2>1 DEF Latest
  <2>3. DOMAIN buffer' = Listed(ring')
    BY Zenon, <1>2, <1>5
  <2>4. QED
    BY Zenon, <2>2, <2>3 DEF ResidentsLatest
<1>10. ResidentsCounted'
  BY <1>1, <1>2, <1>5, CacheAssumption DEF ResidentsCounted
<1>11. QED
  BY Zenon, <1>6, <1>8, <1>9, <1>10 DEF CacheInv

LEMMA CacheStep == CacheInv /\ [CacheNext]_cached => CacheInv'
<1> SUFFICES ASSUME CacheInv, [CacheNext]_cached
             PROVE  CacheInv'
  OBVIOUS
<1>1. CASE UNCHANGED <<ring, index, free, tasks, coord, buffer, allocated, loaded, last>>
  <2>1. /\ CacheTyped /\ EntriesHeld /\ ring \in Seq(Nat) /\ Distinct(ring)
        /\ UNCHANGED <<ring, index, coord, buffer, loaded, last>> /\ UNCHANGED <<free, tasks, allocated>>
    BY Zenon, <1>1 DEF CacheInv, CacheTyped
  <2>2. CacheTyped' /\ EntriesHeld'
    BY Zenon, <2>1, HeldUnmoved
  <2>3. ResidentsFound' /\ ResidentsCounted' /\ ResidentsLatest'
    BY Zenon, <2>1 DEF CacheInv, ResidentsFound, ResidentsCounted, ResidentsLatest
  <2>4. QED
    BY Zenon, <2>2, <2>3 DEF CacheInv
<1>2. CASE (\E p \in Callers : runInlineMaintenance(p)) \/ runMaintenance \/ finishEviction
  <2>1. CacheTyped' /\ EntriesHeld'
    BY Zenon, <1>2, HeldMaintenance DEF CacheInv
  <2>2. UNCHANGED <<ring, index, coord, buffer, loaded, last>>
    BY Zenon, <1>2 DEF runInlineMaintenance, runMaintenance, finishEviction, buffers
  <2>3. ResidentsFound' /\ ResidentsCounted' /\ ResidentsLatest'
    BY Zenon, <2>2 DEF CacheInv, ResidentsFound, ResidentsCounted, ResidentsLatest
  <2>4. QED
    BY Zenon, <2>1, <2>3 DEF CacheInv
<1>3. startMaintenance \/ closeCache \/ closeReturns \/ UNCHANGED cached
      => UNCHANGED <<ring, index, free, tasks, coord, buffer, allocated, loaded, last>>
  BY Zenon DEF startMaintenance, closeCache, closeReturns, cached, buffers
<1>4. QED
  BY Zenon, <1>1, <1>2, <1>3, CacheTouch, CacheAdmit, CacheEvict, CacheRemove DEF CacheNext

LEMMA CacheInvariant == CacheSpec => []CacheInv
BY CacheStart, CacheStep, PTL DEF CacheSpec

(* A list without repetitions holds an entry once or not at all. *)
LEMMA ListedOnce ==
    ASSUME NEW q \in Seq(Nat), Distinct(q), NEW e
    PROVE  Cardinality({i \in DOMAIN q : q[i] = e}) = IF e \in Listed(q) THEN 1 ELSE 0
<1> DEFINE I == {i \in DOMAIN q : q[i] = e}
<1>1. CASE e \in Listed(q)
  <2>1. PICK i \in 1..Len(q) : q[i] = e
    BY Zenon, <1>1 DEF Listed
  <2>2. I = {i}
    BY <2>1 DEF Distinct
  <2>3. QED
    BY Zenon, <1>1, <2>2, FS_Singleton
<1>2. CASE e \notin Listed(q)
  <2>1. I = {}
    BY <1>2 DEF Listed
  <2>2. QED
    BY Zenon, <1>2, <2>1, FS_EmptySet
<1>3. QED
  BY Zenon, <1>1, <1>2

LEMMA CallersOnce ==
    ASSUME CacheTyped, NEW e, e # 0
    PROVE  Cardinality({p \in Callers : inline[p] = e}) = IF e \in ByCallers THEN 1 ELSE 0
<1> DEFINE P == {p \in Callers : inline[p] = e}
<1>1. CASE e \in ByCallers
  <2>1. PICK p \in Callers : inline[p] = e
    BY Zenon, <1>1 DEF ByCallers
  <2>2. P = {p}
    BY Zenon, <2>1 DEF CacheTyped
  <2>3. QED
    BY Zenon, <1>1, <2>2, FS_Singleton
<1>2. CASE e \notin ByCallers
  <2>1. P = {}
    BY Zenon, <1>2 DEF ByCallers
  <2>2. QED
    BY Zenon, <1>2, <2>1, FS_EmptySet
<1>3. QED
  BY Zenon, <1>1, <1>2

(***************************************************************************)
(* What the callers of the cache may rely on                               *)
(***************************************************************************)

(* The buffers of an entry always have exactly one owner, however callers, *)
(* eviction, inline maintenance and the worker interleave: an entry is     *)
(* never handed to two admissions, freed twice or lost.                    *)
THEOREM EntriesKeepOneOwner == CacheSpec => []OneOwner
<1>1. ASSUME CacheInv PROVE OneOwner
  <2> SUFFICES ASSUME NEW e \in Entries
               PROVE  Holders(e) = 1
    BY Zenon DEF OneOwner
  <2>1. /\ CacheTyped /\ ring \in Seq(Nat) /\ Distinct(ring) /\ free \in Seq(Nat) /\ Distinct(free)
        /\ queue \in Seq(Nat) /\ Distinct(queue) /\ e # 0
    BY <1>1 DEF CacheInv, CacheTyped, Entries
  <2>2. (worker = e) <=> e \in ByWorker
    BY Zenon, <2>1 DEF ByWorker
  <2>3. Apart(Listed(ring), Listed(free), Listed(queue), ByWorker, ByCallers, Entries)
    BY Zenon, <1>1 DEF CacheInv, EntriesHeld
  <2>4. /\ Cardinality({i \in DOMAIN ring : ring[i] = e}) = IF e \in Listed(ring) THEN 1 ELSE 0
        /\ Cardinality({i \in DOMAIN free : free[i] = e}) = IF e \in Listed(free) THEN 1 ELSE 0
        /\ Cardinality({i \in DOMAIN queue : queue[i] = e}) = IF e \in Listed(queue) THEN 1 ELSE 0
        /\ Cardinality({p \in Callers : inline[p] = e}) = IF e \in ByCallers THEN 1 ELSE 0
    BY Zenon, <2>1, ListedOnce, CallersOnce
  <2>5. QED
    BY <2>2, <2>3, <2>4 DEF Holders, Apart
<1>2. QED
  BY <1>1, CacheInvariant, PTL

(* Index, ring and counter agree on what is resident, within the bound,    *)
(* after any sequence of hits, puts, evictions and removals.               *)
THEOREM ResidentsStayIndexed == CacheSpec => []ResidentsAgree
<1>1. ASSUME CacheInv PROVE ResidentsAgree
  <2>1. /\ ring \in Seq(Nat) /\ Mapped(index, Listed(ring), coord)
        /\ loaded = Len(ring) /\ Len(ring) <= MaxLoaded
    BY Zenon, <1>1 DEF CacheInv, CacheTyped, ResidentsFound, ResidentsCounted
  <2>2. \A c \in Coords : index[c] # 0 => index[c] \in Range(ring) /\ coord[index[c]] = c
    BY <2>1 DEF Mapped, Listed, Range
  <2>3. \A i \in DOMAIN ring : index[coord[ring[i]]] = ring[i]
    BY <2>1 DEF Mapped, Listed
  <2>4. QED
    BY Zenon, <2>1, <2>2, <2>3 DEF ResidentsAgree
<1>2. QED
  BY <1>1, CacheInvariant, PTL

(* A hit copies out what was last put for its chunk: the buffers of an     *)
(* entry that was evicted and used again never show through.               *)
THEOREM HitsStayLatest == CacheSpec => []HitIsLatest
<1>1. ASSUME CacheInv PROVE HitIsLatest
  BY <1>1 DEF CacheInv, ResidentsFound, ResidentsLatest, Mapped, Latest, HitIsLatest
<1>2. QED
  BY <1>1, CacheInvariant, PTL
================================================================================
