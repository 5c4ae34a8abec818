-------------------------- MODULE MemoryCacheProofs --------------------------
(***************************************************************************)
(* Proofs about MemoryCache, for every set of goroutines, keys and sizes   *)
(* and every limit: its types, and that its statistics tell the truth      *)
(* across overwrites, evictions, delayed deletions and sweeps.             *)
(***************************************************************************)
EXTENDS MemoryCache, FiniteSetTheorems, TLAPS

\* What a goroutine that holds c.mu over several steps remembers.
Count == [at : {"counting"}, key : Key, which : {"hits", "misses"}, read : Nat,
          purge : BOOLEAN]
Eviction == [at : {"evicting"}, key : Key, size : Size, ttl : TTLs]

TypedItems == /\ Present \subseteq Key /\ \A k \in Present : items[k] \in Item
              /\ usage \in Nat
              /\ totalKeys \in 0 .. Cardinality(Key)
              /\ closed \in BOOLEAN

TypedGets == /\ counter \in [hits : Nat, misses : Nat]
             /\ delayed \in [Key -> Nat]
             /\ gets \in 0 .. MaxGets

TypedRest == /\ cleaner \in {"running", "exited"}
             /\ pc \in [Proc -> {Idle} \cup Count \cup Eviction]
             /\ now \in Time

\* c.mu: one writer, without readers, and on an open cache.
Locked == /\ \A p, q \in Evicting : p = q
          /\ Evicting # {} => Readers = {} /\ ~closed

\* The statistics of an open cache.  A Set that evicts has not yet counted the keys.
Exact == ~closed => /\ IsFiniteSet(Bytes(items))
                    /\ usage = Cardinality(Bytes(items))
                    /\ Evicting = {} => totalKeys = Cardinality(Present)

\* The limit is exceeded by a lone item only.
Limited == ~closed => (usage > MaxSize => Cardinality(Present) = 1)

\* The gets that have returned are h hits and m misses.  A counter never says more than
\* that, nor does what a reader has read of it; and a counter that was written is not 0.
Tally ==
  \E h, m \in Nat :
    /\ gets = h + m + Cardinality(Readers)
    /\ counter.hits <= h /\ counter.misses <= m
    /\ h + m > 0 => counter.hits + counter.misses > 0
    /\ \A p \in Readers : pc[p].read <= IF pc[p].which = "hits" THEN h ELSE m

\* A delayed deletion comes from a Get that has returned.
Delays == /\ IsFiniteSet(Readers)
          /\ \A k \in Key : delayed[k] + Cardinality(Readers) <= gets

\* What holds of the items, and of the lookups.
Accounts == TypedItems /\ Exact /\ Limited
Lookups == TypedGets /\ Tally /\ Delays

\* The inductive invariant behind Accounting.
IInv == TypedRest /\ Locked /\ Accounts /\ Lookups

-------------------------------------------------------------------------------
\* The limit is a number of bytes.
LEMMA LimitType == MaxSize \in Nat
BY CacheAssumption DEF MaxSize

\* The keys that are present are finitely many, no more than there are.
LEMMA PresentFinite ==
  ASSUME NEW K, K \subseteq Key
  PROVE  IsFiniteSet(K) /\ Cardinality(K) \in 0 .. Cardinality(Key)
BY CacheAssumption, FS_Subset, FS_CardinalityType

\* An item of n bytes has n bytes.
LEMMA ItemBytes ==
  ASSUME NEW k, NEW n \in Nat
  PROVE  IsFiniteSet({k} \X (1 .. n)) /\ Cardinality({k} \X (1 .. n)) = n
<1>1. IsFiniteSet(1 .. n) /\ Cardinality(1 .. n) = n
  BY FS_Interval
<1> DEFINE f == [i \in 1 .. n |-> <<k, i>>]
<1>2. f \in [1 .. n -> {k} \X (1 .. n)]
  OBVIOUS
<1>3. \A i, j \in 1 .. n : f[i] = f[j] => i = j
  OBVIOUS
<1>4. \A b \in {k} \X (1 .. n) : \E i \in 1 .. n : f[i] = b
  OBVIOUS
<1> HIDE DEF f
<1>5. f \in Bijection(1 .. n, {k} \X (1 .. n))
  BY <1>2, <1>3, <1>4 DEF Bijection, Injection, Surjection, IsInjective
<1>6. QED
  BY <1>1, <1>5, FS_Bijection DEF ExistsBijection

\* The bytes of f are those of the items that are removed and those of the others.
LEMMA BytesSplit ==
  ASSUME NEW f, NEW K, K \subseteq DOMAIN f
  PROVE  /\ Bytes(f) = Bytes(Without(f, K)) \cup Bytes([k \in K |-> f[k]])
         /\ Bytes(Without(f, K)) \cap Bytes([k \in K |-> f[k]]) = {}
BY DEF Bytes, Without

\* Removing items takes the sum of their sizes off.
LEMMA RemovedSum ==
  ASSUME NEW f, NEW K, K \subseteq DOMAIN f, IsFiniteSet(Bytes(f))
  PROVE  /\ IsFiniteSet(Bytes(Without(f, K)))
         /\ Cardinality(Bytes(Without(f, K))) \in Nat
         /\ SumOfSizes([k \in K |-> f[k]]) \in Nat
         /\ Cardinality(Bytes(f))
              = Cardinality(Bytes(Without(f, K))) + SumOfSizes([k \in K |-> f[k]])
<1> DEFINE A == Bytes(Without(f, K))
           B == Bytes([k \in K |-> f[k]])
<1>1. Bytes(f) = A \cup B /\ A \cap B = {}
  BY BytesSplit
<1> HIDE DEF A, B
<1>2. IsFiniteSet(A) /\ IsFiniteSet(B)
  <2>1. A \subseteq Bytes(f) /\ B \subseteq Bytes(f)
    BY <1>1
  <2>2. QED
    BY <2>1, FS_Subset
<1>3. Cardinality(A) \in Nat /\ Cardinality(B) \in Nat
  BY <1>2, FS_CardinalityType
<1>4. Cardinality(A \cup B) = Cardinality(A) + Cardinality(B) - Cardinality(A \cap B)
  BY <1>2, FS_Union
<1>5. Cardinality(A \cap B) = 0
  BY <1>1, FS_EmptySet
<1>6. Cardinality(Bytes(f)) = Cardinality(A) + Cardinality(B)
  BY <1>1, <1>3, <1>4, <1>5
<1>7. QED
  BY <1>2, <1>3, <1>6 DEF A, B, SumOfSizes

\* One item.
LEMMA OneSum ==
  ASSUME NEW f, NEW k \in DOMAIN f, f[k].size \in Nat
  PROVE  SumOfSizes([j \in {k} |-> f[j]]) = f[k].size
<1>1. Bytes([j \in {k} |-> f[j]]) = {k} \X (1 .. f[k].size)
  BY DEF Bytes
<1>2. QED
  BY <1>1, ItemBytes DEF SumOfSizes

\* An item is stored beside the others.
LEMMA StoredSum ==
  ASSUME NEW f, NEW g, NEW k \in DOMAIN g, g[k].size \in Nat, IsFiniteSet(Bytes(f)),
         Without(g, {k}) = Without(f, {k})
  PROVE  /\ IsFiniteSet(Bytes(g))
         /\ Cardinality(Bytes(g)) = Cardinality(Bytes(Without(f, {k}))) + g[k].size
<1> DEFINE A == Bytes(Without(f, {k}))
           B == {k} \X (1 .. g[k].size)
<1>1. Bytes(g) = A \cup B /\ A \cap B = {}
  <2>1. A = Bytes(Without(g, {k}))
    OBVIOUS
  <2>2. Bytes(g) = Bytes(Without(g, {k})) \cup B /\ Bytes(Without(g, {k})) \cap B = {}
    BY DEF Bytes, Without
  <2>3. QED
    BY <2>1, <2>2
<1>2. A \subseteq Bytes(f)
  BY DEF Bytes, Without
<1>3. IsFiniteSet(B) /\ Cardinality(B) = g[k].size
  BY ItemBytes
<1> HIDE DEF A, B
<1>4. IsFiniteSet(A) /\ Cardinality(A) \in Nat
  BY <1>2, FS_Subset, FS_CardinalityType
<1>5. /\ IsFiniteSet(A \cup B)
      /\ Cardinality(A \cup B) = Cardinality(A) + Cardinality(B) - Cardinality(A \cap B)
  BY <1>3, <1>4, FS_Union
<1>6. Cardinality(A \cap B) = 0
  BY <1>1, FS_EmptySet
<1>7. QED
  BY <1>1, <1>3, <1>4, <1>5, <1>6 DEF A

\* Nothing stored, no bytes.
LEMMA NoBytes ==
  ASSUME NEW f, DOMAIN f = {}
  PROVE  IsFiniteSet(Bytes(f)) /\ Cardinality(Bytes(f)) = 0
<1>1. Bytes(f) = {}
  BY DEF Bytes
<1>2. QED
  BY <1>1, FS_EmptySet

-------------------------------------------------------------------------------
\* At the start nothing is stored and nobody is at work.
LEMMA InitIInv == Init => IInv
<1> SUFFICES ASSUME Init PROVE IInv
  OBVIOUS
<1>1. Present = {} /\ usage = 0 /\ totalKeys = 0 /\ gets = 0 /\ now = 1 /\ closed = FALSE
  BY DEF Init, Present
<1>2. Readers = {} /\ Evicting = {}
  BY DEF Init, Readers, Evicting, Idle
<1>3. Cardinality({}) = 0 /\ IsFiniteSet({}) /\ Cardinality(Key) \in Nat
  BY FS_EmptySet, CacheAssumption, FS_CardinalityType
<1>4. TypedItems
  <2>1. closed \in BOOLEAN
    BY <1>1
  <2>2. QED
    BY <1>1, <1>3, <2>1 DEF TypedItems
<1>5. counter \in [hits : Nat, misses : Nat] /\ counter.hits = 0 /\ counter.misses = 0
  BY DEF Init
<1>6. delayed \in [Key -> Nat] /\ \A k \in Key : delayed[k] = 0
  BY DEF Init
<1>7. TypedGets
  BY <1>1, <1>5, <1>6, CacheAssumption DEF TypedGets
<1>8. TypedRest
  BY <1>1, CacheAssumption DEF Init, TypedRest, Time
<1>9. Locked
  BY <1>1, <1>2 DEF Locked
<1>10. Exact
  BY <1>1, <1>2, <1>3, NoBytes DEF Exact, Present
<1>11. Limited
  BY <1>1, LimitType DEF Limited
<1>12. Tally
  BY <1>1, <1>2, <1>3, <1>5 DEF Tally
<1>13. Delays
  BY <1>1, <1>2, <1>3, <1>6 DEF Delays
<1>14. QED
  BY <1>4, <1>7, <1>8, <1>9, <1>10, <1>11, <1>12, <1>13 DEF IInv, Accounts, Lookups

\* Under the lock nobody reads or evicts.
LEMMA Removed ==
  ASSUME Accounts, MayWrite, UNCHANGED <<pc, closed>>, ~closed,
         NEW K, K \subseteq Present, Remove(K)
  PROVE  Accounts'
<1>1. Present \subseteq Key /\ usage \in Nat /\ \A k \in Present : items[k] \in Item
  BY DEF Accounts, TypedItems
<1>2. /\ items' = Without(items, K)
      /\ usage' = usage - SumOfSizes([k \in K |-> items[k]])
      /\ totalKeys' = Cardinality(Present \ K)
  BY DEF Remove
<1>3. Present' = Present \ K /\ \A k \in Present' : items'[k] = items[k]
  BY <1>2 DEF Without, Present
<1>4. /\ IsFiniteSet(Bytes(items)) /\ usage = Cardinality(Bytes(items))
      /\ totalKeys = Cardinality(Present)
  BY DEF Accounts, TypedItems, Exact, MayWrite
<1>5. /\ IsFiniteSet(Bytes(items'))
      /\ usage' \in Nat /\ usage' = Cardinality(Bytes(items')) /\ usage' <= usage
  <2>1. /\ IsFiniteSet(Bytes(items')) /\ Cardinality(Bytes(items')) \in Nat
        /\ SumOfSizes([k \in K |-> items[k]]) \in Nat
        /\ Cardinality(Bytes(items))
             = Cardinality(Bytes(items')) + SumOfSizes([k \in K |-> items[k]])
    BY <1>2, <1>4, RemovedSum DEF Present
  <2>2. QED
    BY <1>2, <1>4, <2>1
<1>6. TypedItems'
  <2>1. Present' \subseteq Key
    BY <1>1, <1>3
  <2>2. totalKeys' \in 0 .. Cardinality(Key)
    BY <1>2, <1>3, <2>1, PresentFinite
  <2>3. closed' \in BOOLEAN
    BY DEF Accounts, TypedItems
  <2>4. QED
    BY <1>1, <1>3, <1>5, <2>1, <2>2, <2>3 DEF TypedItems
<1>7. Exact'
  BY <1>2, <1>3, <1>5 DEF Exact
<1>8. ASSUME usage' > MaxSize PROVE Cardinality(Present') = 1
  <2>1. usage > MaxSize
    BY <1>1, <1>5, <1>8, LimitType
  <2>2. Cardinality(Present) = 1
    BY <2>1 DEF Accounts, Limited
  <2>3. IsFiniteSet(Present)
    BY <1>1, PresentFinite
  <2>4. CASE K = {}
    BY <1>3, <2>2, <2>4
  <2>5. CASE K # {}
    <3>1. PICK k \in Present : Present = {k}
      BY <2>2, <2>3, FS_Singleton
    <3>2. Present' = {}
      BY <1>3, <2>5, <3>1
    <3>3. usage' = 0
      BY <1>5, <3>2, NoBytes DEF Present
    <3>4. QED
      BY <1>8, <3>3, LimitType
  <2>6. QED
    BY <2>4, <2>5
<1>9. Limited'
  BY <1>8 DEF Limited
<1>10. QED
  BY <1>6, <1>7, <1>9 DEF Accounts

\* An item is stored: it fits, or it is alone.
LEMMA Stored ==
  ASSUME TypedItems, ~closed, now \in Time, UNCHANGED closed,
         IsFiniteSet(Bytes(items)), usage = Cardinality(Bytes(items)),
         NEW k \in Key, NEW size \in Size, NEW ttl \in TTLs,
         Store(k, size, ttl), ~Exceeds(size) \/ Present = {}
  PROVE  Accounts'
<1>1. /\ Present \subseteq Key /\ usage \in Nat /\ \A j \in Present : items[j] \in Item
      /\ size \in Nat /\ ttl \in Nat
  BY CacheAssumption DEF TypedItems
<1>2. /\ Present' = Present \cup {k}
      /\ items'[k] = [size |-> size, created |-> now,
                      expires |-> IF ttl > 0 THEN now + ttl ELSE Never]
      /\ \A j \in Present \ {k} : items'[j] = items[j]
      /\ usage' = UsageWithout(k) + size
      /\ totalKeys' = Cardinality(Present')
  BY DEF Store, Present, KeysAfterStore
<1>3. items'[k] \in Item /\ items'[k].size = size
  <2>1. now \in Nat
    BY CacheAssumption DEF Time
  <2>2. (IF ttl > 0 THEN now + ttl ELSE Never) \in Nat
    BY <1>1, <2>1 DEF Never
  <2>3. QED
    BY <1>1, <1>2, <2>2 DEF Item
<1> DEFINE rest == Cardinality(Bytes(Without(items, {k})))
<1>4. /\ IsFiniteSet(Bytes(items'))
      /\ Cardinality(Bytes(items')) = rest + size
  <2>1. k \in DOMAIN items' /\ items'[k].size \in Nat
    BY <1>1, <1>2, <1>3 DEF Present
  <2>2. Without(items', {k}) = Without(items, {k})
    BY <1>2 DEF Present, Without
  <2>3. QED
    BY <1>3, <2>1, <2>2, StoredSum
<1>5. rest \in Nat /\ rest <= usage /\ UsageWithout(k) = rest
  <2>1. CASE k \in Present
    <3>1. /\ rest \in Nat
          /\ SumOfSizes([j \in {k} |-> items[j]]) \in Nat
          /\ usage = rest + SumOfSizes([j \in {k} |-> items[j]])
      <4>1. {k} \subseteq DOMAIN items
        BY <2>1 DEF Present
      <4>2. QED
        BY <4>1, RemovedSum
    <3>2. SumOfSizes([j \in {k} |-> items[j]]) = items[k].size
      BY <1>1, <2>1, OneSum DEF Present, Item
    <3>3. QED
      BY <1>1, <2>1, <3>1, <3>2 DEF UsageWithout
  <2>2. CASE k \notin Present
    <3>1. Bytes(Without(items, {k})) = Bytes(items)
      BY <2>2 DEF Bytes, Without, Present
    <3>2. QED
      BY <1>1, <2>2, <3>1 DEF UsageWithout
  <2>3. QED
    BY <2>1, <2>2
<1>6. usage' = Cardinality(Bytes(items')) /\ usage' \in Nat /\ usage' <= usage + size
  BY <1>1, <1>2, <1>4, <1>5
<1>7. TypedItems'
  <2>1. Present' \subseteq Key
    BY <1>1, <1>2
  <2>2. totalKeys' \in 0 .. Cardinality(Key)
    BY <1>2, <2>1, PresentFinite
  <2>3. QED
    BY <1>1, <1>2, <1>3, <1>6, <2>1, <2>2 DEF TypedItems
<1>8. Exact'
  BY <1>2, <1>4, <1>6 DEF Exact
<1>9. ASSUME usage' > MaxSize PROVE Cardinality(Present') = 1
  <2>1. Present = {}
    BY <1>1, <1>6, <1>9, LimitType DEF Exceeds
  <2>2. QED
    BY <1>2, <2>1, FS_Singleton
<1>10. QED
  BY <1>7, <1>8, <1>9 DEF Accounts, Limited

\* A round of the eviction takes an old item out, or does nothing.
LEMMA Evicted ==
  ASSUME Accounts, ~closed, UNCHANGED <<pc, closed, totalKeys>>, NEW p \in Evicting,
         NEW k \in Present, items' = Without(items, {k}), usage' = usage - items[k].size
  PROVE  Accounts'
<1>1. Present \subseteq Key /\ usage \in Nat /\ \A j \in Present : items[j] \in Item
  BY DEF Accounts, TypedItems
<1>2. Present' = Present \ {k} /\ \A j \in Present' : items'[j] = items[j]
  BY DEF Without, Present
<1>3. IsFiniteSet(Bytes(items)) /\ usage = Cardinality(Bytes(items))
  BY DEF Accounts, TypedItems, Exact
<1>4. SumOfSizes([j \in {k} |-> items[j]]) = items[k].size
  BY <1>1, OneSum DEF Present, Item
<1>5. /\ IsFiniteSet(Bytes(items'))
      /\ usage' \in Nat /\ usage' = Cardinality(Bytes(items')) /\ usage' <= usage
  <2>1. {k} \subseteq DOMAIN items
    BY DEF Present
  <2>2. /\ IsFiniteSet(Bytes(items')) /\ Cardinality(Bytes(items')) \in Nat
        /\ SumOfSizes([j \in {k} |-> items[j]]) \in Nat
        /\ usage = Cardinality(Bytes(items')) + SumOfSizes([j \in {k} |-> items[j]])
    BY <1>3, <2>1, RemovedSum
  <2>3. QED
    BY <1>1, <1>4, <2>2
<1>6. TypedItems'
  BY <1>1, <1>2, <1>5 DEF Accounts, TypedItems
<1>7. Evicting' = Evicting
  BY DEF Evicting
<1>8. Exact'
  BY <1>5, <1>7 DEF Exact
<1>9. ASSUME usage' > MaxSize PROVE Cardinality(Present') = 1
  <2>1. usage > MaxSize
    BY <1>1, <1>5, <1>9, LimitType
  <2>2. Cardinality(Present) = 1 /\ IsFiniteSet(Present)
    BY <1>1, <2>1, PresentFinite DEF Accounts, Limited
  <2>3. Present' = {}
    BY <1>2, <2>2, FS_Singleton
  <2>4. usage' = 0
    BY <1>5, <2>3, NoBytes DEF Present
  <2>5. QED
    BY <1>9, <2>4, LimitType
<1>10. QED
  BY <1>6, <1>8, <1>9 DEF Accounts, Limited

-------------------------------------------------------------------------------
\* What does not touch the items or the statistics of them keeps their accounts.
LEMMA AccountsKept ==
  ASSUME Accounts, UNCHANGED <<items, usage, totalKeys, closed>>,
         Evicting' = {} => Evicting = {}
  PROVE  Accounts'
<1>1. TypedItems'
  BY DEF Accounts, TypedItems, Present
<1>2. Exact'
  BY DEF Accounts, TypedItems, Exact, Present
<1>3. Limited'
  BY DEF Accounts, TypedItems, Limited, Present
<1>4. QED
  BY <1>1, <1>2, <1>3 DEF Accounts

\* What leaves the readers alone keeps the tally, a delayed deletion less included.
LEMMA LookupsKept ==
  ASSUME Lookups, UNCHANGED <<counter, gets>>, Readers' = Readers,
         \A p \in Readers : pc'[p] = pc[p],
         delayed' \in [Key -> Nat], \A k \in Key : delayed'[k] <= delayed[k]
  PROVE  Lookups'
<1>1. TypedGets'
  BY DEF Lookups, TypedGets
<1>2. Tally'
  <2>1. PICK h \in Nat, m \in Nat :
          /\ gets = h + m + Cardinality(Readers)
          /\ counter.hits <= h /\ counter.misses <= m
          /\ h + m > 0 => counter.hits + counter.misses > 0
          /\ \A p \in Readers : pc[p].read <= IF pc[p].which = "hits" THEN h ELSE m
    BY DEF Lookups, Tally
  <2>2. QED
    BY <2>1 DEF Tally
<1>3. Delays'
  <2>1. Cardinality(Readers) \in Nat /\ gets \in Int
    BY CacheAssumption, FS_CardinalityType DEF Lookups, Delays, TypedGets
  <2>2. ASSUME NEW k \in Key PROVE delayed'[k] + Cardinality(Readers) <= gets
    BY <2>1 DEF Lookups, Delays, TypedGets
  <2>3. QED
    BY <2>2 DEF Lookups, Delays
<1>4. QED
  BY <1>1, <1>2, <1>3 DEF Lookups

\* Nobody that holds c.mu moves.
LEMMA ProcsKept ==
  ASSUME IInv, UNCHANGED <<counter, gets, delayed, pc>>
  PROVE  Evicting' = Evicting /\ Readers' = Readers /\ Lookups'
<1>1. Evicting' = Evicting /\ Readers' = Readers
  BY DEF Evicting, Readers
<1>2. delayed' \in [Key -> Nat] /\ \A k \in Key : delayed'[k] <= delayed[k]
  BY DEF IInv, Lookups, TypedGets
<1>3. QED
  BY <1>1, <1>2, LookupsKept DEF IInv

\* A Get looks a key up.
LEMMA GetLookupStep ==
  ASSUME IInv, NEW p \in Proc, NEW k \in Key, GetLookup(p, k)
  PROVE  IInv'
<1>1. PICK r \in Count :
        /\ pc' = [pc EXCEPT ![p] = r]
        /\ r.at = "counting" /\ r.read = counter[r.which] /\ r.which \in {"hits", "misses"}
  <2>1. PICK which \in {"hits", "misses"}, purge \in BOOLEAN :
          pc' = [pc EXCEPT ![p] = [at |-> "counting", key |-> k, which |-> which,
                                   read |-> counter[which], purge |-> purge]]
    <3> DEFINE found == k \in Present
               which == IF found /\ ~Expired(items[k]) THEN "hits" ELSE "misses"
    <3>1. which \in {"hits", "misses"}
      OBVIOUS
    <3>2. (found /\ which = "misses") \in BOOLEAN
      OBVIOUS
    <3>3. pc' = [pc EXCEPT ![p] = [at |-> "counting", key |-> k, which |-> which,
                                   read |-> counter[which],
                                   purge |-> found /\ which = "misses"]]
      BY DEF GetLookup
    <3> HIDE DEF which, found
    <3>4. QED
      BY <3>1, <3>2, <3>3
  <2>2. counter[which] \in Nat
    BY DEF IInv, Lookups, TypedGets
  <2>3. [at |-> "counting", key |-> k, which |-> which,
         read |-> counter[which], purge |-> purge] \in Count
    BY <2>2 DEF Count
  <2>4. QED
    BY <2>1, <2>3
<1>2. /\ pc[p] = Idle /\ Evicting = {} /\ gets < MaxGets /\ gets' = gets + 1
      /\ UNCHANGED <<items, usage, totalKeys, counter, closed, cleaner, delayed, now>>
  BY DEF GetLookup, MayRead
<1>3. pc' \in [Proc -> {Idle} \cup Count \cup Eviction]
  BY <1>1 DEF IInv, TypedRest
<1>4. \A q \in Proc : pc'[q] = IF q = p THEN r ELSE pc[q]
  BY <1>1 DEF IInv, TypedRest
<1>5. p \notin Readers /\ Readers' = Readers \cup {p} /\ Evicting' = {}
  BY <1>1, <1>2, <1>4 DEF Readers, Evicting, Idle
<1>6. TypedRest' /\ Locked'
  BY <1>2, <1>3, <1>5 DEF IInv, TypedRest, Locked
<1>7. Accounts'
  BY <1>2, <1>5, AccountsKept DEF IInv
<1>8. gets \in Nat /\ MaxGets \in Nat
  BY CacheAssumption DEF IInv, Lookups, TypedGets
<1>9. TypedGets'
  BY <1>2, <1>8 DEF IInv, Lookups, TypedGets
<1>10. /\ IsFiniteSet(Readers') /\ Cardinality(Readers') = Cardinality(Readers) + 1
       /\ Cardinality(Readers) \in Nat
  BY <1>5, FS_AddElement, FS_CardinalityType DEF IInv, Lookups, Delays
<1>11. Tally'
  <2>1. PICK h \in Nat, m \in Nat :
          /\ gets = h + m + Cardinality(Readers)
          /\ counter.hits <= h /\ counter.misses <= m
          /\ h + m > 0 => counter.hits + counter.misses > 0
          /\ \A q \in Readers : pc[q].read <= IF pc[q].which = "hits" THEN h ELSE m
    BY DEF IInv, Lookups, Tally
  <2>2. gets' = h + m + Cardinality(Readers')
    BY <1>2, <1>8, <1>10, <2>1
  <2>3. r.read <= IF r.which = "hits" THEN h ELSE m
    BY <1>1, <2>1
  <2>4. \A q \in Readers' : pc'[q].read <= IF pc'[q].which = "hits" THEN h ELSE m
    <3>1. \A q \in Readers : q \in Proc /\ q # p
      BY <1>5 DEF Readers
    <3>2. QED
      BY <1>4, <1>5, <2>1, <2>3, <3>1
  <2>5. QED
    BY <1>2, <2>1, <2>2, <2>4 DEF Tally
<1>12. Delays'
  <2>1. ASSUME NEW j \in Key PROVE delayed'[j] + Cardinality(Readers') <= gets'
    BY <1>2, <1>8, <1>10 DEF IInv, Lookups, Delays, TypedGets
  <2>2. QED
    BY <1>10, <2>1 DEF Delays
<1>13. QED
  BY <1>6, <1>7, <1>9, <1>11, <1>12 DEF IInv, Lookups

\* A Get returns: its own count is what it read and one more.
LEMMA GetReturnStep ==
  ASSUME IInv, NEW p \in Proc, GetReturn(p)
  PROVE  IInv'
<1> DEFINE r == pc[p]
<1>1. /\ r.at = "counting" /\ pc' = [pc EXCEPT ![p] = Idle]
      /\ counter' = [counter EXCEPT ![r.which] = r.read + 1]
      /\ delayed' = IF r.purge THEN [delayed EXCEPT ![r.key] = @ + 1] ELSE delayed
      /\ UNCHANGED <<items, usage, totalKeys, closed, cleaner, now, gets>>
  BY DEF GetReturn, Counted
<1>2. r \in Count
  BY <1>1 DEF IInv, TypedRest, Idle, Eviction
<1>3. r.which \in {"hits", "misses"} /\ r.read \in Nat /\ r.key \in Key /\ r.purge \in BOOLEAN
  BY <1>2 DEF Count
<1> HIDE DEF r
<1>4. pc' \in [Proc -> {Idle} \cup Count \cup Eviction]
  BY <1>1 DEF IInv, TypedRest
<1>5. \A q \in Proc : pc'[q] = IF q = p THEN Idle ELSE pc[q]
  BY <1>1 DEF IInv, TypedRest
<1>6. p \in Readers /\ Readers' = Readers \ {p} /\ Evicting' = Evicting
  BY <1>1, <1>5 DEF Readers, Evicting, Idle, r
<1>7. TypedRest' /\ Locked'
  BY <1>1, <1>4, <1>6 DEF IInv, TypedRest, Locked
<1>8. Accounts'
  BY <1>1, <1>6, AccountsKept DEF IInv
<1>9. gets \in Nat /\ \A k \in Key : delayed[k] \in Nat
  BY CacheAssumption DEF IInv, Lookups, TypedGets
<1>10. /\ IsFiniteSet(Readers') /\ Cardinality(Readers') = Cardinality(Readers) - 1
       /\ Cardinality(Readers) \in Nat /\ Cardinality(Readers') \in Nat
  BY <1>6, FS_RemoveElement, FS_CardinalityType DEF IInv, Lookups, Delays
<1>11. /\ counter' \in [hits : Nat, misses : Nat]
       /\ counter'.hits = IF r.which = "hits" THEN r.read + 1 ELSE counter.hits
       /\ counter'.misses = IF r.which = "misses" THEN r.read + 1 ELSE counter.misses
  BY <1>1, <1>3 DEF IInv, Lookups, TypedGets
<1>12. delayed' \in [Key -> Nat] /\ \A k \in Key : delayed'[k] <= delayed[k] + 1
  <2>1. CASE r.purge
    BY <1>1, <1>3, <1>9, <2>1 DEF IInv, Lookups, TypedGets
  <2>2. CASE ~r.purge
    BY <1>1, <1>9, <2>2 DEF IInv, Lookups, TypedGets
  <2>3. QED
    BY <2>1, <2>2
<1>13. TypedGets'
  BY <1>1, <1>11, <1>12 DEF IInv, Lookups, TypedGets
<1>14. Tally'
  <2>1. PICK h \in Nat, m \in Nat :
          /\ gets = h + m + Cardinality(Readers)
          /\ counter.hits <= h /\ counter.misses <= m
          /\ h + m > 0 => counter.hits + counter.misses > 0
          /\ \A q \in Readers : pc[q].read <= IF pc[q].which = "hits" THEN h ELSE m
    BY DEF IInv, Lookups, Tally
  <2>2. \A q \in Readers' : q \in Readers /\ pc'[q] = pc[q] /\ pc[q].read \in Nat
    <3>1. \A q \in Readers' : q \in Proc /\ q \in Readers /\ q # p
      BY <1>6 DEF Readers
    <3>2. \A q \in Readers : pc[q] \in Count
      BY DEF IInv, TypedRest, Readers, Idle, Eviction
    <3>3. QED
      BY <1>5, <3>1, <3>2 DEF Count
  <2>3. counter.hits \in Nat /\ counter.misses \in Nat
    BY DEF IInv, Lookups, TypedGets
  <2>4. CASE r.which = "hits"
    <3>1. r.read <= h
      BY <1>6, <2>1, <2>4 DEF r
    <3>2. /\ counter'.hits <= h + 1 /\ counter'.misses <= m
          /\ counter'.hits + counter'.misses > 0
      BY <1>3, <1>11, <2>1, <2>3, <2>4, <3>1
    <3>3. gets' = (h + 1) + m + Cardinality(Readers')
      BY <1>1, <1>10, <2>1
    <3>4. \A q \in Readers' : pc'[q].read <= IF pc'[q].which = "hits" THEN h + 1 ELSE m
      BY <2>1, <2>2
    <3>5. h + 1 \in Nat
      OBVIOUS
    <3>6. QED
      BY <3>2, <3>3, <3>4, <3>5 DEF Tally
  <2>5. CASE r.which = "misses"
    <3>1. r.read <= m
      BY <1>6, <2>1, <2>5 DEF r
    <3>2. /\ counter'.hits <= h /\ counter'.misses <= m + 1
          /\ counter'.hits + counter'.misses > 0
      BY <1>3, <1>11, <2>1, <2>3, <2>5, <3>1
    <3>3. gets' = h + (m + 1) + Cardinality(Readers')
      BY <1>1, <1>10, <2>1
    <3>4. \A q \in Readers' : pc'[q].read <= IF pc'[q].which = "hits" THEN h ELSE m + 1
      BY <2>1, <2>2
    <3>5. m + 1 \in Nat
      OBVIOUS
    <3>6. QED
      BY <3>2, <3>3, <3>4, <3>5 DEF Tally
  <2>6. QED
    BY <1>3, <2>4, <2>5
<1>15. Delays'
  <2>1. ASSUME NEW k \in Key PROVE delayed'[k] + Cardinality(Readers') <= gets'
    <3>1. delayed'[k] \in Nat /\ delayed'[k] <= delayed[k] + 1
      BY <1>12
    <3>2. delayed[k] + Cardinality(Readers) <= gets
      BY DEF IInv, Lookups, Delays
    <3>3. QED
      BY <1>1, <1>9, <1>10, <3>1, <3>2
  <2>2. QED
    BY <1>10, <2>1 DEF Delays
<1>16. QED
  BY <1>7, <1>8, <1>13, <1>14, <1>15 DEF IInv, Lookups

\* A Set stores its item, or takes the lock and begins to evict.
LEMMA SetStep ==
  ASSUME IInv, NEW p \in Proc, NEW k \in Key, NEW size \in Size, NEW ttl \in TTLs,
         Set(p, k, size, ttl)
  PROVE  IInv'
<1>1. /\ pc[p] = Idle /\ Evicting = {} /\ Readers = {} /\ ~closed
      /\ UNCHANGED <<counter, closed, cleaner, delayed, now, gets>>
  BY DEF Set, MayWrite
<1>2. CASE Exceeds(size)
  <2> DEFINE r == [at |-> "evicting", key |-> k, size |-> size, ttl |-> ttl]
  <2>1. pc' = [pc EXCEPT ![p] = r] /\ UNCHANGED <<items, usage, totalKeys>>
    BY <1>2 DEF Set
  <2>2. r \in Eviction /\ r.at = "evicting"
    BY DEF Eviction
  <2> HIDE DEF r
  <2>3. pc' \in [Proc -> {Idle} \cup Count \cup Eviction]
    BY <2>1, <2>2 DEF IInv, TypedRest
  <2>4. \A q \in Proc : pc'[q] = IF q = p THEN r ELSE pc[q]
    BY <2>1 DEF IInv, TypedRest
  <2>5. Readers' = Readers /\ Evicting' = {p}
    BY <1>1, <2>2, <2>4 DEF Readers, Evicting
  <2>6. TypedRest' /\ Locked'
    BY <1>1, <2>3, <2>5 DEF IInv, TypedRest, Locked
  <2>7. Accounts'
    BY <1>1, <2>1, <2>5, AccountsKept DEF IInv
  <2>8. delayed' \in [Key -> Nat] /\ \A j \in Key : delayed'[j] <= delayed[j]
    BY <1>1 DEF IInv, Lookups, TypedGets
  <2>9. Lookups'
    BY <1>1, <2>5, <2>8, LookupsKept DEF IInv
  <2>10. QED
    BY <2>6, <2>7, <2>9 DEF IInv
<1>3. CASE ~Exceeds(size)
  <2>1. Store(k, size, ttl) /\ UNCHANGED pc
    BY <1>3 DEF Set
  <2>2. TypedItems /\ IsFiniteSet(Bytes(items)) /\ usage = Cardinality(Bytes(items))
    BY <1>1 DEF IInv, Accounts, TypedItems, Exact
  <2>3. Accounts'
    BY <1>1, <1>3, <2>1, <2>2, Stored DEF IInv, TypedRest
  <2>4. Evicting' = Evicting /\ Readers' = Readers /\ Lookups'
    BY <1>1, <2>1, ProcsKept
  <2>5. TypedRest' /\ Locked'
    BY <1>1, <2>1, <2>4 DEF IInv, TypedRest, Locked
  <2>6. QED
    BY <2>3, <2>4, <2>5 DEF IInv
<1>4. QED
  BY <1>2, <1>3

\* A round of the eviction.
LEMMA EvictRoundStep ==
  ASSUME IInv, NEW p \in Proc, EvictRound(p)
  PROVE  IInv'
<1>1. /\ pc[p].at = "evicting"
      /\ UNCHANGED <<totalKeys, counter, closed, cleaner, delayed, pc, now, gets>>
  BY DEF EvictRound
<1>2. p \in Evicting /\ ~closed
  BY <1>1 DEF Evicting, IInv, Locked
<1>3. Evicting' = Evicting /\ Readers' = Readers /\ Lookups'
  BY <1>1, ProcsKept
<1>4. TypedRest' /\ Locked'
  BY <1>1, <1>3 DEF IInv, TypedRest, Locked
<1>5. PICK k \in Present : \/ /\ items' = Without(items, {k})
                              /\ usage' = usage - items[k].size
                           \/ UNCHANGED <<items, usage>>
  BY DEF EvictRound, Oldest
<1>6. CASE items' = Without(items, {k}) /\ usage' = usage - items[k].size
  BY <1>1, <1>2, <1>3, <1>4, <1>6, Evicted DEF IInv
<1>7. CASE UNCHANGED <<items, usage>>
  BY <1>1, <1>3, <1>4, <1>7, AccountsKept DEF IInv
<1>8. QED
  BY <1>5, <1>6, <1>7

\* The eviction is done and the item is stored.
LEMMA SetReturnStep ==
  ASSUME IInv, NEW p \in Proc, SetReturn(p)
  PROVE  IInv'
<1> DEFINE r == pc[p]
<1>1. /\ r.at = "evicting" /\ ~MustEvict(p) /\ Store(r.key, r.size, r.ttl)
      /\ pc' = [pc EXCEPT ![p] = Idle]
      /\ UNCHANGED <<counter, closed, cleaner, delayed, now, gets>>
  BY DEF SetReturn
<1>2. r \in Eviction
  BY <1>1 DEF IInv, TypedRest, Idle, Count
<1>3. r.key \in Key /\ r.size \in Size /\ r.ttl \in TTLs
  BY <1>2 DEF Eviction
<1>4. p \in Evicting /\ ~closed /\ Readers = {} /\ \A q \in Evicting : q = p
  BY <1>1 DEF Evicting, IInv, Locked
<1>5. ~Exceeds(r.size) \/ Present = {}
  BY <1>1 DEF MustEvict
<1> HIDE DEF r
<1>6. TypedItems /\ IsFiniteSet(Bytes(items)) /\ usage = Cardinality(Bytes(items))
  BY <1>4 DEF IInv, Accounts, TypedItems, Exact
<1>7. Accounts'
  BY <1>1, <1>3, <1>4, <1>5, <1>6, Stored DEF IInv, TypedRest
<1>8. pc' \in [Proc -> {Idle} \cup Count \cup Eviction]
  BY <1>1 DEF IInv, TypedRest
<1>9. \A q \in Proc : pc'[q] = IF q = p THEN Idle ELSE pc[q]
  BY <1>1 DEF IInv, TypedRest
<1>10. Readers' = Readers /\ Evicting' = {}
  BY <1>4, <1>9 DEF Readers, Evicting, Idle
<1>11. TypedRest' /\ Locked'
  BY <1>1, <1>8, <1>10 DEF IInv, TypedRest, Locked
<1>12. delayed' \in [Key -> Nat] /\ \A j \in Key : delayed'[j] <= delayed[j]
  BY <1>1 DEF IInv, Lookups, TypedGets
<1>13. Lookups'
  BY <1>1, <1>4, <1>10, <1>12, LookupsKept DEF IInv
<1>14. QED
  BY <1>7, <1>11, <1>13 DEF IInv

\* An empty cache.
LEMMA Emptied ==
  ASSUME TypedItems, items' = [k \in {} |-> 0], usage' \in Nat,
         totalKeys' \in 0 .. Cardinality(Key), closed' \in BOOLEAN,
         ~closed' => usage' = 0 /\ totalKeys' = 0
  PROVE  Accounts'
<1>1. Present' = {} /\ DOMAIN items' = {}
  BY DEF Present
<1>2. TypedItems'
  BY <1>1 DEF TypedItems
<1>3. Cardinality(Present') = 0
  BY <1>1, FS_EmptySet
<1>4. Exact'
  BY <1>1, <1>3, NoBytes DEF Exact
<1>5. Limited'
  BY LimitType DEF Limited
<1>6. QED
  BY <1>2, <1>4, <1>5 DEF Accounts

\* A step of a writer that takes the lock and gives it back, or of nobody that holds it.
LEMMA BriefStep ==
  ASSUME IInv, Accounts', Lookups', UNCHANGED pc, cleaner' \in {"running", "exited"},
         now' \in Time, Evicting = {} \/ ~closed'
  PROVE  IInv'
<1>1. Evicting' = Evicting /\ Readers' = Readers
  BY DEF Evicting, Readers
<1>2. TypedRest'
  BY DEF IInv, TypedRest
<1>3. Locked'
  BY <1>1 DEF IInv, Locked
<1>4. QED
  BY <1>2, <1>3 DEF IInv

\* The deletions, Clear, Close, the cleaner and the clock.
LEMMA OtherSteps ==
  ASSUME IInv, \/ \E k \in Key : Delete(k) \/ DelayedDelete(k)
               \/ Clear \/ Close \/ Sweep \/ CleanerExit \/ TimePasses \/ UNCHANGED vars
  PROVE  IInv'
<1>0. /\ Accounts /\ TypedItems /\ cleaner \in {"running", "exited"} /\ now \in Time
      /\ closed \in BOOLEAN /\ Cardinality(Key) \in Nat
  BY CacheAssumption, FS_CardinalityType DEF IInv, Accounts, TypedItems, TypedRest
<1>1. ASSUME NEW k \in Key, Delete(k) PROVE IInv'
  <2>1. /\ MayWrite /\ Evicting = {} /\ ~closed /\ {k} \subseteq Present /\ Remove({k})
        /\ UNCHANGED <<counter, closed, cleaner, delayed, pc, now, gets>>
    BY <1>1 DEF Delete, MayWrite
  <2>2. Accounts' /\ Lookups'
    BY <1>0, <2>1, Removed, ProcsKept
  <2>3. QED
    BY <1>0, <2>1, <2>2, BriefStep
<1>2. ASSUME NEW k \in Key, DelayedDelete(k) PROVE IInv'
  <2>1. /\ MayWrite /\ Evicting = {} /\ delayed[k] > 0
        /\ delayed' = [delayed EXCEPT ![k] = @ - 1]
        /\ UNCHANGED <<counter, closed, cleaner, pc, now, gets>>
        /\ \/ ~closed /\ {k} \subseteq Present /\ Remove({k})
           \/ UNCHANGED <<items, usage, totalKeys>>
    BY <1>2 DEF DelayedDelete, MayWrite
  <2>2. Evicting' = Evicting /\ Readers' = Readers
    BY <2>1 DEF Evicting, Readers
  <2>3. delayed' \in [Key -> Nat] /\ \A j \in Key : delayed'[j] <= delayed[j]
    BY <2>1 DEF IInv, Lookups, TypedGets
  <2>4. Lookups'
    BY <2>1, <2>2, <2>3, LookupsKept DEF IInv
  <2>5. CASE ~closed /\ {k} \subseteq Present /\ Remove({k})
    <3>1. Accounts'
      BY <1>0, <2>1, <2>5, Removed
    <3>2. QED
      BY <1>0, <2>1, <2>4, <3>1, BriefStep
  <2>6. CASE UNCHANGED <<items, usage, totalKeys>>
    <3>1. Accounts'
      BY <1>0, <2>1, <2>2, <2>6, AccountsKept
    <3>2. QED
      BY <1>0, <2>1, <2>4, <3>1, BriefStep
  <2>7. QED
    BY <2>1, <2>5, <2>6
<1>3. CASE Clear
  <2>1. /\ Evicting = {} /\ ~closed
        /\ items' = [k \in {} |-> 0] /\ usage' = 0 /\ totalKeys' = 0
        /\ UNCHANGED <<counter, closed, cleaner, delayed, pc, now, gets>>
    BY <1>3 DEF Clear, MayWrite
  <2>2. Accounts'
    BY <1>0, <2>1, Emptied
  <2>3. QED
    BY <1>0, <2>1, <2>2, ProcsKept, BriefStep
<1>4. CASE Close
  <2>1. /\ Evicting = {} /\ closed' = TRUE /\ items' = [k \in {} |-> 0]
        /\ UNCHANGED <<usage, totalKeys, counter, cleaner, delayed, pc, now, gets>>
    BY <1>4 DEF Close, MayWrite
  <2>2. closed' \in BOOLEAN
    BY <2>1
  <2>3. usage' \in Nat /\ totalKeys' \in 0 .. Cardinality(Key)
    BY <2>1 DEF IInv, Accounts, TypedItems
  <2>4. Accounts'
    BY <1>0, <2>1, <2>2, <2>3, Emptied
  <2>5. QED
    BY <1>0, <2>1, <2>4, ProcsKept, BriefStep
<1>5. CASE Sweep
  <2>1. /\ MayWrite /\ Evicting = {} /\ ~closed /\ Stale \subseteq Present /\ Remove(Stale)
        /\ UNCHANGED <<counter, closed, cleaner, delayed, pc, now, gets>>
    BY <1>5 DEF Sweep, MayWrite, Stale
  <2>2. Accounts' /\ Lookups'
    BY <1>0, <2>1, Removed, ProcsKept
  <2>3. QED
    BY <1>0, <2>1, <2>2, BriefStep
<1>6. CASE CleanerExit
  <2>1. /\ closed /\ cleaner' = "exited"
        /\ UNCHANGED <<items, usage, totalKeys, counter, closed, delayed, pc, now, gets>>
    BY <1>6 DEF CleanerExit
  <2>2. Evicting = {}
    BY <2>1 DEF IInv, Locked
  <2>3. Evicting' = Evicting /\ Lookups'
    BY <2>1, ProcsKept
  <2>4. Accounts'
    BY <1>0, <2>1, <2>3, AccountsKept
  <2>5. QED
    BY <1>0, <2>1, <2>2, <2>3, <2>4, BriefStep
<1>7. CASE TimePasses
  <2>1. /\ now < MaxTime /\ now' = now + 1
        /\ UNCHANGED <<items, usage, totalKeys, counter, closed, cleaner, delayed, pc, gets>>
    BY <1>7 DEF TimePasses
  <2>2. now' \in Time
    BY <1>0, <2>1, CacheAssumption DEF Time
  <2>3. Evicting' = Evicting /\ Lookups'
    BY <2>1, ProcsKept
  <2>4. Accounts'
    BY <1>0, <2>1, <2>3, AccountsKept
  <2>5. Evicting = {} \/ ~closed'
    BY <2>1 DEF IInv, Locked
  <2>6. QED
    BY <1>0, <2>1, <2>2, <2>3, <2>4, <2>5, BriefStep
<1>8. CASE UNCHANGED vars
  <2>1. UNCHANGED <<items, usage, totalKeys, counter, closed, cleaner, delayed, pc, now, gets>>
    BY <1>8 DEF vars
  <2>2. Evicting' = Evicting /\ Lookups'
    BY <2>1, ProcsKept
  <2>3. Accounts'
    BY <1>0, <2>1, <2>2, AccountsKept
  <2>4. Evicting = {} \/ ~closed'
    BY <2>1 DEF IInv, Locked
  <2>5. QED
    BY <1>0, <2>1, <2>2, <2>3, <2>4, BriefStep
<1>9. QED
  BY <1>1, <1>2, <1>3, <1>4, <1>5, <1>6, <1>7, <1>8

\* Every step keeps the invariant.
LEMMA NextIInv == IInv /\ [Next]_vars => IInv'
BY GetLookupStep, GetReturnStep, SetStep, EvictRoundStep, SetReturnStep, OtherSteps DEF Next

\* The inductive invariant always holds.
THEOREM Invariance == Spec => []IInv
BY InitIInv, NextIInv, PTL DEF Spec

\* Every variable keeps its type; no delayed deletion and no count is without a Get.
THEOREM TypeCorrect == Spec => []TypeOK
<1>1. ASSUME IInv PROVE TypeOK
  <2>1. gets \in 0 .. MaxGets /\ gets \in Nat /\ MaxGets \in Nat
    BY <1>1, CacheAssumption DEF IInv, Lookups, TypedGets
  <2>2. Cardinality(Readers) \in Nat
    BY <1>1, FS_CardinalityType DEF IInv, Lookups, Delays
  <2>3. /\ counter \in [hits : Nat, misses : Nat]
        /\ counter.hits <= gets /\ counter.misses <= gets
    <3>1. PICK h \in Nat, m \in Nat : /\ gets = h + m + Cardinality(Readers)
                                      /\ counter.hits <= h /\ counter.misses <= m
      BY <1>1 DEF IInv, Lookups, Tally
    <3>2. counter \in [hits : Nat, misses : Nat]
      BY <1>1 DEF IInv, Lookups, TypedGets
    <3>3. QED
      BY <2>1, <2>2, <3>1, <3>2
  <2>4. counter \in [hits : 0 .. MaxGets, misses : 0 .. MaxGets]
    BY <2>1, <2>3
  <2>5. delayed \in [Key -> 0 .. MaxGets]
    <3>1. delayed \in [Key -> Nat] /\ \A k \in Key : delayed[k] + Cardinality(Readers) <= gets
      BY <1>1 DEF IInv, Lookups, TypedGets, Delays
    <3>2. ASSUME NEW k \in Key PROVE delayed[k] \in 0 .. MaxGets
      BY <2>1, <2>2, <3>1
    <3>3. QED
      BY <3>1, <3>2
  <2>6. \A p \in Proc : pc[p].at \in {"idle", "counting", "evicting"}
    BY <1>1 DEF IInv, TypedRest, Idle, Count, Eviction
  <2>7. QED
    BY <1>1, <2>1, <2>4, <2>5, <2>6 DEF IInv, Accounts, TypedItems, TypedRest, TypeOK
<1>2. QED
  BY <1>1, Invariance, PTL

\* The statistics tell the truth: the memory and the keys in use are counted exactly,
\* the limit is exceeded by a lone item only, and lost increments only take away.
THEOREM StatisticsTrue == Spec => []Accounting
<1>1. ASSUME IInv PROVE Accounting
  <2>1. UsageExact
    BY <1>1 DEF IInv, Accounts, TypedItems, Exact, UsageExact, SumOfSizes
  <2>2. OverLimitAlone
    BY <1>1 DEF IInv, Accounts, TypedItems, Limited, OverLimitAlone
  <2>3. CountersBounded
    <3>1. PICK h \in Nat, m \in Nat : /\ gets = h + m + Cardinality(Readers)
                                      /\ counter.hits <= h /\ counter.misses <= m
                                      /\ h + m > 0 => counter.hits + counter.misses > 0
      BY <1>1 DEF IInv, Lookups, Tally
    <3>2. counter.hits \in Nat /\ counter.misses \in Nat
      BY <1>1 DEF IInv, Lookups, TypedGets
    <3>3. Cardinality(Readers) \in Nat
      BY <1>1, FS_CardinalityType DEF IInv, Lookups, Delays
    <3>4. Readers = {} => Cardinality(Readers) = 0
      BY FS_EmptySet
    <3>5. QED
      BY <3>1, <3>2, <3>3, <3>4 DEF CountersBounded
  <2>4. QED
    BY <2>1, <2>2, <2>3 DEF Accounting
<1>2. QED
  BY <1>1, Invariance, PTL
===============================================================================
