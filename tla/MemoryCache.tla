----------------------------- MODULE MemoryCache -----------------------------
(***************************************************************************)
(* The in-memory cache, cache/cache.go.                                    *)
(*                                                                         *)
(* Set, Delete, Clear, Close and the cleaner's sweep run under c.mu; each  *)
(* is one action, except a Set that must evict: its loop may run for ever, *)
(* so it holds the lock over several steps.  Get holds c.mu for reading    *)
(* only, together with other readers, and yet increments a statistic: the  *)
(* increment is a read and a write, and two readers may lose one.  A Get   *)
(* that finds an expired item starts a goroutine that deletes the key some *)
(* time later.                                                             *)
(*                                                                         *)
(* Time is a counter; two items may be stored within one tick, as with a   *)
(* coarse clock.  A value is its size: 64 bytes for a number, a bool or a  *)
(* string, the length of its JSON text for the rest (serialize).  What Get *)
(* decodes it to, the counters of sets, deletes and errors, which are      *)
(* written and never read, and Exists and Stats, which change nothing, are *)
(* left out.                                                               *)
(***************************************************************************)
EXTENDS Integers, FiniteSets, FiniteSetsExt

CONSTANTS Proc,         \* goroutines that use the cache
          Key,          \* keys in use
          EmptyKey,     \* the key "", which may or may not be in Key
          Size,         \* sizes of the values that are stored, in bytes
          TTLs,         \* times to live, in ticks; 0 for none
          CfgMaxSize,   \* MemoryCacheConfig.MaxSize
          MaxTime,      \* bound: ticks of the clock
          MaxGets       \* bound: calls of Get

ASSUME CacheAssumption ==
  /\ IsFiniteSet(Key)
  /\ Size \subseteq Nat
  /\ TTLs \subseteq Nat
  /\ CfgMaxSize \in Int /\ MaxTime \in Nat \ {0} /\ MaxGets \in Nat

\* NewMemoryCache's default is 100 MB.
MaxSize == IF CfgMaxSize <= 0 THEN 100 * 1024 * 1024 ELSE CfgMaxSize

Never == 0
Time == 1 .. MaxTime

VARIABLES
  items,      \* c.items: a function on the keys that are present
  usage,      \* c.stats.MemoryUsage
  totalKeys,  \* c.stats.TotalKeys
  counter,    \* c.stats.Hits and c.stats.Misses
  closed,     \* c.closed
  cleaner,    \* the cleaner goroutine: "running" or "exited"
  delayed,    \* delayed[k]: goroutines that are about to call Delete(k)
  pc,         \* pc[p]: what p is doing while it holds c.mu
  now,        \* the clock
  gets        \* calls of Get that passed the closed test (history)

vars == <<items, usage, totalKeys, counter, closed, cleaner, delayed, pc, now, gets>>

Present == DOMAIN items
Expired(item) == item.expires # Never /\ now > item.expires

\* The bytes that the items of f take, counted one by one.
Bytes(f) == UNION {{k} \X (1 .. f[k].size) : k \in DOMAIN f}
SumOfSizes(f) == Cardinality(Bytes(f))

Without(f, K) == [k \in DOMAIN f \ K |-> f[k]]

Idle == [at |-> "idle"]
Readers == {p \in Proc : pc[p].at = "counting"}
Evicting == {p \in Proc : pc[p].at = "evicting"}
MayRead == Evicting = {}
MayWrite == Evicting = {} /\ Readers = {}

-------------------------------------------------------------------------------
Init == /\ items = [k \in {} |-> 0]
        /\ usage = 0
        /\ totalKeys = 0
        /\ counter = [hits |-> 0, misses |-> 0]
        /\ closed = FALSE
        /\ cleaner = "running"
        /\ delayed = [k \in Key |-> 0]
        /\ pc = [p \in Proc |-> Idle]
        /\ now = 1
        /\ gets = 0

\* Get: the lookup, and the read half of the increment of Hits or Misses.
GetLookup(p, k) ==
  /\ pc[p] = Idle
  /\ MayRead
  /\ ~closed
  /\ gets < MaxGets
  /\ gets' = gets + 1
  /\ LET found == k \in Present
         which == IF found /\ ~Expired(items[k]) THEN "hits" ELSE "misses"
     IN  pc' = [pc EXCEPT ![p] = [at |-> "counting", key |-> k, which |-> which,
                                  read |-> counter[which],
                                  purge |-> found /\ which = "misses"]]
  /\ UNCHANGED <<items, usage, totalKeys, counter, closed, cleaner, delayed, now>>

Counted(p) == [counter EXCEPT ![pc[p].which] = pc[p].read + 1]

\* Get: the write half, the goroutine for an expired key, and the return.  The
\* deferred RUnlock runs also when deserialize panics.
GetReturn(p) ==
  /\ pc[p].at = "counting"
  /\ counter' = Counted(p)
  /\ delayed' = IF pc[p].purge THEN [delayed EXCEPT ![pc[p].key] = @ + 1] ELSE delayed
  /\ pc' = [pc EXCEPT ![p] = Idle]
  /\ UNCHANGED <<items, usage, totalKeys, closed, cleaner, now, gets>>

-------------------------------------------------------------------------------
\* Mutant of UsageWithout: the size of the value being replaced stays counted.
UsageWithoutNothing(k) == usage

UsageWithout(k) == IF k \in Present THEN usage - items[k].size ELSE usage

\* Mutant of KeysAfterStore: counted up instead of taken from the map.
KeysAfterStoreUp(k) == totalKeys + 1

KeysAfterStore(k) == Cardinality(Present \cup {k})

\* Set after its memory check.
Store(k, size, ttl) ==
  /\ items' = [j \in Present \cup {k} |->
                 IF j = k THEN [size |-> size, created |-> now,
                                expires |-> IF ttl > 0 THEN now + ttl ELSE Never]
                          ELSE items[j]]
  /\ usage' = UsageWithout(k) + size
  /\ totalKeys' = KeysAfterStore(k)

Exceeds(size) == usage + size > MaxSize

Set(p, k, size, ttl) ==
  /\ pc[p] = Idle
  /\ MayWrite
  /\ ~closed
  /\ IF Exceeds(size)
       THEN /\ pc' = [pc EXCEPT ![p] = [at |-> "evicting", key |-> k, size |-> size, ttl |-> ttl]]
            /\ UNCHANGED <<items, usage, totalKeys>>
       ELSE Store(k, size, ttl) /\ UNCHANGED pc
  /\ UNCHANGED <<counter, closed, cleaner, delayed, now, gets>>

\* The first of the items with the earliest CreatedAt that the map yields.
Oldest == {k \in Present : \A j \in Present : items[k].created <= items[j].created}

\* The loop tells "no key found" from a key by comparing with "".
Removable(k) == k # EmptyKey

MustEvict(p) == Exceeds(pc[p].size) /\ Present # {}

\* evictLRU: one round of the loop.  A round that picks the key "" does nothing.
EvictRound(p) ==
  /\ pc[p].at = "evicting"
  /\ MustEvict(p)
  /\ \E k \in Oldest :
       IF Removable(k)
         THEN items' = Without(items, {k}) /\ usage' = usage - items[k].size
         ELSE UNCHANGED <<items, usage>>
  /\ UNCHANGED <<totalKeys, counter, closed, cleaner, delayed, pc, now, gets>>

\* evictLRU is done: the rest of Set.
SetReturn(p) ==
  /\ pc[p].at = "evicting"
  /\ ~MustEvict(p)
  /\ Store(pc[p].key, pc[p].size, pc[p].ttl)
  /\ pc' = [pc EXCEPT ![p] = Idle]
  /\ UNCHANGED <<counter, closed, cleaner, delayed, now, gets>>

Remove(K) ==
  /\ items' = Without(items, K)
  /\ usage' = usage - SumOfSizes([k \in K |-> items[k]])
  /\ totalKeys' = Cardinality(Present \ K)

Delete(k) ==
  /\ MayWrite
  /\ ~closed
  /\ k \in Present
  /\ Remove({k})
  /\ UNCHANGED <<counter, closed, cleaner, delayed, pc, now, gets>>

\* The goroutine of a Get that met an expired item: Delete, or nothing when the
\* cache is closed or the key is gone.
DelayedDelete(k) ==
  /\ delayed[k] > 0
  /\ MayWrite
  /\ delayed' = [delayed EXCEPT ![k] = @ - 1]
  /\ IF ~closed /\ k \in Present THEN Remove({k}) ELSE UNCHANGED <<items, usage, totalKeys>>
  /\ UNCHANGED <<counter, closed, cleaner, pc, now, gets>>

Clear ==
  /\ MayWrite
  /\ ~closed
  /\ items' = [k \in {} |-> 0]
  /\ usage' = 0
  /\ totalKeys' = 0
  /\ UNCHANGED <<counter, closed, cleaner, delayed, pc, now, gets>>

\* Close leaves the statistics as they are.
Close ==
  /\ MayWrite
  /\ ~closed
  /\ closed' = TRUE
  /\ items' = [k \in {} |-> 0]
  /\ UNCHANGED <<usage, totalKeys, counter, cleaner, delayed, pc, now, gets>>

-------------------------------------------------------------------------------
\* Mutant of Stale: the comparison is the wrong way round.
StaleNot == {k \in Present : items[k].expires > now}

Stale == {k \in Present : Expired(items[k])}

\* cleaner: a tick of the ticker, cleanupExpired on an open cache.
Sweep ==
  /\ cleaner = "running"
  /\ MayWrite
  /\ ~closed
  /\ Remove(Stale)
  /\ UNCHANGED <<counter, closed, cleaner, delayed, pc, now, gets>>

\* cleaner: stopCleanup is closed.
CleanerExit ==
  /\ cleaner = "running"
  /\ closed
  /\ cleaner' = "exited"
  /\ UNCHANGED <<items, usage, totalKeys, counter, closed, delayed, pc, now, gets>>

TimePasses ==
  /\ now < MaxTime
  /\ now' = now + 1
  /\ UNCHANGED <<items, usage, totalKeys, counter, closed, cleaner, delayed, pc, gets>>

Next == \/ \E p \in Proc : \/ \E k \in Key : GetLookup(p, k)
                           \/ GetReturn(p)
                           \/ \E k \in Key, size \in Size, ttl \in TTLs : Set(p, k, size, ttl)
                           \/ EvictRound(p)
                           \/ SetReturn(p)
        \/ \E k \in Key : Delete(k) \/ DelayedDelete(k)
        \/ Clear
        \/ Close
        \/ Sweep
        \/ CleanerExit
        \/ TimePasses

Spec == Init /\ [][Next]_vars

\* A goroutine that holds c.mu goes on, and the cleaner's ticker and stopCleanup
\* are served: c.mu is free again and again, and Go's mutex does not starve a
\* waiter.
FairSpec == /\ Spec
            /\ \A p \in Proc : WF_vars(GetReturn(p)) /\ WF_vars(EvictRound(p)) /\ WF_vars(SetReturn(p))
            /\ SF_vars(Sweep)
            /\ WF_vars(CleanerExit)

-------------------------------------------------------------------------------
Item == [size : Nat, created : Time, expires : Nat]

\* Every variable holds a value of its Go type (cache.go:40-63).
TypeOK == /\ Present \subseteq Key /\ \A k \in Present : items[k] \in Item
          /\ usage \in Nat
          /\ totalKeys \in 0 .. Cardinality(Key)
          /\ counter \in [hits : 0 .. MaxGets, misses : 0 .. MaxGets]
          /\ closed \in BOOLEAN
          /\ cleaner \in {"running", "exited"}
          /\ delayed \in [Key -> 0 .. MaxGets]
          /\ \A p \in Proc : pc[p].at \in {"idle", "counting", "evicting"}
          /\ now \in Time
          /\ gets \in 0 .. MaxGets

\* The memory statistic is the sum of the sizes of what is stored, and the key
\* statistic their number, across overwrites, evictions, delayed deletions,
\* sweeps and Clear (cache.go:155-170, 184-189, 220-222, 300-304, 340-347).
UsageExact == ~closed => /\ usage = SumOfSizes(items)
                         /\ (Evicting = {} => totalKeys = Cardinality(Present))

\* The limit is exceeded only by a single item that alone is larger than it:
\* the loop evicts all the others and then stores it (cache.go:145-148, 289).
OverLimitAlone == ~closed /\ usage > MaxSize => Cardinality(Present) = 1

\* A lookup never counts more than once, and a lost increment of one reader is
\* the only way to count less (cache.go:104, 109, 117).
CountersBounded == /\ counter.hits + counter.misses <= gets
                   /\ (Readers = {} /\ gets > 0) => counter.hits + counter.misses > 0

\* The statistics tell the truth, so that the limit that is read from them means
\* something.
Accounting == UsageExact /\ OverLimitAlone /\ CountersBounded

\* A Set that finds the oldest item under the empty key runs for ever, with c.mu held.
Stuck == \E p \in Evicting : MustEvict(p) /\ Oldest = {EmptyKey}

\* Expired items go away by themselves, unless a Set is stuck (cache.go:310-348).
ExpiredSwept == \A k \in Key :
  (k \in Present /\ Expired(items[k])) ~> (k \notin Present \/ ~Expired(items[k]) \/ Stuck)

\* A Set that evicts comes back, and lets everybody else go on, unless it meets
\* the empty key (cache.go:287-307).
SetReturns == \A p \in Proc : (p \in Evicting) ~> (p \notin Evicting \/ Stuck)

\* Neither the cleaner nor a Set is held up for good, but by that empty key.
Progress == ExpiredSwept /\ SetReturns
===============================================================================
