----------------------------- MODULE RateLimiter -----------------------------
(***************************************************************************)
(* Rate limiting of HTTP and gRPC requests: middleware/limit.go and        *)
(* interceptor/limit/{interceptor,rate}.go, on the rules of RouterLimit.   *)
(*                                                                         *)
(* limiterMap is a sync.Map: each call on it is atomic, and nothing else   *)
(* is.  A request makes a bucket with the time it is, stores it or looks   *)
(* one up, writes the time it is by then into the lastSeen of one it       *)
(* found, then reads lastSeen back and asks the bucket for a token;        *)
(* the cleaner looks at a bucket's lastSeen and then deletes the key.      *)
(* lastSeen is written and read without a lock; its monotonic part, the    *)
(* only one compared, is a single word and is read whole.  The clock may   *)
(* advance between any two of these steps.                                 *)
(*                                                                         *)
(* golang.org/x/time/rate is external.  A bucket holds quota tokens and    *)
(* gains one per period; here it holds credit, period units to a token, so *)
(* that a tick of the clock is worth one unit.                             *)
(***************************************************************************)
EXTENDS RouterLimit, FiniteSets, FiniteSetsExt

CONSTANTS Proc,        \* requests in progress at a time
          Transport,   \* subset of {"http", "grpc"}
          Hour,        \* ticks in an hour
          MaxTime,     \* bound: ticks of the clock
          MaxBuckets,  \* bound: buckets created
          MaxGrants    \* bound: tokens granted

ASSUME LimiterAssumption == /\ Transport \subseteq {"http", "grpc"}
                            /\ Hour \in Nat \ {0}
                            /\ MaxTime \in Nat \ {0} /\ MaxBuckets \in Nat /\ MaxGrants \in Nat

Nobody == 0
Bucket == 1 .. MaxBuckets
Key == {Match(p, h).key : p \in Path, h \in Header} \cup {<<>>}

VARIABLES
  limiterMap,  \* limiterMap[k]: the bucket stored under key k, or Nobody
  buckets,     \* the timerRates made so far, deleted or not
  now,         \* the clock
  pc,          \* pc[p]: where request p is in DefaultRateFn
  req,         \* req[p]: the limit it fell under, its bucket, the time it took or read
  ticking,     \* cleanupTicker runs
  victim,      \* the key the cleaner is about to delete: a set of one key, or {}
  grants,      \* tokens granted, when, and how late others were before (history)
  reclaimed    \* keys ever deleted from limiterMap (history)

vars == <<limiterMap, buckets, now, pc, req, ticking, victim, grants, reclaimed>>

NoRequest == [limit |-> Unlimited, bucket |-> Nobody, at |-> 0]

-------------------------------------------------------------------------------
Init == /\ limiterMap = [k \in Key |-> Nobody]
        /\ buckets = <<>>
        /\ now = 1
        /\ pc = [p \in Proc |-> "idle"]
        /\ req = [p \in Proc |-> NoRequest]
        /\ ticking = TRUE
        /\ victim = {}
        /\ grants = <<>>
        /\ reclaimed = {}

\* The entry of an unused bucket expires after an hour, or two long periods.
TTL(duration) == IF duration > Hour THEN 2 * duration ELSE Hour

\* The gRPC interceptor asks for a token even when there is no limit: with the
\* key "", a quota of -1 and no period, for which rate.Every gives no limit.
Asks(transport, lv) == lv.quota # Block /\ (lv.quota # NoLimit \/ transport = "grpc")

\* Its request took the time at.  late is history: how late the requests were that it
\* has granted tokens to, in total.
NewBucket(lv, at) ==
  [quota |-> lv.quota, period |-> lv.duration, credit |-> lv.quota * lv.duration,
   last |-> 0, lastSeen |-> at, ttl |-> TTL(lv.duration), late |-> 0]

\* A request that must ask makes a bucket of its own, with the time it is.
Begin(p) ==
  \E path \in Path, header \in Header, transport \in Transport :
    LET lv == Match(path, header)
    IN  /\ pc[p] = "idle"
        /\ Asks(transport, lv)
        /\ pc' = [pc EXCEPT ![p] = "made"]
        /\ req' = [req EXCEPT ![p] = [limit |-> lv, bucket |-> Nobody, at |-> now]]
        /\ UNCHANGED <<limiterMap, buckets, now, ticking, victim, grants, reclaimed>>

\* Mutant of Found: Load and Store instead of LoadOrStore, with the Load done
\* before another request's Store.
FoundUnlessRacing(k) == IF \E p \in Proc : req[p].bucket # Nobody /\ req[p].limit.key = k
                          THEN Nobody ELSE limiterMap[k]

Found(k) == limiterMap[k]

\* LoadOrStore finds a bucket, whatever limit it was made for.
Load(p) ==
  /\ pc[p] = "made"
  /\ Found(req[p].limit.key) # Nobody
  /\ pc' = [pc EXCEPT ![p] = "loaded"]
  /\ req' = [req EXCEPT ![p].bucket = Found(req[p].limit.key), ![p].at = 0]
  /\ UNCHANGED <<limiterMap, buckets, now, ticking, victim, grants, reclaimed>>

\* LoadOrStore stores the new bucket.
Store(p) ==
  /\ pc[p] = "made"
  /\ Found(req[p].limit.key) = Nobody
  /\ Len(buckets) < MaxBuckets
  /\ buckets' = Append(buckets, NewBucket(req[p].limit, req[p].at))
  /\ limiterMap' = [limiterMap EXCEPT ![req[p].limit.key] = Len(buckets) + 1]
  /\ pc' = [pc EXCEPT ![p] = "seen"]
  /\ req' = [req EXCEPT ![p].bucket = Len(buckets) + 1, ![p].at = 0]
  /\ UNCHANGED <<now, ticking, victim, grants, reclaimed>>

\* lm.lastSeen = time.Now(), on a bucket that others use.
Stamp(p) ==
  /\ pc[p] = "loaded"
  /\ buckets' = [buckets EXCEPT ![req[p].bucket].lastSeen = now]
  /\ pc' = [pc EXCEPT ![p] = "seen"]
  /\ UNCHANGED <<limiterMap, now, req, ticking, victim, grants, reclaimed>>

\* The argument of AllowN is read from the shared field.
ReadSeen(p) ==
  /\ pc[p] = "seen"
  /\ req' = [req EXCEPT ![p].at = buckets[req[p].bucket].lastSeen]
  /\ pc' = [pc EXCEPT ![p] = "asking"]
  /\ UNCHANGED <<limiterMap, buckets, now, ticking, victim, grants, reclaimed>>

\* x/time/rate: what the bucket holds at time t; a t before the last one gains nothing.
Credit(b, t) == Min({b.quota * b.period, b.credit + (IF t > b.last THEN t - b.last ELSE 0)})

\* Mutant of Allowed: only the size of the bucket is looked at.
AllowedUnfilled(b, credit) == b.quota >= 1 \/ b.period = 0

\* A bucket without a period has no limit.
Allowed(b, credit) == b.period = 0 \/ (b.quota >= 1 /\ credit >= b.period)

\* AllowN(at, 1): the bucket's last time is t from now on, also when it was a later
\* one.  A bucket without a limit keeps no account.
Ask(p) ==
  LET o == req[p].bucket
      b == buckets[o]
      t == req[p].at
      credit == Credit(b, t)
      granted == Allowed(b, credit)
  IN  /\ pc[p] = "asking"
      /\ IF granted /\ b.period > 0
           THEN /\ Len(grants) < MaxGrants
                /\ buckets' = [buckets EXCEPT ![o].credit = credit - b.period, ![o].last = t,
                                              ![o].late = @ + (now - t)]
                /\ grants' = Append(grants, [bucket |-> o, key |-> req[p].limit.key,
                                             quota |-> b.quota, period |-> b.period,
                                             at |-> now, late |-> b.late])
           ELSE UNCHANGED <<buckets, grants>>
      /\ pc' = [pc EXCEPT ![p] = "idle"]
      /\ req' = [req EXCEPT ![p] = NoRequest]
      /\ UNCHANGED <<limiterMap, now, ticking, victim, reclaimed>>

-------------------------------------------------------------------------------
\* Mutant of IsOld: the difference is taken the wrong way round.
IsOldReversed(o) == buckets[o].lastSeen - now > buckets[o].ttl

IsOld(o) == now - buckets[o].lastSeen > buckets[o].ttl

\* cleanupExpiredLimiters visits a key whose bucket is old.
CleanVisit(k) ==
  /\ ticking
  /\ victim = {}
  /\ limiterMap[k] # Nobody
  /\ IsOld(limiterMap[k])
  /\ victim' = {k}
  /\ UNCHANGED <<limiterMap, buckets, now, pc, req, ticking, grants, reclaimed>>

\* It deletes the key, and what is stored under it by then.
CleanDelete(k) ==
  /\ k \in victim
  /\ limiterMap' = [limiterMap EXCEPT ![k] = Nobody]
  /\ reclaimed' = reclaimed \cup {k}
  /\ victim' = {}
  /\ UNCHANGED <<buckets, now, pc, req, ticking, grants>>

\* Cleanup: every key is deleted, and the ticker is stopped.
Cleanup ==
  /\ ticking
  /\ limiterMap' = [k \in Key |-> Nobody]
  /\ reclaimed' = Key
  /\ ticking' = FALSE
  /\ UNCHANGED <<buckets, now, pc, req, victim, grants>>

TimePasses ==
  /\ now < MaxTime
  /\ now' = now + 1
  /\ UNCHANGED <<limiterMap, buckets, pc, req, ticking, victim, grants, reclaimed>>

Next == \/ \E p \in Proc : \/ Begin(p) \/ Load(p) \/ Store(p)
                           \/ Stamp(p) \/ ReadSeen(p) \/ Ask(p)
        \/ \E k \in Key : CleanVisit(k) \/ CleanDelete(k)
        \/ Cleanup
        \/ TimePasses

Spec == Init /\ [][Next]_vars

\* The ticker keeps ticking and the goroutine serves it; a request goes on.
FairSpec == /\ Spec
            /\ \A k \in Key : SF_vars(CleanVisit(k)) /\ WF_vars(CleanDelete(k))
            /\ \A p \in Proc : /\ WF_vars(Load(p) \/ Store(p))
                              /\ WF_vars(Stamp(p)) /\ WF_vars(ReadSeen(p)) /\ WF_vars(Ask(p))

-------------------------------------------------------------------------------
BucketRecord == [quota : Int, period : Nat, credit : Nat, last : Nat, lastSeen : Nat, ttl : Nat,
                 late : Nat]

\* Every variable holds a value of its Go type, and what limiterMap holds was
\* made (rate.go:11-21).
TypeOK == /\ limiterMap \in [Key -> {Nobody} \cup DOMAIN buckets]
          /\ Len(buckets) <= MaxBuckets
          /\ \A o \in DOMAIN buckets : buckets[o] \in BucketRecord /\ buckets[o].last <= now
          /\ now \in 1 .. MaxTime
          /\ pc \in [Proc -> {"idle", "made", "loaded", "seen", "asking"}]
          /\ \A p \in Proc : req[p].bucket \in {Nobody} \cup DOMAIN buckets
          /\ ticking \in BOOLEAN
          /\ victim \subseteq Key
          /\ reclaimed \subseteq Key

\* The grants from i to j that are for the same key as i.
Granted(i, j) == Cardinality({m \in i .. j : grants[m].key = grants[i].key})

\* Between two grants of one key that was not deleted: the key's requests have got the
\* quota, one token per period that has passed, and one per period by which those before
\* the last were late, that is, were granted their token with a time of lastSeen that was
\* not the present one any more.  It holds however requests overlap: what a stale time
\* costs is at most its staleness, and first requests at once have one quota, not one
\* each (rate.go:56-69).
KeyHoldsRate ==
  \A i \in DOMAIN grants : \A j \in i .. Len(grants) :
    grants[j].key = grants[i].key /\ grants[i].key \notin reclaimed =>
      Granted(i, j) <= grants[i].quota
        + ((grants[j].at - grants[i].at) + (grants[j].late - grants[i].late))
             \div grants[i].period

\* Requests that fall under one key at the same time share one bucket, as long
\* as the key has not been deleted: the first two of a key cannot each bring
\* their own (rate.go:62-66, TestLimiterConcurrency).
OneBucketPerKey ==
  \A p, q \in Proc :
    (req[p].bucket # Nobody /\ req[q].bucket # Nobody /\ req[p].limit.key = req[q].limit.key
       /\ req[p].limit.key \notin reclaimed) => req[p].bucket = req[q].bucket

\* The entry of key k was last seen longer ago than it should live.
Overdue(k) == limiterMap[k] # Nobody /\ LET b == buckets[limiterMap[k]]
                                       IN  now > b.lastSeen + b.ttl

\* The map does not grow for ever: an entry that is old is used again or goes
\* away, unless Cleanup has stopped the ticker (rate.go:14, 24-44).
OldEntriesReclaimed == \A k \in Key : Overdue(k) ~> (~Overdue(k) \/ ~ticking)

===============================================================================
