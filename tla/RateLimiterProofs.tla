-------------------------- MODULE RateLimiterProofs --------------------------
(***************************************************************************)
(* Proofs about RateLimiter, for every set of rules, requests and bounds:  *)
(* its types, that requests under one key share one bucket, and the rate   *)
(* that a key holds to, whatever times its requests ask with.              *)
(***************************************************************************)
EXTENDS RateLimiter, FiniteSetTheorems, SequenceTheorems, WellFoundedInduction, TLAPS

\* A limit as Match gives it: without a quota it has no period either.
Limit == {lv \in [quota : Int, duration : Nat, key : Key] : lv.quota * lv.duration >= 0}

Request == [limit : Limit, bucket : Nat, at : Nat]

\* A bucket whose times are not later than t.
Sound(b, t) == /\ b \in BucketRecord
               /\ b.last <= t /\ b.lastSeen <= t
               /\ b.quota * b.period >= 0

\* Where a request is in DefaultRateFn, with its bucket and before it has one.
Holding == {"loaded", "seen", "asking"}
Place == {"idle", "made"} \cup Holding

\* The types: TypeOK with those of the records, and a request that has looked its
\* bucket up has it.
Typed == /\ buckets \in Seq(BucketRecord) /\ Len(buckets) <= MaxBuckets
         /\ \A o \in DOMAIN buckets : Sound(buckets[o], now)
         /\ limiterMap \in [Key -> 0 .. Len(buckets)]
         /\ now \in 1 .. MaxTime
         /\ pc \in [Proc -> Place]
         /\ req \in [Proc -> Request]
         /\ \A p \in Proc : req[p].bucket <= Len(buckets) /\ req[p].at <= now
         /\ \A p \in Proc : pc[p] \in Holding => req[p].bucket # Nobody
         /\ ticking \in BOOLEAN
         /\ victim \subseteq Key
         /\ reclaimed \subseteq Key

\* A request's bucket is the one of its key until somebody deletes the key.
Sharing == \A p \in Proc : (req[p].bucket # Nobody /\ req[p].limit.key \notin reclaimed)
                              => limiterMap[req[p].limit.key] = req[p].bucket

IInv == Typed /\ Sharing

Grant == [bucket : Nat, key : Key, quota : Int, period : Nat, at : Nat, late : Nat]

\* What was granted was granted by a bucket with a limit, not later than now, and by the
\* one that its key still has, if the key was not deleted.
Granting ==
  /\ grants \in Seq(Grant)
  /\ \A i \in DOMAIN grants :
       LET g == grants[i]
       IN  /\ g.bucket \in DOMAIN buckets /\ buckets[g.bucket].period > 0
           /\ g.quota = buckets[g.bucket].quota /\ g.period = buckets[g.bucket].period
           /\ g.at <= now /\ g.late <= buckets[g.bucket].late
           /\ g.key \notin reclaimed => limiterMap[g.key] = g.bucket

\* The grants of bucket o from i to j, and their number.
Tokens(g, o, i, j) == {m \in i .. j : g[m].bucket = o}
Count(g, o, i, j) == Cardinality(Tokens(g, o, i, j))

\* The tokens granted since grant i, and what is left of the bucket now, were in the
\* bucket or came in since: with the time up to the bucket's last one, and with the
\* lateness of those who asked.
Filled ==
  \A i \in DOMAIN grants :
    LET g == grants[i]
        b == buckets[g.bucket]
    IN  Count(grants, g.bucket, i, Len(grants)) * b.period + b.credit
          <= b.quota * b.period + ((b.last + b.late) - (g.at + g.late))

\* The rate of a bucket in units of the period, between any two of its grants.
Held ==
  \A i \in DOMAIN grants : \A j \in i .. Len(grants) :
    LET g == grants[i]
        h == grants[j]
    IN  h.bucket = g.bucket =>
          /\ g.at <= h.at /\ g.late <= h.late
          /\ Count(grants, g.bucket, i, j) * g.period
               <= g.quota * g.period + ((h.at - g.at) + (h.late - g.late))

\* The inductive invariant behind KeyHoldsRate: it needs what is left in the bucket
\* after the last grant, which Held does not say, and that a key has had one bucket.
RateInv == Granting /\ Filled /\ Held

-------------------------------------------------------------------------------
\* A set of numbers that is not empty has a first one.
LEMMA LeastNumber ==
  ASSUME NEW T, T \subseteq Nat, T # {}
  PROVE  \E i \in T : \A j \in T : i <= j
<1>1. PICK i \in T : \A j \in T : <<j, i>> \notin OpToRel(<, Nat)
  BY NatLessThanWellFounded, WFMin
<1>2. ASSUME NEW j \in T PROVE i <= j
  <2>1. i \in Nat /\ j \in Nat
    OBVIOUS
  <2>2. ~(j < i)
    BY <1>1, <2>1 DEF OpToRel
  <2>3. QED
    BY <2>1, <2>2
<1>3. QED
  BY <1>2

\* The smaller one of two numbers.
LEMMA MinOfTwo ==
  ASSUME NEW a \in Int, NEW b \in Int
  PROVE  Min({a, b}) = IF a <= b THEN a ELSE b
BY DEF Min

\* From units of a period to whole tokens.
LEMMA Div ==
  ASSUME NEW n \in Int, NEW p \in Nat \ {0}, NEW q \in Int, NEW d \in Nat, n * p <= q * p + d
  PROVE  n <= q + d \div p
<1>1. d = p * (d \div p) + (d % p) /\ 0 <= d % p /\ d % p < p /\ d \div p \in Nat
  OBVIOUS
<1>2. QED
  BY <1>1

\* The rule of a path is the default or one of the list.
LEMMA RuleIsGiven ==
  ASSUME NEW path \in Path
  PROVE  RuleFor(path) \in Range(Limits) \cup {Default}
<1>1. CASE Applicable(path) = {}
  BY <1>1 DEF RuleFor
<1>2. CASE Applicable(path) # {}
  <2>1. Applicable(path) \subseteq Nat
    BY RulesAssumption DEF Applicable
  <2>2. \E i \in Applicable(path) : \A j \in Applicable(path) : i <= j
    BY <1>2, <2>1, LeastNumber
  <2>3. PICK i \in Applicable(path) : RuleFor(path) = Limits[i]
    BY <1>2, <2>2 DEF RuleFor
  <2>4. i \in DOMAIN Limits
    BY <2>3, RulesAssumption DEF Applicable
  <2>5. QED
    BY <2>3, <2>4 DEF Range
<1>3. QED
  BY <1>1, <1>2

\* Match gives a limit.
LEMMA MatchIsLimit ==
  ASSUME NEW path \in Path, NEW header \in Header
  PROVE  Match(path, header) \in Limit
<1>1. Match(path, header).key \in Key
  BY DEF Key
<1>2. PICK rule \in Range(Limits) \cup {Default} : rule = RuleFor(path)
  BY RuleIsGiven
<1>3. rule.quota \in Int /\ rule.duration \in Nat
  BY <1>2, RulesAssumption
<1> DEFINE key == SelectSeq([i \in 1 .. Len(rule.headers) |-> header[rule.headers[i]]],
                            LAMBDA v : v # Absent)
<1>4. getQuota(rule, header)
        = IF rule.quota < 0 \/ key = <<>>
            THEN Unlimited
            ELSE [quota |-> rule.quota, duration |-> rule.duration, key |-> key]
  BY DEF getQuota
<1> HIDE DEF key
<1>5. \/ Match(path, header) = [quota |-> -1, duration |-> 0, key |-> <<>>]
      \/ Match(path, header) = [quota |-> 0, duration |-> 0, key |-> <<>>]
      \/ /\ rule.quota >= 0
         /\ Match(path, header) = [quota |-> rule.quota, duration |-> rule.duration, key |-> key]
  BY <1>2, <1>3, <1>4 DEF Match, Unlimited, NoLimit, Block
<1>6. CASE Match(path, header) = [quota |-> -1, duration |-> 0, key |-> <<>>]
  BY <1>1, <1>6 DEF Limit
<1>7. CASE Match(path, header) = [quota |-> 0, duration |-> 0, key |-> <<>>]
  BY <1>1, <1>7 DEF Limit
<1>8. CASE /\ rule.quota >= 0
           /\ Match(path, header) = [quota |-> rule.quota, duration |-> rule.duration, key |-> key]
  <2>1. rule.quota * rule.duration >= 0
    BY <1>3, <1>8
  <2>2. key \in Key
    BY <1>1, <1>8
  <2>3. QED
    BY <1>3, <1>8, <2>1, <2>2 DEF Limit
<1>9. QED
  BY <1>5, <1>6, <1>7, <1>8

\* A new bucket is full, and sound.
LEMMA NewBucketSound ==
  ASSUME NEW lv \in Limit, NEW at \in Nat, at <= now, now \in 1 .. MaxTime
  PROVE  Sound(NewBucket(lv, at), now)
<1>1. now \in Nat /\ now >= 1
  BY LimiterAssumption
<1>2. lv.quota \in Int /\ lv.duration \in Nat /\ lv.quota * lv.duration >= 0
  BY DEF Limit
<1>3. lv.quota * lv.duration \in Nat
  BY <1>2
<1>4. TTL(lv.duration) \in Nat
  BY <1>2, LimiterAssumption DEF TTL
<1>5. QED
  BY <1>1, <1>2, <1>3, <1>4 DEF NewBucket, Sound, BucketRecord

\* What a bucket holds is a number of units, at most its quota's and at most what it
\* gained since the last time.
LEMMA CreditIsBounded ==
  ASSUME NEW b \in BucketRecord, b.quota * b.period >= 0, NEW t \in Nat
  PROVE  /\ Credit(b, t) \in Nat
         /\ Credit(b, t) <= b.quota * b.period
         /\ Credit(b, t) <= b.credit + (IF t > b.last THEN t - b.last ELSE 0)
<1>1. b.quota * b.period \in Int /\ b.credit \in Nat /\ b.last \in Nat
  BY DEF BucketRecord
<1> DEFINE held == b.credit + (IF t > b.last THEN t - b.last ELSE 0)
<1>2. held \in Nat
  BY <1>1
<1>3. Credit(b, t) = Min({b.quota * b.period, held})
  BY DEF Credit
<1>4. PICK n \in Nat, full \in Int : n = held /\ full = b.quota * b.period
  BY <1>1, <1>2
<1>5. Credit(b, t) = IF full <= n THEN full ELSE n
  BY <1>3, <1>4, MinOfTwo
<1>6. full >= 0
  BY <1>4
<1>7. Credit(b, t) \in Nat /\ Credit(b, t) <= full /\ Credit(b, t) <= n
  BY <1>4, <1>5, <1>6
<1>8. QED
  BY <1>4, <1>7

-------------------------------------------------------------------------------
\* At the start there are neither buckets nor requests.
LEMMA InitIInv == Init => IInv
<1> SUFFICES ASSUME Init PROVE IInv
  OBVIOUS
<1>1. buckets = <<>> /\ Len(buckets) = 0 /\ DOMAIN buckets = {}
  BY DEF Init
<1>2. <<>> \in Key
  BY DEF Key
<1>3. NoRequest \in Request /\ NoRequest.bucket = 0 /\ NoRequest.at = 0
  BY <1>2 DEF NoRequest, Unlimited, NoLimit, Nobody, Request, Limit
<1>4. now \in 1 .. MaxTime
  BY LimiterAssumption DEF Init
<1>5. Typed
  BY <1>1, <1>3, <1>4, LimiterAssumption DEF Init, Typed, Nobody, Place, Holding
<1>6. Sharing
  BY <1>3 DEF Init, Sharing, Nobody
<1>7. QED
  BY <1>5, <1>6 DEF IInv

\* A request takes the time and makes a bucket of its own.
LEMMA BeginStep ==
  ASSUME IInv, NEW p \in Proc, Begin(p)
  PROVE  IInv'
<1>1. PICK path \in Path, header \in Header, transport \in Transport :
        /\ pc' = [pc EXCEPT ![p] = "made"]
        /\ req' = [req EXCEPT ![p] = [limit |-> Match(path, header), bucket |-> Nobody,
                                      at |-> now]]
        /\ UNCHANGED <<limiterMap, buckets, now, ticking, victim, grants, reclaimed>>
  BY DEF Begin
<1>2. PICK lv \in Limit : lv = Match(path, header)
  BY MatchIsLimit
<1>3. Len(buckets) \in Nat /\ now \in Nat
  BY LimiterAssumption DEF IInv, Typed
<1> DEFINE r == [limit |-> lv, bucket |-> Nobody, at |-> now]
<1>4. r \in Request /\ r.bucket = 0 /\ r.at = now
  BY <1>3 DEF Request, Nobody
<1> HIDE DEF r
<1>5. req' = [req EXCEPT ![p] = r]
  BY <1>1, <1>2 DEF r
<1>6. req' \in [Proc -> Request] /\ req'[p] = r /\ \A q \in Proc \ {p} : req'[q] = req[q]
  BY <1>4, <1>5 DEF IInv, Typed
<1>7. /\ pc' \in [Proc -> Place] /\ pc'[p] = "made"
      /\ \A q \in Proc \ {p} : pc'[q] = pc[q]
  BY <1>1 DEF IInv, Typed, Place
<1>8. \A q \in Proc : req'[q].bucket <= Len(buckets) /\ req'[q].at <= now
  BY <1>3, <1>4, <1>6 DEF IInv, Typed
<1>9. \A q \in Proc : pc'[q] \in Holding => req'[q].bucket # Nobody
  BY <1>6, <1>7 DEF IInv, Typed, Holding
<1>10. Typed'
  BY <1>1, <1>6, <1>7, <1>8, <1>9 DEF IInv, Typed
<1>11. Sharing'
  BY <1>1, <1>4, <1>6 DEF IInv, Sharing, Nobody
<1>12. QED
  BY <1>10, <1>11 DEF IInv

\* A request has a bucket o of its key, which is the one that the key has now.
LEMMA BucketTaken ==
  ASSUME IInv, NEW p \in Proc, NEW o \in Nat \ {Nobody},
         buckets' \in Seq(BucketRecord), Len(buckets') <= MaxBuckets,
         \A i \in DOMAIN buckets' : Sound(buckets'[i], now),
         limiterMap' \in [Key -> 0 .. Len(buckets')], o <= Len(buckets'),
         Len(buckets) <= Len(buckets'),
         NEW place \in Holding, pc' = [pc EXCEPT ![p] = place],
         req' = [req EXCEPT ![p].bucket = o, ![p].at = 0],
         limiterMap'[req[p].limit.key] = o,
         \A k \in Key : limiterMap[k] # Nobody => limiterMap'[k] = limiterMap[k],
         UNCHANGED <<now, ticking, victim, reclaimed>>
  PROVE  IInv'
<1>1. /\ Len(buckets) \in Nat /\ Len(buckets') \in Nat /\ now \in Nat
      /\ req[p] \in Request
  BY LimiterAssumption DEF IInv, Typed
<1> DEFINE r == [req[p] EXCEPT !.bucket = o, !.at = 0]
<1>2. r \in Request /\ r.limit = req[p].limit /\ r.bucket = o /\ r.at = 0
  BY <1>1 DEF Request
<1>3. req' = [req EXCEPT ![p] = r]
  BY DEF IInv, Typed
<1> HIDE DEF r
<1>4. req' \in [Proc -> Request] /\ req'[p] = r /\ \A q \in Proc \ {p} : req'[q] = req[q]
  <2>1. req \in [Proc -> Request] /\ r \in Request
    BY <1>2 DEF IInv, Typed
  <2>2. QED
    BY <1>3, <2>1
<1>5. /\ pc' \in [Proc -> Place]
      /\ \A q \in Proc \ {p} : pc'[q] = pc[q]
  BY DEF IInv, Typed, Place
<1>6. ASSUME NEW q \in Proc PROVE req'[q].bucket <= Len(buckets') /\ req'[q].at <= now
  <2>1. CASE q = p
    BY <1>1, <1>2, <1>4, <2>1
  <2>2. CASE q # p
    <3>1. req[q].bucket \in Nat /\ req[q].bucket <= Len(buckets) /\ req[q].at <= now
      BY DEF IInv, Typed, Request
    <3>2. QED
      BY <1>1, <1>4, <2>2, <3>1
  <2>3. QED
    BY <2>1, <2>2
<1>7. \A q \in Proc : pc'[q] \in Holding => req'[q].bucket # Nobody
  BY <1>2, <1>4, <1>5 DEF IInv, Typed
<1>8. Typed'
  BY <1>4, <1>5, <1>6, <1>7 DEF IInv, Typed
<1>9. ASSUME NEW q \in Proc, req'[q].bucket # Nobody, req'[q].limit.key \notin reclaimed'
      PROVE  limiterMap'[req'[q].limit.key] = req'[q].bucket
  <2>1. CASE q = p
    BY <1>2, <1>4, <2>1
  <2>2. CASE q # p
    <3>1. req[q].limit.key \in Key
      BY DEF IInv, Typed, Request, Limit
    <3>2. limiterMap[req[q].limit.key] = req[q].bucket /\ req[q].bucket # Nobody
      BY <1>4, <1>9, <2>2 DEF IInv, Sharing
    <3>3. QED
      BY <1>4, <2>2, <3>1, <3>2
  <2>3. QED
    BY <2>1, <2>2
<1>10. QED
  BY <1>8, <1>9 DEF IInv, Sharing

\* LoadOrStore finds a bucket.
LEMMA LoadStep ==
  ASSUME IInv, NEW p \in Proc, Load(p)
  PROVE  IInv'
<1> DEFINE k == req[p].limit.key
           o == limiterMap[k]
<1>1. /\ o # Nobody /\ pc' = [pc EXCEPT ![p] = "loaded"]
      /\ req' = [req EXCEPT ![p].bucket = o, ![p].at = 0]
      /\ UNCHANGED <<limiterMap, buckets, now, ticking, victim, reclaimed>>
  BY DEF Load, Found
<1>2. k \in Key
  BY DEF IInv, Typed, Request, Limit
<1>3. Len(buckets) \in Nat
  BY DEF IInv, Typed
<1>4. o \in Nat \ {Nobody} /\ o <= Len(buckets)
  BY <1>1, <1>2, <1>3 DEF IInv, Typed
<1>5. "loaded" \in Holding
  BY DEF Holding
<1>6. /\ buckets' \in Seq(BucketRecord) /\ Len(buckets') <= MaxBuckets
      /\ \A i \in DOMAIN buckets' : Sound(buckets'[i], now)
      /\ limiterMap' \in [Key -> 0 .. Len(buckets')] /\ Len(buckets) <= Len(buckets')
      /\ \A l \in Key : limiterMap[l] # Nobody => limiterMap'[l] = limiterMap[l]
  BY <1>1, <1>3 DEF IInv, Typed
<1>7. limiterMap'[k] = o /\ o <= Len(buckets')
  BY <1>1, <1>4
<1>8. UNCHANGED <<now, ticking, victim, reclaimed>>
  BY <1>1
<1> HIDE DEF o
<1>9. QED
  BY <1>1, <1>4, <1>5, <1>6, <1>7, <1>8, BucketTaken

\* LoadOrStore stores the new bucket under a key that has none.
LEMMA StoreStep ==
  ASSUME IInv, NEW p \in Proc, Store(p)
  PROVE  IInv'
<1> DEFINE k == req[p].limit.key
           o == Len(buckets) + 1
           new == NewBucket(req[p].limit, req[p].at)
<1>1. /\ limiterMap[k] = Nobody /\ Len(buckets) < MaxBuckets
      /\ buckets' = Append(buckets, new)
      /\ limiterMap' = [limiterMap EXCEPT ![k] = o]
      /\ pc' = [pc EXCEPT ![p] = "seen"]
      /\ req' = [req EXCEPT ![p].bucket = o, ![p].at = 0]
      /\ UNCHANGED <<now, ticking, victim, reclaimed>>
  BY DEF Store, Found
<1>2. /\ k \in Key /\ req[p].limit \in Limit /\ req[p].at \in Nat /\ req[p].at <= now
      /\ now \in 1 .. MaxTime
  BY DEF IInv, Typed, Request, Limit
<1>3. Len(buckets) \in Nat /\ MaxBuckets \in Nat
  BY LimiterAssumption DEF IInv, Typed
<1>4. Sound(new, now) /\ new \in BucketRecord
  BY <1>2, NewBucketSound DEF Sound
<1> HIDE DEF new
<1>5. buckets' \in Seq(BucketRecord) /\ Len(buckets') = o /\ o <= MaxBuckets
  BY <1>1, <1>3, <1>4 DEF IInv, Typed
<1>6. ASSUME NEW i \in DOMAIN buckets' PROVE Sound(buckets'[i], now)
  <2>1. buckets'[i] = new \/ (i \in DOMAIN buckets /\ buckets'[i] = buckets[i])
    BY <1>1, <1>4 DEF IInv, Typed
  <2>2. QED
    BY <1>4, <2>1 DEF IInv, Typed
<1>7. limiterMap' \in [Key -> 0 .. Len(buckets')]
  BY <1>1, <1>2, <1>3, <1>5 DEF IInv, Typed
<1>8. /\ limiterMap'[k] = o
      /\ \A l \in Key : limiterMap[l] # Nobody => limiterMap'[l] = limiterMap[l]
  BY <1>1, <1>2 DEF IInv, Typed
<1>9. o \in Nat \ {Nobody} /\ Len(buckets) <= Len(buckets') /\ o <= Len(buckets')
  BY <1>3, <1>5 DEF Nobody
<1>10. "seen" \in Holding
  BY DEF Holding
<1> HIDE DEF o
<1>11. QED
  BY <1>1, <1>5, <1>6, <1>7, <1>8, <1>9, <1>10, BucketTaken

\* A bucket is changed.
LEMMA BucketChanged ==
  ASSUME Typed, NEW o \in DOMAIN buckets, NEW b, Sound(b, now),
         buckets' = [buckets EXCEPT ![o] = b], now' = now
  PROVE  /\ buckets' \in Seq(BucketRecord) /\ Len(buckets') = Len(buckets)
         /\ \A i \in DOMAIN buckets' : Sound(buckets'[i], now')
<1>1. b \in BucketRecord
  BY DEF Sound
<1>2. buckets' \in Seq(BucketRecord) /\ Len(buckets') = Len(buckets)
  BY <1>1 DEF Typed
<1>3. ASSUME NEW i \in DOMAIN buckets' PROVE Sound(buckets'[i], now')
  <2>1. CASE i = o
    BY <2>1
  <2>2. CASE i # o
    <3>1. i \in DOMAIN buckets /\ buckets'[i] = buckets[i]
      BY <2>2
    <3>2. QED
      BY <3>1 DEF Typed
  <2>3. QED
    BY <2>1, <2>2
<1>4. QED
  BY <1>2, <1>3

\* A bucket that is used again is stamped with the time.
LEMMA StampStep ==
  ASSUME IInv, NEW p \in Proc, Stamp(p)
  PROVE  IInv'
<1> DEFINE o == req[p].bucket
           b == [buckets[o] EXCEPT !.lastSeen = now]
<1>1. /\ pc[p] = "loaded" /\ pc' = [pc EXCEPT ![p] = "seen"]
      /\ buckets' = [buckets EXCEPT ![o] = b]
      /\ UNCHANGED <<limiterMap, now, req, ticking, victim, grants, reclaimed>>
  BY DEF Stamp
<1>2. o \in DOMAIN buckets
  BY <1>1 DEF IInv, Typed, Nobody, Request, Holding
<1>3. Sound(buckets[o], now) /\ now \in Nat
  BY <1>2, LimiterAssumption DEF IInv, Typed
<1>4. Sound(b, now)
  BY <1>3 DEF Sound, BucketRecord
<1> HIDE DEF o, b
<1>5. /\ buckets' \in Seq(BucketRecord) /\ Len(buckets') = Len(buckets)
      /\ \A i \in DOMAIN buckets' : Sound(buckets'[i], now')
  BY <1>1, <1>2, <1>4, BucketChanged DEF IInv
<1>6. pc' \in [Proc -> Place]
  BY <1>1 DEF IInv, Typed, Place, Holding
<1>7. \A q \in Proc : pc'[q] \in Holding => pc[q] \in Holding
  BY <1>1 DEF IInv, Typed, Holding
<1>8. Typed'
  BY <1>1, <1>5, <1>6, <1>7 DEF IInv, Typed
<1>9. Sharing'
  BY <1>1, <1>7 DEF IInv, Sharing
<1>10. QED
  BY <1>8, <1>9 DEF IInv

\* The stamp is read back.
LEMMA ReadSeenStep ==
  ASSUME IInv, NEW p \in Proc, ReadSeen(p)
  PROVE  IInv'
<1> DEFINE o == req[p].bucket
           r == [req[p] EXCEPT !.at = buckets[o].lastSeen]
<1>1. /\ pc[p] = "seen" /\ pc' = [pc EXCEPT ![p] = "asking"]
      /\ req' = [req EXCEPT ![p] = r]
      /\ UNCHANGED <<limiterMap, buckets, now, ticking, victim, grants, reclaimed>>
  BY DEF ReadSeen
<1>2. o \in DOMAIN buckets
  BY <1>1 DEF IInv, Typed, Nobody, Request, Holding
<1>3. Sound(buckets[o], now) /\ now \in Nat
  BY <1>2, LimiterAssumption DEF IInv, Typed
<1>4. buckets[o].lastSeen \in Nat /\ buckets[o].lastSeen <= now
  BY <1>3 DEF Sound, BucketRecord
<1>5. /\ r \in Request /\ r.limit = req[p].limit
      /\ r.bucket = req[p].bucket /\ r.at <= now
  BY <1>4 DEF IInv, Typed, Request
<1> HIDE DEF o, r
<1>6. \A q \in Proc : /\ req'[q].limit = req[q].limit /\ req'[q].bucket = req[q].bucket
                      /\ req'[q].at <= now
  BY <1>1, <1>5 DEF IInv, Typed
<1>7. /\ pc' \in [Proc -> Place]
      /\ req' \in [Proc -> Request]
  BY <1>1, <1>5 DEF IInv, Typed, Place, Holding
<1>8. \A q \in Proc : pc'[q] \in Holding => pc[q] \in Holding
  BY <1>1 DEF IInv, Typed, Holding
<1>9. Typed'
  BY <1>1, <1>6, <1>7, <1>8 DEF IInv, Typed
<1>10. Sharing'
  BY <1>1, <1>6, <1>8 DEF IInv, Sharing
<1>11. QED
  BY <1>9, <1>10 DEF IInv

\* A request has its answer.
LEMMA AskStep ==
  ASSUME IInv, NEW p \in Proc, Ask(p)
  PROVE  IInv'
<1> DEFINE o == req[p].bucket
           t == req[p].at
           credit == Credit(buckets[o], t)
           b == [buckets[o] EXCEPT !.credit = credit - buckets[o].period, !.last = t,
                                   !.late = @ + (now - t)]
<1>1. /\ pc[p] = "asking" /\ pc' = [pc EXCEPT ![p] = "idle"]
      /\ req' = [req EXCEPT ![p] = NoRequest]
      /\ UNCHANGED <<limiterMap, now, ticking, victim, reclaimed>>
      /\ \/ UNCHANGED buckets
         \/ /\ Allowed(buckets[o], credit) /\ buckets[o].period > 0
            /\ buckets' = [buckets EXCEPT ![o] = b]
  BY DEF Ask
<1>2. o \in DOMAIN buckets /\ t \in Nat /\ t <= now
  BY <1>1 DEF IInv, Typed, Nobody, Request, Holding
<1>3. Sound(buckets[o], now) /\ now \in Nat /\ Len(buckets) \in Nat
  BY <1>2, LimiterAssumption DEF IInv, Typed
<1>4. credit \in Nat
  BY <1>2, <1>3, CreditIsBounded DEF Sound
<1>5. ASSUME Allowed(buckets[o], credit), buckets[o].period > 0 PROVE Sound(b, now)
  <2>1. credit - buckets[o].period \in Nat
    BY <1>3, <1>4, <1>5, SMTT(30) DEF Allowed, Sound, BucketRecord
  <2> HIDE DEF credit
  <2>2. b \in BucketRecord
    <3>1. buckets[o].late + (now - t) \in Nat
      <4>1. buckets[o].late \in Nat
        BY <1>3 DEF Sound, BucketRecord
      <4> HIDE DEF t
      <4>2. now - t \in Nat
        BY <1>2, <1>3
      <4>3. QED
        BY <4>1, <4>2
    <3>2. QED
      BY <1>2, <1>3, <2>1, <3>1 DEF Sound, BucketRecord
  <2>3. /\ b.last = t /\ b.lastSeen = buckets[o].lastSeen
        /\ b.quota = buckets[o].quota /\ b.period = buckets[o].period
    BY <1>3 DEF Sound, BucketRecord
  <2>4. QED
    BY <1>2, <1>3, <2>2, <2>3 DEF Sound
<1> HIDE DEF o, b, t, credit
<1>6. /\ buckets' \in Seq(BucketRecord) /\ Len(buckets') = Len(buckets)
      /\ \A i \in DOMAIN buckets' : Sound(buckets'[i], now')
  <2>1. CASE UNCHANGED buckets
    BY <1>1, <2>1 DEF IInv, Typed
  <2>2. CASE /\ Allowed(buckets[o], credit) /\ buckets[o].period > 0
             /\ buckets' = [buckets EXCEPT ![o] = b]
    BY <1>1, <1>2, <1>5, <2>2, BucketChanged DEF IInv
  <2>3. QED
    BY <1>1, <2>1, <2>2
<1>7. <<>> \in Key
  BY DEF Key
<1>8. NoRequest \in Request /\ NoRequest.bucket = 0 /\ NoRequest.at = 0
  BY <1>7 DEF NoRequest, Unlimited, NoLimit, Nobody, Request, Limit
<1>9. /\ pc' \in [Proc -> Place]
      /\ req' \in [Proc -> Request]
  BY <1>1, <1>8 DEF IInv, Typed, Place
<1>10. ASSUME NEW q \in Proc
       PROVE  /\ pc'[q] \in Holding => pc[q] \in Holding /\ req'[q] = req[q]
              /\ req'[q].bucket # Nobody => req'[q] = req[q]
              /\ req'[q].bucket <= Len(buckets') /\ req'[q].at <= now'
  <2>1. CASE q = p
    BY <1>1, <1>3, <1>6, <1>8, <2>1 DEF IInv, Typed, Holding, Nobody
  <2>2. CASE q # p
    BY <1>1, <1>6, <2>2 DEF IInv, Typed
  <2>3. QED
    BY <2>1, <2>2
<1>11. Typed'
  BY <1>1, <1>6, <1>9, <1>10 DEF IInv, Typed
<1>12. Sharing'
  BY <1>1, <1>10 DEF IInv, Sharing
<1>13. QED
  BY <1>11, <1>12 DEF IInv

\* The cleaner, Cleanup and the clock.
LEMMA OtherSteps ==
  ASSUME IInv, \/ \E k \in Key : CleanVisit(k) \/ CleanDelete(k)
               \/ Cleanup \/ TimePasses \/ UNCHANGED vars
  PROVE  IInv'
<1>0. Len(buckets) \in Nat /\ now \in Nat /\ MaxTime \in Nat
  BY LimiterAssumption DEF IInv, Typed
<1>1. ASSUME NEW k \in Key, CleanVisit(k) PROVE IInv'
  BY <1>1 DEF CleanVisit, IInv, Typed, Sharing
<1>2. ASSUME NEW k \in Key, CleanDelete(k) PROVE IInv'
  <2>1. /\ limiterMap' = [limiterMap EXCEPT ![k] = Nobody]
        /\ reclaimed' = reclaimed \cup {k} /\ victim' = {}
        /\ UNCHANGED <<buckets, now, pc, req, ticking, grants>>
    BY <1>2 DEF CleanDelete
  <2>2. limiterMap' \in [Key -> 0 .. Len(buckets)]
    BY <1>0, <2>1 DEF IInv, Typed, Nobody
  <2>3. Typed'
    BY <2>1, <2>2 DEF IInv, Typed
  <2>4. \A j \in Key \ {k} : limiterMap'[j] = limiterMap[j]
    BY <2>1 DEF IInv, Typed
  <2>5. \A q \in Proc : req[q].limit.key \in Key
    BY DEF IInv, Typed, Request, Limit
  <2>6. Sharing'
    BY <2>1, <2>4, <2>5 DEF IInv, Sharing
  <2>7. QED
    BY <2>3, <2>6 DEF IInv
<1>3. ASSUME Cleanup PROVE IInv'
  <2>1. /\ limiterMap' = [k \in Key |-> Nobody] /\ reclaimed' = Key /\ ticking' = FALSE
        /\ UNCHANGED <<buckets, now, pc, req, victim, grants>>
    BY <1>3 DEF Cleanup
  <2>2. limiterMap' \in [Key -> 0 .. Len(buckets)]
    BY <1>0, <2>1 DEF Nobody
  <2>3. ticking' \in BOOLEAN
    BY <2>1
  <2>4. Typed'
    BY <2>1, <2>2, <2>3 DEF IInv, Typed
  <2>5. \A q \in Proc : req[q].limit.key \in Key
    BY DEF IInv, Typed, Request, Limit
  <2>6. Sharing'
    BY <2>1, <2>5 DEF Sharing
  <2>7. QED
    BY <2>4, <2>6 DEF IInv
<1>4. ASSUME TimePasses PROVE IInv'
  <2>1. /\ now < MaxTime /\ now' = now + 1
        /\ UNCHANGED <<limiterMap, buckets, pc, req, ticking, victim, grants, reclaimed>>
    BY <1>4 DEF TimePasses
  <2>2. now' \in 1 .. MaxTime
    BY <1>0, <2>1 DEF IInv, Typed
  <2>3. ASSUME NEW i \in DOMAIN buckets PROVE Sound(buckets[i], now')
    <3>1. Sound(buckets[i], now)
      BY DEF IInv, Typed
    <3>2. buckets[i].last \in Nat /\ buckets[i].lastSeen \in Nat
      BY <3>1 DEF Sound, BucketRecord
    <3>3. QED
      BY <1>0, <2>1, <3>1, <3>2 DEF Sound
  <2>4. ASSUME NEW q \in Proc PROVE req[q].at <= now'
    BY <1>0, <2>1 DEF IInv, Typed, Request
  <2>5. Typed'
    BY <2>1, <2>2, <2>3, <2>4 DEF IInv, Typed
  <2>6. Sharing'
    BY <2>1 DEF IInv, Sharing
  <2>7. QED
    BY <2>5, <2>6 DEF IInv
<1>5. ASSUME UNCHANGED vars PROVE IInv'
  BY <1>5 DEF vars, IInv, Typed, Sharing
<1>6. QED
  BY <1>1, <1>2, <1>3, <1>4, <1>5

\* Every step keeps the invariant.
LEMMA NextIInv == IInv /\ [Next]_vars => IInv'
BY BeginStep, LoadStep, StoreStep, StampStep, ReadSeenStep, AskStep, OtherSteps DEF Next

\* The inductive invariant always holds.
THEOREM Invariance == Spec => []IInv
BY InitIInv, NextIInv, PTL DEF Spec

\* Every variable keeps its type, for any rules, requests and bounds.
THEOREM TypeCorrect == Spec => []TypeOK
<1>1. ASSUME IInv PROVE TypeOK
  <2>1. Len(buckets) \in Nat /\ DOMAIN buckets = 1 .. Len(buckets)
    BY <1>1 DEF IInv, Typed
  <2>2. limiterMap \in [Key -> {Nobody} \cup DOMAIN buckets]
    BY <1>1, <2>1 DEF IInv, Typed, Nobody
  <2>3. \A p \in Proc : req[p].bucket \in {Nobody} \cup DOMAIN buckets
    BY <1>1, <2>1 DEF IInv, Typed, Request, Nobody
  <2>4. QED
    BY <1>1, <2>2, <2>3 DEF IInv, Typed, Sound, TypeOK, Place, Holding
<1>2. QED
  BY <1>1, Invariance, PTL

\* Requests that are in DefaultRateFn under one key use one bucket, unless the key
\* was deleted: LoadOrStore decides, not the request.
THEOREM BucketsAreShared == Spec => []OneBucketPerKey
<1>1. IInv => OneBucketPerKey
  BY DEF IInv, Sharing, OneBucketPerKey
<1>2. QED
  BY <1>1, Invariance, PTL

-------------------------------------------------------------------------------
\* Grants of a bucket are finitely many.
LEMMA TokensFinite ==
  ASSUME NEW g, NEW o, NEW i \in Nat, NEW j \in Nat
  PROVE  IsFiniteSet(Tokens(g, o, i, j)) /\ Count(g, o, i, j) \in Nat
<1>1. IsFiniteSet(i .. j)
  BY FS_Interval
<1>2. Tokens(g, o, i, j) \subseteq i .. j
  BY DEF Tokens
<1>3. QED
  BY <1>1, <1>2, FS_Subset, FS_CardinalityType DEF Count

\* A further grant is one of its bucket's since any earlier one, and changes nothing
\* for the others.
LEMMA TokensAppend ==
  ASSUME NEW g \in Seq(Grant), NEW e \in Grant, NEW o, NEW i \in 1 .. Len(g) + 1
  PROVE  /\ e.bucket = o => Count(Append(g, e), o, i, Len(g) + 1) = Count(g, o, i, Len(g)) + 1
         /\ e.bucket # o => Count(Append(g, e), o, i, Len(g) + 1) = Count(g, o, i, Len(g))
         /\ \A j \in i .. Len(g) : Count(Append(g, e), o, i, j) = Count(g, o, i, j)
<1>1. Len(g) \in Nat /\ i \in Nat
  OBVIOUS
<1>2. /\ \A m \in 1 .. Len(g) : Append(g, e)[m] = g[m]
      /\ Append(g, e)[Len(g) + 1] = e
  OBVIOUS
<1>3. IsFiniteSet(Tokens(g, o, i, Len(g))) /\ Count(g, o, i, Len(g)) \in Nat
  BY <1>1, TokensFinite
<1>4. Len(g) + 1 \notin Tokens(g, o, i, Len(g))
  BY <1>1 DEF Tokens
<1>5. ASSUME e.bucket = o
      PROVE  Count(Append(g, e), o, i, Len(g) + 1) = Count(g, o, i, Len(g)) + 1
  <2>1. Tokens(Append(g, e), o, i, Len(g) + 1) = Tokens(g, o, i, Len(g)) \cup {Len(g) + 1}
    BY <1>1, <1>2, <1>5 DEF Tokens
  <2>2. PICK S, n : S = Tokens(g, o, i, Len(g)) /\ n = Len(g) + 1
    OBVIOUS
  <2>3. Cardinality(S \cup {n}) = Cardinality(S) + 1
    BY <1>3, <1>4, <2>2, FS_AddElement
  <2>4. QED
    BY <2>1, <2>2, <2>3 DEF Count
<1>6. ASSUME e.bucket # o
      PROVE  Count(Append(g, e), o, i, Len(g) + 1) = Count(g, o, i, Len(g))
  <2>1. Tokens(Append(g, e), o, i, Len(g) + 1) = Tokens(g, o, i, Len(g))
    BY <1>1, <1>2, <1>6 DEF Tokens
  <2>2. QED
    BY <2>1 DEF Count
<1>7. ASSUME NEW j \in i .. Len(g)
      PROVE  Count(Append(g, e), o, i, j) = Count(g, o, i, j)
  <2>1. Tokens(Append(g, e), o, i, j) = Tokens(g, o, i, j)
    BY <1>1, <1>2 DEF Tokens
  <2>2. QED
    BY <2>1 DEF Count
<1>8. QED
  BY <1>5, <1>6, <1>7

\* Nothing is granted, no bucket's account is changed, and no key gets another bucket
\* unless it is deleted.
LEMMA NothingGranted ==
  ASSUME Typed, RateInv, UNCHANGED grants, now' \in Nat, now <= now',
         \A o \in DOMAIN buckets :
           /\ o \in DOMAIN buckets'
           /\ buckets'[o].quota = buckets[o].quota /\ buckets'[o].period = buckets[o].period
           /\ buckets'[o].credit = buckets[o].credit /\ buckets'[o].last = buckets[o].last
           /\ buckets'[o].late = buckets[o].late,
         \A k \in Key : k \notin reclaimed' =>
           /\ k \notin reclaimed
           /\ limiterMap[k] # Nobody => limiterMap'[k] = limiterMap[k]
  PROVE  RateInv'
<1>1. Granting'
  <2>1. ASSUME NEW i \in DOMAIN grants
        PROVE  LET g == grants[i]
               IN  /\ g.bucket \in DOMAIN buckets' /\ buckets'[g.bucket].period > 0
                   /\ g.quota = buckets'[g.bucket].quota
                   /\ g.period = buckets'[g.bucket].period
                   /\ g.at <= now' /\ g.late <= buckets'[g.bucket].late
                   /\ g.key \notin reclaimed' => limiterMap'[g.key] = g.bucket
    <3> DEFINE g == grants[i]
    <3>1. /\ g \in Grant /\ g.bucket \in DOMAIN buckets /\ g.at <= now
          /\ buckets[g.bucket].period > 0 /\ g.quota = buckets[g.bucket].quota
          /\ g.period = buckets[g.bucket].period /\ g.late <= buckets[g.bucket].late
          /\ g.key \notin reclaimed => limiterMap[g.key] = g.bucket
      BY DEF RateInv, Granting
    <3>2. g.key \in Key /\ g.at \in Nat /\ g.bucket # Nobody /\ now \in Nat
      BY <3>1, LimiterAssumption DEF Grant, Typed, Nobody
    <3> HIDE DEF g
    <3>3. g.at <= now'
      BY <3>1, <3>2
    <3>4. QED
      BY <3>1, <3>2, <3>3 DEF g
  <2>2. QED
    BY <2>1 DEF RateInv, Granting
<1>2. Filled'
  <2>1. \A i \in DOMAIN grants : grants[i].bucket \in DOMAIN buckets
    BY DEF RateInv, Granting
  <2>2. QED
    BY <2>1 DEF RateInv, Filled
<1>3. Held'
  BY DEF RateInv, Held
<1>4. QED
  BY <1>1, <1>2, <1>3 DEF RateInv

\* One more token, in numbers: n tokens since some grant and credit after it, then
\* another is taken of x, which the bucket holds at time t, at most now.
LEMMA OneMore ==
  ASSUME NEW n \in Nat, NEW p \in Nat, NEW credit \in Nat, NEW full \in Int, NEW last \in Nat,
         NEW late \in Nat, NEW start \in Int, NEW now0 \in Nat, NEW t \in Nat, NEW x \in Nat,
         n * p + credit <= full + ((last + late) - start),
         last <= now0, t <= now0, x <= credit + (IF t > last THEN t - last ELSE 0)
  PROVE  (n + 1) * p + (x - p) <= full + ((now0 + late) - start)
<1>1. PICK spent \in Int : spent = n * p
  OBVIOUS
<1>2. (n + 1) * p = spent + p
  BY <1>1
<1>3. PICK now1 \in Int : now1 = (n + 1) * p
  OBVIOUS
<1>4. now1 = spent + p /\ spent + credit <= full + ((last + late) - start)
  BY <1>1, <1>2, <1>3
<1>5. now1 + (x - p) <= full + ((now0 + late) - start)
  BY <1>4
<1>6. QED
  BY <1>3, <1>5

\* What a granted token does to the account of its bucket: b before, c after.
LEMMA TokenGranted ==
  ASSUME Typed, RateInv, now \in Nat, UNCHANGED <<now, reclaimed, limiterMap>>,
         NEW o \in DOMAIN buckets, NEW x \in Nat, NEW t \in Nat, t <= now,
         NEW b \in BucketRecord, NEW c \in BucketRecord, NEW e \in Grant,
         b = buckets[o], b.period > 0, b.last <= now,
         b.period <= x, x <= b.quota * b.period,
         x <= b.credit + (IF t > b.last THEN t - b.last ELSE 0),
         DOMAIN buckets' = DOMAIN buckets,
         \A i \in DOMAIN buckets \ {o} : buckets'[i] = buckets[i],
         c = buckets'[o], c.quota = b.quota, c.period = b.period,
         c.credit = x - b.period, c.last = t, c.late = b.late + (now - t),
         e.bucket = o, e.quota = b.quota, e.period = b.period, e.at = now, e.late = b.late,
         e.key \notin reclaimed => limiterMap[e.key] = o,
         grants' = Append(grants, e)
  PROVE  RateInv'
<1>1. /\ b.quota \in Int /\ b.period \in Nat /\ b.credit \in Nat /\ b.last \in Nat
      /\ b.late \in Nat
  BY DEF BucketRecord
<1>2. /\ grants \in Seq(Grant) /\ grants' \in Seq(Grant)
      /\ Len(grants) \in Nat /\ Len(grants') = Len(grants) + 1
      /\ DOMAIN grants = 1 .. Len(grants) /\ DOMAIN grants' = 1 .. Len(grants) + 1
      /\ grants'[Len(grants) + 1] = e
      /\ \A i \in 1 .. Len(grants) : grants'[i] = grants[i] /\ grants[i] \in Grant
  BY DEF RateInv, Granting
<1>3. ASSUME NEW i \in 1 .. Len(grants)
      PROVE  /\ grants[i].at \in Nat /\ grants[i].late \in Nat /\ grants[i].at <= now
             /\ grants[i].bucket = o => /\ grants[i].quota = b.quota
                                        /\ grants[i].period = b.period
                                        /\ grants[i].late <= b.late
  <2>1. grants[i] \in Grant
    BY <1>2
  <2>2. /\ grants[i].at <= now /\ grants[i].quota = buckets[grants[i].bucket].quota
        /\ grants[i].period = buckets[grants[i].bucket].period
        /\ grants[i].late <= buckets[grants[i].bucket].late
    BY <1>2 DEF RateInv, Granting
  <2>3. QED
    BY <2>1, <2>2 DEF Grant
<1>4. ASSUME NEW i \in 1 .. Len(grants) + 1, grants'[i].bucket = o
      PROVE  Count(grants', o, i, Len(grants) + 1) * b.period + c.credit
               <= b.quota * b.period + ((now + b.late) - (grants'[i].at + grants'[i].late))
  <2>1. CASE i = Len(grants) + 1
    <3>1. Tokens(grants, o, i, Len(grants)) = {}
      BY <1>2, <2>1 DEF Tokens
    <3>2. Count(grants', o, i, Len(grants) + 1) = 1
      <4>1. Count(grants, o, i, Len(grants)) = 0
        BY <3>1, FS_EmptySet DEF Count
      <4>2. Count(grants', o, i, Len(grants) + 1) = Count(grants, o, i, Len(grants)) + 1
        BY <1>2, TokensAppend
      <4>3. QED
        BY <4>1, <4>2
    <3>3. PICK full \in Int : full = b.quota * b.period
      BY <1>1
    <3>4. 1 * b.period + c.credit = x /\ x <= full
      BY <1>1, <3>3
    <3>5. grants'[i].at = now /\ grants'[i].late = b.late
      BY <1>2, <2>1
    <3>6. x <= full + ((now + b.late) - (now + b.late))
      BY <1>1, <3>4
    <3>7. QED
      BY <3>2, <3>3, <3>4, <3>5, <3>6
  <2>2. CASE i \in 1 .. Len(grants)
    <3>1. Count(grants', o, i, Len(grants) + 1) = Count(grants, o, i, Len(grants)) + 1
      BY <1>2, TokensAppend
    <3>2. PICK n \in Nat : n = Count(grants, o, i, Len(grants))
      BY <1>2, <2>2, TokensFinite
    <3>3. grants'[i] = grants[i] /\ grants[i].bucket = o
      BY <1>2, <1>4, <2>2
    <3>4. PICK start \in Int : start = grants[i].at + grants[i].late
      BY <1>3, <2>2
    <3>5. n * b.period + b.credit <= b.quota * b.period + ((b.last + b.late) - start)
      BY <1>2, <2>2, <3>2, <3>3, <3>4 DEF RateInv, Filled
    <3>6. PICK full \in Int : full = b.quota * b.period
      BY <1>1
    <3>7. (n + 1) * b.period + (x - b.period) <= full + ((now + b.late) - start)
      <4>1. PICK p \in Nat, credit \in Nat, last \in Nat, late \in Nat, now0 \in Nat :
              p = b.period /\ credit = b.credit /\ last = b.last /\ late = b.late /\ now0 = now
        BY <1>1
      <4>2. /\ n * p + credit <= full + ((last + late) - start)
            /\ last <= now0 /\ t <= now0
            /\ x <= credit + (IF t > last THEN t - last ELSE 0)
        BY <3>5, <3>6, <4>1
      <4>3. (n + 1) * p + (x - p) <= full + ((now0 + late) - start)
        BY <4>2, OneMore
      <4>4. QED
        BY <4>1, <4>3
    <3>8. QED
      BY <3>1, <3>2, <3>3, <3>4, <3>6, <3>7
  <2>3. QED
    BY <1>2, <2>1, <2>2
<1>5. Granting'
  <2>1. ASSUME NEW i \in 1 .. Len(grants) + 1
        PROVE  LET g == grants'[i]
               IN  /\ g.bucket \in DOMAIN buckets /\ buckets'[g.bucket].period > 0
                   /\ g.quota = buckets'[g.bucket].quota
                   /\ g.period = buckets'[g.bucket].period
                   /\ g.at <= now /\ g.late <= buckets'[g.bucket].late
                   /\ g.key \notin reclaimed => limiterMap[g.key] = g.bucket
    <3>1. CASE i = Len(grants) + 1
      <4>1. b.late <= c.late
        BY <1>1
      <4>2. QED
        BY <1>2, <3>1, <4>1
    <3>2. CASE i \in 1 .. Len(grants)
      <4> DEFINE g == grants[i]
      <4>1. /\ g.bucket \in DOMAIN buckets /\ buckets[g.bucket].period > 0
            /\ g.quota = buckets[g.bucket].quota /\ g.period = buckets[g.bucket].period
            /\ g.at <= now /\ g.late <= buckets[g.bucket].late /\ g.late \in Nat
            /\ g.key \notin reclaimed => limiterMap[g.key] = g.bucket
            /\ grants'[i] = g
        BY <1>2, <1>3, <3>2 DEF RateInv, Granting
      <4> HIDE DEF g
      <4>2. CASE g.bucket = o
        <5>1. g.late <= c.late
          BY <1>1, <4>1, <4>2
        <5>2. QED
          BY <4>1, <4>2, <5>1
      <4>3. CASE g.bucket # o
        BY <4>1, <4>3
      <4>4. QED
        BY <4>2, <4>3
    <3>3. QED
      BY <1>2, <3>1, <3>2
  <2>2. QED
    BY <1>2, <2>1 DEF Granting
<1>6. Filled'
  <2>1. ASSUME NEW i \in 1 .. Len(grants) + 1
        PROVE  LET g == grants'[i]
                   d == buckets'[g.bucket]
               IN  Count(grants', g.bucket, i, Len(grants) + 1) * d.period + d.credit
                     <= d.quota * d.period + ((d.last + d.late) - (g.at + g.late))
    <3>1. CASE grants'[i].bucket = o
      <4>1. c.last + c.late = now + b.late
        BY <1>1
      <4>2. QED
        BY <1>4, <3>1, <4>1
    <3>2. CASE grants'[i].bucket # o
      <4>1. i \in 1 .. Len(grants) /\ grants'[i] = grants[i]
        BY <1>2, <3>2
      <4> DEFINE g == grants[i]
      <4>2. g.bucket \in DOMAIN buckets /\ buckets'[g.bucket] = buckets[g.bucket]
        BY <1>2, <3>2, <4>1 DEF RateInv, Granting
      <4>3. Count(grants', g.bucket, i, Len(grants) + 1) = Count(grants, g.bucket, i, Len(grants))
        BY <1>2, <3>2, <4>1, TokensAppend
      <4>4. QED
        BY <1>2, <4>1, <4>2, <4>3 DEF RateInv, Filled
    <3>3. QED
      BY <3>1, <3>2
  <2>2. QED
    BY <1>2, <2>1 DEF Filled
<1>7. Held'
  <2>1. ASSUME NEW i \in 1 .. Len(grants) + 1, NEW j \in i .. Len(grants) + 1,
               grants'[j].bucket = grants'[i].bucket
        PROVE  LET g == grants'[i]
                   h == grants'[j]
               IN  /\ g.at <= h.at /\ g.late <= h.late
                   /\ Count(grants', g.bucket, i, j) * g.period
                        <= g.quota * g.period + ((h.at - g.at) + (h.late - g.late))
    <3>1. CASE j \in 1 .. Len(grants)
      <4>1. /\ i \in 1 .. Len(grants) /\ j \in i .. Len(grants)
            /\ grants'[i] = grants[i] /\ grants'[j] = grants[j]
        BY <1>2, <3>1
      <4>2. PICK k, g : k = grants[i].bucket /\ g = grants
        OBVIOUS
      <4>3. g \in Seq(Grant) /\ i \in 1 .. Len(g) + 1 /\ j \in i .. Len(g) /\ grants' = Append(g, e)
        BY <1>2, <4>1, <4>2
      <4>4. Count(Append(g, e), k, i, j) = Count(g, k, i, j)
        BY <4>3, TokensAppend
      <4>5. QED
        BY <1>2, <2>1, <4>1, <4>2, <4>3, <4>4 DEF RateInv, Held
    <3>2. CASE j = Len(grants) + 1
      <4>1. grants'[j] = e /\ grants'[i].bucket = o
        BY <1>2, <2>1, <3>2
      <4>2. /\ grants'[i].at \in Nat /\ grants'[i].late \in Nat
            /\ grants'[i].at <= now /\ grants'[i].late <= b.late
            /\ grants'[i].quota = b.quota /\ grants'[i].period = b.period
        <5>1. CASE i = Len(grants) + 1
          <6>1. grants'[i] = e
            BY <1>2, <5>1
          <6>2. e.at \in Nat /\ e.late \in Nat /\ e.at <= now /\ e.late <= b.late
            BY <1>1
          <6>3. QED
            BY <6>1, <6>2
        <5>2. CASE i \in 1 .. Len(grants)
          BY <1>2, <1>3, <4>1, <5>2
        <5>3. QED
          BY <1>2, <5>1, <5>2
      <4>3. PICK n \in Nat : n = Count(grants', o, i, j)
        BY <1>2, <3>2, TokensFinite
      <4>4. PICK spent \in Int, full \in Int : spent = n * b.period /\ full = b.quota * b.period
        BY <1>1
      <4>5. spent + c.credit <= full + ((now + b.late) - (grants'[i].at + grants'[i].late))
        BY <1>4, <3>2, <4>1, <4>3, <4>4
      <4>6. c.credit \in Nat
        BY DEF BucketRecord
      <4>7. spent <= full + ((now - grants'[i].at) + (b.late - grants'[i].late))
        <5>1. PICK at \in Nat, late \in Nat, all \in Nat, credit \in Nat, now0 \in Nat :
                /\ at = grants'[i].at /\ late = grants'[i].late
                /\ all = b.late /\ credit = c.credit /\ now0 = now
          BY <1>1, <4>2, <4>6
        <5>2. spent + credit <= full + ((now0 + all) - (at + late))
          BY <4>5, <5>1
        <5>3. spent <= full + ((now0 - at) + (all - late))
          BY <5>2
        <5>4. QED
          BY <5>1, <5>3
      <4>8. QED
        BY <4>1, <4>2, <4>3, <4>4, <4>7
    <3>3. QED
      BY <1>2, <3>1, <3>2
  <2>2. QED
    BY <1>2, <2>1 DEF Held
<1>8. QED
  BY <1>5, <1>6, <1>7 DEF RateInv

\* At the start nothing has been granted.
LEMMA InitRateInv == Init => RateInv
BY DEF Init, RateInv, Granting, Filled, Held

\* A step of a request up to its answer keeps the rate.
LEMMA RequestKeepsRate ==
  ASSUME IInv, RateInv, NEW p \in Proc,
         Begin(p) \/ Load(p) \/ Store(p) \/ Stamp(p) \/ ReadSeen(p)
  PROVE  RateInv'
<1>0. Typed /\ now \in Nat
  BY LimiterAssumption DEF IInv, Typed
<1>1. CASE Begin(p) \/ Load(p) \/ ReadSeen(p)
  <2>1. UNCHANGED <<buckets, now, grants, limiterMap, reclaimed>>
    BY <1>1 DEF Begin, Load, ReadSeen
  <2>2. QED
    BY <1>0, <2>1, NothingGranted
<1>2. CASE Store(p)
  <2> DEFINE new == NewBucket(req[p].limit, req[p].at)
  <2>1. /\ limiterMap[req[p].limit.key] = Nobody
        /\ buckets' = Append(buckets, new)
        /\ limiterMap' = [limiterMap EXCEPT ![req[p].limit.key] = Len(buckets) + 1]
        /\ UNCHANGED <<now, grants, reclaimed>>
    BY <1>2 DEF Store, Found
  <2> HIDE DEF new
  <2>2. \A o \in DOMAIN buckets : o \in DOMAIN buckets' /\ buckets'[o] = buckets[o]
    BY <1>0, <2>1 DEF Typed
  <2>3. \A k \in Key : limiterMap[k] # Nobody => limiterMap'[k] = limiterMap[k]
    BY <1>0, <2>1 DEF Typed
  <2>4. QED
    BY <1>0, <2>1, <2>2, <2>3, NothingGranted
<1>3. CASE Stamp(p)
  <2> DEFINE o == req[p].bucket
             b == [buckets[o] EXCEPT !.lastSeen = now]
  <2>1. /\ buckets' = [buckets EXCEPT ![o] = b]
        /\ UNCHANGED <<now, grants, limiterMap, reclaimed>>
    BY <1>3 DEF Stamp
  <2>2. ASSUME NEW i \in DOMAIN buckets
        PROVE  /\ i \in DOMAIN buckets'
               /\ buckets'[i].quota = buckets[i].quota
               /\ buckets'[i].period = buckets[i].period
               /\ buckets'[i].credit = buckets[i].credit /\ buckets'[i].last = buckets[i].last
               /\ buckets'[i].late = buckets[i].late
    <3>1. buckets[i] \in BucketRecord
      BY <1>0 DEF Typed, Sound
    <3>2. QED
      BY <2>1, <3>1 DEF BucketRecord
  <2>3. QED
    BY <1>0, <2>1, <2>2, NothingGranted
<1>4. QED
  BY <1>1, <1>2, <1>3

\* So does the answer to a request, whatever time it asks with.
LEMMA AskKeepsRate ==
  ASSUME IInv, IInv', RateInv, NEW p \in Proc, Ask(p)
  PROVE  RateInv'
<1> DEFINE o == req[p].bucket
           b == buckets[o]
           t == req[p].at
           credit == Credit(b, t)
           e == [bucket |-> o, key |-> req[p].limit.key, quota |-> b.quota,
                 period |-> b.period, at |-> now, late |-> b.late]
           c == [b EXCEPT !.credit = credit - b.period, !.last = t, !.late = @ + (now - t)]
<1>1. Typed /\ Typed' /\ Sharing /\ pc[p] \in Holding
  BY DEF IInv, Ask, Holding
<1>2. /\ o \in DOMAIN buckets /\ now \in Nat /\ o \in Nat /\ o # Nobody
      /\ t \in Nat /\ t <= now
      /\ req[p].limit.key \in Key
  <2>1. now \in Nat /\ req[p] \in Request /\ t <= now
    BY <1>1, LimiterAssumption DEF Typed
  <2>2. o \in Nat /\ t \in Nat /\ req[p].limit.key \in Key
    BY <2>1 DEF Request, Limit
  <2>3. o # Nobody /\ o <= Len(buckets)
    BY <1>1 DEF Typed
  <2>4. o \in 1 .. Len(buckets)
    BY <1>1, <2>2, <2>3 DEF Typed, Nobody
  <2>5. QED
    BY <1>1, <2>1, <2>2, <2>3, <2>4 DEF Typed
<1>3. Sound(b, now) /\ b \in BucketRecord
  BY <1>1, <1>2 DEF Typed, Sound
<1>4. /\ b.quota \in Int /\ b.period \in Nat /\ b.credit \in Nat /\ b.late \in Nat
      /\ b.last \in Nat /\ b.last <= now
  BY <1>3 DEF Sound, BucketRecord
<1>5. /\ UNCHANGED <<now, reclaimed, limiterMap>>
      /\ \/ UNCHANGED <<buckets, grants>>
         \/ /\ Allowed(b, credit) /\ b.period > 0
            /\ buckets' = [buckets EXCEPT ![o] = c] /\ grants' = Append(grants, e)
  BY DEF Ask
<1>6. /\ credit \in Nat /\ credit <= b.quota * b.period
      /\ credit <= b.credit + (IF t > b.last THEN t - b.last ELSE 0)
  BY <1>2, <1>3, CreditIsBounded DEF Sound
<1> HIDE DEF credit
<1>7. /\ e \in Grant /\ e.bucket = o /\ e.at = now /\ e.quota = b.quota /\ e.period = b.period
      /\ e.late = b.late /\ e.key = req[p].limit.key
  BY <1>2, <1>4 DEF Grant
<1>8. /\ c.quota = b.quota /\ c.period = b.period
      /\ c.credit = credit - b.period /\ c.last = t /\ c.late = b.late + (now - t)
  BY <1>3 DEF BucketRecord
<1>9. CASE UNCHANGED <<buckets, grants>>
  BY <1>1, <1>2, <1>5, <1>9, NothingGranted
<1>10. CASE /\ Allowed(b, credit) /\ b.period > 0
            /\ buckets' = [buckets EXCEPT ![o] = c] /\ grants' = Append(grants, e)
  <2>1. b.period <= credit
    BY <1>4, <1>6, <1>10 DEF Allowed
  <2>2. req[p].limit.key \notin reclaimed => limiterMap[req[p].limit.key] = o
    BY <1>1, <1>2 DEF Sharing
  <2> HIDE DEF c, e
  <2>3. /\ DOMAIN buckets' = DOMAIN buckets /\ buckets'[o] = c
        /\ \A i \in DOMAIN buckets \ {o} : buckets'[i] = buckets[i]
    BY <1>2, <1>10
  <2>4. c \in BucketRecord
    BY <1>1, <1>2, <2>3 DEF Typed, Sound
  <2>5. PICK bb \in BucketRecord, x \in Nat, oo \in DOMAIN buckets, tt \in Nat :
          bb = b /\ x = credit /\ oo = o /\ tt = t
    BY <1>2, <1>3, <1>6
  <2>6. b = buckets[oo]
    BY <2>5
  <2>7. PICK cc \in BucketRecord, ee \in Grant : cc = c /\ ee = e
    BY <1>7, <2>4
  <2> HIDE DEF b, o, t
  <2>8. /\ bb = buckets[oo] /\ bb.period > 0 /\ bb.last <= now /\ tt <= now
        /\ bb.period <= x /\ x <= bb.quota * bb.period
        /\ x <= bb.credit + (IF tt > bb.last THEN tt - bb.last ELSE 0)
    BY <1>2, <1>4, <1>6, <1>10, <2>1, <2>5, <2>6
  <2>9. /\ DOMAIN buckets' = DOMAIN buckets
        /\ \A i \in DOMAIN buckets \ {oo} : buckets'[i] = buckets[i]
        /\ cc = buckets'[oo] /\ cc.quota = bb.quota /\ cc.period = bb.period
        /\ cc.credit = x - bb.period /\ cc.last = tt /\ cc.late = bb.late + (now - tt)
    BY <1>8, <2>3, <2>5, <2>7
  <2>10. /\ ee.bucket = oo /\ ee.quota = bb.quota /\ ee.period = bb.period
         /\ ee.at = now /\ ee.late = bb.late
         /\ ee.key \notin reclaimed => limiterMap[ee.key] = oo
         /\ grants' = Append(grants, ee)
    BY <1>7, <1>10, <2>2, <2>5, <2>7
  <2>11. QED
    BY <1>1, <1>2, <1>5, <2>8, <2>9, <2>10, TokenGranted
<1>11. QED
  BY <1>5, <1>9, <1>10

\* Every step keeps the rate.
LEMMA NextRateInv == IInv /\ IInv' /\ RateInv /\ [Next]_vars => RateInv'
<1> SUFFICES ASSUME IInv, IInv', RateInv, [Next]_vars PROVE RateInv'
  OBVIOUS
<1>0. Typed /\ Typed' /\ now \in Nat /\ now' \in Nat
  BY LimiterAssumption DEF IInv, Typed
<1>1. ASSUME NEW k \in Key, CleanVisit(k) PROVE RateInv'
  <2>1. UNCHANGED <<buckets, now, grants, limiterMap, reclaimed>>
    BY <1>1 DEF CleanVisit
  <2>2. QED
    BY <1>0, <2>1, NothingGranted
<1>2. ASSUME NEW k \in Key, CleanDelete(k) PROVE RateInv'
  <2>1. /\ limiterMap' = [limiterMap EXCEPT ![k] = Nobody]
        /\ reclaimed' = reclaimed \cup {k} /\ UNCHANGED <<buckets, now, grants>>
    BY <1>2 DEF CleanDelete
  <2>2. \A l \in Key : l \notin reclaimed' => l \notin reclaimed /\ limiterMap'[l] = limiterMap[l]
    BY <1>0, <2>1 DEF Typed
  <2>3. QED
    BY <1>0, <2>1, <2>2, NothingGranted
<1>3. CASE Cleanup
  <2>1. reclaimed' = Key /\ UNCHANGED <<buckets, now, grants>>
    BY <1>3 DEF Cleanup
  <2>2. QED
    BY <1>0, <2>1, NothingGranted
<1>4. CASE TimePasses
  <2>1. now' = now + 1 /\ UNCHANGED <<buckets, grants, limiterMap, reclaimed>>
    BY <1>4 DEF TimePasses
  <2>2. QED
    BY <1>0, <2>1, NothingGranted
<1>5. CASE UNCHANGED vars
  <2>1. UNCHANGED <<buckets, now, grants, limiterMap, reclaimed>>
    BY <1>5 DEF vars
  <2>2. QED
    BY <1>0, <2>1, NothingGranted
<1>6. QED
  BY <1>1, <1>2, <1>3, <1>4, <1>5, RequestKeepsRate, AskKeepsRate DEF Next

\* Between two grants of a key that was not deleted, its requests have got the quota,
\* and a token for each period that has passed or by which an earlier one was late: for
\* any interleaving of requests, of the cleaner and of the clock.
THEOREM RateIsHeld == Spec => []KeyHoldsRate
<1>1. ASSUME IInv, RateInv PROVE KeyHoldsRate
  <2> SUFFICES ASSUME NEW i \in DOMAIN grants, NEW j \in i .. Len(grants),
                      grants[j].key = grants[i].key, grants[i].key \notin reclaimed
               PROVE  Granted(i, j) <= grants[i].quota
                        + ((grants[j].at - grants[i].at) + (grants[j].late - grants[i].late))
                             \div grants[i].period
    BY DEF KeyHoldsRate
  <2> DEFINE o == grants[i].bucket
  <2>1. /\ grants \in Seq(Grant) /\ DOMAIN grants = 1 .. Len(grants) /\ Len(grants) \in Nat
        /\ j \in DOMAIN grants /\ i \in Nat /\ j \in Nat
    BY <1>1 DEF RateInv, Granting
  <2>2. grants[i] \in Grant /\ grants[j] \in Grant
    BY <2>1
  <2>3. \A m \in i .. j : grants[m].key = grants[i].key => grants[m].bucket = o
    BY <1>1, <2>1 DEF RateInv, Granting
  <2>4. {m \in i .. j : grants[m].key = grants[i].key} \subseteq Tokens(grants, o, i, j)
    BY <2>3 DEF Tokens
  <2>5. IsFiniteSet(Tokens(grants, o, i, j)) /\ Count(grants, o, i, j) \in Nat
    BY <2>1, TokensFinite
  <2>6. Granted(i, j) \in Nat /\ Granted(i, j) <= Count(grants, o, i, j)
    BY <2>4, <2>5, FS_Subset, FS_CardinalityType DEF Granted, Count
  <2>7. grants[j].bucket = o
    BY <2>1, <2>3
  <2>8. PICK q \in Int, p \in Nat \ {0} : q = grants[i].quota /\ p = grants[i].period
    <3>1. grants[i].quota \in Int /\ grants[i].period \in Nat
      BY <2>2 DEF Grant
    <3>2. grants[i].period # 0
      BY <1>1, <3>1 DEF RateInv, Granting
    <3>3. QED
      BY <3>1, <3>2
  <2>9. /\ grants[i].at \in Nat /\ grants[j].at \in Nat /\ grants[i].late \in Nat
        /\ grants[j].late \in Nat
    BY <2>2 DEF Grant
  <2>10. /\ grants[i].at <= grants[j].at /\ grants[i].late <= grants[j].late
         /\ Count(grants, o, i, j) * p
              <= q * p + ((grants[j].at - grants[i].at) + (grants[j].late - grants[i].late))
    BY <1>1, <2>7, <2>8 DEF RateInv, Held
  <2>11. PICK d \in Nat :
           d = (grants[j].at - grants[i].at) + (grants[j].late - grants[i].late)
    BY <2>9, <2>10
  <2>12. Count(grants, o, i, j) <= q + d \div p
    BY <2>5, <2>10, <2>11, Div
  <2>13. Granted(i, j) <= q + d \div p
    <3>1. PICK n \in Nat, m \in Nat, r \in Int :
            n = Granted(i, j) /\ m = Count(grants, o, i, j) /\ r = q + d \div p
      BY <2>5, <2>6
    <3>2. QED
      BY <2>6, <2>12, <3>1
  <2>14. QED
    BY <2>8, <2>11, <2>13
<1>2. IInv /\ RateInv /\ [Next]_vars => (IInv /\ RateInv)'
  BY NextIInv, NextRateInv
<1>3. Init => IInv /\ RateInv
  BY InitIInv, InitRateInv
<1>4. IInv /\ RateInv => KeyHoldsRate
  BY <1>1
<1>5. QED
  BY <1>2, <1>3, <1>4, PTL DEF Spec
===============================================================================
