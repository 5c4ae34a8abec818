---------------------------- MODULE CallPathProofs ----------------------------
(***************************************************************************)
(* What is proved of a gRPC call from end to end, for any clients,         *)
(* options, retries, servers and any network.                              *)
(*                                                                         *)
(* The timeout of a client covers its calls: where the link of the         *)
(* timeout stands in the chain is what the argument is about               *)
(* (DeadlineInv).  A call's standing on its chain, with the history of its *)
(* attempts, tells what its code means: what nil says, when it was tried   *)
(* again, and how often it was logged (PathInv).  And what a reporter has  *)
(* learned of a handling tells what its lines say (LogInv).                *)
(***************************************************************************)
EXTENDS CallPath, FiniteSetTheorems, SequenceTheorems, TLAPS

One(b) == IF b THEN 1 ELSE 0

\* Where the optional links of a unary call end.
UserEnd(o) == One(o.user)
LoggerEnd(o) == UserEnd(o) + One(o.logger)
TimeoutEnd(o) == LoggerEnd(o) + One(o.timeout > 0)
RetryEnd(o) == TimeoutEnd(o) + One(o.retryTimes > 0)
MetricsEnd(o) == RetryEnd(o) + One(o.metrics)

OptionType == [timeout : Int, retryTimes : Int, secure : BOOLEAN, metrics : BOOLEAN,
               logger : BOOLEAN, creds : BOOLEAN, user : BOOLEAN, pool : BOOLEAN]

LinkName == {"user", "logger", "timeout", "retry", "metrics", "tracer", "wire"}

\* An optional link is a chain of one, or of none.
LEMMA Single ==
  ASSUME NEW S, NEW b \in BOOLEAN, NEW l \in S
  PROVE  /\ If(b, l) \in Seq(S) /\ Len(If(b, l)) = One(b)
         /\ \A i \in 1 .. One(b) : If(b, l)[i] = l
<1>1. CASE b
  <2>1. If(b, l) = <<l>> /\ One(b) = 1
    BY <1>1 DEF If, One
  <2>2. <<l>> \in Seq(S) /\ Len(<<l>>) = 1 /\ <<l>>[1] = l
    OBVIOUS
  <2>3. QED
    BY <2>1, <2>2
<1>2. CASE ~b
  BY <1>2 DEF If, One
<1>3. QED
  BY <1>1, <1>2

\* A chain followed by links of one kind.
LEMMA Extend ==
  ASSUME NEW S, NEW s \in Seq(S), NEW t \in Seq(S), NEW l,
         \A i \in 1 .. Len(t) : t[i] = l
  PROVE  /\ s \o t \in Seq(S)
         /\ Len(s \o t) = Len(s) + Len(t)
         /\ \A i \in 1 .. Len(s) : (s \o t)[i] = s[i]
         /\ \A i \in Len(s) + 1 .. Len(s) + Len(t) : (s \o t)[i] = l
<1>1. /\ s \o t \in Seq(S) /\ Len(s \o t) = Len(s) + Len(t)
      /\ \A i \in 1 .. Len(s) + Len(t) :
           (s \o t)[i] = IF i <= Len(s) THEN s[i] ELSE t[i - Len(s)]
  BY ConcatProperties
<1>2. Len(s) \in Nat /\ Len(t) \in Nat
  OBVIOUS
<1>3. QED
  BY <1>1, <1>2

\* The chain of a unary call, link by link.
LEMMA UnaryLinks ==
  ASSUME NEW o \in OptionType
  PROVE  /\ Len(UnaryChain(o)) = MetricsEnd(o) + 2
         /\ UnaryChain(o) \in Seq(LinkName)
         /\ \A i \in 1 .. MetricsEnd(o) + 2 :
              /\ i <= UserEnd(o) => UnaryChain(o)[i] = "user"
              /\ UserEnd(o) < i /\ i <= LoggerEnd(o) => UnaryChain(o)[i] = "logger"
              /\ LoggerEnd(o) < i /\ i <= TimeoutEnd(o) => UnaryChain(o)[i] = "timeout"
              /\ TimeoutEnd(o) < i /\ i <= RetryEnd(o) => UnaryChain(o)[i] = "retry"
              /\ RetryEnd(o) < i /\ i <= MetricsEnd(o) => UnaryChain(o)[i] = "metrics"
              /\ i = MetricsEnd(o) + 1 => UnaryChain(o)[i] = "tracer"
              /\ i = MetricsEnd(o) + 2 => UnaryChain(o)[i] = "wire"
<1> DEFINE s0 == If(o.user, "user")
           s1 == s0 \o If(o.logger, "logger")
           s2 == s1 \o If(o.timeout > 0, "timeout")
           s3 == s2 \o If(o.retryTimes > 0, "retry")
           s4 == s3 \o If(o.metrics, "metrics")
           s5 == s4 \o <<"tracer", "wire">>
<1>0. /\ o.user \in BOOLEAN /\ o.logger \in BOOLEAN /\ (o.timeout > 0) \in BOOLEAN
      /\ (o.retryTimes > 0) \in BOOLEAN /\ o.metrics \in BOOLEAN
  BY DEF OptionType
<1>1. /\ s0 \in Seq(LinkName) /\ Len(s0) = UserEnd(o)
      /\ \A i \in 1 .. UserEnd(o) : s0[i] = "user"
  BY <1>0, Single DEF UserEnd, LinkName
<1> HIDE DEF s0
<1>2. /\ s1 \in Seq(LinkName) /\ Len(s1) = LoggerEnd(o)
      /\ \A i \in 1 .. UserEnd(o) : s1[i] = s0[i]
      /\ \A i \in UserEnd(o) + 1 .. LoggerEnd(o) : s1[i] = "logger"
  <2> DEFINE l == "logger"
             t == If(o.logger, l)
             n == One(o.logger)
  <2>1. l \in LinkName
    BY DEF LinkName
  <2> HIDE DEF l
  <2>2. /\ t \in Seq(LinkName) /\ Len(t) = n
        /\ \A i \in 1 .. Len(t) : t[i] = l
    <3>1. CASE o.logger
      <4>1. t = <<l>> /\ n = 1
        BY <3>1 DEF If, One
      <4> HIDE DEF t, n
      <4>2. <<l>> \in Seq(LinkName) /\ Len(<<l>>) = 1 /\ <<l>>[1] = l
        BY <2>1
      <4>3. QED
        BY <4>1, <4>2
    <3>2. CASE ~(o.logger)
      BY <3>2 DEF If, One
    <3>3. QED
      BY <3>1, <3>2
  <2>3. s1 = s0 \o t
    BY DEF l
  <2>4. LoggerEnd(o) = UserEnd(o) + Len(t)
    BY <2>2 DEF LoggerEnd
  <2> HIDE DEF t
  <2>5. /\ s0 \o t \in Seq(LinkName)
        /\ Len(s0 \o t) = Len(s0) + Len(t)
        /\ \A i \in 1 .. Len(s0) : (s0 \o t)[i] = s0[i]
        /\ \A i \in Len(s0) + 1 .. Len(s0) + Len(t) : (s0 \o t)[i] = l
    BY <1>1, <2>2, Extend
  <2>6. /\ s1 \in Seq(LinkName) /\ Len(s1) = LoggerEnd(o)
        /\ \A i \in 1 .. UserEnd(o) : s1[i] = s0[i]
        /\ \A i \in UserEnd(o) + 1 .. LoggerEnd(o) : s1[i] = l
    BY <1>1, <2>3, <2>4, <2>5
  <2>7. QED
    BY <2>6 DEF l
<1> HIDE DEF s1
<1>3. /\ s2 \in Seq(LinkName) /\ Len(s2) = TimeoutEnd(o)
      /\ \A i \in 1 .. LoggerEnd(o) : s2[i] = s1[i]
      /\ \A i \in LoggerEnd(o) + 1 .. TimeoutEnd(o) : s2[i] = "timeout"
  <2> DEFINE l == "timeout"
             t == If(o.timeout > 0, l)
             n == One(o.timeout > 0)
  <2>1. l \in LinkName
    BY DEF LinkName
  <2> HIDE DEF l
  <2>2. /\ t \in Seq(LinkName) /\ Len(t) = n
        /\ \A i \in 1 .. Len(t) : t[i] = l
    <3>1. CASE o.timeout > 0
      <4>1. t = <<l>> /\ n = 1
        BY <3>1 DEF If, One
      <4> HIDE DEF t, n
      <4>2. <<l>> \in Seq(LinkName) /\ Len(<<l>>) = 1 /\ <<l>>[1] = l
        BY <2>1
      <4>3. QED
        BY <4>1, <4>2
    <3>2. CASE ~(o.timeout > 0)
      BY <3>2 DEF If, One
    <3>3. QED
      BY <3>1, <3>2
  <2>3. s2 = s1 \o t
    BY DEF l
  <2>4. TimeoutEnd(o) = LoggerEnd(o) + Len(t)
    BY <2>2 DEF TimeoutEnd
  <2> HIDE DEF t
  <2>5. /\ s1 \o t \in Seq(LinkName)
        /\ Len(s1 \o t) = Len(s1) + Len(t)
        /\ \A i \in 1 .. Len(s1) : (s1 \o t)[i] = s1[i]
        /\ \A i \in Len(s1) + 1 .. Len(s1) + Len(t) : (s1 \o t)[i] = l
    BY <1>2, <2>2, Extend
  <2>6. /\ s2 \in Seq(LinkName) /\ Len(s2) = TimeoutEnd(o)
        /\ \A i \in 1 .. LoggerEnd(o) : s2[i] = s1[i]
        /\ \A i \in LoggerEnd(o) + 1 .. TimeoutEnd(o) : s2[i] = l
    BY <1>2, <2>3, <2>4, <2>5
  <2>7. QED
    BY <2>6 DEF l
<1> HIDE DEF s2
<1>4. /\ s3 \in Seq(LinkName) /\ Len(s3) = RetryEnd(o)
      /\ \A i \in 1 .. TimeoutEnd(o) : s3[i] = s2[i]
      /\ \A i \in TimeoutEnd(o) + 1 .. RetryEnd(o) : s3[i] = "retry"
  <2> DEFINE l == "retry"
             t == If(o.retryTimes > 0, l)
             n == One(o.retryTimes > 0)
  <2>1. l \in LinkName
    BY DEF LinkName
  <2> HIDE DEF l
  <2>2. /\ t \in Seq(LinkName) /\ Len(t) = n
        /\ \A i \in 1 .. Len(t) : t[i] = l
    <3>1. CASE o.retryTimes > 0
      <4>1. t = <<l>> /\ n = 1
        BY <3>1 DEF If, One
      <4> HIDE DEF t, n
      <4>2. <<l>> \in Seq(LinkName) /\ Len(<<l>>) = 1 /\ <<l>>[1] = l
        BY <2>1
      <4>3. QED
        BY <4>1, <4>2
    <3>2. CASE ~(o.retryTimes > 0)
      BY <3>2 DEF If, One
    <3>3. QED
      BY <3>1, <3>2
  <2>3. s3 = s2 \o t
    BY DEF l
  <2>4. RetryEnd(o) = TimeoutEnd(o) + Len(t)
    BY <2>2 DEF RetryEnd
  <2> HIDE DEF t
  <2>5. /\ s2 \o t \in Seq(LinkName)
        /\ Len(s2 \o t) = Len(s2) + Len(t)
        /\ \A i \in 1 .. Len(s2) : (s2 \o t)[i] = s2[i]
        /\ \A i \in Len(s2) + 1 .. Len(s2) + Len(t) : (s2 \o t)[i] = l
    BY <1>3, <2>2, Extend
  <2>6. /\ s3 \in Seq(LinkName) /\ Len(s3) = RetryEnd(o)
        /\ \A i \in 1 .. TimeoutEnd(o) : s3[i] = s2[i]
        /\ \A i \in TimeoutEnd(o) + 1 .. RetryEnd(o) : s3[i] = l
    BY <1>3, <2>3, <2>4, <2>5
  <2>7. QED
    BY <2>6 DEF l
<1> HIDE DEF s3
<1>5. /\ s4 \in Seq(LinkName) /\ Len(s4) = MetricsEnd(o)
      /\ \A i \in 1 .. RetryEnd(o) : s4[i] = s3[i]
      /\ \A i \in RetryEnd(o) + 1 .. MetricsEnd(o) : s4[i] = "metrics"
  <2> DEFINE l == "metrics"
             t == If(o.metrics, l)
             n == One(o.metrics)
  <2>1. l \in LinkName
    BY DEF LinkName
  <2> HIDE DEF l
  <2>2. /\ t \in Seq(LinkName) /\ Len(t) = n
        /\ \A i \in 1 .. Len(t) : t[i] = l
    <3>1. CASE o.metrics
      <4>1. t = <<l>> /\ n = 1
        BY <3>1 DEF If, One
      <4> HIDE DEF t, n
      <4>2. <<l>> \in Seq(LinkName) /\ Len(<<l>>) = 1 /\ <<l>>[1] = l
        BY <2>1
      <4>3. QED
        BY <4>1, <4>2
    <3>2. CASE ~(o.metrics)
      BY <3>2 DEF If, One
    <3>3. QED
      BY <3>1, <3>2
  <2>3. s4 = s3 \o t
    BY DEF l
  <2>4. MetricsEnd(o) = RetryEnd(o) + Len(t)
    BY <2>2 DEF MetricsEnd
  <2> HIDE DEF t
  <2>5. /\ s3 \o t \in Seq(LinkName)
        /\ Len(s3 \o t) = Len(s3) + Len(t)
        /\ \A i \in 1 .. Len(s3) : (s3 \o t)[i] = s3[i]
        /\ \A i \in Len(s3) + 1 .. Len(s3) + Len(t) : (s3 \o t)[i] = l
    BY <1>4, <2>2, Extend
  <2>6. /\ s4 \in Seq(LinkName) /\ Len(s4) = MetricsEnd(o)
        /\ \A i \in 1 .. RetryEnd(o) : s4[i] = s3[i]
        /\ \A i \in RetryEnd(o) + 1 .. MetricsEnd(o) : s4[i] = l
    BY <1>4, <2>3, <2>4, <2>5
  <2>7. QED
    BY <2>6 DEF l
<1> HIDE DEF s4
<1>6. /\ s5 \in Seq(LinkName) /\ Len(s5) = MetricsEnd(o) + 2
      /\ \A i \in 1 .. MetricsEnd(o) : s5[i] = s4[i]
      /\ s5[MetricsEnd(o) + 1] = "tracer" /\ s5[MetricsEnd(o) + 2] = "wire"
  <2> DEFINE t == <<"tracer", "wire">>
  <2>1. t \in Seq(LinkName) /\ Len(t) = 2 /\ t[1] = "tracer" /\ t[2] = "wire"
    BY DEF LinkName
  <2> HIDE DEF t
  <2>2. /\ s4 \o t \in Seq(LinkName) /\ Len(s4 \o t) = Len(s4) + Len(t)
        /\ \A i \in 1 .. Len(s4) + Len(t) :
             (s4 \o t)[i] = IF i <= Len(s4) THEN s4[i] ELSE t[i - Len(s4)]
    BY <1>5, <2>1, ConcatProperties
  <2>3. Len(s4) \in Nat
    BY <1>5
  <2>4. /\ \A i \in 1 .. Len(s4) : (s4 \o t)[i] = s4[i]
        /\ (s4 \o t)[Len(s4) + 1] = t[1] /\ (s4 \o t)[Len(s4) + 2] = t[2]
    BY <2>1, <2>2, <2>3
  <2>5. QED
    BY <1>5, <2>1, <2>2, <2>4 DEF t
<1> HIDE DEF s5
<1>7. UnaryChain(o) = s5
  BY DEF UnaryChain, s0, s1, s2, s3, s4, s5
<1>8. /\ UserEnd(o) \in Nat /\ LoggerEnd(o) \in Nat /\ TimeoutEnd(o) \in Nat
      /\ RetryEnd(o) \in Nat /\ MetricsEnd(o) \in Nat
      /\ UserEnd(o) <= LoggerEnd(o) /\ LoggerEnd(o) <= TimeoutEnd(o)
      /\ TimeoutEnd(o) <= RetryEnd(o) /\ RetryEnd(o) <= MetricsEnd(o)
  <2>1. \A b : One(b) \in Nat
    BY DEF One
  <2>2. UserEnd(o) \in Nat
    BY <2>1 DEF UserEnd
  <2>3. LoggerEnd(o) \in Nat /\ UserEnd(o) <= LoggerEnd(o)
    BY <2>1, <2>2 DEF LoggerEnd
  <2>4. TimeoutEnd(o) \in Nat /\ LoggerEnd(o) <= TimeoutEnd(o)
    BY <2>1, <2>3 DEF TimeoutEnd
  <2>5. RetryEnd(o) \in Nat /\ TimeoutEnd(o) <= RetryEnd(o)
    BY <2>1, <2>4 DEF RetryEnd
  <2>6. MetricsEnd(o) \in Nat /\ RetryEnd(o) <= MetricsEnd(o)
    BY <2>1, <2>5 DEF MetricsEnd
  <2>7. QED
    BY <2>2, <2>3, <2>4, <2>5, <2>6
<1> DEFINE u == UserEnd(o)
           l == LoggerEnd(o)
           t == TimeoutEnd(o)
           r == RetryEnd(o)
           m == MetricsEnd(o)
<1>9. /\ u \in Nat /\ l \in Nat /\ t \in Nat /\ r \in Nat /\ m \in Nat
      /\ u <= l /\ l <= t /\ t <= r /\ r <= m
  BY <1>8
<1>10. /\ \A i \in 1 .. u : s5[i] = "user"
       /\ \A i \in u + 1 .. l : s5[i] = "logger"
       /\ \A i \in l + 1 .. t : s5[i] = "timeout"
       /\ \A i \in t + 1 .. r : s5[i] = "retry"
       /\ \A i \in r + 1 .. m : s5[i] = "metrics"
       /\ s5[m + 1] = "tracer" /\ s5[m + 2] = "wire"
       /\ s5 \in Seq(LinkName) /\ Len(s5) = m + 2
  <2>1. /\ \A i \in 1 .. u : s1[i] = "user"
        /\ \A i \in u + 1 .. l : s1[i] = "logger"
    BY <1>1, <1>2
  <2> HIDE DEF u, l, t, r, m
  <2>2. /\ \A i \in 1 .. l : s2[i] = s1[i]
        /\ \A i \in l + 1 .. t : s2[i] = "timeout"
    BY <1>3 DEF l, t
  <2>3. /\ \A i \in 1 .. t : s3[i] = s2[i]
        /\ \A i \in t + 1 .. r : s3[i] = "retry"
    BY <1>4 DEF t, r
  <2>4. /\ \A i \in 1 .. r : s4[i] = s3[i]
        /\ \A i \in r + 1 .. m : s4[i] = "metrics"
    BY <1>5 DEF r, m
  <2>5. \A i \in 1 .. m : s5[i] = s4[i]
    BY <1>6 DEF m
  <2>6. /\ \A i \in 1 .. u : s3[i] = "user"
        /\ \A i \in u + 1 .. l : s3[i] = "logger"
        /\ \A i \in l + 1 .. t : s3[i] = "timeout"
    BY <1>9, <2>1, <2>2, <2>3
  <2>7. /\ \A i \in 1 .. u : s5[i] = "user"
        /\ \A i \in u + 1 .. l : s5[i] = "logger"
        /\ \A i \in l + 1 .. t : s5[i] = "timeout"
    BY <1>9, <2>4, <2>5, <2>6
  <2>8. /\ \A i \in t + 1 .. r : s5[i] = "retry"
        /\ \A i \in r + 1 .. m : s5[i] = "metrics"
    BY <1>9, <2>3, <2>4, <2>5
  <2>9. QED
    BY <1>6, <2>7, <2>8 DEF m
<1> HIDE DEF u, l, t, r, m
<1>11. \A i \in 1 .. m + 2 :
         /\ i <= u => s5[i] = "user"
         /\ u < i /\ i <= l => s5[i] = "logger"
         /\ l < i /\ i <= t => s5[i] = "timeout"
         /\ t < i /\ i <= r => s5[i] = "retry"
         /\ r < i /\ i <= m => s5[i] = "metrics"
         /\ i = m + 1 => s5[i] = "tracer"
         /\ i = m + 2 => s5[i] = "wire"
  BY <1>9, <1>10
<1>12. QED
  BY <1>7, <1>10, <1>11 DEF u, l, t, r, m

-------------------------------------------------------------------------------
\* Where the links of a unary call with a timeout stand, seen from the timeout.
LEMMA TimedLinks ==
  ASSUME NEW o \in OptionType
  PROVE  /\ TimeoutEnd(o) \in Nat /\ MetricsEnd(o) \in Nat
         /\ TimeoutEnd(o) <= MetricsEnd(o)
         /\ Len(UnaryChain(o)) = MetricsEnd(o) + 2
         /\ o.timeout > 0 =>
              /\ TimeoutEnd(o) >= 1
              /\ \A i \in 1 .. MetricsEnd(o) + 2 :
                   /\ UnaryChain(o)[i] = "timeout" <=> i = TimeoutEnd(o)
                   /\ UnaryChain(o)[i] \in {"user", "logger"} => i < TimeoutEnd(o)
                   /\ UnaryChain(o)[i] \in {"retry", "metrics"} =>
                        i > TimeoutEnd(o) /\ i <= MetricsEnd(o)
                   /\ UnaryChain(o)[i] = "tracer" => i = MetricsEnd(o) + 1
                   /\ UnaryChain(o)[i] = "wire" => i = MetricsEnd(o) + 2
<1>0. /\ o.user \in BOOLEAN /\ o.logger \in BOOLEAN /\ (o.timeout > 0) \in BOOLEAN
      /\ (o.retryTimes > 0) \in BOOLEAN /\ o.metrics \in BOOLEAN
  BY DEF OptionType
<1>1. /\ UserEnd(o) \in Nat /\ LoggerEnd(o) \in Nat /\ TimeoutEnd(o) \in Nat
      /\ RetryEnd(o) \in Nat /\ MetricsEnd(o) \in Nat
      /\ UserEnd(o) <= LoggerEnd(o) /\ LoggerEnd(o) <= TimeoutEnd(o)
      /\ TimeoutEnd(o) <= RetryEnd(o) /\ RetryEnd(o) <= MetricsEnd(o)
  BY <1>0 DEF UserEnd, LoggerEnd, TimeoutEnd, RetryEnd, MetricsEnd, One
<1>2. o.timeout > 0 => TimeoutEnd(o) = LoggerEnd(o) + 1
  BY DEF TimeoutEnd, One
<1> DEFINE chain == UnaryChain(o)
<1>3. /\ Len(chain) = MetricsEnd(o) + 2
      /\ \A i \in 1 .. MetricsEnd(o) + 2 :
           /\ i <= UserEnd(o) => chain[i] = "user"
           /\ UserEnd(o) < i /\ i <= LoggerEnd(o) => chain[i] = "logger"
           /\ LoggerEnd(o) < i /\ i <= TimeoutEnd(o) => chain[i] = "timeout"
           /\ TimeoutEnd(o) < i /\ i <= RetryEnd(o) => chain[i] = "retry"
           /\ RetryEnd(o) < i /\ i <= MetricsEnd(o) => chain[i] = "metrics"
           /\ i = MetricsEnd(o) + 1 => chain[i] = "tracer"
           /\ i = MetricsEnd(o) + 2 => chain[i] = "wire"
  BY UnaryLinks
<1> HIDE DEF chain
<1>4. ASSUME o.timeout > 0, NEW i \in 1 .. MetricsEnd(o) + 2
      PROVE  /\ chain[i] = "timeout" <=> i = TimeoutEnd(o)
             /\ chain[i] \in {"user", "logger"} => i < TimeoutEnd(o)
             /\ chain[i] \in {"retry", "metrics"} => i > TimeoutEnd(o) /\ i <= MetricsEnd(o)
             /\ chain[i] = "tracer" => i = MetricsEnd(o) + 1
             /\ chain[i] = "wire" => i = MetricsEnd(o) + 2
  <2>1. \/ i <= UserEnd(o)
        \/ UserEnd(o) < i /\ i <= LoggerEnd(o)
        \/ LoggerEnd(o) < i /\ i <= TimeoutEnd(o)
        \/ TimeoutEnd(o) < i /\ i <= RetryEnd(o)
        \/ RetryEnd(o) < i /\ i <= MetricsEnd(o)
        \/ i = MetricsEnd(o) + 1 \/ i = MetricsEnd(o) + 2
    BY <1>1
  <2>2. TimeoutEnd(o) = LoggerEnd(o) + 1
    BY <1>2, <1>4
  <2>3. QED
    BY <1>1, <1>3, <2>1, <2>2
<1>5. QED
  BY <1>1, <1>2, <1>3, <1>4 DEF chain

-------------------------------------------------------------------------------
CallFields == DOMAIN NoCall

\* A call with a deadline: what it took and what is left are within the timeout.
Running(r, o) == r.left >= 0 /\ r.elapsed + r.left <= o.timeout

\* Before its timeout link a call has taken no time, from there on its timer runs,
\* and above it the call has taken no longer than the timeout.
TimeKept(r, o) ==
  LET T == TimeoutEnd(o)
      N == MetricsEnd(o) + 2
  IN  /\ 0 <= r.at /\ r.at <= N
      /\ r.stage = "down" =>
           /\ 1 <= r.at
           /\ r.at <= T => r.elapsed = 0 /\ r.left = NoDeadline
           /\ r.at > T => Running(r, o)
      /\ r.stage \in {"sent", "backoff"} => r.at > T /\ Running(r, o)
      /\ r.stage \in {"backoff", "up"} => r.at < N
      /\ r.stage = "up" => IF r.at >= T THEN Running(r, o) ELSE r.elapsed <= o.timeout
      /\ r.stage = "done" => r.elapsed <= o.timeout

CallKept(r, o) ==
  /\ DOMAIN r = CallFields
  /\ r.stage \in {"idle", "down", "sent", "up", "backoff", "done"}
  /\ r.kind \in Kind
  /\ r.at \in Int /\ r.left \in Int /\ r.elapsed \in Int
  /\ r.stage = "idle" => r.at = 0 /\ r.elapsed = 0 /\ r.left = NoDeadline
  /\ r.kind = "unary" /\ o.timeout > 0 /\ ~o.pool => TimeKept(r, o)

ConnType == [state : {"none", "refused", "open", "pooled", "closed"},
             given : SUBSET Given, opt : OptionType]

ConnKept(k, r) ==
  /\ k.state \in {"none", "refused"} => r.stage = "idle"
  /\ k.given # {} => \E g \in Given : k.given = {g} /\ k.opt = evaluateOptions(g)

DeadlineInv ==
  /\ conn \in [Caller -> ConnType] /\ DOMAIN call = Caller
  /\ \A c \in Caller : CallKept(call[c], conn[c].opt) /\ ConnKept(conn[c], call[c])

\* The options NewClient arrives at.
LEMMA OptionsAreTyped ==
  ASSUME NEW g \in Given
  PROVE  evaluateOptions(g) \in OptionType
<1>1. /\ g.withTimeout \in Nat /\ g.timeout \subseteq Int /\ g.retry \subseteq Int
      /\ g.secure \in BOOLEAN /\ g.metrics \in BOOLEAN /\ g.logger \in BOOLEAN
      /\ g.creds \in BOOLEAN /\ g.user \in BOOLEAN /\ g.pool \in BOOLEAN
  BY ClientAssumption
<1>2. Parsed(g.timeout) \in Int /\ Parsed(g.retry) \in Int
  BY <1>1 DEF Parsed
<1>3. Optional(g) \in OptionType
  BY <1>1 DEF Optional, OptionType
<1>4. QED
  BY <1>1, <1>2, <1>3 DEF evaluateOptions, Timeout, OptionType

\* The invariant holds to begin with.
LEMMA DeadlineInvInit == Init => DeadlineInv
<1> SUFFICES ASSUME Init PROVE DeadlineInv
  OBVIOUS
<1>1. NoOptions \in OptionType
  BY DEF NoOptions, OptionType
<1>2. conn \in [Caller -> ConnType] /\ \A c \in Caller : conn[c].given = {}
  BY <1>1 DEF Init, ClientInit, ConnType
<1>3. DOMAIN call = Caller /\ \A c \in Caller : call[c] = NoCall
  BY DEF Init, ClientInit
<1>4. /\ NoCall.stage = "idle" /\ NoCall.kind \in Kind /\ NoCall.at = 0
      /\ NoCall.left = NoDeadline /\ NoCall.elapsed = 0
  BY DEF NoCall, Kind
<1>5. ASSUME NEW o \in OptionType PROVE CallKept(NoCall, o)
  <2>1. MetricsEnd(o) \in Nat
    BY TimedLinks
  <2>2. TimeKept(NoCall, o)
    BY <1>4, <2>1 DEF TimeKept
  <2>3. QED
    BY <1>4, <2>2 DEF CallKept, CallFields, NoDeadline
<1>6. QED
  BY <1>2, <1>3, <1>4, <1>5 DEF DeadlineInv, ConnKept, ConnType

-------------------------------------------------------------------------------
\* What a step down the chain does to a call.
LEMMA DownFields ==
  ASSUME NEW r, DOMAIN r = CallFields
  PROVE  /\ DOMAIN Down(r) = CallFields
         /\ Down(r).stage = "down" /\ Down(r).at = r.at + 1 /\ Down(r).kind = r.kind
         /\ Down(r).left = r.left /\ Down(r).elapsed = r.elapsed
BY DEF Down, CallFields, NoCall

\* The same of a step up.
LEMMA UpFields ==
  ASSUME NEW r, NEW code, DOMAIN r = CallFields
  PROVE  /\ DOMAIN Up(r, code) = CallFields
         /\ Up(r, code).stage = "up" /\ Up(r, code).at = r.at - 1
         /\ Up(r, code).kind = r.kind /\ Up(r, code).left = r.left
         /\ Up(r, code).elapsed = r.elapsed
BY DEF Up, CallFields, NoCall

\* A step of one call preserves the invariant if the call it makes is kept.
LEMMA BecomesKept ==
  ASSUME DeadlineInv, NEW c \in Caller, NEW q, Becomes(c, q),
         CallKept(q, conn[c].opt), conn[c].state \notin {"none", "refused"}
  PROVE  DeadlineInv'
<1>1. DOMAIN call' = Caller /\ call'[c] = q /\ \A d \in Caller \ {c} : call'[d] = call[d]
  BY DEF Becomes, DeadlineInv
<1>2. conn' = conn
  BY DEF Becomes
<1>3. ASSUME NEW d \in Caller
      PROVE  CallKept(call'[d], conn'[d].opt) /\ ConnKept(conn'[d], call'[d])
  <2>1. CASE d = c
    <3>1. CallKept(call'[d], conn'[d].opt)
      BY <1>1, <1>2, <2>1
    <3>2. ConnKept(conn[d], call'[d])
      BY <2>1 DEF DeadlineInv, ConnKept
    <3>3. QED
      BY <1>2, <3>1, <3>2
  <2>2. CASE d # c
    <3>1. call'[d] = call[d]
      BY <1>1, <2>2
    <3>2. QED
      BY <1>2, <3>1 DEF DeadlineInv
  <2>3. QED
    BY <2>1, <2>2
<1>4. conn' \in [Caller -> ConnType]
  BY <1>2 DEF DeadlineInv
<1>5. QED
  BY <1>1, <1>3, <1>4 DEF DeadlineInv

\* What the invariant says of a call that has begun.
LEMMA Begun ==
  ASSUME DeadlineInv, NEW c \in Caller, call[c].stage # "idle"
  PROVE  /\ conn[c].state \notin {"none", "refused"} /\ conn[c].opt \in OptionType
         /\ CallKept(call[c], conn[c].opt)
BY DEF DeadlineInv, ConnKept, ConnType

\* A call whose time is limited.
Timed(r, o) == r.kind = "unary" /\ o.timeout > 0 /\ ~o.pool

\* A step past a link other than the timeout's keeps the time.
LEMMA DownKept ==
  ASSUME NEW o \in OptionType, NEW r, CallKept(r, o), r.stage \in {"down", "backoff"},
         Timed(r, o) => r.at # TimeoutEnd(o) /\ r.at < MetricsEnd(o) + 2
  PROVE  CallKept(Down(r), o)
<1> DEFINE q == Down(r)
<1>1. /\ DOMAIN q = CallFields /\ q.stage = "down" /\ q.at = r.at + 1
      /\ q.kind = r.kind /\ q.left = r.left /\ q.elapsed = r.elapsed
  BY DownFields DEF CallKept
<1> HIDE DEF q
<1>2. ASSUME q.kind = "unary", o.timeout > 0, ~o.pool PROVE TimeKept(q, o)
  <2>1. TimeKept(r, o) /\ r.at # TimeoutEnd(o) /\ r.at < MetricsEnd(o) + 2
    BY <1>1, <1>2 DEF CallKept, Timed
  <2>2. r.at \in Int /\ TimeoutEnd(o) \in Nat /\ MetricsEnd(o) \in Nat
    BY TimedLinks DEF CallKept
  <2>3. QED
    BY <1>1, <2>1, <2>2 DEF TimeKept, Running
<1>3. QED
  BY <1>1, <1>2 DEF CallKept, q

\* And so does a step up from a link other than the timeout's.
LEMMA UpKept ==
  ASSUME NEW o \in OptionType, NEW r, NEW code, CallKept(r, o),
         r.stage \in {"down", "sent", "up", "backoff"},
         Timed(r, o) => /\ 1 <= r.at /\ r.at # TimeoutEnd(o)
                        /\ r.stage = "down" => r.at > TimeoutEnd(o)
  PROVE  CallKept(Up(r, code), o)
<1> DEFINE q == Up(r, code)
<1>1. /\ DOMAIN q = CallFields /\ q.stage = "up" /\ q.at = r.at - 1
      /\ q.kind = r.kind /\ q.left = r.left /\ q.elapsed = r.elapsed
  BY UpFields DEF CallKept
<1> HIDE DEF q
<1>2. ASSUME q.kind = "unary", o.timeout > 0, ~o.pool PROVE TimeKept(q, o)
  <2>1. /\ TimeKept(r, o) /\ 1 <= r.at /\ r.at # TimeoutEnd(o)
        /\ r.stage = "down" => r.at > TimeoutEnd(o)
    BY <1>1, <1>2 DEF CallKept, Timed
  <2>2. r.at \in Int /\ TimeoutEnd(o) \in Nat /\ MetricsEnd(o) \in Nat
    BY TimedLinks DEF CallKept
  <2>3. QED
    BY <1>1, <2>1, <2>2 DEF TimeKept, Running
<1>3. QED
  BY <1>1, <1>2 DEF CallKept, q

\* Where a call with a timeout is when it is at a link.
LEMMA AtTimed ==
  ASSUME DeadlineInv, NEW c \in Caller, NEW stage, NEW link, At(c, stage, link),
         call[c].stage # "idle", Timed(call[c], conn[c].opt)
  PROVE  LET r == call[c]
             T == TimeoutEnd(conn[c].opt)
             N == MetricsEnd(conn[c].opt) + 2
         IN  /\ r.at \in 1 .. N /\ T \in Nat /\ N \in Nat /\ T < N
             /\ link = "timeout" <=> r.at = T
             /\ link \in {"user", "logger"} => r.at < T
             /\ link \in {"retry", "metrics"} => r.at > T /\ r.at < N - 1
             /\ link = "tracer" => r.at = N - 1
             /\ link = "wire" => r.at = N
             /\ T >= 1
<1> DEFINE r == call[c]
           o == conn[c].opt
<1>1. o \in OptionType /\ CallKept(r, o)
  BY Begun
<1>2. TimeKept(r, o) /\ r.at \in Int
  BY <1>1 DEF CallKept, Timed
<1>3. r.at > 0 /\ UnaryChain(o)[r.at] = link /\ o.timeout > 0
  BY DEF At, ChainOf, Chain, Timed
<1> HIDE DEF r, o
<1>4. /\ TimeoutEnd(o) \in Nat /\ MetricsEnd(o) \in Nat
      /\ TimeoutEnd(o) <= MetricsEnd(o) /\ TimeoutEnd(o) >= 1
      /\ \A i \in 1 .. MetricsEnd(o) + 2 :
           /\ UnaryChain(o)[i] = "timeout" <=> i = TimeoutEnd(o)
           /\ UnaryChain(o)[i] \in {"user", "logger"} => i < TimeoutEnd(o)
           /\ UnaryChain(o)[i] \in {"retry", "metrics"} =>
                i > TimeoutEnd(o) /\ i <= MetricsEnd(o)
           /\ UnaryChain(o)[i] = "tracer" => i = MetricsEnd(o) + 1
           /\ UnaryChain(o)[i] = "wire" => i = MetricsEnd(o) + 2
  BY <1>1, <1>3, TimedLinks
<1>5. r.at \in 1 .. MetricsEnd(o) + 2
  BY <1>2, <1>3, <1>4 DEF TimeKept
<1>6. QED
  BY <1>3, <1>4, <1>5 DEF r, o

-------------------------------------------------------------------------------
\* The timer starts: nothing was taken yet, and all of the timeout is left.
LEMMA StartTimerKept ==
  ASSUME DeadlineInv, NEW c \in Caller, StartTimer(c)
  PROVE  DeadlineInv'
<1> DEFINE r == call[c]
           o == conn[c].opt
           s == [r EXCEPT !.left = Sooner(@, o.timeout)]
           q == Down(s)
<1>1. At(c, "down", "timeout") /\ r.stage = "down" /\ Becomes(c, q)
  BY DEF StartTimer, At
<1>2. conn[c].state \notin {"none", "refused"} /\ o \in OptionType /\ CallKept(r, o)
  BY <1>1, Begun
<1>3. DOMAIN r = CallFields /\ r.at \in Int /\ r.left \in Int /\ r.elapsed \in Int
      /\ r.kind \in Kind /\ o.timeout \in Int
  BY <1>2 DEF CallKept, OptionType
<1>4. /\ DOMAIN s = CallFields /\ s.at = r.at /\ s.kind = r.kind
      /\ s.left = Sooner(r.left, o.timeout) /\ s.elapsed = r.elapsed
  BY <1>3 DEF CallFields, NoCall
<1> HIDE DEF s
<1>5. /\ DOMAIN q = CallFields /\ q.stage = "down" /\ q.at = r.at + 1 /\ q.kind = r.kind
      /\ q.left = Sooner(r.left, o.timeout) /\ q.elapsed = r.elapsed
  BY <1>4, DownFields
<1> HIDE DEF q
<1>6. q.left \in Int
  BY <1>3, <1>5 DEF Sooner
<1>7. ASSUME Timed(q, o) PROVE TimeKept(q, o)
  <2>1. Timed(r, o) /\ o.timeout > 0
    BY <1>5, <1>7 DEF Timed
  <2>2. /\ r.at = TimeoutEnd(o) /\ TimeoutEnd(o) \in Nat
        /\ MetricsEnd(o) + 2 \in Nat /\ TimeoutEnd(o) < MetricsEnd(o) + 2
    BY <1>1, <2>1, AtTimed
  <2>3. r.elapsed = 0 /\ r.left = NoDeadline
    BY <1>1, <1>2, <2>1, <2>2 DEF CallKept, TimeKept, Timed
  <2>4. q.left = o.timeout /\ q.elapsed = 0
    BY <1>5, <2>3 DEF Sooner
  <2>5. QED
    BY <1>3, <1>5, <2>1, <2>2, <2>4 DEF TimeKept, Running
<1>8. CallKept(q, o)
  BY <1>3, <1>5, <1>6, <1>7 DEF CallKept, Timed
<1>9. QED
  BY <1>1, <1>2, <1>8, BecomesKept DEF q

\* The timer stops: what was taken until then is within the timeout.
LEMMA StopTimerKept ==
  ASSUME DeadlineInv, NEW c \in Caller, StopTimer(c)
  PROVE  DeadlineInv'
<1> DEFINE r == call[c]
           o == conn[c].opt
           s == [r EXCEPT !.left = NoDeadline]
           q == Up(s, r.code)
<1>1. At(c, "up", "timeout") /\ r.stage = "up" /\ Becomes(c, q)
  BY DEF StopTimer, At
<1>2. conn[c].state \notin {"none", "refused"} /\ o \in OptionType /\ CallKept(r, o)
  BY <1>1, Begun
<1>3. DOMAIN r = CallFields /\ r.at \in Int /\ r.left \in Int /\ r.elapsed \in Int
      /\ r.kind \in Kind /\ o.timeout \in Int
  BY <1>2 DEF CallKept, OptionType
<1>4. /\ DOMAIN s = CallFields /\ s.at = r.at /\ s.kind = r.kind
      /\ s.left = NoDeadline /\ s.elapsed = r.elapsed
  BY <1>3 DEF CallFields, NoCall
<1> HIDE DEF s
<1>5. /\ DOMAIN q = CallFields /\ q.stage = "up" /\ q.at = r.at - 1 /\ q.kind = r.kind
      /\ q.left = NoDeadline /\ q.elapsed = r.elapsed
  BY <1>4, UpFields
<1> HIDE DEF q
<1>6. ASSUME Timed(q, o) PROVE TimeKept(q, o)
  <2>1. Timed(r, o)
    BY <1>5, <1>6 DEF Timed
  <2>2. /\ r.at = TimeoutEnd(o) /\ TimeoutEnd(o) \in Nat /\ TimeoutEnd(o) >= 1
        /\ MetricsEnd(o) + 2 \in Nat /\ TimeoutEnd(o) < MetricsEnd(o) + 2
    BY <1>1, <2>1, AtTimed
  <2>3. Running(r, o)
    BY <1>1, <1>2, <2>1, <2>2 DEF CallKept, TimeKept, Timed
  <2>4. r.elapsed <= o.timeout
    BY <1>3, <2>3 DEF Running
  <2>5. QED
    BY <1>3, <1>5, <2>2, <2>4 DEF TimeKept
<1>7. CallKept(q, o)
  BY <1>3, <1>5, <1>6 DEF CallKept, Timed, NoDeadline
<1>8. QED
  BY <1>1, <1>2, <1>7, BecomesKept DEF q

\* Fields the invariant does not speak of may change.
LEMMA OthersKept ==
  ASSUME NEW o, NEW r, NEW q, CallKept(r, o), DOMAIN q = CallFields,
         q.stage = r.stage, q.kind = r.kind, q.at = r.at, q.left = r.left,
         q.elapsed = r.elapsed
  PROVE  CallKept(q, o)
BY DEF CallKept, TimeKept, Running

\* Every step up that is not the timeout's.
LEMMA UpStepKept ==
  ASSUME DeadlineInv, NEW c \in Caller, NEW q, NEW code, Becomes(c, Up(q, code)),
         call[c].stage \in {"down", "sent", "up", "backoff"},
         DOMAIN q = CallFields, q.stage = call[c].stage, q.kind = call[c].kind,
         q.at = call[c].at, q.left = call[c].left, q.elapsed = call[c].elapsed,
         Timed(call[c], conn[c].opt) =>
           /\ 1 <= call[c].at /\ call[c].at # TimeoutEnd(conn[c].opt)
           /\ call[c].stage = "down" => call[c].at > TimeoutEnd(conn[c].opt)
  PROVE  DeadlineInv'
<1> DEFINE r == call[c]
           o == conn[c].opt
<1>1. conn[c].state \notin {"none", "refused"} /\ o \in OptionType /\ CallKept(r, o)
  BY Begun
<1>2. CallKept(q, o)
  BY <1>1, OthersKept
<1>3. Timed(q, o) => /\ 1 <= q.at /\ q.at # TimeoutEnd(o)
                     /\ q.stage = "down" => q.at > TimeoutEnd(o)
  BY DEF Timed
<1>4. CallKept(Up(q, code), o)
  BY <1>1, <1>2, <1>3, UpKept
<1>5. QED
  BY <1>1, <1>4, BecomesKept

\* Every step down that is not the timeout's.
LEMMA DownStepKept ==
  ASSUME DeadlineInv, NEW c \in Caller, Becomes(c, Down(call[c])),
         call[c].stage \in {"down", "backoff"},
         Timed(call[c], conn[c].opt) => /\ call[c].at # TimeoutEnd(conn[c].opt)
                                        /\ call[c].at < MetricsEnd(conn[c].opt) + 2
  PROVE  DeadlineInv'
<1> DEFINE r == call[c]
           o == conn[c].opt
<1>1. conn[c].state \notin {"none", "refused"} /\ o \in OptionType /\ CallKept(r, o)
  BY Begun
<1>2. CallKept(Down(r), o)
  BY <1>1, DownKept
<1>3. QED
  BY <1>1, <1>2, BecomesKept

-------------------------------------------------------------------------------
\* A goroutine's step of a call preserves the invariant.
LEMMA CallerStepKept ==
  ASSUME DeadlineInv, NEW c \in Caller, CallerStep(c)
  PROVE  DeadlineInv'
<1> DEFINE r == call[c]
           o == conn[c].opt
<1>0. /\ r.stage # "idle" => DOMAIN r = CallFields
      /\ r.stage # "idle" /\ Timed(r, o) => TimeKept(r, o)
      /\ r.stage # "idle" => r.at \in Int /\ TimeoutEnd(o) \in Nat /\ MetricsEnd(o) \in Nat
                             /\ TimeoutEnd(o) <= MetricsEnd(o)
  BY Begun, TimedLinks DEF CallKept, Timed
<1>1. CASE WalkDown(c)
  <2>1. PICK link \in {"user", "logger", "metrics"} : At(c, "down", link)
    BY <1>1 DEF WalkDown
  <2>2. r.stage = "down" /\ Becomes(c, Down(r))
    BY <1>1, <2>1 DEF WalkDown, At
  <2>3. Timed(r, o) => r.at # TimeoutEnd(o) /\ r.at < MetricsEnd(o) + 2
    BY <1>0, <2>1, <2>2, AtTimed
  <2>4. QED
    BY <2>2, <2>3, DownStepKept
<1>2. CASE StartTimer(c)
  BY <1>2, StartTimerKept
<1>3. CASE EnterRetry(c)
  <2>1. At(c, "down", "retry") /\ r.stage = "down"
    BY <1>3 DEF EnterRetry, At
  <2>2. Timed(r, o) => /\ r.at > TimeoutEnd(o) /\ r.at < MetricsEnd(o) + 2 /\ 1 <= r.at
                       /\ r.at # TimeoutEnd(o)
    BY <1>0, <2>1, AtTimed
  <2>3. CASE Becomes(c, Down(r))
    BY <2>1, <2>2, <2>3, DownStepKept
  <2>4. CASE Becomes(c, Up(r, Unimplemented))
    BY <1>0, <2>1, <2>2, <2>4, UpStepKept
  <2>5. QED
    BY <1>3, <2>3, <2>4 DEF EnterRetry
<1>4. CASE Trace(c)
  <2>1. At(c, "down", "tracer") /\ r.stage = "down"
    BY <1>4 DEF Trace, At
  <2>2. Timed(r, o) => /\ r.at > TimeoutEnd(o) /\ r.at < MetricsEnd(o) + 2 /\ 1 <= r.at
                       /\ r.at # TimeoutEnd(o)
    BY <1>0, <2>1, AtTimed
  <2>3. CASE Becomes(c, Down(r))
    BY <2>1, <2>2, <2>3, DownStepKept
  <2>4. CASE Becomes(c, Up(r, Unknown))
    BY <1>0, <2>1, <2>2, <2>4, UpStepKept
  <2>5. QED
    BY <1>4, <2>3, <2>4 DEF Trace
<1>5. CASE Send(c)
  <2>1. At(c, "down", "wire") /\ r.stage = "down"
    BY <1>5 DEF Send, At
  <2>2. Timed(r, o) => /\ r.at > TimeoutEnd(o) /\ 1 <= r.at /\ r.at # TimeoutEnd(o)
    BY <1>0, <2>1, AtTimed
  <2>3. ASSUME NEW q, q = [r EXCEPT !.stage = "sent", !.tries = @ + 1], Becomes(c, q)
        PROVE  DeadlineInv'
    <3>1. /\ DOMAIN q = CallFields /\ q.stage = "sent" /\ q.kind = r.kind /\ q.at = r.at
          /\ q.left = r.left /\ q.elapsed = r.elapsed
      BY <1>0, <2>1, <2>3 DEF CallFields, NoCall
    <3>2. /\ CallKept(r, o) /\ conn[c].state \notin {"none", "refused"}
      BY <2>1, Begun
    <3>3. Timed(r, o) => TimeKept(q, o)
      BY <1>0, <2>1, <2>2, <3>1 DEF TimeKept, Running
    <3>4. CallKept(q, o)
      BY <3>1, <3>2, <3>3 DEF CallKept, Timed
    <3>5. QED
      BY <2>3, <3>2, <3>4, BecomesKept
  <2>4. ASSUME NEW code, Becomes(c, Up(r, code)) PROVE DeadlineInv'
    BY <1>0, <2>1, <2>2, <2>4, UpStepKept
  <2>5. QED
    BY <1>5, <2>3, <2>4 DEF Send
<1>6. CASE AttemptExpires(c)
  <2>1. r.stage = "sent" /\ Becomes(c, Up(r, ContextCode(r)))
    BY <1>6 DEF AttemptExpires
  <2>2. Timed(r, o) => 1 <= r.at /\ r.at # TimeoutEnd(o)
    BY <1>0, <2>1 DEF TimeKept
  <2>3. QED
    BY <1>0, <2>1, <2>2, UpStepKept
<1>7. CASE WalkUp(c)
  <2>1. PICK link \in {"user", "metrics"} : At(c, "up", link)
    BY <1>7 DEF WalkUp
  <2>2. r.stage = "up" /\ Becomes(c, Up(r, r.code))
    BY <1>7, <2>1 DEF WalkUp, At
  <2>3. Timed(r, o) => 1 <= r.at /\ r.at # TimeoutEnd(o)
    BY <1>0, <2>1, <2>2, AtTimed
  <2>4. QED
    BY <1>0, <2>2, <2>3, UpStepKept
<1>8. CASE TraceEnds(c)
  <2>1. At(c, "up", "tracer") /\ r.stage = "up" /\ Becomes(c, Up(r, Traced(r.code)))
    BY <1>8 DEF TraceEnds, At
  <2>2. Timed(r, o) => 1 <= r.at /\ r.at # TimeoutEnd(o)
    BY <1>0, <2>1, AtTimed
  <2>3. QED
    BY <1>0, <2>1, <2>2, UpStepKept
<1>9. CASE LogFinished(c)
  <2> DEFINE s == [r EXCEPT !.logged = @ + 1]
  <2>1. At(c, "up", "logger") /\ r.stage = "up" /\ Becomes(c, Up(s, r.code))
    BY <1>9 DEF LogFinished, At
  <2>2. Timed(r, o) => 1 <= r.at /\ r.at # TimeoutEnd(o)
    BY <1>0, <2>1, AtTimed
  <2>3. /\ DOMAIN s = CallFields /\ s.stage = r.stage /\ s.kind = r.kind /\ s.at = r.at
        /\ s.left = r.left /\ s.elapsed = r.elapsed
    BY <1>0, <2>1 DEF CallFields, NoCall
  <2> HIDE DEF s
  <2>4. QED
    BY <2>1, <2>2, <2>3, UpStepKept
<1>10. CASE StopTimer(c)
  BY <1>10, StopTimerKept
<1>11. CASE Retry(c)
  <2>1. At(c, "up", "retry") /\ r.stage = "up"
    BY <1>11 DEF Retry, At
  <2>2. Timed(r, o) => /\ r.at > TimeoutEnd(o) /\ 1 <= r.at /\ r.at # TimeoutEnd(o)
    BY <1>0, <2>1, AtTimed
  <2>3. ASSUME NEW q, q = [r EXCEPT !.stage = "backoff", !.wait = Backoff], Becomes(c, q)
        PROVE  DeadlineInv'
    <3>1. /\ DOMAIN q = CallFields /\ q.stage = "backoff" /\ q.kind = r.kind /\ q.at = r.at
          /\ q.left = r.left /\ q.elapsed = r.elapsed
      BY <1>0, <2>1, <2>3 DEF CallFields, NoCall
    <3>2. /\ CallKept(r, o) /\ conn[c].state \notin {"none", "refused"}
      BY <2>1, Begun
    <3>3. Timed(r, o) => TimeKept(q, o)
      BY <1>0, <2>1, <2>2, <3>1 DEF TimeKept, Running
    <3>4. CallKept(q, o)
      BY <3>1, <3>2, <3>3 DEF CallKept, Timed
    <3>5. QED
      BY <2>3, <3>2, <3>4, BecomesKept
  <2>4. CASE Becomes(c, Up(r, r.code))
    BY <1>0, <2>1, <2>2, <2>4, UpStepKept
  <2>5. QED
    BY <1>11, <2>3, <2>4 DEF Retry
<1>12. CASE BackoffEnds(c)
  <2>1. r.stage = "backoff"
    BY <1>12 DEF BackoffEnds
  <2>2. Timed(r, o) => /\ r.at < MetricsEnd(o) + 2 /\ 1 <= r.at /\ r.at # TimeoutEnd(o)
    BY <1>0, <2>1 DEF TimeKept
  <2>3. CASE Becomes(c, Down(r))
    BY <2>1, <2>2, <2>3, DownStepKept
  <2>4. ASSUME NEW q, q = [r EXCEPT !.wait = 0], Becomes(c, Up(q, ContextCode(r)))
        PROVE  DeadlineInv'
    <3>1. /\ DOMAIN q = CallFields /\ q.stage = r.stage /\ q.kind = r.kind /\ q.at = r.at
          /\ q.left = r.left /\ q.elapsed = r.elapsed
      BY <1>0, <2>1, <2>4 DEF CallFields, NoCall
    <3>2. QED
      BY <2>1, <2>2, <2>4, <3>1, UpStepKept
  <2>5. QED
    BY <1>12, <2>3, <2>4 DEF BackoffEnds
<1>13. CASE Return(c)
  <2> DEFINE q == [r EXCEPT !.stage = "done"]
  <2>1. r.stage = "up" /\ r.at = 0 /\ Becomes(c, q)
    BY <1>13 DEF Return
  <2>2. /\ DOMAIN q = CallFields /\ q.stage = "done" /\ q.kind = r.kind /\ q.at = r.at
        /\ q.left = r.left /\ q.elapsed = r.elapsed
    BY <1>0, <2>1 DEF CallFields, NoCall
  <2>3. CallKept(r, o) /\ o \in OptionType /\ conn[c].state \notin {"none", "refused"}
    BY <2>1, Begun
  <2> HIDE DEF q
  <2>4. Timed(r, o) => TimeKept(q, o)
    <3>1. o.timeout > 0 => TimeoutEnd(o) >= 1
      BY <2>3, TimedLinks
    <3>2. QED
      BY <1>0, <2>1, <2>2, <3>1 DEF TimeKept, Timed
  <2>5. CallKept(q, o)
    BY <2>2, <2>3, <2>4 DEF CallKept, Timed
  <2>6. QED
    BY <2>1, <2>3, <2>5, BecomesKept
<1>14. QED
  BY <1>1, <1>2, <1>3, <1>4, <1>5, <1>6, <1>7, <1>8, <1>9, <1>10, <1>11, <1>12, <1>13
  DEF CallerStep

-------------------------------------------------------------------------------
\* A new client gets options of their type, and has no call yet.
LEMMA NewClientKept ==
  ASSUME DeadlineInv, NEW c \in Caller, NEW g \in Given, NewClient(c, g)
  PROVE  DeadlineInv'
<1> DEFINE o == evaluateOptions(g)
<1>1. o \in OptionType
  BY OptionsAreTyped
<1> HIDE DEF o
<1>2. PICK state \in {"pooled", "refused", "open"} :
        conn' = [conn EXCEPT ![c] = [state |-> state, given |-> {g}, opt |-> o]]
  BY DEF NewClient, o
<1>3. conn[c].state = "none" /\ call' = call
  BY DEF NewClient
<1> DEFINE k == [state |-> state, given |-> {g}, opt |-> o]
<1>4. k \in ConnType
  BY <1>1 DEF ConnType
<1>5. /\ conn' \in [Caller -> ConnType] /\ conn'[c] = k
      /\ \A d \in Caller \ {c} : conn'[d] = conn[d]
  BY <1>2, <1>4 DEF DeadlineInv
<1>6. call[c].stage = "idle" /\ CallKept(call[c], conn[c].opt)
  BY <1>3 DEF DeadlineInv, ConnKept
<1>7. CallKept(call[c], k.opt)
  <2>1. MetricsEnd(o) \in Nat /\ k.opt = o
    BY <1>1, TimedLinks
  <2>2. TimeKept(call[c], o)
    BY <1>6, <2>1 DEF CallKept, TimeKept
  <2>3. QED
    BY <1>6, <2>1, <2>2 DEF CallKept
<1>8. ConnKept(k, call[c])
  BY <1>6 DEF ConnKept, o
<1>9. ASSUME NEW d \in Caller
      PROVE  CallKept(call'[d], conn'[d].opt) /\ ConnKept(conn'[d], call'[d])
  <2>1. CASE d = c
    BY <1>3, <1>5, <1>7, <1>8, <2>1
  <2>2. CASE d # c
    BY <1>3, <1>5, <2>2 DEF DeadlineInv
  <2>3. QED
    BY <2>1, <2>2
<1>10. QED
  BY <1>3, <1>5, <1>9 DEF DeadlineInv

\* Closing a connection changes nothing a call depends on.
LEMMA CloseConnsKept ==
  ASSUME DeadlineInv, CloseConns
  PROVE  DeadlineInv'
<1>1. call' = call
  BY DEF CloseConns
<1>2. ASSUME NEW d \in Caller
      PROVE  /\ conn'[d] \in ConnType
             /\ conn'[d].opt = conn[d].opt /\ conn'[d].given = conn[d].given
             /\ conn'[d].state \in {"none", "refused"} => conn[d].state = conn'[d].state
  <2>1. conn'[d] = IF conn[d].state = "open" THEN [conn[d] EXCEPT !.state = "closed"]
                   ELSE conn[d]
    BY DEF CloseConns
  <2>2. conn[d] \in ConnType
    BY DEF DeadlineInv
  <2>3. QED
    BY <2>1, <2>2 DEF ConnType
<1>3. conn' \in [Caller -> ConnType]
  BY <1>2 DEF CloseConns
<1>4. ASSUME NEW d \in Caller
      PROVE  CallKept(call'[d], conn'[d].opt) /\ ConnKept(conn'[d], call'[d])
  BY <1>1, <1>2 DEF DeadlineInv, ConnKept
<1>5. QED
  BY <1>1, <1>3, <1>4 DEF DeadlineInv

\* A call begins at the first link, with no time taken and no timer.
LEMMA CallKeeps ==
  ASSUME DeadlineInv, NEW c \in Caller, NEW kind \in Kind, NEW method, Call(c, kind, method)
  PROVE  DeadlineInv'
<1> DEFINE r == call[c]
           o == conn[c].opt
           s == [r EXCEPT !.kind = kind, !.method = method]
           q == Down(s)
<1>1. conn[c].state \in {"open", "pooled"} /\ r.stage = "idle" /\ Becomes(c, q)
  BY DEF Call
<1>2. o \in OptionType /\ CallKept(r, o)
  BY DEF DeadlineInv, ConnType
<1>3. /\ DOMAIN s = CallFields /\ s.kind = kind /\ s.at = 0 /\ s.left = NoDeadline
      /\ s.elapsed = 0
  BY <1>1, <1>2 DEF CallKept, CallFields, NoCall
<1> HIDE DEF s
<1>4. /\ DOMAIN q = CallFields /\ q.stage = "down" /\ q.kind = kind /\ q.at = 1
      /\ q.left = NoDeadline /\ q.elapsed = 0
  BY <1>3, DownFields
<1> HIDE DEF q
<1>5. o.timeout > 0 => TimeKept(q, o)
  <2>1. /\ TimeoutEnd(o) \in Nat /\ MetricsEnd(o) \in Nat
        /\ o.timeout > 0 => TimeoutEnd(o) >= 1
    BY <1>2, TimedLinks
  <2>2. QED
    BY <1>4, <2>1 DEF TimeKept
<1>6. CallKept(q, o)
  BY <1>4, <1>5 DEF CallKept, NoDeadline
<1>7. QED
  BY <1>1, <1>6, BecomesKept DEF q

\* A caller that gives up changes no timer.
LEMMA CancelKept ==
  ASSUME DeadlineInv, NEW c \in Caller, Cancel(c)
  PROVE  DeadlineInv'
<1> DEFINE r == call[c]
           o == conn[c].opt
           q == [r EXCEPT !.cancelled = TRUE]
<1>1. r.stage \in {"sent", "backoff"} /\ Becomes(c, q)
  BY DEF Cancel
<1>2. CallKept(r, o) /\ conn[c].state \notin {"none", "refused"}
  BY <1>1, Begun
<1>3. /\ DOMAIN q = CallFields /\ q.stage = r.stage /\ q.kind = r.kind /\ q.at = r.at
      /\ q.left = r.left /\ q.elapsed = r.elapsed
  BY <1>2 DEF CallKept, CallFields, NoCall
<1> HIDE DEF q
<1>4. CallKept(q, o)
  BY <1>2, <1>3, OthersKept
<1>5. QED
  BY <1>1, <1>2, <1>4, BecomesKept DEF q

\* An attempt ends above the timeout link, where the timer still runs.
LEMMA AttemptEndsKept ==
  ASSUME DeadlineInv, NEW c \in Caller, NEW code, AttemptEnds(c, code)
  PROVE  DeadlineInv'
<1> DEFINE r == call[c]
           o == conn[c].opt
<1>1. r.stage = "sent" /\ Becomes(c, Up(r, code))
  BY DEF AttemptEnds
<1>2. CallKept(r, o) /\ o \in OptionType
  BY <1>1, Begun
<1>3. DOMAIN r = CallFields /\ r.at \in Int /\ TimeoutEnd(o) \in Nat
  BY <1>2, TimedLinks DEF CallKept
<1>4. Timed(r, o) => 1 <= r.at /\ r.at # TimeoutEnd(o)
  BY <1>1, <1>2, <1>3 DEF CallKept, TimeKept, Timed
<1>5. QED
  BY <1>1, <1>3, <1>4, UpStepKept

\* Time passes only where a deadline has not come, and takes from what is left what
\* it adds to what was taken.
LEMMA TickKept ==
  ASSUME DeadlineInv, Tick
  PROVE  DeadlineInv'
<1>1. conn' = conn /\ DOMAIN call' = Caller
  BY DEF Tick
<1>2. ASSUME NEW c \in Caller
      PROVE  CallKept(call'[c], conn[c].opt) /\ ConnKept(conn[c], call'[c])
  <2> DEFINE r == call[c]
             o == conn[c].opt
             q == call'[c]
  <2>1. CallKept(r, o) /\ o \in OptionType /\ ConnKept(conn[c], r)
    BY DEF DeadlineInv, ConnType
  <2>2. CASE ~Waiting(r)
    <3>1. q = r
      BY <2>2 DEF Tick
    <3>2. QED
      BY <2>1, <3>1
  <2>3. CASE Waiting(r)
    <3>1. r.stage \in {"sent", "backoff"} /\ r.left # 0
      BY <2>3 DEF Waiting, Tick, Due, ContextDone
    <3>2. q = [r EXCEPT !.left = RunDown(@), !.wait = RunDown(@),
                        !.elapsed = IF @ < MaxElapsed THEN @ + 1 ELSE @]
      BY <2>3 DEF Tick
    <3>3. DOMAIN r = CallFields /\ r.left \in Int /\ r.elapsed \in Int
      BY <2>1 DEF CallKept
    <3>4. /\ DOMAIN q = CallFields /\ q.stage = r.stage /\ q.kind = r.kind /\ q.at = r.at
          /\ q.left = RunDown(r.left)
          /\ q.elapsed = IF r.elapsed < MaxElapsed THEN r.elapsed + 1 ELSE r.elapsed
      BY <3>2, <3>3 DEF CallFields, NoCall
    <3> HIDE DEF q
    <3>5. /\ q.left \in Int /\ q.elapsed \in Int
          /\ r.left > 0 => q.left = r.left - 1
          /\ q.elapsed <= r.elapsed + 1
      BY <3>3, <3>4, ClientAssumption DEF RunDown
    <3>6. Running(r, o) => Running(q, o)
      BY <2>1, <3>1, <3>3, <3>5 DEF Running, OptionType
    <3>7. CallKept(q, o)
      BY <2>1, <3>1, <3>4, <3>5, <3>6 DEF CallKept, TimeKept
    <3>8. ConnKept(conn[c], q)
      BY <2>1, <3>1, <3>4 DEF ConnKept
    <3>9. QED
      BY <3>7, <3>8 DEF q
  <2>4. QED
    BY <2>2, <2>3
<1>3. conn' \in [Caller -> ConnType]
  BY <1>1 DEF DeadlineInv
<1>4. QED
  BY <1>1, <1>2, <1>3 DEF DeadlineInv

\* What neither a client nor time does leaves every client and call alone.
LEMMA OthersLeaveAlone ==
  ASSUME DeadlineInv, UNCHANGED <<conn, call>>
  PROVE  DeadlineInv'
BY DEF DeadlineInv

-------------------------------------------------------------------------------
\* The invariant is inductive.
LEMMA DeadlineInvStep == DeadlineInv /\ [Next]_vars => DeadlineInv'
<1> SUFFICES ASSUME DeadlineInv, [Next]_vars PROVE DeadlineInv'
  OBVIOUS
<1>1. ASSUME NEW c \in Caller, ClientBegins(c) PROVE DeadlineInv'
  BY <1>1, NewClientKept, CallKeeps, CancelKept DEF ClientBegins
<1>2. ASSUME NEW c \in Caller, ClientStep(c) PROVE DeadlineInv'
  BY <1>2, CallerStepKept DEF ClientStep
<1>3. ASSUME NEW c \in Caller, Break(c) PROVE DeadlineInv'
  BY <1>3, AttemptEndsKept DEF Break
<1>4. ASSUME NEW c \in Caller, Answer(c) PROVE DeadlineInv'
  BY <1>4, AttemptEndsKept DEF Answer
<1>5. CASE Exit
  BY <1>5, CloseConnsKept DEF Exit
<1>6. CASE TimePasses
  BY <1>6, TickKept DEF TimePasses
<1>7. ASSUME NEW x \in Execution,
             \/ Arrive(x) \/ Sends(x) \/ StreamReturns(x) \/ ServerStep(x)
             \/ \E d \in Direction : StreamCallback(x, d)
      PROVE  DeadlineInv'
  <2>1. UNCHANGED <<conn, call>>
    BY <1>7 DEF Arrive, Sends, StreamReturns, ServerStep, StreamCallback, Receives, Received,
                Sent, Closes, StreamCallbackEnds, ServerOnly
  <2>2. QED
    BY <2>1, OthersLeaveAlone
<1>8. CASE UNCHANGED vars
  BY <1>8, OthersLeaveAlone DEF vars
<1>9. QED
  BY <1>1, <1>2, <1>3, <1>4, <1>5, <1>6, <1>7, <1>8 DEF Next

\* At any time of a call the timer tells how long it has taken.
LEMMA DeadlineInvImplies == DeadlineInv => DeadlineHolds
<1> SUFFICES ASSUME DeadlineInv, NEW c \in Caller, NEW n \in PromisedTimeouts(c)
             PROVE  call[c].elapsed <= n
  BY DEF DeadlineHolds
<1> DEFINE r == call[c]
           o == conn[c].opt
<1>1. PICK g \in conn[c].given : ~g.pool /\ n \in g.timeout
  BY DEF PromisedTimeouts
<1>2. n > 0 /\ r.kind = "unary"
  BY DEF PromisedTimeouts
<1>3. /\ conn[c].given = {g} /\ g \in Given /\ o = evaluateOptions(g) /\ o \in OptionType
      /\ CallKept(r, o)
  BY <1>1 DEF DeadlineInv, ConnKept, ConnType
<1>4. n \in Int /\ g.timeout = {n} /\ g.pool \in BOOLEAN
  BY <1>1, <1>3, ClientAssumption
<1>5. Parsed(g.timeout) = n
  BY <1>4 DEF Parsed
<1>6. o.timeout = n
  BY <1>3, <1>5 DEF evaluateOptions, Optional, Timeout
<1>7. o.pool = g.pool
  BY <1>3 DEF evaluateOptions, Optional, Timeout
<1>8. /\ TimeKept(r, o) /\ TimeoutEnd(o) \in Nat
      /\ r.elapsed \in Int /\ r.left \in Int /\ r.at \in Int
  BY <1>1, <1>2, <1>3, <1>6, <1>7, TimedLinks DEF CallKept
<1>9. Running(r, o) => r.elapsed <= n
  BY <1>4, <1>6, <1>8 DEF Running
<1>10. QED
  BY <1>2, <1>3, <1>4, <1>6, <1>8, <1>9 DEF TimeKept, CallKept

\* The timeout of the query covers a unary call with all its attempts and the waiting
\* between them, whatever the other options, the servers and the network do.
THEOREM TimeoutCoversRetries == Spec => []DeadlineHolds
<1>1. Init => DeadlineInv
  BY DeadlineInvInit
<1>2. DeadlineInv /\ [Next]_vars => DeadlineInv'
  BY DeadlineInvStep
<1>3. DeadlineInv => DeadlineHolds
  BY DeadlineInvImplies
<1>4. QED
  BY <1>1, <1>2, <1>3, PTL DEF Spec
\* Where the links of a chain stand that sends a unary call, seen from the logger's.
LEMMA LoggedLinks ==
  ASSUME NEW o \in OptionType
  PROVE  LET s == UnaryChain(o)
             L == LoggerEnd(o)
         IN  /\ Len(s) \in Nat /\ Len(s) >= 1 /\ L \in Nat
             /\ o.logger => L >= 1
             /\ \A i \in 1 .. Len(s) :
                  /\ s[i] = "wire" <=> i = Len(s)
                  /\ s[i] = "logger" => o.logger /\ i = L
                  /\ o.logger /\ s[i] = "user" => i < L
                  /\ o.logger /\ s[i] \notin {"user", "logger"} => i > L
                  /\ s[i] = "timeout" => o.timeout > 0
                  /\ s[i] = "retry" => o.retryTimes > 0
<1>0. /\ o.user \in BOOLEAN /\ o.logger \in BOOLEAN /\ (o.timeout > 0) \in BOOLEAN
      /\ (o.retryTimes > 0) \in BOOLEAN /\ o.metrics \in BOOLEAN
  BY DEF OptionType
<1>1. /\ UserEnd(o) \in Nat /\ LoggerEnd(o) \in Nat /\ TimeoutEnd(o) \in Nat
      /\ RetryEnd(o) \in Nat /\ MetricsEnd(o) \in Nat
      /\ UserEnd(o) <= LoggerEnd(o) /\ LoggerEnd(o) <= TimeoutEnd(o)
      /\ TimeoutEnd(o) <= RetryEnd(o) /\ RetryEnd(o) <= MetricsEnd(o)
  BY <1>0 DEF UserEnd, LoggerEnd, TimeoutEnd, RetryEnd, MetricsEnd, One
<1>2. /\ o.logger => LoggerEnd(o) = UserEnd(o) + 1
      /\ ~o.logger => LoggerEnd(o) = UserEnd(o)
      /\ ~(o.timeout > 0) => TimeoutEnd(o) = LoggerEnd(o)
      /\ ~(o.retryTimes > 0) => RetryEnd(o) = TimeoutEnd(o)
  BY <1>1 DEF LoggerEnd, TimeoutEnd, RetryEnd, One
<1> DEFINE s == UnaryChain(o)
<1>3. /\ Len(s) = MetricsEnd(o) + 2
      /\ \A i \in 1 .. MetricsEnd(o) + 2 :
           /\ i <= UserEnd(o) => s[i] = "user"
           /\ UserEnd(o) < i /\ i <= LoggerEnd(o) => s[i] = "logger"
           /\ LoggerEnd(o) < i /\ i <= TimeoutEnd(o) => s[i] = "timeout"
           /\ TimeoutEnd(o) < i /\ i <= RetryEnd(o) => s[i] = "retry"
           /\ RetryEnd(o) < i /\ i <= MetricsEnd(o) => s[i] = "metrics"
           /\ i = MetricsEnd(o) + 1 => s[i] = "tracer"
           /\ i = MetricsEnd(o) + 2 => s[i] = "wire"
  BY UnaryLinks
<1> HIDE DEF s
<1>4. ASSUME NEW i \in 1 .. MetricsEnd(o) + 2
      PROVE  /\ s[i] = "wire" <=> i = MetricsEnd(o) + 2
             /\ s[i] = "logger" => o.logger /\ i = LoggerEnd(o)
             /\ o.logger /\ s[i] = "user" => i < LoggerEnd(o)
             /\ o.logger /\ s[i] \notin {"user", "logger"} => i > LoggerEnd(o)
             /\ s[i] = "timeout" => o.timeout > 0
             /\ s[i] = "retry" => o.retryTimes > 0
  <2>1. \/ i <= UserEnd(o)
        \/ UserEnd(o) < i /\ i <= LoggerEnd(o)
        \/ LoggerEnd(o) < i /\ i <= TimeoutEnd(o)
        \/ TimeoutEnd(o) < i /\ i <= RetryEnd(o)
        \/ RetryEnd(o) < i /\ i <= MetricsEnd(o)
        \/ i = MetricsEnd(o) + 1 \/ i = MetricsEnd(o) + 2
    BY <1>1
  <2>2. QED
    BY <1>0, <1>1, <1>2, <1>3, <2>1
<1>5. QED
  BY <1>0, <1>1, <1>2, <1>3, <1>4 DEF s

\* A stream has the chain of a unary call without a timeout.
LEMMA StreamLinks ==
  ASSUME NEW o \in OptionType
  PROVE  LET p == [o EXCEPT !.timeout = 0]
         IN  /\ StreamChain(o) = UnaryChain(p) /\ p \in OptionType
             /\ LoggerEnd(p) = LoggerEnd(o) /\ p.logger = o.logger /\ p.timeout = 0
             /\ p.retryTimes = o.retryTimes
<1> DEFINE p == [o EXCEPT !.timeout = 0]
<1>1. /\ p \in OptionType /\ p.user = o.user /\ p.logger = o.logger /\ p.metrics = o.metrics
      /\ p.retryTimes = o.retryTimes /\ p.timeout = 0
      /\ o.user \in BOOLEAN /\ o.logger \in BOOLEAN
  BY DEF OptionType
<1> HIDE DEF p
<1> DEFINE s == If(o.user, "user") \o If(o.logger, "logger")
<1>2. "user" \in LinkName /\ "logger" \in LinkName
  BY DEF LinkName
<1>3. If(o.user, "user") \in Seq(LinkName) /\ If(o.logger, "logger") \in Seq(LinkName)
  BY <1>1, <1>2, Single
<1>4. s \in Seq(LinkName)
  BY <1>3
<1> HIDE DEF s
<1>5. s \o <<>> = s
  BY <1>4
<1>6. If(p.timeout > 0, "timeout") = <<>>
  BY <1>1 DEF If
<1>7. StreamChain(o) = s \o If(o.retryTimes > 0, "retry") \o If(o.metrics, "metrics")
                       \o <<"tracer", "wire">>
  BY DEF StreamChain, s
<1>8. UnaryChain(p) = s \o <<>> \o If(o.retryTimes > 0, "retry") \o If(o.metrics, "metrics")
                      \o <<"tracer", "wire">>
  BY <1>1, <1>6 DEF UnaryChain, s
<1>9. LoggerEnd(p) = LoggerEnd(o)
  BY <1>1 DEF LoggerEnd, UserEnd
<1>10. QED
  BY <1>1, <1>5, <1>7, <1>8, <1>9 DEF p

\* Of any chain: it ends at the wire, and the logger is above all links but those of
\* the user.
LEMMA ChainLinks ==
  ASSUME NEW o \in OptionType, NEW kind \in Kind
  PROVE  LET s == Chain(o, kind)
             L == LoggerEnd(o)
         IN  /\ Len(s) \in Nat /\ Len(s) >= 1 /\ L \in Nat
             /\ o.logger => L >= 1
             /\ \A i \in 1 .. Len(s) :
                  /\ s[i] = "wire" <=> i = Len(s)
                  /\ s[i] = "logger" => o.logger /\ ~o.pool /\ i = L
                  /\ o.logger /\ ~o.pool /\ s[i] = "user" => i < L
                  /\ o.logger /\ ~o.pool /\ s[i] \notin {"user", "logger"} => i > L
                  /\ s[i] = "timeout" => o.timeout > 0
                  /\ s[i] = "retry" => o.retryTimes > 0 /\ ~o.pool
<1>0. LoggerEnd(o) \in Nat /\ (o.logger => LoggerEnd(o) >= 1)
  BY LoggedLinks
<1>1. CASE o.pool
  <2>1. Chain(o, kind) = <<"wire">>
    BY <1>1 DEF Chain
  <2>2. QED
    BY <1>0, <1>1, <2>1
<1>2. CASE ~o.pool /\ kind = "unary"
  <2>1. Chain(o, kind) = UnaryChain(o)
    BY <1>2 DEF Chain
  <2>2. QED
    BY <1>2, <2>1, LoggedLinks
<1>3. CASE ~o.pool /\ kind # "unary"
  <2> DEFINE p == [o EXCEPT !.timeout = 0]
  <2>1. Chain(o, kind) = StreamChain(o)
    BY <1>3 DEF Chain
  <2>2. /\ StreamChain(o) = UnaryChain(p) /\ p \in OptionType
        /\ LoggerEnd(p) = LoggerEnd(o) /\ p.logger = o.logger /\ p.timeout = 0
        /\ p.retryTimes = o.retryTimes
    BY StreamLinks
  <2> HIDE DEF p
  <2> DEFINE s == UnaryChain(p)
  <2>3. /\ Len(s) \in Nat /\ Len(s) >= 1 /\ LoggerEnd(p) \in Nat
        /\ p.logger => LoggerEnd(p) >= 1
        /\ \A i \in 1 .. Len(s) :
             /\ s[i] = "wire" <=> i = Len(s)
             /\ s[i] = "logger" => p.logger /\ i = LoggerEnd(p)
             /\ p.logger /\ s[i] = "user" => i < LoggerEnd(p)
             /\ p.logger /\ s[i] \notin {"user", "logger"} => i > LoggerEnd(p)
             /\ s[i] = "timeout" => p.timeout > 0
             /\ s[i] = "retry" => p.retryTimes > 0
    BY <2>2, LoggedLinks
  <2>4. Chain(o, kind) = s
    BY <2>1, <2>2
  <2> HIDE DEF s
  <2>5. QED
    BY <1>3, <2>2, <2>3, <2>4
<1>4. QED
  BY <1>1, <1>2, <1>3

-------------------------------------------------------------------------------
\* The attempts a call may make.
Allowed(o) == IF o.retryTimes > 1 /\ ~o.pool THEN o.retryTimes ELSE 1

\* The call has passed the logger on its way up.
Logged(r, o) ==
  o.logger /\ ~o.pool /\ (r.stage = "done" \/ (r.stage = "up" /\ r.at < LoggerEnd(o)))

\* A call stands at a link of its chain where its stage allows it to be, has an attempt
\* left unless it made one last, and is logged once it has passed the logger.
Standing(r, o) ==
  LET s == Chain(o, r.kind)
  IN  /\ r \in CallRecords /\ r.at <= Len(s)
      /\ r.stage = "idle" => r.at = 0 /\ r.tries = 0
      /\ r.stage \in {"down", "sent", "backoff"} => r.at >= 1
      /\ r.stage = "sent" => s[r.at] = "wire"
      /\ r.stage = "backoff" => s[r.at] = "retry"
      /\ r.tries <= Allowed(o)
      /\ r.stage \in {"idle", "down", "backoff"} => r.tries < Allowed(o)
      /\ r.logged = IF Logged(r, o) THEN 1 ELSE 0

\* What a record of a call is made of.
LEMMA CallParts ==
  ASSUME NEW r \in CallRecords
  PROVE  /\ DOMAIN r = CallFields
         /\ r.stage \in {"idle", "down", "sent", "up", "backoff", "done"} /\ r.kind \in Kind
         /\ r.method \in Method /\ r.at \in Nat /\ r.tries \in Nat /\ r.code \in Nat
         /\ r.left \in Nat \cup {NoDeadline} /\ r.wait \in 0 .. Backoff
         /\ r.cancelled \in BOOLEAN /\ r.logged \in Nat /\ r.elapsed \in 0 .. MaxElapsed
BY DEF CallRecords, CallFields, NoCall

\* A step down leaves a record of a call.
LEMMA DownTyped ==
  ASSUME NEW r \in CallRecords
  PROVE  /\ Down(r) \in CallRecords /\ Down(r).stage = "down" /\ Down(r).at = r.at + 1
         /\ Down(r).kind = r.kind /\ Down(r).tries = r.tries /\ Down(r).logged = r.logged
         /\ Down(r).code = r.code
<1>1. DOMAIN r = CallFields /\ r.at + 1 \in Nat
  BY CallParts
<1>2. Down(r) \in CallRecords
  BY <1>1 DEF Down, CallRecords
<1>3. QED
  BY <1>1, <1>2 DEF Down, CallFields, NoCall

\* And so does a step up.
LEMMA UpTyped ==
  ASSUME NEW r \in CallRecords, r.at >= 1, NEW code \in Nat
  PROVE  /\ Up(r, code) \in CallRecords /\ Up(r, code).stage = "up"
         /\ Up(r, code).at = r.at - 1 /\ Up(r, code).kind = r.kind
         /\ Up(r, code).tries = r.tries /\ Up(r, code).logged = r.logged
         /\ Up(r, code).code = code
<1>1. DOMAIN r = CallFields /\ r.at - 1 \in Nat
  BY CallParts
<1>2. Up(r, code) \in CallRecords
  BY <1>1 DEF Up, CallRecords
<1>3. QED
  BY <1>1, <1>2 DEF Up, CallFields, NoCall

\* A call keeps its standing on its way down to the next link.
LEMMA DownStands ==
  ASSUME NEW o \in OptionType, NEW r, Standing(r, o), r.stage \in {"down", "backoff"},
         Chain(o, r.kind)[r.at] # "wire"
  PROVE  Standing(Down(r), o)
<1> DEFINE q == Down(r)
           s == Chain(o, r.kind)
<1>1. r \in CallRecords /\ r.at \in Nat /\ r.kind \in Kind
  BY DEF Standing, CallRecords
<1>2. /\ q \in CallRecords /\ q.stage = "down" /\ q.at = r.at + 1 /\ q.kind = r.kind
      /\ q.tries = r.tries /\ q.logged = r.logged
  BY <1>1, DownTyped
<1> HIDE DEF q
<1>3. Len(s) \in Nat /\ \A i \in 1 .. Len(s) : s[i] = "wire" <=> i = Len(s)
  BY <1>1, ChainLinks
<1>4. r.at >= 1 /\ r.at <= Len(s) /\ s[r.at] # "wire"
  BY DEF Standing
<1> HIDE DEF s
<1>5. q.at <= Len(s)
  BY <1>1, <1>2, <1>3, <1>4
<1>6. /\ r.tries < Allowed(o) /\ r.logged = 0 /\ r.tries <= Allowed(o)
  BY DEF Standing, Logged
<1>7. ~Logged(q, o)
  BY <1>2 DEF Logged
<1>8. QED
  BY <1>1, <1>2, <1>5, <1>6, <1>7 DEF Standing, q, s

\* And on its way up to the one before, past any link but the logger, if it turned below
\* the logger.
LEMMA UpStands ==
  ASSUME NEW o \in OptionType, NEW r, NEW code \in Nat, Standing(r, o),
         r.stage \in {"down", "sent", "up", "backoff"}, r.at >= 1,
         r.stage = "up" => Chain(o, r.kind)[r.at] # "logger",
         r.stage = "down" => Chain(o, r.kind)[r.at] \notin {"user", "logger"}
  PROVE  Standing(Up(r, code), o)
<1> DEFINE q == Up(r, code)
           s == Chain(o, r.kind)
<1>1. /\ r \in CallRecords /\ r.at \in Nat /\ r.kind \in Kind /\ r.at <= Len(s)
      /\ r.tries <= Allowed(o) /\ r.logged = IF Logged(r, o) THEN 1 ELSE 0
      /\ r.stage = "sent" => s[r.at] = "wire"
      /\ r.stage = "backoff" => s[r.at] = "retry"
  BY DEF Standing, CallRecords
<1>2. /\ q \in CallRecords /\ q.stage = "up" /\ q.at = r.at - 1 /\ q.kind = r.kind
      /\ q.tries = r.tries /\ q.logged = r.logged
  BY <1>1, UpTyped
<1> HIDE DEF q
<1>3. /\ Len(s) \in Nat /\ LoggerEnd(o) \in Nat
      /\ \A i \in 1 .. Len(s) :
           /\ o.logger /\ ~o.pool /\ s[i] = "user" => i < LoggerEnd(o)
           /\ o.logger /\ ~o.pool /\ s[i] \notin {"user", "logger"} => i > LoggerEnd(o)
  BY <1>1, ChainLinks
<1>4. /\ r.stage = "up" => s[r.at] # "logger"
      /\ r.stage = "down" => s[r.at] \notin {"user", "logger"}
  OBVIOUS
<1>5. q.at <= Len(s)
  <2> HIDE DEF s
  <2>1. QED
    BY <1>1, <1>2, <1>3
<1> HIDE DEF s
<1>6. Logged(q, o) <=> Logged(r, o)
  BY <1>1, <1>2, <1>3, <1>4 DEF Logged
<1>7. QED
  BY <1>1, <1>2, <1>5, <1>6 DEF Standing, q, s

\* What passes the logger on its way up is logged there, and was not before.
LEMMA LoggerStands ==
  ASSUME NEW o \in OptionType, NEW r, NEW code \in Nat, Standing(r, o), r.stage = "up",
         r.at >= 1, Chain(o, r.kind)[r.at] = "logger"
  PROVE  Standing(Up([r EXCEPT !.logged = @ + 1], code), o)
<1> DEFINE q == Up([r EXCEPT !.logged = @ + 1], code)
           s == Chain(o, r.kind)
<1>1. /\ r \in CallRecords /\ r.at \in Nat /\ r.kind \in Kind /\ r.at <= Len(s)
      /\ r.tries <= Allowed(o) /\ r.logged = IF Logged(r, o) THEN 1 ELSE 0
  BY DEF Standing, CallRecords
<1>2. /\ q \in CallRecords /\ q.stage = "up" /\ q.at = r.at - 1 /\ q.kind = r.kind
      /\ q.tries = r.tries /\ q.logged = r.logged + 1
  <2> DEFINE p == [r EXCEPT !.logged = @ + 1]
  <2>1. DOMAIN r = CallFields /\ r.logged + 1 \in Nat
    BY <1>1, CallParts
  <2>2. p \in CallRecords
    BY <1>1, <2>1 DEF CallRecords
  <2>3. /\ p.at = r.at /\ p.kind = r.kind /\ p.tries = r.tries /\ p.logged = r.logged + 1
    BY <2>1 DEF CallFields, NoCall
  <2> HIDE DEF p
  <2>4. /\ Up(p, code) \in CallRecords /\ Up(p, code).stage = "up"
        /\ Up(p, code).at = r.at - 1 /\ Up(p, code).kind = r.kind
        /\ Up(p, code).tries = r.tries /\ Up(p, code).logged = r.logged + 1
    BY <2>2, <2>3, UpTyped
  <2>5. q = Up(p, code)
    BY DEF p
  <2>6. QED
    BY <2>4, <2>5
<1> HIDE DEF q
<1>3. /\ Len(s) \in Nat /\ LoggerEnd(o) \in Nat
      /\ \A i \in 1 .. Len(s) : s[i] = "logger" => o.logger /\ ~o.pool /\ i = LoggerEnd(o)
  BY <1>1, ChainLinks
<1>4. s[r.at] = "logger"
  OBVIOUS
<1>5. q.at <= Len(s)
  <2> HIDE DEF s
  <2>1. QED
    BY <1>1, <1>2, <1>3
<1> HIDE DEF s
<1>6. Logged(q, o) /\ ~Logged(r, o)
  BY <1>1, <1>2, <1>3, <1>4 DEF Logged
<1>7. QED
  BY <1>1, <1>2, <1>5, <1>6 DEF Standing, q, s

\* Timers and the caller's context do not move a call.
LEMMA TimersStand ==
  ASSUME NEW o, NEW r, Standing(r, o), NEW q \in CallRecords,
         q.stage = r.stage, q.at = r.at, q.kind = r.kind, q.tries = r.tries,
         q.logged = r.logged
  PROVE  Standing(q, o)
BY DEF Standing, Logged

-------------------------------------------------------------------------------
CallbackRecords == [busy : BOOLEAN, saw : Contexts, err : Error]

ReporterRecords ==
  [method : Method, decider : Decider \cup {DefaultDecider}, startCallLogged : BOOLEAN,
   ctx : Contexts, callback : [Direction -> CallbackRecords], met : BOOLEAN]

LineRecords == [by : Direction \cup {"call"}, status : Nat, level : Level,
                contents : SUBSET Direction]

Reporting ==
  reporter \in [Execution -> ReporterRecords] /\ journal \in [Execution -> Seq(LineRecords)]

\* A reporter starts with nothing learned.
LEMMA NewReporterTyped ==
  ASSUME NEW method \in Method, NEW d \in Decider \cup {DefaultDecider}
  PROVE  NewReporter(method, d) \in ReporterRecords
<1>1. NoContext \in Contexts
  BY DEF NoContext, Contexts, OK
<1>2. Idle \in CallbackRecords
  BY <1>1 DEF Idle, CallbackRecords, Error, OK
<1>3. QED
  BY <1>1, <1>2 DEF NewReporter, ReporterRecords

\* The lines of a reporter are typed, whatever the error and what was injected.
LEMMA LineTyped ==
  ASSUME NEW by \in Direction \cup {"call"}, NEW err, NEW ctx \in Contexts
  PROVE  Line(by, err, ctx) \in LineRecords
<1>1. DefaultCodeToLevel(CodeOf(err)) \in Level
  BY DEF DefaultCodeToLevel, Level
<1>2. "info" \in Level
  BY DEF Level
<1> DEFINE level == IF err = OK THEN "info" ELSE DefaultCodeToLevel(CodeOf(err))
<1>3. level \in Level
  BY <1>1, <1>2
<1> HIDE DEF level
<1>4. [by |-> by, status |-> ctx.status, contents |-> ctx.contents, level |-> level]
        \in LineRecords
  BY <1>3 DEF LineRecords, Contexts
<1>5. QED
  BY <1>4 DEF Line, level

\* An injected status leaves a context.
LEMMA StatusTyped ==
  ASSUME NEW ctx \in Contexts, NEW err \in Error
  PROVE  WithStatus(ctx, err) \in Contexts
<1>1. CodeOf(err) \in Nat
  BY DEF CodeOf, Error, ContextErrors, EOF, RawCanceled, RawDeadline, Unknown
<1>2. QED
  BY <1>1 DEF WithStatus, Contexts

\* Every callback leaves reporters and journals typed.
LEMMA BeginTyped ==
  ASSUME Reporting, NEW x \in Execution, NEW method \in Method, NEW d \in Decider,
         Begin(x, method, d)
  PROVE  Reporting'
BY NewReporterTyped DEF Reporting, Begin

\* A callback that begins.
LEMMA PostMsgTyped ==
  ASSUME Reporting, NEW x \in Execution, NEW d \in Direction, NEW err \in Error,
         PostMsg(x, d, err)
  PROVE  Reporting'
<1> DEFINE r == reporter[x]
           callback == [busy |-> TRUE, saw |-> r.ctx, err |-> err]
           met == r.met \/ \E other \in Direction : Busy(x, other)
           q == [r EXCEPT !.callback[d] = callback, !.met = met]
<1>1. r \in ReporterRecords
  BY DEF Reporting
<1>2. callback \in CallbackRecords
  BY <1>1 DEF ReporterRecords, CallbackRecords
<1>3. met \in BOOLEAN
  OBVIOUS
<1>4. /\ reporter' = [reporter EXCEPT ![x] = IF r.startCallLogged THEN r ELSE q]
      /\ journal' = journal
  BY DEF PostMsg
<1> HIDE DEF callback, met
<1>5. q \in ReporterRecords
  BY <1>1, <1>2, <1>3 DEF ReporterRecords
<1> HIDE DEF q, r
<1>6. QED
  BY <1>1, <1>4, <1>5 DEF Reporting

\* A callback that ends.
LEMMA PostMsgEndsTyped ==
  ASSUME Reporting, NEW x \in Execution, NEW d \in Direction, PostMsgEnds(x, d)
  PROVE  Reporting'
<1> DEFINE r == reporter[x]
           err == r.callback[d].err
           decision == shouldLog(r, err)
           idle == [r EXCEPT !.callback[d] = Idle]
           more == Contents(d, err, decision)
<1>1. r \in ReporterRecords /\ r.callback[d] \in CallbackRecords /\ r.ctx \in Contexts
  BY DEF Reporting, ReporterRecords
<1>2. err \in Error /\ r.callback[d].saw \in Contexts
  BY <1>1 DEF CallbackRecords
<1>3. Idle \in CallbackRecords
  BY DEF Idle, CallbackRecords, NoContext, Contexts, Error, OK
<1>4. idle \in ReporterRecords
  BY <1>1, <1>3 DEF ReporterRecords
<1>5. more \in SUBSET Direction
  BY DEF Contents
<1>6. PICK base \in {r.callback[d].saw, r.ctx} :
        LET ctx == [base EXCEPT !.contents = @ \cup more]
            logged == WithStatus(ctx, err)
        IN  IF decision.event = "StartCall"
            THEN /\ reporter' = [reporter EXCEPT ![x] =
                      [idle EXCEPT !.startCallLogged = Started(r),
                                   !.ctx = IF logged = base THEN r.ctx ELSE logged]]
                 /\ journal' = [journal EXCEPT ![x] = Append(@, Line(d, err, logged))]
            ELSE /\ reporter' = [reporter EXCEPT ![x] =
                      [idle EXCEPT !.ctx = IF ctx = base THEN r.ctx ELSE ctx]]
                 /\ UNCHANGED journal
  BY DEF PostMsgEnds
<1> DEFINE ctx == [base EXCEPT !.contents = @ \cup more]
           logged == WithStatus(ctx, err)
           after == IF logged = base THEN r.ctx ELSE logged
           kept == IF ctx = base THEN r.ctx ELSE ctx
           line == Line(d, err, logged)
<1>7. IF decision.event = "StartCall"
      THEN /\ reporter' = [reporter EXCEPT ![x] =
                [idle EXCEPT !.startCallLogged = Started(r), !.ctx = after]]
           /\ journal' = [journal EXCEPT ![x] = Append(@, line)]
      ELSE /\ reporter' = [reporter EXCEPT ![x] = [idle EXCEPT !.ctx = kept]]
           /\ UNCHANGED journal
  BY <1>6
<1> HIDE DEF idle, more, decision, err
<1>8. ctx \in Contexts
  BY <1>1, <1>2, <1>5, <1>6 DEF Contexts
<1> HIDE DEF ctx
<1>9. logged \in Contexts
  BY <1>2, <1>8, StatusTyped
<1> HIDE DEF logged
<1>10. after \in Contexts /\ kept \in Contexts
  BY <1>1, <1>8, <1>9
<1>11. line \in LineRecords
  BY <1>9, LineTyped
<1> HIDE DEF after, kept, line
<1>12. [idle EXCEPT !.startCallLogged = Started(r), !.ctx = after] \in ReporterRecords
  BY <1>4, <1>10 DEF ReporterRecords, Started
<1>13. [idle EXCEPT !.ctx = kept] \in ReporterRecords
  BY <1>4, <1>10 DEF ReporterRecords
<1>14. Append(journal[x], line) \in Seq(LineRecords)
  BY <1>11 DEF Reporting
<1>15. CASE decision.event = "StartCall"
  BY <1>7, <1>12, <1>14, <1>15 DEF Reporting
<1>16. CASE decision.event # "StartCall"
  BY <1>7, <1>13, <1>16 DEF Reporting
<1>17. QED
  BY <1>15, <1>16

\* The last one of a call.
LEMMA PostCallTyped ==
  ASSUME Reporting, NEW x \in Execution, NEW err \in Error, PostCall(x, err)
  PROVE  Reporting'
<1> DEFINE r == reporter[x]
           logged == WithStatus(r.ctx, Final(err))
           line == Line("call", Final(err), logged)
<1>1. r \in ReporterRecords /\ r.ctx \in Contexts
  BY DEF Reporting, ReporterRecords
<1>2. Final(err) \in Error
  BY DEF Final, Error, OK
<1>3. logged \in Contexts
  BY <1>1, <1>2, StatusTyped
<1>4. \/ /\ reporter' = [reporter EXCEPT ![x].ctx = logged]
         /\ journal' = [journal EXCEPT ![x] = Append(@, line)]
      \/ UNCHANGED <<reporter, journal>>
  BY DEF PostCall, reporterVars
<1> HIDE DEF logged
<1>5. line \in LineRecords
  BY <1>3, LineTyped
<1> HIDE DEF line
<1>6. [r EXCEPT !.ctx = logged] \in ReporterRecords
  BY <1>1, <1>3 DEF ReporterRecords
<1>7. Append(journal[x], line) \in Seq(LineRecords)
  BY <1>5 DEF Reporting
<1>8. CASE UNCHANGED <<reporter, journal>>
  BY <1>8 DEF Reporting
<1>9. CASE /\ reporter' = [reporter EXCEPT ![x].ctx = logged]
           /\ journal' = [journal EXCEPT ![x] = Append(@, line)]
  <2>1. reporter' = [reporter EXCEPT ![x] = [r EXCEPT !.ctx = logged]]
    BY <1>9
  <2>2. QED
    BY <1>6, <1>7, <1>9, <2>1 DEF Reporting
<1>10. QED
  BY <1>4, <1>8, <1>9

\* What the reporters keep is what TypeOK says of them.
LEMMA ReportingImplies == Reporting => ReporterTypeOK
<1> SUFFICES ASSUME Reporting, NEW x \in Execution
             PROVE  /\ reporter[x].method \in {"api", "health"}
                    /\ reporter[x].startCallLogged \in BOOLEAN /\ reporter[x].met \in BOOLEAN
                    /\ reporter[x].ctx \in Contexts
                    /\ reporter[x].callback \in [Direction -> CallbackRecords]
                    /\ \A i \in DOMAIN journal[x] : journal[x][i] \in LineRecords
  BY DEF ReporterTypeOK, CallbackRecords, LineRecords
<1>1. reporter[x] \in ReporterRecords /\ journal[x] \in Seq(LineRecords)
  BY DEF Reporting
<1>2. \A i \in DOMAIN journal[x] : journal[x][i] \in LineRecords
  BY <1>1
<1>3. QED
  BY <1>1, <1>2 DEF ReporterRecords, Method

-------------------------------------------------------------------------------
ExecRecords ==
  [stage : {"none", "arrived", "receiving", "handling", "sending", "closing", "over"},
   kind : Kind, outcome : Outcome \cup {OK}, calls : [Direction -> 0 .. MaxMessages]]

\* What the server and the network keep.
Serving ==
  /\ Reporting /\ decider \in Decider
  /\ exec \in [Execution -> ExecRecords] /\ broken \subseteq Execution

\* A handling that is over stays so, with the outcome it had.
OverKept ==
  \A x \in Execution :
    exec[x].stage = "over" => exec'[x].stage = "over" /\ exec'[x].outcome = exec[x].outcome

\* A step of one handling.
LEMMA ExecStep ==
  ASSUME Serving, NEW x \in Execution, NEW q \in ExecRecords, exec' = [exec EXCEPT ![x] = q],
         exec[x].stage = "over" => q.stage = "over" /\ q.outcome = exec[x].outcome,
         Reporting', UNCHANGED <<decider, broken>>
  PROVE  Serving' /\ OverKept
BY DEF Serving, OverKept

\* The stage of a handling that is not over may become any other.
LEMMA StageStep ==
  ASSUME Serving, NEW x \in Execution,
         NEW stage \in {"none", "arrived", "receiving", "handling", "sending", "closing",
                        "over"},
         Stage(x, stage), exec[x].stage # "over", Reporting', UNCHANGED <<decider, broken>>
  PROVE  Serving' /\ OverKept
<1> DEFINE q == [exec[x] EXCEPT !.stage = stage]
<1>1. exec' = [exec EXCEPT ![x] = q]
  BY DEF Stage
<1>2. q \in ExecRecords
  BY DEF Serving, ExecRecords
<1> HIDE DEF q
<1>3. QED
  BY <1>1, <1>2, ExecStep

\* An attempt arrives.
LEMMA ArriveServes ==
  ASSUME Serving, \A c \in Caller : call[c] \in CallRecords, NEW x \in Execution, Arrive(x)
  PROVE  Serving' /\ OverKept
<1> DEFINE r == call[x[1]]
           stage == IF r.kind = "unary" THEN "arrived" ELSE "handling"
           q == [exec[x] EXCEPT !.stage = stage, !.kind = r.kind]
<1>1. x[1] \in Caller
  BY PathAssumption
<1>2. r.kind \in Kind /\ r.method \in Method
  BY <1>1, CallParts
<1>3. /\ exec[x].stage = "none" /\ exec' = [exec EXCEPT ![x] = q]
      /\ Begin(x, r.method, decider) /\ UNCHANGED <<decider, broken>>
  BY DEF Arrive, ServerOnly
<1> HIDE DEF r
<1>4. q \in ExecRecords
  BY <1>2 DEF Serving, ExecRecords
<1> HIDE DEF q
<1>5. Reporting'
  BY <1>2, <1>3, BeginTyped DEF Serving
<1>6. QED
  BY <1>3, <1>4, <1>5, ExecStep

\* A handler of a unary call returns.
LEMMA SendsServes ==
  ASSUME Serving, NEW x \in Execution, Sends(x)
  PROVE  Serving' /\ OverKept
<1>1. PICK out \in Outcome :
        /\ exec' = [exec EXCEPT ![x].stage = "sending", ![x].outcome = out]
        /\ PostMsg(x, "send", out)
  BY DEF Sends
<1>2. exec[x].stage = "handling" /\ UNCHANGED <<decider, broken>>
  BY DEF Sends, ServerOnly
<1> DEFINE q == [exec[x] EXCEPT !.stage = "sending", !.outcome = out]
<1>3. exec' = [exec EXCEPT ![x] = q]
  BY <1>1
<1>4. q \in ExecRecords
  BY DEF Serving, ExecRecords
<1> HIDE DEF q
<1>5. out \in Error /\ "send" \in Direction
  BY PathAssumption DEF Direction
<1>6. Reporting'
  BY <1>1, <1>5, PostMsgTyped DEF Serving
<1>7. QED
  BY <1>2, <1>3, <1>4, <1>6, ExecStep

\* A handler of a stream returns.
LEMMA StreamReturnsServes ==
  ASSUME Serving, NEW x \in Execution, StreamReturns(x)
  PROVE  Serving' /\ OverKept
<1>1. PICK out \in Outcome :
        exec' = [exec EXCEPT ![x].stage = "closing", ![x].outcome = out]
  BY DEF StreamReturns
<1>2. /\ exec[x].stage = "handling" /\ UNCHANGED <<decider, broken>>
      /\ UNCHANGED <<reporter, journal>>
  BY DEF StreamReturns, ServerOnly, reporterVars
<1> DEFINE q == [exec[x] EXCEPT !.stage = "closing", !.outcome = out]
<1>3. exec' = [exec EXCEPT ![x] = q]
  BY <1>1
<1>4. q \in ExecRecords
  BY DEF Serving, ExecRecords
<1> HIDE DEF q
<1>5. Reporting'
  BY <1>2 DEF Serving, Reporting
<1>6. QED
  BY <1>2, <1>3, <1>4, <1>5, ExecStep

\* A message of a stream.
LEMMA StreamCallbackServes ==
  ASSUME Serving, NEW x \in Execution, NEW d \in Direction, StreamCallback(x, d)
  PROVE  Serving' /\ OverKept
<1>1. PICK err \in StreamErrors(x, d) : PostMsg(x, d, err)
  BY DEF StreamCallback
<1>2. err \in Error
  BY DEF StreamErrors, Error, OK, Canceled, Unavailable
<1>3. Reporting'
  BY <1>1, <1>2, PostMsgTyped DEF Serving
<1> DEFINE n == exec[x].calls[d] + 1
           q == [exec[x] EXCEPT !.calls[d] = n]
<1>4. /\ exec' = [exec EXCEPT ![x] = q] /\ exec[x].calls[d] < MaxMessages
      /\ UNCHANGED <<decider, broken>>
  BY DEF StreamCallback, ServerOnly
<1>5. n \in 0 .. MaxMessages
  BY <1>4, PathAssumption DEF Serving, ExecRecords
<1> HIDE DEF n
<1>6. q \in ExecRecords /\ q.stage = exec[x].stage /\ q.outcome = exec[x].outcome
  BY <1>5 DEF Serving, ExecRecords
<1> HIDE DEF q
<1>7. QED
  BY <1>3, <1>4, <1>6, ExecStep

\* What a server that has begun a call does next.
LEMMA ServerStepServes ==
  ASSUME Serving, NEW x \in Execution, ServerStep(x)
  PROVE  Serving' /\ OverKept
<1>1. UNCHANGED <<decider, broken>>
  BY DEF ServerStep, Receives, Received, Sent, Closes, StreamCallbackEnds, ServerOnly
<1>2. Reporting /\ "receive" \in Direction /\ "send" \in Direction /\ OK \in Error
  BY DEF Serving, Direction, Error, OK
<1>3. CASE Receives(x)
  <2>1. Reporting'
    BY <1>2, <1>3, PostMsgTyped DEF Receives
  <2>2. exec[x].stage # "over" /\ Stage(x, "receiving")
    BY <1>3 DEF Receives
  <2>3. QED
    BY <1>1, <2>1, <2>2, StageStep
<1>4. CASE Received(x)
  <2>1. Reporting'
    BY <1>2, <1>4, PostMsgEndsTyped DEF Received
  <2>2. exec[x].stage # "over" /\ Stage(x, "handling")
    BY <1>4 DEF Received
  <2>3. QED
    BY <1>1, <2>1, <2>2, StageStep
<1>5. CASE Sent(x)
  <2>1. Reporting'
    <3>1. CASE Busy(x, "send")
      BY <1>2, <1>5, <3>1, PostMsgEndsTyped DEF Sent
    <3>2. CASE ~Busy(x, "send")
      BY <1>2, <1>5, <3>2 DEF Sent, reporterVars, Reporting
    <3>3. QED
      BY <3>1, <3>2
  <2>2. exec[x].stage # "over" /\ Stage(x, "closing")
    BY <1>5 DEF Sent
  <2>3. QED
    BY <1>1, <2>1, <2>2, StageStep
<1>6. CASE Closes(x)
  <2>1. exec[x].stage # "over" /\ Stage(x, "over") /\ PostCall(x, exec[x].outcome)
    BY <1>6 DEF Closes
  <2>2. exec[x].outcome \in Error
    BY <1>2, PathAssumption DEF Serving, ExecRecords
  <2>3. Reporting'
    BY <1>2, <2>1, <2>2, PostCallTyped
  <2>4. QED
    BY <1>1, <2>1, <2>3, StageStep
<1>7. ASSUME NEW d \in Direction, StreamCallbackEnds(x, d) PROVE Serving' /\ OverKept
  <2>1. Reporting'
    BY <1>2, <1>7, PostMsgEndsTyped DEF StreamCallbackEnds
  <2>2. UNCHANGED exec
    BY <1>7 DEF StreamCallbackEnds
  <2>3. QED
    BY <1>1, <2>1, <2>2 DEF Serving, OverKept
<1>8. QED
  BY <1>3, <1>4, <1>5, <1>6, <1>7 DEF ServerStep

\* The server's part of the invariant is kept by all it does.
LEMMA ServerServes ==
  ASSUME Serving, \A c \in Caller : call[c] \in CallRecords, NEW x \in Execution,
         \/ Arrive(x) \/ Sends(x) \/ StreamReturns(x) \/ ServerStep(x)
         \/ \E d \in Direction : StreamCallback(x, d)
  PROVE  Serving' /\ OverKept
BY ArriveServes, SendsServes, StreamReturnsServes, ServerStepServes, StreamCallbackServes

-------------------------------------------------------------------------------
\* An attempt was handled with success and its answer came back; it failed in a way
\* that may be retried.
Succeeded(x, ex, br) == ex[x].stage = "over" /\ ex[x].outcome = OK /\ x \notin br
Failed(x, ex, br) == x \in br \/ (ex[x].stage = "over" /\ ex[x].outcome = Unavailable)

\* A call on its way up with OK had its last attempt succeed; one that comes back to the
\* wire, or may, had it fail; and no attempt to come has broken off.
Answered(c, r, ex, br) ==
  /\ r.stage \in {"up", "done"} /\ r.code = OK =>
       r.tries > 0 /\ Succeeded(<<c, r.tries>>, ex, br)
  /\ (r.stage = "up" /\ r.code = Unavailable) \/ r.stage \in {"down", "backoff"} =>
       (r.tries > 0 => Failed(<<c, r.tries>>, ex, br))
  /\ r.stage = "sent" => r.tries > 0 /\ <<c, r.tries>> \notin br
  /\ \A n \in Nat : <<c, n>> \in br => n <= r.tries

CallsInv ==
  \A c \in Caller : Standing(call[c], conn[c].opt) /\ Answered(c, call[c], exec, broken)

\* A client was made from something.
ClientsGiven == \A c \in Caller : conn[c].state # "none" => conn[c].given # {}

PathInv == DeadlineInv /\ CallsInv /\ ClientsGiven /\ Serving

\* Steps that neither send an attempt nor end one with an answer.
LEMMA MoveAnswers ==
  ASSUME NEW c, NEW r, NEW q, NEW ex, NEW br, Answered(c, r, ex, br), q.tries = r.tries,
         \/ q.stage = "down" /\ (r.stage \in {"down", "backoff"} \/ r.tries = 0)
         \/ q.stage = "up" /\ q.code \notin {OK, Unavailable}
         \/ q.stage \in {"up", "done"} /\ r.stage = "up" /\ q.code = r.code
         \/ q.stage = "backoff" /\ r.stage = "up" /\ r.code = Unavailable
         \/ q.stage = r.stage /\ q.code = r.code
  PROVE  Answered(c, q, ex, br)
BY DEF Answered

\* What another call, or the server, does to the history of a call.
LEMMA OthersAnswer ==
  ASSUME NEW c, NEW r, NEW ex, NEW br, Answered(c, r, ex, br), NEW ex2, NEW br2,
         r.tries \in Nat,
         \A n \in Nat : /\ <<c, n>> \in br2 <=> <<c, n>> \in br
                        /\ ex[<<c, n>>].stage = "over" =>
                             /\ ex2[<<c, n>>].stage = "over"
                             /\ ex2[<<c, n>>].outcome = ex[<<c, n>>].outcome
  PROVE  Answered(c, r, ex2, br2)
<1> DEFINE x == <<c, r.tries>>
<1>1. /\ x \in br2 <=> x \in br
      /\ ex[x].stage = "over" => ex2[x].stage = "over" /\ ex2[x].outcome = ex[x].outcome
      /\ \A n \in Nat : <<c, n>> \in br2 => <<c, n>> \in br
  OBVIOUS
<1>2. /\ Succeeded(x, ex, br) => Succeeded(x, ex2, br2)
      /\ Failed(x, ex, br) => Failed(x, ex2, br2)
  BY <1>1 DEF Succeeded, Failed
<1>3. ASSUME NEW n \in Nat, <<c, n>> \in br2 PROVE n <= r.tries
  <2>1. <<c, n>> \in br
    BY <1>1, <1>3
  <2>2. QED
    BY <2>1 DEF Answered
<1>4. r.stage = "sent" => r.tries > 0 /\ x \notin br2
  BY <1>1 DEF Answered
<1>5. /\ r.stage \in {"up", "done"} /\ r.code = OK => r.tries > 0 /\ Succeeded(x, ex2, br2)
      /\ (r.stage = "up" /\ r.code = Unavailable) \/ r.stage \in {"down", "backoff"} =>
           (r.tries > 0 => Failed(x, ex2, br2))
  BY <1>2 DEF Answered
<1>6. QED
  BY <1>3, <1>4, <1>5 DEF Answered

\* A step of one call leaves the others as they are.
LEMMA BecomesStands ==
  ASSUME CallsInv, DOMAIN call = Caller, NEW c \in Caller, NEW q, Becomes(c, q),
         Standing(q, conn[c].opt), Answered(c, q, exec, broken), UNCHANGED <<exec, broken>>
  PROVE  CallsInv'
<1>1. call'[c] = q /\ \A d \in Caller \ {c} : call'[d] = call[d]
  BY DEF Becomes
<1>2. conn' = conn /\ exec' = exec /\ broken' = broken
  BY DEF Becomes
<1>3. ASSUME NEW d \in Caller
      PROVE  Standing(call'[d], conn'[d].opt) /\ Answered(d, call'[d], exec', broken')
  <2>1. CASE d = c
    BY <1>1, <1>2, <2>1
  <2>2. CASE d # c
    BY <1>1, <1>2, <2>2 DEF CallsInv
  <2>3. QED
    BY <2>1, <2>2
<1>4. QED
  BY <1>3 DEF CallsInv

\* What is known of a call that has begun and stands at a link.
LEMMA StandsAt ==
  ASSUME DeadlineInv, CallsInv, NEW c \in Caller, call[c].stage # "idle"
  PROVE  /\ conn[c].opt \in OptionType /\ Standing(call[c], conn[c].opt)
         /\ Answered(c, call[c], exec, broken) /\ DOMAIN call = Caller
         /\ call[c] \in CallRecords /\ call[c].at \in Nat /\ call[c].code \in Nat
         /\ \A stage, link : At(c, stage, link) =>
              /\ call[c].stage = stage /\ call[c].at >= 1
              /\ Chain(conn[c].opt, call[c].kind)[call[c].at] = link
<1>1. conn[c].opt \in OptionType /\ DOMAIN call = Caller
  BY Begun DEF DeadlineInv
<1>2. Standing(call[c], conn[c].opt) /\ Answered(c, call[c], exec, broken)
  BY DEF CallsInv
<1>3. call[c] \in CallRecords
  BY <1>2 DEF Standing
<1>4. call[c].at \in Nat /\ call[c].code \in Nat
  BY <1>3, CallParts
<1>5. ASSUME NEW stage, NEW link, At(c, stage, link)
      PROVE  /\ call[c].stage = stage /\ call[c].at >= 1
             /\ Chain(conn[c].opt, call[c].kind)[call[c].at] = link
  BY <1>4, <1>5 DEF At, ChainOf
<1>6. QED
  BY <1>1, <1>2, <1>3, <1>4, <1>5

\* A step down from a link other than the wire.
LEMMA DownStepStands ==
  ASSUME DeadlineInv, CallsInv, NEW c \in Caller, call[c].stage \in {"down", "backoff"},
         NEW q \in CallRecords, q.stage = call[c].stage, q.at = call[c].at,
         q.kind = call[c].kind, q.tries = call[c].tries, q.logged = call[c].logged,
         Becomes(c, Down(q)), Chain(conn[c].opt, call[c].kind)[call[c].at] # "wire",
         UNCHANGED <<exec, broken>>
  PROVE  CallsInv'
<1> DEFINE r == call[c]
           o == conn[c].opt
<1>1. /\ o \in OptionType /\ Standing(r, o) /\ Answered(c, r, exec, broken)
      /\ DOMAIN call = Caller
  BY StandsAt
<1>2. Standing(q, o)
  BY <1>1, TimersStand
<1>3. Standing(Down(q), o)
  BY <1>1, <1>2, DownStands
<1>4. Down(q).stage = "down" /\ Down(q).tries = r.tries
  BY DownTyped
<1>5. Answered(c, Down(q), exec, broken)
  BY <1>1, <1>4, MoveAnswers
<1>6. QED
  BY <1>1, <1>3, <1>5, BecomesStands

\* A step up past a link other than the logger.
LEMMA UpStepStands ==
  ASSUME DeadlineInv, CallsInv, NEW c \in Caller,
         call[c].stage \in {"down", "sent", "up", "backoff"}, call[c].at >= 1,
         NEW q \in CallRecords, q.stage = call[c].stage, q.at = call[c].at,
         q.kind = call[c].kind, q.tries = call[c].tries, q.logged = call[c].logged,
         NEW code \in Nat, Becomes(c, Up(q, code)),
         IF call[c].stage = "up" THEN code = call[c].code ELSE code \notin {OK, Unavailable},
         call[c].stage = "up" => Chain(conn[c].opt, call[c].kind)[call[c].at] # "logger",
         call[c].stage = "down" =>
           Chain(conn[c].opt, call[c].kind)[call[c].at] \notin {"user", "logger"},
         UNCHANGED <<exec, broken>>
  PROVE  CallsInv'
<1> DEFINE r == call[c]
           o == conn[c].opt
<1>1. /\ o \in OptionType /\ Standing(r, o) /\ Answered(c, r, exec, broken)
      /\ DOMAIN call = Caller
  BY StandsAt
<1>2. Standing(q, o)
  BY <1>1, TimersStand
<1>3. Standing(Up(q, code), o)
  BY <1>1, <1>2, UpStands
<1>4. Up(q, code).stage = "up" /\ Up(q, code).tries = r.tries /\ Up(q, code).code = code
  BY UpTyped
<1>5. Answered(c, Up(q, code), exec, broken)
  BY <1>1, <1>4, MoveAnswers
<1>6. QED
  BY <1>1, <1>3, <1>5, BecomesStands

-------------------------------------------------------------------------------
\* What a goroutine that makes a call does keeps the call's standing and its history.
LEMMA CallerStepStands ==
  ASSUME DeadlineInv, CallsInv, NEW c \in Caller, CallerStep(c), UNCHANGED <<exec, broken>>
  PROVE  CallsInv'
<1> DEFINE r == call[c]
           o == conn[c].opt
           s == Chain(o, r.kind)
<1>1. r.stage # "idle" =>
        /\ o \in OptionType /\ Standing(r, o) /\ Answered(c, r, exec, broken)
        /\ DOMAIN call = Caller /\ r \in CallRecords /\ r.at \in Nat /\ r.code \in Nat
        /\ r.tries \in Nat /\ r.left \in Nat \cup {NoDeadline} /\ DOMAIN r = CallFields
  BY StandsAt, CallParts
<1>2. ASSUME NEW stage, NEW link, At(c, stage, link), stage # "idle"
      PROVE  r.stage = stage /\ r.at >= 1 /\ s[r.at] = link
  BY <1>2, StandsAt DEF At
<1>3. /\ Unknown \in Nat \ {OK, Unavailable} /\ Unimplemented \in Nat \ {OK, Unavailable}
      /\ Canceled \in Nat \ {OK, Unavailable} /\ ContextCode(r) \in Nat \ {OK, Unavailable}
  BY DEF Unknown, Unimplemented, Canceled, ContextCode, DeadlineExceeded, OK, Unavailable
<1> HIDE DEF s
<1>4. CASE WalkDown(c)
  <2>1. PICK link \in {"user", "logger", "metrics"} : At(c, "down", link)
    BY <1>4 DEF WalkDown
  <2>2. r.stage = "down" /\ s[r.at] # "wire" /\ Becomes(c, Down(r))
    BY <1>2, <1>4, <2>1 DEF WalkDown
  <2>3. QED
    BY <1>1, <2>2, DownStepStands DEF s
<1>5. CASE StartTimer(c)
  <2> DEFINE left == Sooner(r.left, o.timeout)
             q == [r EXCEPT !.left = left]
  <2>1. r.stage = "down" /\ s[r.at] = "timeout" /\ Becomes(c, Down(q)) /\ r.at >= 1
    BY <1>2, <1>5 DEF StartTimer
  <2>2. o.timeout > 0 /\ o.timeout \in Nat
    <3>1. /\ r.at <= Len(s) /\ r.kind \in Kind
      BY <1>1, <2>1, CallParts DEF Standing, s
    <3>2. Len(s) \in Nat /\ \A i \in 1 .. Len(s) : s[i] = "timeout" => o.timeout > 0
      BY <1>1, <2>1, <3>1, ChainLinks DEF s
    <3>3. o.timeout > 0
      BY <1>1, <2>1, <3>1, <3>2
    <3>4. QED
      BY <1>1, <2>1, <3>3 DEF OptionType
  <2>3. left \in Nat \cup {NoDeadline}
    BY <1>1, <2>1, <2>2 DEF Sooner
  <2> HIDE DEF left
  <2>4. q \in CallRecords
    BY <1>1, <2>1, <2>3 DEF CallRecords
  <2>5. /\ q.stage = r.stage /\ q.at = r.at /\ q.kind = r.kind /\ q.tries = r.tries
        /\ q.logged = r.logged
    BY <1>1, <2>1 DEF CallFields, NoCall
  <2> HIDE DEF q
  <2>6. QED
    BY <1>1, <2>1, <2>4, <2>5, DownStepStands DEF s
<1>6. CASE EnterRetry(c)
  <2>1. r.stage = "down" /\ s[r.at] = "retry" /\ r.at >= 1
    BY <1>2, <1>6 DEF EnterRetry
  <2>2. Becomes(c, Down(r)) \/ Becomes(c, Up(r, Unimplemented))
    BY <1>6 DEF EnterRetry
  <2>3. CASE Becomes(c, Down(r))
    BY <1>1, <2>1, <2>3, DownStepStands DEF s
  <2>4. CASE Becomes(c, Up(r, Unimplemented))
    BY <1>1, <1>3, <2>1, <2>4, UpStepStands DEF s
  <2>5. QED
    BY <2>2, <2>3, <2>4
<1>7. CASE Trace(c)
  <2>1. r.stage = "down" /\ s[r.at] = "tracer" /\ r.at >= 1
    BY <1>2, <1>7 DEF Trace
  <2>2. Becomes(c, Down(r)) \/ Becomes(c, Up(r, Unknown))
    BY <1>7 DEF Trace
  <2>3. CASE Becomes(c, Down(r))
    BY <1>1, <2>1, <2>3, DownStepStands DEF s
  <2>4. CASE Becomes(c, Up(r, Unknown))
    BY <1>1, <1>3, <2>1, <2>4, UpStepStands DEF s
  <2>5. QED
    BY <2>2, <2>3, <2>4
<1>8. CASE Send(c)
  <2> DEFINE q == [r EXCEPT !.stage = "sent", !.tries = @ + 1]
  <2>1. r.stage = "down" /\ s[r.at] = "wire" /\ r.at >= 1
    BY <1>2, <1>8 DEF Send
  <2>2. \/ Becomes(c, q)
        \/ \E code \in {ContextCode(r), Canceled} : Becomes(c, Up(r, code))
    BY <1>8 DEF Send
  <2>3. CASE Becomes(c, q)
    <3>1. r.tries + 1 \in Nat /\ r.tries + 1 > 0
      BY <1>1, <2>1
    <3>2. q \in CallRecords
      BY <1>1, <2>1, <3>1 DEF CallRecords
    <3>3. /\ q.stage = "sent" /\ q.at = r.at /\ q.kind = r.kind /\ q.tries = r.tries + 1
          /\ q.logged = r.logged
      BY <1>1, <2>1 DEF CallFields, NoCall
    <3>4. /\ r.at <= Len(s) /\ r.tries < Allowed(o) /\ r.logged = 0 /\ Allowed(o) \in Int
      BY <1>1, <2>1 DEF Standing, Logged, s, Allowed, OptionType
    <3> HIDE DEF q
    <3>5. Standing(q, o)
      BY <1>1, <2>1, <3>2, <3>3, <3>4 DEF Standing, Logged, s
    <3>6. Answered(c, q, exec, broken)
      <4>1. ASSUME NEW n \in Nat, <<c, n>> \in broken PROVE n <= r.tries
        BY <1>1, <2>1, <4>1 DEF Answered
      <4>2. <<c, q.tries>> \notin broken
        BY <1>1, <2>1, <3>1, <3>3, <4>1
      <4>3. \A n \in Nat : <<c, n>> \in broken => n <= q.tries
        BY <1>1, <2>1, <3>3, <4>1
      <4>4. QED
        BY <3>1, <3>3, <4>2, <4>3 DEF Answered
    <3>7. QED
      BY <1>1, <2>1, <2>3, <3>5, <3>6, BecomesStands
  <2>4. ASSUME NEW code \in {ContextCode(r), Canceled}, Becomes(c, Up(r, code))
        PROVE  CallsInv'
    BY <1>1, <1>3, <2>1, <2>4, UpStepStands DEF s
  <2>5. QED
    BY <2>2, <2>3, <2>4
<1>9. CASE AttemptExpires(c)
  <2>1. r.stage = "sent" /\ Becomes(c, Up(r, ContextCode(r)))
    BY <1>9 DEF AttemptExpires
  <2>2. r.at >= 1
    BY <1>1, <2>1 DEF Standing
  <2>3. QED
    BY <1>1, <1>3, <2>1, <2>2, UpStepStands
<1>10. CASE WalkUp(c)
  <2>1. PICK link \in {"user", "metrics"} : At(c, "up", link)
    BY <1>10 DEF WalkUp
  <2>2. r.stage = "up" /\ s[r.at] # "logger" /\ r.at >= 1 /\ Becomes(c, Up(r, r.code))
    BY <1>2, <1>10, <2>1 DEF WalkUp
  <2>3. QED
    BY <1>1, <2>2, UpStepStands DEF s
<1>11. CASE TraceEnds(c)
  <2>1. r.stage = "up" /\ s[r.at] = "tracer" /\ r.at >= 1 /\ Becomes(c, Up(r, r.code))
    BY <1>2, <1>11 DEF TraceEnds, Traced
  <2>2. QED
    BY <1>1, <2>1, UpStepStands DEF s
<1>12. CASE LogFinished(c)
  <2> DEFINE p == [r EXCEPT !.logged = @ + 1]
             q == Up(p, r.code)
  <2>1. r.stage = "up" /\ s[r.at] = "logger" /\ r.at >= 1 /\ Becomes(c, q)
    BY <1>2, <1>12 DEF LogFinished
  <2>2. Standing(q, o)
    BY <1>1, <2>1, LoggerStands DEF s
  <2>3. q.stage = "up" /\ q.code = r.code /\ q.tries = r.tries
    BY <1>1, <2>1 DEF Up, CallFields, NoCall
  <2> HIDE DEF q
  <2>4. Answered(c, q, exec, broken)
    BY <1>1, <2>1, <2>3, MoveAnswers
  <2>5. QED
    BY <1>1, <2>1, <2>2, <2>4, BecomesStands
<1>13. CASE StopTimer(c)
  <2> DEFINE q == [r EXCEPT !.left = NoDeadline]
  <2>1. r.stage = "up" /\ s[r.at] = "timeout" /\ r.at >= 1 /\ Becomes(c, Up(q, r.code))
    BY <1>2, <1>13 DEF StopTimer
  <2>2. q \in CallRecords
    BY <1>1, <2>1 DEF CallRecords
  <2>3. /\ q.stage = r.stage /\ q.at = r.at /\ q.kind = r.kind /\ q.tries = r.tries
        /\ q.logged = r.logged
    BY <1>1, <2>1 DEF CallFields, NoCall
  <2> HIDE DEF q
  <2>4. QED
    BY <1>1, <2>1, <2>2, <2>3, UpStepStands DEF s
<1>14. CASE Retry(c)
  <2> DEFINE q == [r EXCEPT !.stage = "backoff", !.wait = Backoff]
  <2>1. r.stage = "up" /\ s[r.at] = "retry" /\ r.at >= 1
    BY <1>2, <1>14 DEF Retry
  <2>2. \/ r.code = Unavailable /\ r.tries < o.retryTimes /\ Becomes(c, q)
        \/ Becomes(c, Up(r, r.code))
    BY <1>14 DEF Retry, Retriable, MayRetry
  <2>3. CASE r.code = Unavailable /\ r.tries < o.retryTimes /\ Becomes(c, q)
    <3>1. q \in CallRecords
      <4>1. Backoff \in 0 .. Backoff
        BY ClientAssumption
      <4>2. QED
        BY <1>1, <2>1, <4>1 DEF CallRecords
    <3>2. /\ q.stage = "backoff" /\ q.at = r.at /\ q.kind = r.kind /\ q.tries = r.tries
          /\ q.logged = r.logged
      BY <1>1, <2>1 DEF CallFields, NoCall
    <3>3. r.at <= Len(s) /\ r.kind \in Kind /\ o.retryTimes \in Int
      BY <1>1, <2>1, CallParts DEF Standing, s, OptionType
    <3>4. /\ Len(s) \in Nat /\ LoggerEnd(o) \in Nat
          /\ \A i \in 1 .. Len(s) :
               /\ s[i] = "retry" => ~o.pool
               /\ o.logger /\ ~o.pool /\ s[i] \notin {"user", "logger"} => i > LoggerEnd(o)
      BY <1>1, <2>1, <3>3, ChainLinks DEF s
    <3>5. ~o.pool /\ (o.logger => r.at > LoggerEnd(o))
      BY <1>1, <2>1, <3>3, <3>4
    <3>6. r.logged = 0
      <4>1. r.logged = IF Logged(r, o) THEN 1 ELSE 0
        BY <1>1, <2>1 DEF Standing
      <4>2. ~Logged(r, o)
        BY <1>1, <2>1, <3>4, <3>5 DEF Logged
      <4>3. QED
        BY <4>1, <4>2
    <3>7. r.tries < Allowed(o) /\ r.tries <= Allowed(o)
      BY <1>1, <2>1, <2>3, <3>3, <3>5 DEF Allowed
    <3> HIDE DEF q
    <3>8. Standing(q, o)
      BY <2>1, <3>1, <3>2, <3>3, <3>6, <3>7 DEF Standing, Logged, s
    <3>9. Answered(c, q, exec, broken)
      BY <1>1, <2>1, <2>3, <3>2, MoveAnswers
    <3>10. QED
      BY <1>1, <2>1, <2>3, <3>8, <3>9, BecomesStands
  <2>4. CASE Becomes(c, Up(r, r.code))
    BY <1>1, <2>1, <2>4, UpStepStands DEF s
  <2>5. QED
    BY <2>2, <2>3, <2>4
<1>15. CASE BackoffEnds(c)
  <2> DEFINE q == [r EXCEPT !.wait = 0]
  <2>1. r.stage = "backoff" /\ (Becomes(c, Down(r)) \/ Becomes(c, Up(q, ContextCode(r))))
    BY <1>15 DEF BackoffEnds
  <2>2. r.at >= 1 /\ s[r.at] = "retry"
    BY <1>1, <2>1 DEF Standing, s
  <2>3. CASE Becomes(c, Down(r))
    BY <1>1, <2>1, <2>2, <2>3, DownStepStands DEF s
  <2>4. CASE Becomes(c, Up(q, ContextCode(r)))
    <3>1. q \in CallRecords
      BY <1>1, <2>1, ClientAssumption DEF CallRecords
    <3>2. /\ q.stage = r.stage /\ q.at = r.at /\ q.kind = r.kind /\ q.tries = r.tries
          /\ q.logged = r.logged
      BY <1>1, <2>1 DEF CallFields, NoCall
    <3> HIDE DEF q
    <3>3. QED
      BY <1>1, <1>3, <2>1, <2>2, <2>4, <3>1, <3>2, UpStepStands
  <2>5. QED
    BY <2>1, <2>3, <2>4
<1>16. CASE Return(c)
  <2> DEFINE q == [r EXCEPT !.stage = "done"]
  <2>1. r.stage = "up" /\ r.at = 0 /\ Becomes(c, q)
    BY <1>16 DEF Return
  <2>2. q \in CallRecords
    BY <1>1, <2>1 DEF CallRecords
  <2>3. /\ q.stage = "done" /\ q.at = r.at /\ q.kind = r.kind /\ q.tries = r.tries
        /\ q.logged = r.logged /\ q.code = r.code
    BY <1>1, <2>1 DEF CallFields, NoCall
  <2> HIDE DEF q
  <2>4. /\ r.at <= Len(s) /\ r.tries <= Allowed(o)
        /\ r.logged = IF Logged(r, o) THEN 1 ELSE 0
    BY <1>1, <2>1 DEF Standing, s
  <2>5. LoggerEnd(o) \in Nat /\ (o.logger => LoggerEnd(o) >= 1)
    BY <1>1, <2>1, LoggedLinks
  <2>6. Logged(q, o) <=> Logged(r, o)
    BY <2>1, <2>3, <2>5 DEF Logged
  <2>7. Standing(q, o)
    BY <2>1, <2>2, <2>3, <2>4, <2>6 DEF Standing, s
  <2>8. Answered(c, q, exec, broken)
    BY <1>1, <2>1, <2>3, MoveAnswers
  <2>9. QED
    BY <1>1, <2>1, <2>7, <2>8, BecomesStands
<1>17. QED
  BY <1>4, <1>5, <1>6, <1>7, <1>8, <1>9, <1>10, <1>11, <1>12, <1>13, <1>14, <1>15, <1>16
  DEF CallerStep

-------------------------------------------------------------------------------
\* The attempts of a call are among those a server may handle.
LEMMA AttemptHandled ==
  ASSUME DeadlineInv, CallsInv, ClientsGiven, NEW c \in Caller, call[c].stage # "idle",
         call[c].tries > 0
  PROVE  Attempt(c) \in Execution
<1> DEFINE r == call[c]
           o == conn[c].opt
           M == Cardinality({x[2] : x \in Execution})
<1>1. o \in OptionType /\ r.tries \in Nat /\ r.tries <= Allowed(o)
  BY StandsAt, CallParts DEF Standing
<1>2. PICK g \in Given : o = evaluateOptions(g)
  BY Begun DEF DeadlineInv, ConnKept, ClientsGiven
<1>3. M \in Nat /\ Execution = Caller \X (1 .. M)
      /\ \A h \in Given : \A n \in h.retry \cup {1} : n <= M
  BY PathAssumption, FS_CardinalityType
<1> HIDE DEF M
<1>4. 1 <= M
  BY <1>2, <1>3
<1>5. o.retryTimes = Parsed(g.retry)
  BY <1>2 DEF evaluateOptions, Optional, Timeout
<1>6. o.retryTimes > 1 => o.retryTimes \in g.retry
  BY <1>5 DEF Parsed
<1>7. o.retryTimes > 1 => o.retryTimes <= M
  BY <1>3, <1>6
<1>8. r.tries <= M
  BY <1>1, <1>3, <1>4, <1>7 DEF Allowed, OptionType
<1>9. r.tries \in 1 .. M
  BY <1>1, <1>3, <1>8
<1>10. QED
  BY <1>3, <1>9 DEF Attempt

\* An attempt that ends on a broken connection is one the call may be retried for, and
\* no other call's.
LEMMA BreakStands ==
  ASSUME PathInv, NEW c \in Caller, Break(c)
  PROVE  CallsInv' /\ ClientsGiven' /\ Serving'
<1> DEFINE r == call[c]
           o == conn[c].opt
           q == Up(r, Unavailable)
           x == Attempt(c)
<1>1. /\ r.stage = "sent" /\ Becomes(c, q) /\ broken' = broken \cup {x}
      /\ UNCHANGED <<reporter, journal, decider, exec>>
  BY DEF Break, AttemptEnds, serverVars
<1>2. /\ o \in OptionType /\ Standing(r, o) /\ Answered(c, r, exec, broken)
      /\ DOMAIN call = Caller /\ r \in CallRecords /\ r.at \in Nat
  BY <1>1, StandsAt DEF PathInv
<1>3. r.tries > 0 /\ r.tries \in Nat /\ r.at >= 1
  BY <1>1, <1>2, CallParts DEF Answered, Standing
<1>4. x \in Execution /\ x = <<c, r.tries>>
  BY <1>1, <1>3, AttemptHandled DEF PathInv, Attempt
<1> HIDE DEF x
<1>5. Serving'
  BY <1>1, <1>4 DEF PathInv, Serving, Reporting
<1>6. Unavailable \in Nat /\ Unavailable # OK
  BY DEF Unavailable, OK
<1>7. Standing(q, o)
  BY <1>1, <1>2, <1>3, <1>6, UpStands
<1>8. q.stage = "up" /\ q.tries = r.tries /\ q.code = Unavailable
  BY <1>2, <1>3, <1>6, UpTyped
<1> HIDE DEF q
<1>9. Answered(c, q, exec', broken')
  <2>1. Failed(<<c, q.tries>>, exec', broken')
    BY <1>1, <1>4, <1>8 DEF Failed
  <2>2. ASSUME NEW n \in Nat, <<c, n>> \in broken' PROVE n <= q.tries
    <3>1. CASE <<c, n>> \in broken
      BY <1>2, <1>8, <3>1 DEF Answered
    <3>2. CASE <<c, n>> = x
      BY <1>3, <1>4, <1>8, <3>2
    <3>3. QED
      BY <1>1, <2>2, <3>1, <3>2
  <2>3. QED
    BY <1>6, <1>8, <2>1, <2>2 DEF Answered
<1>10. ASSUME NEW d \in Caller, d # c
       PROVE  Standing(call'[d], conn'[d].opt) /\ Answered(d, call'[d], exec', broken')
  <2>1. call'[d] = call[d] /\ conn' = conn /\ exec' = exec
    BY <1>1, <1>2, <1>10 DEF Becomes
  <2>2. Standing(call[d], conn[d].opt) /\ Answered(d, call[d], exec, broken)
    BY DEF PathInv, CallsInv
  <2>3. call[d].tries \in Nat
    BY <2>2, CallParts DEF Standing
  <2>4. \A n \in Nat : <<d, n>> \in broken' <=> <<d, n>> \in broken
    BY <1>1, <1>4, <1>10
  <2>5. Answered(d, call[d], exec, broken')
    BY <2>2, <2>3, <2>4, OthersAnswer
  <2>6. QED
    BY <2>1, <2>2, <2>5
<1>11. call'[c] = q /\ conn' = conn
  BY <1>1, <1>2 DEF Becomes
<1>12. CallsInv'
  BY <1>7, <1>9, <1>10, <1>11 DEF CallsInv
<1>13. ClientsGiven'
  BY <1>11 DEF PathInv, ClientsGiven
<1>14. QED
  BY <1>5, <1>12, <1>13

\* An answer is that of the call's last attempt.
LEMMA AnswerStands ==
  ASSUME PathInv, NEW c \in Caller, Answer(c)
  PROVE  CallsInv'
<1> DEFINE r == call[c]
           o == conn[c].opt
           x == Attempt(c)
           code == SentCode(exec[x].outcome)
           q == Up(r, code)
<1>1. /\ r.stage = "sent" /\ Becomes(c, q) /\ exec[x].stage = "over"
      /\ UNCHANGED <<exec, broken>>
  BY DEF Answer, AttemptEnds, serverVars
<1>2. /\ o \in OptionType /\ Standing(r, o) /\ Answered(c, r, exec, broken)
      /\ DOMAIN call = Caller /\ r \in CallRecords /\ r.at \in Nat
  BY <1>1, StandsAt DEF PathInv
<1>3. r.tries > 0 /\ r.tries \in Nat /\ r.at >= 1 /\ <<c, r.tries>> \notin broken
  BY <1>1, <1>2, CallParts DEF Answered, Standing
<1>4. x \in Execution /\ x = <<c, r.tries>>
  BY <1>1, <1>3, AttemptHandled DEF PathInv, Attempt
<1> HIDE DEF x
<1>5. exec[x].outcome \in Error
  <2>1. exec[x] \in ExecRecords
    BY <1>4 DEF PathInv, Serving
  <2>2. exec[x].outcome \in Outcome \cup {OK}
    BY <2>1 DEF ExecRecords
  <2>3. OK \in Error /\ \A out \in Outcome : out \in Error
    BY PathAssumption DEF Error, OK
  <2>4. QED
    BY <2>2, <2>3
<1>6. /\ code \in Nat
      /\ code = OK => exec[x].outcome = OK
      /\ code = Unavailable => exec[x].outcome = Unavailable
  BY <1>5 DEF SentCode, CodeOf, Error, ContextErrors, EOF, RawCanceled, RawDeadline,
              OK, Unavailable, Unknown, Canceled, DeadlineExceeded
<1> HIDE DEF code
<1>7. Standing(q, o)
  BY <1>1, <1>2, <1>3, <1>6, UpStands
<1>8. q.stage = "up" /\ q.tries = r.tries /\ q.code = code
  BY <1>2, <1>3, <1>6, UpTyped
<1> HIDE DEF q
<1>9. /\ code = OK => Succeeded(<<c, r.tries>>, exec, broken)
      /\ code = Unavailable => Failed(<<c, r.tries>>, exec, broken)
  BY <1>1, <1>3, <1>4, <1>6 DEF Succeeded, Failed
<1>10. Answered(c, q, exec, broken)
  <2>1. \A n \in Nat : <<c, n>> \in broken => n <= q.tries
    BY <1>2, <1>8 DEF Answered
  <2>2. QED
    BY <1>3, <1>8, <1>9, <2>1 DEF Answered
<1>11. QED
  BY <1>1, <1>2, <1>7, <1>10, BecomesStands DEF PathInv

\* A new client and a call of it; the caller gives up.
LEMMA ClientBeginsStands ==
  ASSUME PathInv, NEW c \in Caller, ClientBegins(c)
  PROVE  CallsInv' /\ ClientsGiven'
<1>0. /\ UNCHANGED <<exec, broken>> /\ DeadlineInv /\ CallsInv /\ ClientsGiven
      /\ DOMAIN call = Caller
  BY DEF ClientBegins, serverVars, PathInv, DeadlineInv
<1>1. ASSUME NEW g \in Given, NewClient(c, g) PROVE CallsInv' /\ ClientsGiven'
  <2> DEFINE o == evaluateOptions(g)
             r == call[c]
  <2>1. o \in OptionType
    BY OptionsAreTyped
  <2>2. PICK state : conn' = [conn EXCEPT ![c] = [state |-> state, given |-> {g}, opt |-> o]]
    BY <1>1 DEF NewClient
  <2>3. conn[c].state = "none" /\ call' = call
    BY <1>1 DEF NewClient
  <2> HIDE DEF o
  <2>4. DOMAIN conn = Caller
    BY <1>0 DEF DeadlineInv
  <2>5. /\ conn'[c].opt = o /\ conn'[c].given = {g}
        /\ \A d \in Caller \ {c} : conn'[d] = conn[d]
    BY <2>2, <2>4
  <2>6. r.stage = "idle"
    BY <1>0, <2>3 DEF DeadlineInv, ConnKept
  <2>7. Standing(r, conn[c].opt) /\ Answered(c, r, exec, broken)
    BY <1>0 DEF CallsInv
  <2>8. r \in CallRecords /\ r.kind \in Kind /\ r.at = 0 /\ r.tries = 0 /\ r.logged = 0
    BY <2>6, <2>7, CallParts DEF Standing, Logged
  <2>9. Len(Chain(o, r.kind)) >= 1 /\ Len(Chain(o, r.kind)) \in Nat
    BY <2>1, <2>8, ChainLinks
  <2>10. Allowed(o) >= 1 /\ Allowed(o) \in Int
    BY <2>1 DEF Allowed, OptionType
  <2>11. Standing(r, o)
    BY <2>6, <2>8, <2>9, <2>10 DEF Standing, Logged
  <2>12. CallsInv'
    BY <1>0, <2>3, <2>5, <2>7, <2>11 DEF CallsInv
  <2>13. ClientsGiven'
    BY <1>0, <2>5 DEF ClientsGiven
  <2>14. QED
    BY <2>12, <2>13
<1>2. ASSUME NEW kind \in Kind, NEW method \in Method, Call(c, kind, method)
      PROVE  CallsInv' /\ ClientsGiven'
  <2> DEFINE r == call[c]
             o == conn[c].opt
             s == [r EXCEPT !.kind = kind, !.method = method]
             q == Down(s)
  <2>1. r.stage = "idle" /\ Becomes(c, q)
    BY <1>2 DEF Call
  <2>2. Standing(r, o) /\ Answered(c, r, exec, broken) /\ o \in OptionType
    BY <1>0 DEF CallsInv, DeadlineInv, ConnType
  <2>3. /\ r \in CallRecords /\ r.at = 0 /\ r.tries = 0 /\ r.logged = 0
        /\ DOMAIN r = CallFields
    BY <2>1, <2>2, CallParts DEF Standing, Logged
  <2>4. s \in CallRecords
    BY <2>3 DEF CallRecords
  <2>5. s.at = 0 /\ s.tries = 0 /\ s.logged = 0 /\ s.kind = kind
    BY <2>3 DEF CallFields, NoCall
  <2> HIDE DEF s
  <2>6. /\ q \in CallRecords /\ q.stage = "down" /\ q.at = 1 /\ q.tries = 0 /\ q.logged = 0
        /\ q.kind = kind
    BY <2>4, <2>5, DownTyped
  <2> HIDE DEF q
  <2>7. Len(Chain(o, kind)) >= 1 /\ Len(Chain(o, kind)) \in Nat
    BY <2>2, ChainLinks
  <2>8. Allowed(o) >= 1 /\ Allowed(o) \in Int
    BY <2>2 DEF Allowed, OptionType
  <2>9. Standing(q, o)
    BY <2>6, <2>7, <2>8 DEF Standing, Logged
  <2>10. Answered(c, q, exec, broken)
    BY <2>2, <2>3, <2>6, MoveAnswers
  <2>11. CallsInv'
    BY <1>0, <2>1, <2>9, <2>10, BecomesStands
  <2>12. QED
    BY <1>0, <2>1, <2>11 DEF Becomes, ClientsGiven
<1>3. CASE Cancel(c)
  <2> DEFINE r == call[c]
             o == conn[c].opt
             q == [r EXCEPT !.cancelled = TRUE]
  <2>1. Becomes(c, q)
    BY <1>3 DEF Cancel
  <2>2. Standing(r, o) /\ Answered(c, r, exec, broken)
    BY <1>0 DEF CallsInv
  <2>3. r \in CallRecords /\ DOMAIN r = CallFields
    BY <2>2, CallParts DEF Standing
  <2>4. q \in CallRecords
    BY <2>3 DEF CallRecords
  <2>5. /\ q.stage = r.stage /\ q.at = r.at /\ q.kind = r.kind /\ q.tries = r.tries
        /\ q.logged = r.logged /\ q.code = r.code
    BY <2>3 DEF CallFields, NoCall
  <2> HIDE DEF q
  <2>6. Standing(q, o) /\ Answered(c, q, exec, broken)
    BY <2>2, <2>4, <2>5, TimersStand, MoveAnswers
  <2>7. CallsInv'
    BY <1>0, <2>1, <2>6, BecomesStands
  <2>8. QED
    BY <1>0, <2>1, <2>7 DEF Becomes, ClientsGiven
<1>4. QED
  BY <1>1, <1>2, <1>3 DEF ClientBegins

\* Closing a connection changes no options.
LEMMA CloseConnsStands ==
  ASSUME PathInv, CloseConns, UNCHANGED <<exec, broken>>
  PROVE  CallsInv' /\ ClientsGiven'
<1>1. call' = call /\ exec' = exec /\ broken' = broken
  BY DEF CloseConns
<1>2. ASSUME NEW c \in Caller
      PROVE  /\ conn'[c].opt = conn[c].opt /\ conn'[c].given = conn[c].given
             /\ conn'[c].state # "none" => conn[c].state # "none"
  <2>1. conn'[c] = IF conn[c].state = "open" THEN [conn[c] EXCEPT !.state = "closed"]
                   ELSE conn[c]
    BY DEF CloseConns
  <2>2. conn[c] \in ConnType
    BY DEF PathInv, DeadlineInv
  <2>3. QED
    BY <2>1, <2>2 DEF ConnType
<1>3. CallsInv'
  BY <1>1, <1>2 DEF PathInv, CallsInv
<1>4. ClientsGiven'
  BY <1>2 DEF PathInv, ClientsGiven
<1>5. QED
  BY <1>3, <1>4

\* Time moves no call.
LEMMA TickStands ==
  ASSUME PathInv, Tick, UNCHANGED <<exec, broken>>
  PROVE  CallsInv' /\ ClientsGiven'
<1>1. conn' = conn /\ exec' = exec /\ broken' = broken
  BY DEF Tick
<1>2. ASSUME NEW c \in Caller
      PROVE  Standing(call'[c], conn[c].opt) /\ Answered(c, call'[c], exec, broken)
  <2> DEFINE r == call[c]
             q == call'[c]
             elapsed == IF r.elapsed < MaxElapsed THEN r.elapsed + 1 ELSE r.elapsed
  <2>1. Standing(r, conn[c].opt) /\ Answered(c, r, exec, broken)
    BY DEF PathInv, CallsInv
  <2>2. CASE ~Waiting(r)
    BY <2>1, <2>2 DEF Tick
  <2>3. CASE Waiting(r)
    <3>1. q = [r EXCEPT !.left = RunDown(r.left), !.wait = RunDown(r.wait),
                        !.elapsed = elapsed]
      BY <2>3 DEF Tick
    <3>2. /\ r \in CallRecords /\ r.left \in Nat \cup {NoDeadline} /\ r.wait \in 0 .. Backoff
          /\ r.elapsed \in 0 .. MaxElapsed /\ DOMAIN r = CallFields
      BY <2>1, CallParts DEF Standing
    <3>3. /\ RunDown(r.left) \in Nat \cup {NoDeadline} /\ RunDown(r.wait) \in 0 .. Backoff
          /\ elapsed \in 0 .. MaxElapsed
      BY <3>2, ClientAssumption DEF RunDown, NoDeadline
    <3> HIDE DEF elapsed
    <3>4. q \in CallRecords
      BY <3>1, <3>2, <3>3 DEF CallRecords
    <3>5. /\ q.stage = r.stage /\ q.at = r.at /\ q.kind = r.kind /\ q.tries = r.tries
          /\ q.logged = r.logged /\ q.code = r.code
      BY <3>1, <3>2 DEF CallFields, NoCall
    <3> HIDE DEF q
    <3>6. Standing(q, conn[c].opt) /\ Answered(c, q, exec, broken)
      BY <2>1, <3>4, <3>5, TimersStand, MoveAnswers
    <3>7. QED
      BY <3>6 DEF q
  <2>4. QED
    BY <2>2, <2>3
<1>3. CallsInv'
  BY <1>1, <1>2 DEF CallsInv
<1>4. ClientsGiven'
  BY <1>1 DEF PathInv, ClientsGiven
<1>5. QED
  BY <1>3, <1>4

\* What a server does for a call takes nothing back from it.
LEMMA ServerLeavesCalls ==
  ASSUME PathInv, UNCHANGED <<conn, call, broken>>, OverKept
  PROVE  CallsInv' /\ ClientsGiven'
<1>1. conn' = conn /\ call' = call /\ broken' = broken
  OBVIOUS
<1>2. ASSUME NEW c \in Caller
      PROVE  Standing(call[c], conn[c].opt) /\ Answered(c, call[c], exec', broken)
  <2> DEFINE r == call[c]
             x == <<c, r.tries>>
  <2>1. Standing(r, conn[c].opt) /\ Answered(c, r, exec, broken)
    BY DEF PathInv, CallsInv
  <2>2. r.tries > 0 /\ r.stage # "idle" => x \in Execution
    BY AttemptHandled DEF PathInv, Attempt
  <2>3. exec[x].stage = "over" /\ x \in Execution =>
          exec'[x].stage = "over" /\ exec'[x].outcome = exec[x].outcome
    BY DEF OverKept
  <2>4. x \in Execution =>
          /\ Succeeded(x, exec, broken) => Succeeded(x, exec', broken)
          /\ Failed(x, exec, broken) => Failed(x, exec', broken)
    BY <2>3 DEF Succeeded, Failed
  <2>5. /\ r.stage \in {"up", "done"} /\ r.code = OK =>
             r.tries > 0 /\ Succeeded(x, exec', broken)
        /\ (r.stage = "up" /\ r.code = Unavailable) \/ r.stage \in {"down", "backoff"} =>
             (r.tries > 0 => Failed(x, exec', broken))
        /\ r.stage = "sent" => r.tries > 0 /\ x \notin broken
        /\ \A n \in Nat : <<c, n>> \in broken => n <= r.tries
    BY <2>1, <2>2, <2>4 DEF Answered
  <2>6. Answered(c, r, exec', broken)
    BY <2>5 DEF Answered
  <2>7. QED
    BY <2>1, <2>6
<1>3. CallsInv'
  BY <1>1, <1>2 DEF CallsInv
<1>4. ClientsGiven'
  BY <1>1 DEF PathInv, ClientsGiven
<1>5. QED
  BY <1>3, <1>4

-------------------------------------------------------------------------------
\* The invariant holds to begin with.
LEMMA PathInvInit == Init => PathInv
<1> SUFFICES ASSUME Init PROVE PathInv
  OBVIOUS
<1>1. DeadlineInv
  BY DeadlineInvInit
<1>2. \A c \in Caller : call[c] = NoCall /\ conn[c].state = "none" /\ conn[c].opt = NoOptions
  BY DEF Init, ClientInit
<1>3. exec = [x \in Execution |-> NotArrived] /\ broken = {} /\ decider \in Decider
  BY DEF Init
<1>4. NotArrived \in ExecRecords
  BY PathAssumption DEF NotArrived, ExecRecords, Kind
<1>5. Reporting
  <2>1. NewReporter("api", DefaultDecider) \in ReporterRecords
    BY NewReporterTyped DEF Method
  <2>2. <<>> \in Seq(LineRecords)
    OBVIOUS
  <2>3. QED
    BY <2>1, <2>2 DEF Init, ReporterInit, Reporting
<1>6. Serving
  BY <1>3, <1>4, <1>5 DEF Serving
<1>7. NoOptions \in OptionType /\ ~NoOptions.logger /\ ~NoOptions.pool
      /\ NoOptions.retryTimes = 0
  BY DEF NoOptions, OptionType
<1>8. NoCall \in CallRecords
  BY ClientAssumption DEF NoCall, CallRecords, Kind, Method, OK
<1>9. NoCall.at = 0 /\ NoCall.tries = 0 /\ NoCall.logged = 0 /\ NoCall.stage = "idle"
      /\ NoCall.kind \in Kind
  BY DEF NoCall, Kind
<1>10. Standing(NoCall, NoOptions)
  <2>1. Len(Chain(NoOptions, NoCall.kind)) \in Nat
    BY <1>7, <1>9, ChainLinks
  <2>2. Allowed(NoOptions) = 1
    BY <1>7 DEF Allowed
  <2>3. QED
    BY <1>7, <1>8, <1>9, <2>1, <2>2 DEF Standing, Logged
<1>11. ASSUME NEW c \in Caller PROVE Answered(c, NoCall, exec, broken)
  BY <1>3, <1>9 DEF Answered
<1>12. CallsInv
  BY <1>2, <1>10, <1>11 DEF CallsInv
<1>13. ClientsGiven
  BY <1>2 DEF ClientsGiven
<1>14. QED
  BY <1>1, <1>6, <1>12, <1>13 DEF PathInv

\* And is kept by every step.
LEMMA PathInvStep == PathInv /\ [Next]_vars => PathInv'
<1> SUFFICES ASSUME PathInv, [Next]_vars PROVE PathInv'
  OBVIOUS
<1>1. DeadlineInv'
  BY DeadlineInvStep DEF PathInv
<1>2. \A c \in Caller : call[c] \in CallRecords
  BY DEF PathInv, CallsInv, Standing
<1>3. ASSUME UNCHANGED <<serverVars, broken>> PROVE Serving' /\ UNCHANGED <<exec, broken>>
  BY <1>3 DEF PathInv, Serving, Reporting, serverVars
<1>4. ASSUME NEW c \in Caller, ClientBegins(c) PROVE PathInv'
  BY <1>1, <1>3, <1>4, ClientBeginsStands DEF ClientBegins, PathInv
<1>5. ASSUME NEW c \in Caller, ClientStep(c) PROVE PathInv'
  <2>1. CallerStep(c) /\ UNCHANGED <<serverVars, broken>>
    BY <1>5 DEF ClientStep
  <2>2. CallsInv'
    BY <1>3, <2>1, CallerStepStands DEF PathInv
  <2>3. UNCHANGED conn
    BY <2>1 DEF CallerStep, WalkDown, StartTimer, EnterRetry, Trace, Send, AttemptExpires,
                WalkUp, TraceEnds, LogFinished, StopTimer, Retry, BackoffEnds, Return, Becomes
  <2>4. ClientsGiven'
    BY <2>3 DEF PathInv, ClientsGiven
  <2>5. QED
    BY <1>1, <1>3, <2>1, <2>2, <2>4 DEF PathInv
<1>6. ASSUME NEW c \in Caller, Break(c) PROVE PathInv'
  BY <1>1, <1>6, BreakStands DEF PathInv
<1>7. ASSUME NEW c \in Caller, Answer(c) PROVE PathInv'
  <2>1. UNCHANGED conn /\ UNCHANGED <<serverVars, broken>>
    BY <1>7 DEF Answer, AttemptEnds, Becomes
  <2>2. ClientsGiven'
    BY <2>1 DEF PathInv, ClientsGiven
  <2>3. QED
    BY <1>1, <1>3, <1>7, <2>1, <2>2, AnswerStands DEF PathInv
<1>8. CASE Exit
  BY <1>1, <1>3, <1>8, CloseConnsStands DEF Exit, PathInv
<1>9. CASE TimePasses
  BY <1>1, <1>3, <1>9, TickStands DEF TimePasses, PathInv
<1>10. ASSUME NEW x \in Execution,
              \/ Arrive(x) \/ Sends(x) \/ StreamReturns(x) \/ ServerStep(x)
              \/ \E d \in Direction : StreamCallback(x, d)
       PROVE  PathInv'
  <2>1. Serving' /\ OverKept
    BY <1>2, <1>10, ServerServes DEF PathInv
  <2>2. UNCHANGED <<conn, call, broken>>
    BY <1>10 DEF Arrive, Sends, StreamReturns, ServerStep, StreamCallback, Receives, Received,
                 Sent, Closes, StreamCallbackEnds, ServerOnly
  <2>3. QED
    BY <1>1, <2>1, <2>2, ServerLeavesCalls DEF PathInv
<1>11. CASE UNCHANGED vars
  <2>1. UNCHANGED <<conn, call>> /\ UNCHANGED <<serverVars, broken>>
    BY <1>11 DEF vars, serverVars
  <2>2. CallsInv' /\ ClientsGiven'
    BY <1>3, <2>1 DEF PathInv, CallsInv, ClientsGiven
  <2>3. QED
    BY <1>1, <1>3, <2>1, <2>2 DEF PathInv
<1>12. QED
  BY <1>4, <1>5, <1>6, <1>7, <1>8, <1>9, <1>10, <1>11 DEF Next

\* In every behaviour.
THEOREM PathInvariance == Spec => []PathInv
<1>1. Init => PathInv
  BY PathInvInit
<1>2. PathInv /\ [Next]_vars => PathInv'
  BY PathInvStep
<1>3. QED
  BY <1>1, <1>2, PTL DEF Spec

\* Every variable has its type, and no call makes more attempts than its options allow,
\* for any clients, servers and bounds.
THEOREM TypeCorrect == Spec => []TypeOK
<1>1. PathInv => TypeOK
  <2> SUFFICES ASSUME PathInv PROVE TypeOK
    OBVIOUS
  <2>1. ASSUME NEW c \in Caller
        PROVE  /\ conn[c].state \in {"none", "refused", "open", "pooled", "closed"}
               /\ call[c] \in CallRecords /\ call[c].at <= Len(ChainOf(c))
               /\ call[c].tries <= Allowed(conn[c].opt)
    BY DEF PathInv, DeadlineInv, ConnType, CallsInv, Standing, ChainOf
  <2>2. ClientTypeOK
    BY <2>1 DEF ClientTypeOK, Allowed
  <2>3. ReporterTypeOK
    BY ReportingImplies DEF PathInv, Serving
  <2>4. QED
    BY <2>2, <2>3 DEF TypeOK, PathInv, Serving, ExecRecords
<1>2. QED
  BY <1>1, PathInvariance, PTL

\* A call is one line in the log of a client that has a logger, however often it was
\* tried and wherever it turned, and none of another's.
THEOREM LoggedOncePerCall == Spec => []ClientLoggedOnce
<1>1. PathInv => ClientLoggedOnce
  <2> SUFFICES ASSUME PathInv, NEW c \in Caller, NEW g \in conn[c].given,
                      call[c].stage = "done"
               PROVE  call[c].logged = IF g.logger /\ ~g.pool THEN 1 ELSE 0
    BY DEF ClientLoggedOnce
  <2>1. /\ conn[c].given = {g} /\ conn[c].opt = evaluateOptions(g)
        /\ Standing(call[c], conn[c].opt)
    BY DEF PathInv, DeadlineInv, ConnKept, CallsInv
  <2>2. conn[c].opt.logger = g.logger /\ conn[c].opt.pool = g.pool
    BY <2>1 DEF evaluateOptions, Optional, Timeout
  <2>3. QED
    BY <2>1, <2>2 DEF Standing, Logged
<1>2. QED
  BY <1>1, PathInvariance, PTL

\* A call that succeeded was handled with success by its last attempt, and the answer of
\* that attempt was not lost.
THEOREM NilIsHandled == Spec => []NilMeansHandled
<1>1. PathInv => NilMeansHandled
  BY DEF PathInv, CallsInv, Answered, Succeeded, NilMeansHandled, Attempt
<1>2. QED
  BY <1>1, PathInvariance, PTL

-------------------------------------------------------------------------------
\* A goroutine makes an attempt only when it sends one.
LEMMA OnlySendsTry ==
  ASSUME NEW c \in Caller, DOMAIN call = Caller, call[c] \in CallRecords, CallerStep(c),
         ~(Send(c) /\ MaySend(c))
  PROVE  call'[c].tries = call[c].tries
<1> DEFINE r == call[c]
<1>1. DOMAIN r = CallFields
  BY CallParts
<1>2. ASSUME NEW q, DOMAIN q = CallFields, q.tries = r.tries, NEW code,
             Becomes(c, Down(q)) \/ Becomes(c, Up(q, code))
      PROVE  call'[c].tries = r.tries
  <2>1. Down(q).tries = q.tries /\ Up(q, code).tries = q.tries
    BY <1>2 DEF Down, Up, CallFields, NoCall
  <2>2. QED
    BY <1>2, <2>1 DEF Becomes
<1>3. CASE \/ WalkDown(c) \/ EnterRetry(c) \/ Trace(c) \/ Send(c) \/ AttemptExpires(c)
           \/ WalkUp(c) \/ TraceEnds(c)
  <2>1. \E code : Becomes(c, Down(r)) \/ Becomes(c, Up(r, code))
    BY <1>3 DEF WalkDown, EnterRetry, Trace, Send, AttemptExpires, WalkUp, TraceEnds
  <2>2. QED
    BY <1>1, <1>2, <2>1
<1>4. CASE StartTimer(c)
  <2> DEFINE q == [r EXCEPT !.left = Sooner(@, conn[c].opt.timeout)]
  <2>1. DOMAIN q = CallFields /\ q.tries = r.tries
    BY <1>1 DEF CallFields, NoCall
  <2>2. QED
    BY <1>2, <1>4, <2>1 DEF StartTimer
<1>5. CASE LogFinished(c)
  <2> DEFINE q == [r EXCEPT !.logged = @ + 1]
  <2>1. DOMAIN q = CallFields /\ q.tries = r.tries
    BY <1>1 DEF CallFields, NoCall
  <2>2. QED
    BY <1>2, <1>5, <2>1 DEF LogFinished
<1>6. CASE StopTimer(c)
  <2> DEFINE q == [r EXCEPT !.left = NoDeadline]
  <2>1. DOMAIN q = CallFields /\ q.tries = r.tries
    BY <1>1 DEF CallFields, NoCall
  <2>2. QED
    BY <1>2, <1>6, <2>1 DEF StopTimer
<1>7. CASE Retry(c)
  <2> DEFINE q == [r EXCEPT !.stage = "backoff", !.wait = Backoff]
  <2>1. q.tries = r.tries
    BY <1>1 DEF CallFields, NoCall
  <2>2. Becomes(c, q) \/ Becomes(c, Up(r, r.code))
    BY <1>7 DEF Retry
  <2>3. CASE Becomes(c, q)
    BY <2>1, <2>3 DEF Becomes
  <2>4. CASE Becomes(c, Up(r, r.code))
    BY <1>1, <1>2, <2>4
  <2>5. QED
    BY <2>2, <2>3, <2>4
<1>8. CASE BackoffEnds(c)
  <2> DEFINE q == [r EXCEPT !.wait = 0]
  <2>1. DOMAIN q = CallFields /\ q.tries = r.tries
    BY <1>1 DEF CallFields, NoCall
  <2>2. Becomes(c, Down(r)) \/ Becomes(c, Up(q, ContextCode(r)))
    BY <1>8 DEF BackoffEnds
  <2>3. QED
    BY <1>1, <1>2, <2>1, <2>2
<1>9. CASE Return(c)
  <2> DEFINE q == [r EXCEPT !.stage = "done"]
  <2>1. q.tries = r.tries
    BY <1>1 DEF CallFields, NoCall
  <2>2. QED
    BY <1>9, <2>1 DEF Return, Becomes
<1>10. QED
  BY <1>3, <1>4, <1>5, <1>6, <1>7, <1>8, <1>9 DEF CallerStep

\* No other step makes one.
LEMMA OthersDoNotTry ==
  ASSUME PathInv, [Next]_vars, NEW c \in Caller, call'[c].tries > call[c].tries
  PROVE  Send(c) /\ MaySend(c)
<1>1. /\ DOMAIN call = Caller /\ call[c] \in CallRecords /\ DOMAIN call[c] = CallFields
      /\ call[c].tries \in Nat
  BY CallParts DEF PathInv, DeadlineInv, CallsInv, Standing
<1>2. call'[c].tries # call[c].tries
  BY <1>1
<1>3. call'[c] # call[c]
  BY <1>2
<1>4. ASSUME NEW d \in Caller, NEW q, Becomes(d, q)
      PROVE  d = c /\ call'[c] = q
  BY <1>1, <1>3, <1>4 DEF Becomes
<1>5. ASSUME NEW d \in Caller, ClientBegins(d) PROVE FALSE
  <2>1. ASSUME NEW g \in Given, NewClient(d, g) PROVE FALSE
    BY <1>3, <2>1 DEF NewClient
  <2>2. ASSUME NEW kind, NEW method, Call(d, kind, method) PROVE FALSE
    <3> DEFINE s == [call[d] EXCEPT !.kind = kind, !.method = method]
    <3>1. d = c /\ call'[c] = Down(s)
      BY <1>4, <2>2 DEF Call
    <3>2. DOMAIN s = CallFields /\ s.tries = call[c].tries
      BY <1>1, <3>1 DEF CallFields, NoCall
    <3> HIDE DEF s
    <3>3. Down(s).tries = s.tries
      BY <3>2 DEF Down, CallFields, NoCall
    <3>4. QED
      BY <1>2, <3>1, <3>2, <3>3
  <2>3. ASSUME Cancel(d) PROVE FALSE
    <3>1. d = c /\ call'[c] = [call[d] EXCEPT !.cancelled = TRUE]
      BY <1>4, <2>3 DEF Cancel
    <3>2. call'[c].tries = call[c].tries
      BY <1>1, <3>1 DEF CallFields, NoCall
    <3>3. QED
      BY <1>2, <3>2
  <2>4. QED
    BY <1>5, <2>1, <2>2, <2>3 DEF ClientBegins
<1>6. ASSUME NEW d \in Caller, CallerStep(d) PROVE Send(c) /\ MaySend(c)
  <2>1. \E q : Becomes(d, q)
    BY <1>6 DEF CallerStep, WalkDown, StartTimer, EnterRetry, Trace, Send, AttemptExpires,
                WalkUp, TraceEnds, LogFinished, StopTimer, Retry, BackoffEnds, Return
  <2>2. d = c
    BY <1>4, <2>1
  <2>3. QED
    BY <1>1, <1>2, <1>6, <2>2, OnlySendsTry
<1>7. ASSUME NEW d \in Caller, NEW code, AttemptEnds(d, code) PROVE FALSE
  <2>1. d = c /\ call'[c] = Up(call[c], code)
    BY <1>4, <1>7 DEF AttemptEnds
  <2>2. Up(call[c], code).tries = call[c].tries
    BY <1>1 DEF Up, CallFields, NoCall
  <2>3. QED
    BY <1>2, <2>1, <2>2
<1>8. ASSUME Tick PROVE FALSE
  <2>1. call'[c].tries = call[c].tries
    BY <1>1, <1>8 DEF Tick, CallFields, NoCall
  <2>2. QED
    BY <1>2, <2>1
<1>9. CASE \E d \in Caller : ClientBegins(d) \/ ClientStep(d) \/ Break(d) \/ Answer(d)
  BY <1>5, <1>6, <1>7, <1>9 DEF ClientStep, Break, Answer
<1>10. CASE TimePasses
  BY <1>8, <1>10 DEF TimePasses
<1>11. CASE Exit
  BY <1>3, <1>11 DEF Exit, CloseConns
<1>12. ASSUME NEW x \in Execution,
              \/ Arrive(x) \/ Sends(x) \/ StreamReturns(x) \/ ServerStep(x)
              \/ \E d \in Direction : StreamCallback(x, d)
       PROVE  FALSE
  BY <1>3, <1>12 DEF Arrive, Sends, StreamReturns, ServerStep, StreamCallback, Receives,
                     Received, Sent, Closes, StreamCallbackEnds, ServerOnly
<1>13. CASE UNCHANGED vars
  BY <1>3, <1>13 DEF vars
<1>14. QED
  BY <1>9, <1>10, <1>11, <1>12, <1>13 DEF Next

\* A call is tried again only if its attempt before was answered Unavailable or broke
\* off, and never when its context is done or its connection closed.
THEOREM RetriesAreJustified == Spec => RetriedWhenUnavailable
<1> DEFINE Justified ==
      \A c \in Caller :
        call'[c].tries > call[c].tries =>
          /\ ~ContextDone(call[c]) /\ conn[c].state \in {"open", "pooled"}
          /\ call[c].tries > 0 =>
               \/ Attempt(c) \in broken
               \/ exec[Attempt(c)].stage = "over" /\ exec[Attempt(c)].outcome = Unavailable
<1>1. PathInv /\ [Next]_vars => Justified
  <2> SUFFICES ASSUME PathInv, [Next]_vars, NEW c \in Caller, call'[c].tries > call[c].tries
               PROVE  /\ ~ContextDone(call[c]) /\ conn[c].state \in {"open", "pooled"}
                      /\ call[c].tries > 0 => Failed(Attempt(c), exec, broken)
    BY DEF Failed
  <2>1. Send(c) /\ MaySend(c)
    BY OthersDoNotTry
  <2>2. call[c].stage = "down" /\ conn[c].state # "closed" /\ ~ContextDone(call[c])
    BY <2>1 DEF Send, At, MaySend
  <2>3. conn[c].state \notin {"none", "refused"} /\ conn[c] \in ConnType
    BY <2>2 DEF PathInv, DeadlineInv, ConnKept
  <2>4. conn[c].state \in {"open", "pooled"}
    BY <2>2, <2>3 DEF ConnType
  <2>5. call[c].tries > 0 => Failed(<<c, call[c].tries>>, exec, broken)
    BY <2>2 DEF PathInv, CallsInv, Answered
  <2>6. QED
    BY <2>2, <2>4, <2>5 DEF Attempt
<1>2. QED
  BY <1>1, PathInvariance, PTL DEF Spec, RetriedWhenUnavailable

-------------------------------------------------------------------------------
\* The lines of some writers in a journal, and the statuses its started lines have.
Places(j, writers) == {i \in 1 .. Len(j) : j[i].by \in writers}
Statuses(j) == {j[i].status : i \in Places(j, Direction)}

\* A call may be a stream only if it is none of the health service's.
HealthIsUnary == \A c \in Caller : call[c].method = "health" => call[c].kind = "unary"

\* The contents that are asked for: of a request, and of a whole call.
OfRequest(D) == {d \in Direction : d = "receive" /\ D.request}
OfCall(e, D) ==
  {d \in Direction : \/ d = "receive" /\ D.request
                     \/ d = "send" /\ D.response /\ e.outcome = OK}
Asks(e, r, D) ==
  /\ r.method # "health"
  /\ (IF e.outcome = OK THEN D.events ELSE D.onError) = "FinishCall"

\* An attempt that has arrived has its reporter, with the server's decider.
Opened(e, r, j, D) ==
  IF e.stage = "none" THEN e.kind = "unary" /\ j = <<>>
  ELSE r.decider = D /\ (r.method = "health" => e.kind = "unary")

\* The flag tells of a started line; and unless two callbacks have met, one that
\* goes on has not been preceded by any.
Flagged(r, j) ==
  /\ Places(j, Direction) # {} => r.startCallLogged
  /\ ~r.met =>
       /\ \A d \in Direction :
            r.callback[d].busy =>
              ~r.startCallLogged /\ \A other \in Direction : r.callback[other].busy => other = d
       /\ \A i, k \in Places(j, Direction) : i = k

\* A status was injected by a started line, until the call is over.
Seen(e, r, j) ==
  e.stage # "over" =>
    /\ r.ctx.status \in {OK} \cup Statuses(j)
    /\ \A d \in Direction : r.callback[d].saw.status \in {OK} \cup Statuses(j)

\* How far a unary call has come, its reporter knows.
InTurn(e, r, j, D) ==
  e.kind = "unary" /\ e.stage # "none" =>
    /\ ~r.met
    /\ ~r.callback["receive"].busy \/ e.stage = "receiving"
    /\ ~r.callback["send"].busy \/ e.stage = "sending"
    /\ e.stage \in {"arrived", "receiving"} => r.ctx = NoContext /\ ~r.startCallLogged
    /\ e.stage = "receiving" =>
         r.callback["receive"] = [busy |-> TRUE, saw |-> NoContext, err |-> OK]
    /\ e.stage \notin {"arrived", "receiving"} /\ r.method = "health" => Places(j, Direction) # {}
    /\ e.stage \in {"handling", "sending"} /\ r.method # "health" =>
         r.ctx.contents = OfRequest(D) /\ (r.startCallLogged => D.events = "StartCall")
    /\ e.stage = "sending" =>
         IF r.callback["send"].busy
         THEN r.callback["send"].saw = r.ctx /\ r.callback["send"].err = e.outcome
         ELSE r.startCallLogged
    /\ e.stage = "closing" /\ Asks(e, r, D) => r.ctx.contents = OfCall(e, D)

\* The finished line.
Ended(e, r, j, D) ==
  LET earlier == Statuses(j) \ {OK}
      status == IF e.outcome \in {OK, EOF} THEN {OK} \cup earlier ELSE {CodeOf(e.outcome)}
  IN  IF e.stage = "over" /\ Asks(e, r, D)
      THEN \E i \in Places(j, {"call"}) :
             /\ Places(j, {"call"}) = {i} /\ j[i].status \in status
             /\ e.kind = "unary" => j[i].contents = OfCall(e, D)
      ELSE Places(j, {"call"}) = {}

Logs(e, r, j, D) ==
  /\ Opened(e, r, j, D) /\ Flagged(r, j) /\ Seen(e, r, j)
  /\ InTurn(e, r, j, D) /\ Ended(e, r, j, D)

LogInv ==
  /\ PathInv /\ HealthIsUnary
  /\ \A x \in Execution : Logs(exec[x], reporter[x], journal[x], decider)

-------------------------------------------------------------------------------
\* A line more in a journal: where it stands, and where it counts.
Lengthened(j, line, writers) ==
  /\ Append(j, line) \in Seq(LineRecords) /\ Len(Append(j, line)) = Len(j) + 1
  /\ Append(j, line)[Len(j) + 1] = line /\ \A i \in 1 .. Len(j) : Append(j, line)[i] = j[i]
  /\ Len(j) + 1 \notin Places(j, writers)
  /\ \A i \in Places(j, writers) : Append(j, line)[i] = j[i]
  /\ line.by \in writers => Places(Append(j, line), writers) = Places(j, writers) \cup {Len(j) + 1}
  /\ line.by \notin writers => Places(Append(j, line), writers) = Places(j, writers)

LEMMA OneMore ==
  ASSUME NEW j \in Seq(LineRecords), NEW line \in LineRecords, NEW writers
  PROVE  Lengthened(j, line, writers)
<1> DEFINE k == Append(j, line)
<1>1. Len(j) \in Nat
  OBVIOUS
<1>2. /\ k \in Seq(LineRecords) /\ Len(k) = Len(j) + 1
      /\ k[Len(j) + 1] = line /\ \A i \in 1 .. Len(j) : k[i] = j[i]
  OBVIOUS
<1> HIDE DEF k
<1>3. /\ Len(j) + 1 \notin Places(j, writers)
      /\ \A i \in Places(j, writers) : k[i] = j[i]
  BY <1>1, <1>2 DEF Places
<1>4. /\ line.by \in writers => Places(k, writers) = Places(j, writers) \cup {Len(j) + 1}
      /\ line.by \notin writers => Places(k, writers) = Places(j, writers)
  BY <1>1, <1>2 DEF Places
<1>5. QED
  BY <1>2, <1>3, <1>4 DEF k, Lengthened

\* Its status is one more if it is a started line.
LEMMA OneStatusMore ==
  ASSUME NEW j \in Seq(LineRecords), NEW line \in LineRecords, NEW s
  PROVE  s \in Statuses(Append(j, line)) <=>
           s \in Statuses(j) \/ (line.by \in Direction /\ s = line.status)
<1> DEFINE k == Append(j, line)
<1>0. Lengthened(j, line, Direction)
  BY OneMore
<1>1. k[Len(j) + 1] = line /\ \A i \in Places(j, Direction) : k[i] = j[i]
  BY <1>0 DEF Lengthened
<1>2. Places(k, Direction) = IF line.by \in Direction
                             THEN Places(j, Direction) \cup {Len(j) + 1}
                             ELSE Places(j, Direction)
  BY <1>0 DEF Lengthened
<1> HIDE DEF k
<1>3. s \in Statuses(k) <=> \E i \in Places(k, Direction) : s = k[i].status
  BY DEF Statuses
<1>4. s \in Statuses(j) <=> \E i \in Places(j, Direction) : s = j[i].status
  BY DEF Statuses
<1>5. QED
  BY <1>1, <1>2, <1>3, <1>4 DEF k

\* What a callback that begins does to its reporter.
BeginsAs(r, q, d, err) ==
  IF r.startCallLogged THEN q = r
  ELSE /\ q.method = r.method /\ q.decider = r.decider /\ q.ctx = r.ctx /\ ~q.startCallLogged
       /\ q.callback[d] = [busy |-> TRUE, saw |-> r.ctx, err |-> err]
       /\ \A other \in Direction \ {d} : q.callback[other] = r.callback[other]
       /\ q.met = (r.met \/ \E other \in Direction : r.callback[other].busy)

LEMMA PostMsgDoes ==
  ASSUME Reporting, NEW x \in Execution, NEW d \in Direction, NEW err, PostMsg(x, d, err)
  PROVE  /\ BeginsAs(reporter[x], reporter'[x], d, err)
         /\ ~reporter[x].callback[d].busy /\ journal' = journal
         /\ \A y \in Execution \ {x} : reporter'[y] = reporter[y]
<1>1. reporter[x] \in ReporterRecords /\ DOMAIN reporter = Execution
  BY DEF Reporting
<1>2. QED
  BY <1>1 DEF PostMsg, BeginsAs, Busy, ReporterRecords

\* And what one that ends does.
EndsAs(r, q, j, k, d) ==
  /\ q.method = r.method /\ q.decider = r.decider /\ q.met = r.met
  /\ q.callback[d] = Idle
  /\ \A other \in Direction \ {d} : q.callback[other] = r.callback[other]
  /\ r.callback[d].saw = r.ctx =>
       q.ctx.contents = r.ctx.contents
                          \cup Contents(d, r.callback[d].err, shouldLog(r, r.callback[d].err))
  /\ IF shouldLog(r, r.callback[d].err).event = "StartCall"
     THEN /\ q.startCallLogged
          /\ \E line \in LineRecords :
               /\ line.by = d /\ k = Append(j, line)
               /\ q.ctx.status \in {r.ctx.status, line.status}
     ELSE /\ q.startCallLogged = r.startCallLogged /\ k = j
          /\ q.ctx.status \in {r.ctx.status, r.callback[d].saw.status}

LEMMA PostMsgEndsDoes ==
  ASSUME Reporting, NEW x \in Execution, NEW d \in Direction, PostMsgEnds(x, d)
  PROVE  /\ EndsAs(reporter[x], reporter'[x], journal[x], journal'[x], d)
         /\ reporter[x].callback[d].busy
         /\ \A y \in Execution \ {x} : reporter'[y] = reporter[y] /\ journal'[y] = journal[y]
<1> DEFINE r == reporter[x]
           j == journal[x]
           err == r.callback[d].err
           saw == r.callback[d].saw
           decision == shouldLog(r, err)
           idle == [r EXCEPT !.callback[d] = Idle]
           more == Contents(d, err, decision)
<1>1. /\ r \in ReporterRecords /\ r.callback[d] \in CallbackRecords /\ r.ctx \in Contexts
      /\ DOMAIN reporter = Execution /\ DOMAIN journal = Execution
  BY DEF Reporting, ReporterRecords
<1>2. err \in Error /\ saw \in Contexts
  BY <1>1 DEF CallbackRecords
<1>3. more \in SUBSET Direction
  BY DEF Contents
<1>4. PICK base \in {saw, r.ctx} :
        LET ctx == [base EXCEPT !.contents = @ \cup more]
            logged == WithStatus(ctx, err)
        IN  IF decision.event = "StartCall"
            THEN /\ reporter' = [reporter EXCEPT ![x] =
                      [idle EXCEPT !.startCallLogged = Started(r),
                                   !.ctx = IF logged = base THEN r.ctx ELSE logged]]
                 /\ journal' = [journal EXCEPT ![x] = Append(@, Line(d, err, logged))]
            ELSE /\ reporter' = [reporter EXCEPT ![x] =
                      [idle EXCEPT !.ctx = IF ctx = base THEN r.ctx ELSE ctx]]
                 /\ UNCHANGED journal
  BY DEF PostMsgEnds
<1> DEFINE ctx == [base EXCEPT !.contents = @ \cup more]
           logged == WithStatus(ctx, err)
           after == IF logged = base THEN r.ctx ELSE logged
           kept == IF ctx = base THEN r.ctx ELSE ctx
           line == Line(d, err, logged)
<1>5. IF decision.event = "StartCall"
      THEN /\ reporter' = [reporter EXCEPT ![x] =
                [idle EXCEPT !.startCallLogged = Started(r), !.ctx = after]]
           /\ journal' = [journal EXCEPT ![x] = Append(@, line)]
      ELSE /\ reporter' = [reporter EXCEPT ![x] = [idle EXCEPT !.ctx = kept]]
           /\ UNCHANGED journal
  BY <1>4
<1>6. r.callback[d].busy
  BY DEF PostMsgEnds, Busy
<1>7. /\ DOMAIN idle = DOMAIN r /\ idle.method = r.method /\ idle.decider = r.decider
      /\ idle.met = r.met /\ idle.startCallLogged = r.startCallLogged
      /\ idle.callback[d] = Idle
      /\ \A other \in Direction \ {d} : idle.callback[other] = r.callback[other]
  BY <1>1 DEF ReporterRecords
<1>8. DOMAIN r = {"method", "decider", "startCallLogged", "ctx", "callback", "met"}
  BY <1>1 DEF ReporterRecords
<1>9. base \in Contexts
  BY <1>1, <1>2
<1> HIDE DEF idle, more, decision
<1>10. /\ ctx \in Contexts /\ ctx.status = base.status
       /\ ctx.contents = base.contents \cup more
  BY <1>3, <1>9 DEF Contexts
<1> HIDE DEF ctx
<1>11. logged \in Contexts /\ logged.contents = ctx.contents
  <2>1. logged \in Contexts
    BY <1>2, <1>10, StatusTyped
  <2>2. logged.contents = ctx.contents
    BY <1>10 DEF WithStatus, Contexts
  <2>3. QED
    BY <2>1, <2>2
<1> HIDE DEF logged
<1>12. line \in LineRecords /\ line.by = d /\ line.status = logged.status
  <2>1. line \in LineRecords
    BY <1>11, LineTyped
  <2>2. QED
    BY <2>1 DEF Line
<1> HIDE DEF line
<1>13. /\ after.status \in {r.ctx.status, line.status}
       /\ saw = r.ctx => after.contents = r.ctx.contents \cup more
  BY <1>10, <1>11, <1>12
<1>14. /\ kept.status \in {r.ctx.status, saw.status}
       /\ saw = r.ctx => kept.contents = r.ctx.contents \cup more
  BY <1>10
<1> HIDE DEF after, kept
<1>15. CASE decision.event = "StartCall"
  <2> DEFINE q == [idle EXCEPT !.startCallLogged = Started(r), !.ctx = after]
  <2>1. reporter'[x] = q /\ journal'[x] = Append(j, line)
    BY <1>1, <1>5, <1>15
  <2>2. /\ q.method = idle.method /\ q.decider = idle.decider /\ q.met = idle.met
        /\ q.callback = idle.callback /\ q.ctx = after /\ q.startCallLogged
    BY <1>7, <1>8 DEF Started
  <2> HIDE DEF q
  <2>3. EndsAs(r, q, j, Append(j, line), d)
    BY <1>7, <1>12, <1>13, <1>15, <2>2 DEF EndsAs, decision, more
  <2>4. QED
    BY <1>1, <1>5, <1>6, <1>15, <2>1, <2>3
<1>16. CASE decision.event # "StartCall"
  <2> DEFINE q == [idle EXCEPT !.ctx = kept]
  <2>1. reporter'[x] = q /\ journal' = journal
    BY <1>1, <1>5, <1>16
  <2>2. /\ q.method = idle.method /\ q.decider = idle.decider /\ q.met = idle.met
        /\ q.callback = idle.callback /\ q.ctx = kept
        /\ q.startCallLogged = idle.startCallLogged
    BY <1>7, <1>8
  <2> HIDE DEF q
  <2>3. EndsAs(r, q, j, j, d)
    BY <1>7, <1>14, <1>16, <2>2 DEF EndsAs, decision, more
  <2>4. QED
    BY <1>1, <1>5, <1>6, <1>16, <2>1, <2>3
<1>17. QED
  BY <1>15, <1>16

-------------------------------------------------------------------------------
\* A callback that begins has met another, or it is the only one.
LEMMA BeginsKeep ==
  ASSUME NEW r, NEW q, NEW j, NEW d \in Direction, NEW err, NEW e, NEW f,
         BeginsAs(r, q, d, err), ~r.callback[d].busy,
         Flagged(r, j), Seen(e, r, j), f.stage # "over" => e.stage # "over"
  PROVE  Flagged(q, j) /\ Seen(f, q, j)
<1>1. CASE r.startCallLogged
  BY <1>1 DEF BeginsAs, Seen
<1>2. CASE ~r.startCallLogged
  <2>1. /\ q.ctx = r.ctx /\ ~q.startCallLogged
        /\ q.callback[d] = [busy |-> TRUE, saw |-> r.ctx, err |-> err]
        /\ \A other \in Direction \ {d} : q.callback[other] = r.callback[other]
        /\ q.met = (r.met \/ \E other \in Direction : r.callback[other].busy)
    BY <1>2 DEF BeginsAs
  <2>2. Flagged(q, j)
    BY <1>2, <2>1 DEF Flagged
  <2>3. Seen(f, q, j)
    BY <2>1 DEF Seen
  <2>4. QED
    BY <2>2, <2>3
<1>3. QED
  BY <1>1, <1>2

\* What a journal keeps when a callback ends.
KeepsLines(j, k) ==
  /\ Places(k, {"call"}) = Places(j, {"call"})
  /\ \A i \in Places(j, {"call"}) : k[i] = j[i]
  /\ \A s \in Statuses(j) : s \in Statuses(k)
  /\ Places(j, Direction) # {} => Places(k, Direction) # {}

LEMMA EndsKeep ==
  ASSUME NEW r, NEW q, NEW j \in Seq(LineRecords), NEW k, NEW d \in Direction, NEW e, NEW f,
         EndsAs(r, q, j, k, d), r.callback[d].busy,
         Flagged(r, j), Seen(e, r, j), f.stage # "over" => e.stage # "over"
  PROVE  /\ KeepsLines(j, k) /\ Flagged(q, k) /\ Seen(f, q, k)
         /\ shouldLog(r, r.callback[d].err).event = "StartCall" => Places(k, Direction) # {}
<1> DEFINE started == shouldLog(r, r.callback[d].err).event = "StartCall"
<1>0. /\ q.met = r.met /\ q.callback[d] = Idle /\ ~Idle.busy /\ Idle.saw.status = OK
      /\ \A other \in Direction \ {d} : q.callback[other] = r.callback[other]
  BY DEF EndsAs, Idle, NoContext
<1>1. CASE started
  <2>1. q.startCallLogged
    BY <1>1 DEF EndsAs
  <2>2. PICK line \in LineRecords :
          line.by = d /\ k = Append(j, line) /\ q.ctx.status \in {r.ctx.status, line.status}
    BY <1>1 DEF EndsAs
  <2>3. line.by \notin {"call"}
    BY <2>2 DEF Direction
  <2>4. Places(k, {"call"}) = Places(j, {"call"}) /\ \A i \in Places(j, {"call"}) : k[i] = j[i]
    <3> DEFINE writers == {"call"}
    <3>1. line.by \notin writers
      BY <2>3
    <3> HIDE DEF writers
    <3>2. Places(Append(j, line), writers) = Places(j, writers)
      <4>1. Lengthened(j, line, writers)
        BY OneMore
      <4>2. QED
        BY <3>1, <4>1 DEF Lengthened
    <3>3. \A i \in 1 .. Len(j) : k[i] = j[i]
      BY <2>2
    <3>4. QED
      BY <2>2, <3>2, <3>3 DEF writers, Places
  <2>5. Places(k, Direction) = Places(j, Direction) \cup {Len(j) + 1}
    <3>1. Lengthened(j, line, Direction)
      BY OneMore
    <3>2. QED
      BY <2>2, <3>1 DEF Lengthened
  <2>6. \A s : s \in Statuses(k) <=> s \in Statuses(j) \/ s = line.status
    <3>1. ASSUME NEW s PROVE s \in Statuses(Append(j, line)) <=>
                               s \in Statuses(j) \/ s = line.status
      BY <2>2, OneStatusMore
    <3>2. QED
      BY <2>2, <3>1
  <2>7. KeepsLines(j, k)
    BY <2>4, <2>5, <2>6 DEF KeepsLines
  <2>8. Flagged(q, k)
    <3>1. ASSUME ~q.met
          PROVE  /\ \A other \in Direction : ~q.callback[other].busy
                 /\ \A i, n \in Places(k, Direction) : i = n
      <4>1. \A other \in Direction : r.callback[other].busy => other = d
        BY <1>0, <3>1 DEF Flagged
      <4>2. ~r.startCallLogged
        BY <1>0, <3>1 DEF Flagged
      <4>3. Places(j, Direction) = {}
        BY <4>2 DEF Flagged
      <4>4. QED
        BY <1>0, <2>5, <4>1, <4>3
    <3>2. QED
      BY <2>1, <3>1 DEF Flagged
  <2>9. Seen(f, q, k)
    BY <1>0, <2>2, <2>6 DEF Seen
  <2>10. QED
    BY <2>5, <2>7, <2>8, <2>9
<1>2. CASE ~started
  <2>1. /\ q.startCallLogged = r.startCallLogged /\ k = j
        /\ q.ctx.status \in {r.ctx.status, r.callback[d].saw.status}
    BY <1>2 DEF EndsAs
  <2>2. KeepsLines(j, k)
    BY <2>1 DEF KeepsLines
  <2>3. Flagged(q, k)
    BY <1>0, <2>1 DEF Flagged
  <2>4. Seen(f, q, k)
    BY <1>0, <2>1 DEF Seen
  <2>5. QED
    BY <1>2, <2>2, <2>3, <2>4
<1>3. QED
  BY <1>1, <1>2

\* The finished line, or that there is none, is kept with the outcome.
LEMMA EndedKept ==
  ASSUME NEW e, NEW f, NEW r, NEW q, NEW j, NEW k, NEW D,
         Ended(e, r, j, D), KeepsLines(j, k), q.method = r.method,
         (e.stage = "over") = (f.stage = "over"), f.kind = e.kind,
         f.stage = "over" => f.outcome = e.outcome
  PROVE  Ended(f, q, k, D)
<1>1. CASE e.stage = "over" /\ Asks(e, r, D)
  <2>1. f.stage = "over" /\ Asks(f, q, D) /\ f.outcome = e.outcome /\ OfCall(f, D) = OfCall(e, D)
    BY <1>1 DEF Asks, OfCall
  <2>2. PICK i \in Places(j, {"call"}) :
          /\ Places(j, {"call"}) = {i}
          /\ j[i].status \in (IF e.outcome \in {OK, EOF} THEN {OK} \cup (Statuses(j) \ {OK})
                              ELSE {CodeOf(e.outcome)})
          /\ e.kind = "unary" => j[i].contents = OfCall(e, D)
    BY <1>1 DEF Ended
  <2>3. /\ i \in Places(k, {"call"}) /\ Places(k, {"call"}) = {i} /\ k[i] = j[i]
        /\ \A s \in Statuses(j) : s \in Statuses(k)
    BY <2>2 DEF KeepsLines
  <2>4. k[i].status \in (IF f.outcome \in {OK, EOF} THEN {OK} \cup (Statuses(k) \ {OK})
                         ELSE {CodeOf(f.outcome)})
    BY <2>1, <2>2, <2>3
  <2>5. f.kind = "unary" => k[i].contents = OfCall(f, D)
    BY <2>1, <2>2, <2>3
  <2>6. QED
    BY <2>1, <2>3, <2>4, <2>5 DEF Ended
<1>2. CASE ~(e.stage = "over" /\ Asks(e, r, D))
  <2>1. ~(f.stage = "over" /\ Asks(f, q, D))
    BY <1>2 DEF Asks
  <2>2. Places(j, {"call"}) = {} /\ Places(k, {"call"}) = {}
    BY <1>2 DEF Ended, KeepsLines
  <2>3. QED
    BY <2>1, <2>2 DEF Ended
<1>3. QED
  BY <1>1, <1>2

-------------------------------------------------------------------------------
\* What the steps of one handling have in common: the others' are left alone.
OnlyAt(x) ==
  /\ decider' = decider
  /\ \A y \in Execution \ {x} :
       exec'[y] = exec[y] /\ reporter'[y] = reporter[y] /\ journal'[y] = journal[y]

LogsAt(x) == Logs(exec[x], reporter[x], journal[x], decider)

\* An attempt arrives, and its reporter has learned nothing.
LEMMA ArriveLogs ==
  ASSUME Serving, HealthIsUnary, NEW x \in Execution, LogsAt(x), Arrive(x)
  PROVE  LogsAt(x)' /\ OnlyAt(x)
<1> DEFINE c == x[1]
           kind == call[c].kind
           method == call[c].method
           e == exec'[x]
           r == NewReporter(method, decider)
<1>1. c \in Caller
  BY PathAssumption
<1>2. method = "health" => kind = "unary"
  BY <1>1 DEF HealthIsUnary
<1>3. /\ e.stage = IF kind = "unary" THEN "arrived" ELSE "handling"
      /\ e.kind = kind
  BY DEF Arrive, Serving, ExecRecords
<1>4. OnlyAt(x) /\ reporter'[x] = r /\ journal'[x] = journal[x]
  BY DEF Arrive, Begin, ServerOnly, OnlyAt, Serving, Reporting
<1>5. journal[x] = <<>>
  BY DEF Arrive, LogsAt, Logs, Opened
<1>6. \A writers : Places(<<>>, writers) = {}
  BY DEF Places
<1>7. /\ r.decider = decider /\ r.method = method /\ ~r.startCallLogged /\ r.ctx = NoContext
      /\ ~r.met /\ \A d \in Direction : r.callback[d] = Idle
  BY DEF NewReporter
<1> HIDE DEF e, r, kind, method
<1>8. ~Idle.busy /\ Idle.saw = NoContext /\ NoContext.status = OK
  BY DEF Idle, NoContext
<1>9. e.stage \in {"arrived", "handling"} /\ (e.stage = "handling" => e.kind # "unary")
  BY <1>3
<1>10. Opened(e, r, <<>>, decider)
  BY <1>2, <1>3, <1>7, <1>9 DEF Opened
<1>11. Flagged(r, <<>>)
  BY <1>6, <1>7, <1>8 DEF Flagged
<1>12. Seen(e, r, <<>>)
  BY <1>7, <1>8 DEF Seen
<1>13. InTurn(e, r, <<>>, decider)
  <2>1. ~r.callback["receive"].busy /\ ~r.callback["send"].busy
    BY <1>7, <1>8 DEF Direction
  <2>2. QED
    BY <1>7, <1>9, <2>1 DEF InTurn
<1>14. Ended(e, r, <<>>, decider)
  BY <1>6, <1>9 DEF Ended
<1>15. QED
  BY <1>4, <1>5, <1>10, <1>11, <1>12, <1>13, <1>14 DEF LogsAt, Logs, e, OnlyAt

\* A stage is left for another.
LEMMA StageDoes ==
  ASSUME Serving, NEW x \in Execution, NEW stage, Stage(x, stage)
  PROVE  /\ exec'[x].stage = stage /\ exec'[x].kind = exec[x].kind
         /\ exec'[x].outcome = exec[x].outcome
         /\ \A y \in Execution \ {x} : exec'[y] = exec[y]
BY DEF Serving, Stage, ExecRecords

\* The request of a unary call is received.
LEMMA ReceivesLogs ==
  ASSUME Serving, NEW x \in Execution, LogsAt(x), Receives(x)
  PROVE  LogsAt(x)' /\ OnlyAt(x)
<1> DEFINE e == exec[x]
           f == exec'[x]
           r == reporter[x]
           q == reporter'[x]
           j == journal[x]
<1>1. e.stage = "arrived" /\ Stage(x, "receiving") /\ PostMsg(x, "receive", OK) /\ ServerOnly
  BY DEF Receives
<1>2. /\ f.stage = "receiving" /\ f.kind = e.kind /\ f.outcome = e.outcome
      /\ \A y \in Execution \ {x} : exec'[y] = exec[y]
  BY <1>1, StageDoes
<1>3. "receive" \in Direction /\ "send" \in Direction \ {"receive"}
  BY DEF Direction
<1>4. /\ BeginsAs(r, q, "receive", OK) /\ ~r.callback["receive"].busy /\ journal' = journal
      /\ \A y \in Execution \ {x} : reporter'[y] = reporter[y]
  BY <1>1, <1>3, PostMsgDoes DEF Serving
<1>5. OnlyAt(x)
  BY <1>1, <1>2, <1>4 DEF OnlyAt, ServerOnly
<1>6. /\ Opened(e, r, j, decider) /\ Flagged(r, j) /\ Seen(e, r, j)
      /\ InTurn(e, r, j, decider) /\ Ended(e, r, j, decider)
  BY DEF LogsAt, Logs
<1>7. e.kind = "unary" => ~r.startCallLogged /\ r.ctx = NoContext /\ ~r.callback["send"].busy
                          /\ ~r.met
  BY <1>1, <1>6 DEF InTurn
<1> HIDE DEF e, f, r, q, j
<1>8. q.method = r.method /\ q.decider = r.decider
  BY <1>4 DEF BeginsAs
<1>9. Flagged(q, j) /\ Seen(f, q, j)
  BY <1>1, <1>3, <1>4, <1>6, BeginsKeep
<1>10. Opened(f, q, j, decider)
  BY <1>1, <1>2, <1>6, <1>8 DEF Opened
<1>11. InTurn(f, q, j, decider)
  <2>1. ASSUME f.kind = "unary"
        PROVE  /\ ~q.met /\ ~q.callback["send"].busy /\ q.ctx = NoContext /\ ~q.startCallLogged
               /\ q.callback["receive"] = [busy |-> TRUE, saw |-> NoContext, err |-> OK]
    <3>1. /\ q.ctx = r.ctx /\ ~q.startCallLogged
          /\ q.callback["receive"] = [busy |-> TRUE, saw |-> r.ctx, err |-> OK]
          /\ q.callback["send"] = r.callback["send"]
          /\ q.met = (r.met \/ \E other \in Direction : r.callback[other].busy)
      BY <1>2, <1>3, <1>4, <1>7, <2>1 DEF BeginsAs
    <3>2. \A other \in Direction : ~r.callback[other].busy
      BY <1>2, <1>4, <1>7, <2>1 DEF Direction
    <3>3. QED
      BY <1>2, <1>7, <2>1, <3>1, <3>2
  <2>2. QED
    BY <1>2, <2>1 DEF InTurn
<1>12. Ended(f, q, j, decider)
  <2>1. KeepsLines(j, j)
    BY DEF KeepsLines
  <2>2. QED
    BY <1>1, <1>2, <1>6, <1>8, <2>1, EndedKept
<1>13. QED
  BY <1>4, <1>5, <1>9, <1>10, <1>11, <1>12 DEF LogsAt, Logs, OnlyAt, f, q, j

\* And has been.
LEMMA ReceivedLogs ==
  ASSUME Serving, NEW x \in Execution, LogsAt(x), Received(x)
  PROVE  LogsAt(x)' /\ OnlyAt(x)
<1> DEFINE e == exec[x]
           f == exec'[x]
           r == reporter[x]
           q == reporter'[x]
           j == journal[x]
           k == journal'[x]
<1>1. e.stage = "receiving" /\ Stage(x, "handling") /\ PostMsgEnds(x, "receive") /\ ServerOnly
  BY DEF Received
<1>2. /\ f.stage = "handling" /\ f.kind = e.kind /\ f.outcome = e.outcome
      /\ \A y \in Execution \ {x} : exec'[y] = exec[y]
  BY <1>1, StageDoes
<1>3. "receive" \in Direction /\ "send" \in Direction \ {"receive"}
  BY DEF Direction
<1>4. /\ EndsAs(r, q, j, k, "receive") /\ r.callback["receive"].busy
      /\ \A y \in Execution \ {x} : reporter'[y] = reporter[y] /\ journal'[y] = journal[y]
  BY <1>1, <1>3, PostMsgEndsDoes DEF Serving
<1>5. OnlyAt(x)
  BY <1>1, <1>2, <1>4 DEF OnlyAt, ServerOnly
<1>6. /\ Opened(e, r, j, decider) /\ Flagged(r, j) /\ Seen(e, r, j)
      /\ InTurn(e, r, j, decider) /\ Ended(e, r, j, decider)
  BY DEF LogsAt, Logs
<1>7. r.decider = decider
  BY <1>1, <1>6 DEF Opened
<1>8. j \in Seq(LineRecords)
  BY DEF Serving, Reporting
<1>9. e.kind = "unary" =>
        /\ ~r.met /\ ~r.startCallLogged /\ r.ctx = NoContext /\ ~r.callback["send"].busy
        /\ r.callback["receive"] = [busy |-> TRUE, saw |-> NoContext, err |-> OK]
  BY <1>1, <1>6 DEF InTurn
<1> HIDE DEF e, f, r, q, j, k
<1>10. /\ q.method = r.method /\ q.decider = r.decider /\ q.met = r.met
       /\ q.callback["receive"] = Idle /\ q.callback["send"] = r.callback["send"]
  BY <1>3, <1>4 DEF EndsAs
<1>11. /\ KeepsLines(j, k) /\ Flagged(q, k) /\ Seen(f, q, k)
       /\ shouldLog(r, r.callback["receive"].err).event = "StartCall" => Places(k, Direction) # {}
  BY <1>1, <1>3, <1>4, <1>6, <1>8, EndsKeep
<1>12. Opened(f, q, k, decider)
  BY <1>1, <1>2, <1>6, <1>10 DEF Opened
<1>13. InTurn(f, q, k, decider)
  <2> SUFFICES ASSUME f.kind = "unary"
               PROVE  /\ ~q.met /\ ~q.callback["receive"].busy /\ ~q.callback["send"].busy
                      /\ q.method = "health" => Places(k, Direction) # {}
                      /\ q.method # "health" =>
                           /\ q.ctx.contents = OfRequest(decider)
                           /\ q.startCallLogged => decider.events = "StartCall"
    BY <1>2 DEF InTurn
  <2>1. ~q.met /\ ~q.callback["receive"].busy /\ ~q.callback["send"].busy
    BY <1>2, <1>9, <1>10 DEF Idle
  <2>2. r.callback["receive"].saw = r.ctx /\ r.callback["receive"].err = OK
        /\ r.ctx.contents = {}
    BY <1>2, <1>9 DEF NoContext
  <2>3. CASE q.method = "health"
    <3>1. shouldLog(r, OK).event = "StartCall"
      BY <1>10, <2>3 DEF shouldLog, EmptyDecision
    <3>2. QED
      BY <1>11, <2>1, <2>2, <2>3, <3>1
  <2>4. CASE q.method # "health"
    <3>1. shouldLog(r, OK).event = decider.events /\ shouldLog(r, OK).request = decider.request
      BY <1>7, <1>10, <2>4 DEF shouldLog
    <3>2. q.ctx.contents = {} \cup Contents("receive", OK, shouldLog(r, OK))
      BY <1>4, <2>2 DEF EndsAs
    <3>3. Contents("receive", OK, shouldLog(r, OK)) = OfRequest(decider)
      BY <3>1 DEF Contents, OfRequest, Direction
    <3>4. decider.events # "StartCall" => q.startCallLogged = r.startCallLogged
      BY <1>4, <2>2, <3>1 DEF EndsAs
    <3>5. QED
      BY <1>2, <1>9, <2>1, <2>4, <3>2, <3>3, <3>4
  <2>5. QED
    BY <2>3, <2>4
<1>14. Ended(f, q, k, decider)
  BY <1>1, <1>2, <1>6, <1>10, <1>11, EndedKept
<1>15. QED
  BY <1>5, <1>11, <1>12, <1>13, <1>14 DEF LogsAt, Logs, OnlyAt, f, q, k

\* The handler of a unary call returns.
LEMMA SendsLogs ==
  ASSUME Serving, NEW x \in Execution, LogsAt(x), Sends(x)
  PROVE  LogsAt(x)' /\ OnlyAt(x)
<1> DEFINE e == exec[x]
           f == exec'[x]
           r == reporter[x]
           q == reporter'[x]
           j == journal[x]
<1>1. e.stage = "handling" /\ e.kind = "unary" /\ ServerOnly
  BY DEF Sends
<1>2. PICK out \in Outcome :
        /\ exec' = [exec EXCEPT ![x].stage = "sending", ![x].outcome = out]
        /\ PostMsg(x, "send", out)
  BY DEF Sends
<1>3. /\ f.stage = "sending" /\ f.kind = e.kind /\ f.outcome = out
      /\ \A y \in Execution \ {x} : exec'[y] = exec[y]
  BY <1>2 DEF Serving, ExecRecords
<1>4. "send" \in Direction /\ "receive" \in Direction \ {"send"}
  BY DEF Direction
<1>5. /\ BeginsAs(r, q, "send", out) /\ ~r.callback["send"].busy /\ journal' = journal
      /\ \A y \in Execution \ {x} : reporter'[y] = reporter[y]
  BY <1>2, <1>4, PostMsgDoes DEF Serving
<1>6. OnlyAt(x)
  BY <1>1, <1>3, <1>5 DEF OnlyAt, ServerOnly
<1>7. /\ Opened(e, r, j, decider) /\ Flagged(r, j) /\ Seen(e, r, j)
      /\ InTurn(e, r, j, decider) /\ Ended(e, r, j, decider)
  BY DEF LogsAt, Logs
<1>8. /\ ~r.met /\ ~r.callback["receive"].busy
      /\ r.method = "health" => Places(j, Direction) # {}
      /\ r.method # "health" =>
           r.ctx.contents = OfRequest(decider) /\ (r.startCallLogged => decider.events = "StartCall")
  BY <1>1, <1>7 DEF InTurn
<1> HIDE DEF e, f, r, q, j
<1>9. q.method = r.method /\ q.decider = r.decider /\ q.ctx = r.ctx
      /\ (q.startCallLogged <=> r.startCallLogged)
  BY <1>5 DEF BeginsAs
<1>10. Flagged(q, j) /\ Seen(f, q, j)
  BY <1>1, <1>4, <1>5, <1>7, BeginsKeep
<1>11. Opened(f, q, j, decider)
  BY <1>1, <1>3, <1>7, <1>9 DEF Opened
<1>12. ~q.met /\ ~q.callback["receive"].busy
  <2>1. \A other \in Direction : ~r.callback[other].busy
    BY <1>5, <1>8 DEF Direction
  <2>2. QED
    BY <1>4, <1>5, <1>8, <2>1 DEF BeginsAs
<1>13. IF q.callback["send"].busy
       THEN q.callback["send"].saw = q.ctx /\ q.callback["send"].err = out
       ELSE q.startCallLogged
  BY <1>5, <1>9 DEF BeginsAs
<1>14. InTurn(f, q, j, decider)
  BY <1>3, <1>8, <1>9, <1>12, <1>13 DEF InTurn
<1>15. Ended(f, q, j, decider)
  <2>1. KeepsLines(j, j)
    BY DEF KeepsLines
  <2>2. QED
    BY <1>1, <1>3, <1>7, <1>9, <2>1, EndedKept
<1>16. QED
  BY <1>5, <1>6, <1>10, <1>11, <1>14, <1>15 DEF LogsAt, Logs, OnlyAt, f, q, j

\* The answer of a unary call is sent.
LEMMA SentLogs ==
  ASSUME Serving, NEW x \in Execution, LogsAt(x), Sent(x)
  PROVE  LogsAt(x)' /\ OnlyAt(x)
<1> DEFINE e == exec[x]
           f == exec'[x]
           r == reporter[x]
           q == reporter'[x]
           j == journal[x]
           k == journal'[x]
<1>1. e.stage = "sending" /\ Stage(x, "closing") /\ ServerOnly
  BY DEF Sent
<1>2. /\ f.stage = "closing" /\ f.kind = e.kind /\ f.outcome = e.outcome
      /\ \A y \in Execution \ {x} : exec'[y] = exec[y]
  BY <1>1, StageDoes
<1>3. "send" \in Direction /\ "receive" \in Direction \ {"send"}
  BY DEF Direction
<1>4. IF r.callback["send"].busy THEN PostMsgEnds(x, "send") ELSE UNCHANGED <<reporter, journal>>
  BY DEF Sent, Busy, reporterVars
<1>5. /\ Opened(e, r, j, decider) /\ Flagged(r, j) /\ Seen(e, r, j)
      /\ InTurn(e, r, j, decider) /\ Ended(e, r, j, decider)
  BY DEF LogsAt, Logs
<1>6. r.decider = decider
  BY <1>1, <1>5 DEF Opened
<1>7. j \in Seq(LineRecords)
  BY DEF Serving, Reporting
<1>8. e.kind = "unary" =>
        /\ ~r.met /\ ~r.callback["receive"].busy
        /\ r.method = "health" => Places(j, Direction) # {}
        /\ r.method # "health" =>
             /\ r.ctx.contents = OfRequest(decider)
             /\ r.startCallLogged => decider.events = "StartCall"
        /\ IF r.callback["send"].busy
           THEN r.callback["send"].saw = r.ctx /\ r.callback["send"].err = e.outcome
           ELSE r.startCallLogged
  BY <1>1, <1>5 DEF InTurn
<1>9. Asks(e, r, decider) /\ r.startCallLogged /\ decider.events = "StartCall" =>
        OfRequest(decider) = OfCall(e, decider)
  BY DEF Asks, OfRequest, OfCall
<1>10. f.outcome = e.outcome => (Asks(f, q, decider) /\ q.method = r.method => Asks(e, r, decider))
                                /\ OfCall(f, decider) = OfCall(e, decider)
  BY DEF Asks, OfCall
<1>11. CASE r.callback["send"].busy
  <2>1. /\ EndsAs(r, q, j, k, "send")
        /\ \A y \in Execution \ {x} : reporter'[y] = reporter[y] /\ journal'[y] = journal[y]
    BY <1>3, <1>4, <1>11, PostMsgEndsDoes DEF Serving
  <2>2. OnlyAt(x)
    BY <1>1, <1>2, <2>1 DEF OnlyAt, ServerOnly
  <2> HIDE DEF e, f, r, q, j, k
  <2>3. /\ q.method = r.method /\ q.decider = r.decider /\ q.met = r.met
        /\ q.callback["send"] = Idle /\ q.callback["receive"] = r.callback["receive"]
    BY <1>3, <2>1 DEF EndsAs
  <2>4. KeepsLines(j, k) /\ Flagged(q, k) /\ Seen(f, q, k)
    BY <1>1, <1>3, <1>5, <1>7, <1>11, <2>1, EndsKeep
  <2>5. Opened(f, q, k, decider)
    BY <1>1, <1>2, <1>5, <2>3 DEF Opened
  <2>6. InTurn(f, q, k, decider)
    <3> SUFFICES ASSUME f.kind = "unary"
                 PROVE  /\ ~q.met /\ ~q.callback["receive"].busy /\ ~q.callback["send"].busy
                        /\ q.method = "health" => Places(k, Direction) # {}
                        /\ Asks(f, q, decider) => q.ctx.contents = OfCall(f, decider)
      BY <1>2 DEF InTurn
    <3>1. ~q.met /\ ~q.callback["receive"].busy /\ ~q.callback["send"].busy
      BY <1>2, <1>8, <2>3 DEF Idle
    <3>2. q.method = "health" => Places(k, Direction) # {}
      BY <1>2, <1>8, <2>3, <2>4 DEF KeepsLines
    <3>3. ASSUME Asks(f, q, decider) PROVE q.ctx.contents = OfCall(f, decider)
      <4>1. r.method # "health" /\ Asks(e, r, decider)
        BY <1>2, <1>10, <2>3, <3>3 DEF Asks
      <4> DEFINE decision == shouldLog(r, e.outcome)
      <4>2. decision.response = decider.response
        BY <1>6, <4>1 DEF shouldLog
      <4>3. q.ctx.contents = OfRequest(decider) \cup Contents("send", e.outcome, decision)
        BY <1>2, <1>8, <1>11, <2>1, <4>1 DEF EndsAs
      <4> HIDE DEF decision
      <4>4. OfCall(e, decider) = OfRequest(decider) \cup Contents("send", e.outcome, decision)
        BY <4>2 DEF OfCall, OfRequest, Contents, Direction
      <4>5. QED
        BY <1>2, <1>10, <4>3, <4>4
    <3>4. QED
      BY <3>1, <3>2, <3>3
  <2>7. Ended(f, q, k, decider)
    BY <1>1, <1>2, <1>5, <2>3, <2>4, EndedKept
  <2>8. QED
    BY <2>2, <2>4, <2>5, <2>6, <2>7 DEF LogsAt, Logs, OnlyAt, f, q, k
<1>12. CASE ~r.callback["send"].busy
  <2>1. q = r /\ k = j /\ OnlyAt(x)
    BY <1>1, <1>2, <1>4, <1>12 DEF OnlyAt, ServerOnly
  <2> HIDE DEF e, f, r, q, j, k
  <2>2. Opened(f, q, k, decider) /\ Flagged(q, k) /\ Seen(f, q, k)
    BY <1>1, <1>2, <1>5, <2>1 DEF Opened, Seen
  <2>3. InTurn(f, q, k, decider)
    <3> SUFFICES ASSUME f.kind = "unary"
                 PROVE  /\ ~r.met /\ ~r.callback["receive"].busy
                        /\ r.method = "health" => Places(j, Direction) # {}
                        /\ Asks(f, r, decider) => r.ctx.contents = OfCall(f, decider)
      BY <1>2, <1>12, <2>1 DEF InTurn
    <3>1. Asks(f, r, decider) => r.method # "health" /\ Asks(e, r, decider)
      BY <1>2 DEF Asks
    <3>2. QED
      BY <1>2, <1>8, <1>9, <1>10, <1>12, <3>1
  <2>4. Ended(f, q, k, decider)
    <3>1. KeepsLines(j, j)
      BY DEF KeepsLines
    <3>2. QED
      BY <1>1, <1>2, <1>5, <2>1, <3>1, EndedKept
  <2>5. QED
    BY <2>1, <2>2, <2>3, <2>4 DEF LogsAt, Logs, OnlyAt, f, q, k
<1>13. QED
  BY <1>11, <1>12

\* A stream's callbacks begin, also when its handling is over,
LEMMA StreamCallbackLogs ==
  ASSUME Serving, NEW x \in Execution, LogsAt(x), NEW d \in Direction, StreamCallback(x, d)
  PROVE  LogsAt(x)' /\ OnlyAt(x)
<1> DEFINE e == exec[x]
           f == exec'[x]
           r == reporter[x]
           q == reporter'[x]
           j == journal[x]
<1>1. e.kind # "unary" /\ e.stage \in {"handling", "over"} /\ ServerOnly
  BY DEF StreamCallback
<1>2. PICK err : PostMsg(x, d, err)
  BY DEF StreamCallback
<1>3. /\ f.stage = e.stage /\ f.kind = e.kind /\ f.outcome = e.outcome
      /\ \A y \in Execution \ {x} : exec'[y] = exec[y]
  BY DEF StreamCallback, Serving, ExecRecords
<1>4. /\ BeginsAs(r, q, d, err) /\ ~r.callback[d].busy /\ journal' = journal
      /\ \A y \in Execution \ {x} : reporter'[y] = reporter[y]
  BY <1>2, PostMsgDoes DEF Serving
<1>5. OnlyAt(x)
  BY <1>1, <1>3, <1>4 DEF OnlyAt, ServerOnly
<1>6. /\ Opened(e, r, j, decider) /\ Flagged(r, j) /\ Seen(e, r, j) /\ Ended(e, r, j, decider)
  BY DEF LogsAt, Logs
<1> HIDE DEF e, f, r, q, j
<1>7. q.method = r.method /\ q.decider = r.decider
  BY <1>4 DEF BeginsAs
<1>8. Flagged(q, j) /\ Seen(f, q, j)
  BY <1>3, <1>4, <1>6, BeginsKeep
<1>9. Opened(f, q, j, decider) /\ InTurn(f, q, j, decider)
  BY <1>1, <1>3, <1>6, <1>7 DEF Opened, InTurn
<1>10. Ended(f, q, j, decider)
  <2>1. KeepsLines(j, j)
    BY DEF KeepsLines
  <2>2. QED
    BY <1>3, <1>6, <1>7, <2>1, EndedKept
<1>11. QED
  BY <1>4, <1>5, <1>8, <1>9, <1>10 DEF LogsAt, Logs, OnlyAt, f, q, j

\* and end.
LEMMA StreamCallbackEndsLogs ==
  ASSUME Serving, NEW x \in Execution, LogsAt(x), NEW d \in Direction, StreamCallbackEnds(x, d)
  PROVE  LogsAt(x)' /\ OnlyAt(x)
<1> DEFINE e == exec[x]
           r == reporter[x]
           q == reporter'[x]
           j == journal[x]
           k == journal'[x]
<1>1. e.kind # "unary" /\ PostMsgEnds(x, d) /\ exec' = exec /\ ServerOnly
  BY DEF StreamCallbackEnds
<1>2. /\ EndsAs(r, q, j, k, d) /\ r.callback[d].busy
      /\ \A y \in Execution \ {x} : reporter'[y] = reporter[y] /\ journal'[y] = journal[y]
  BY <1>1, PostMsgEndsDoes DEF Serving
<1>3. OnlyAt(x) /\ exec'[x] = e
  BY <1>1, <1>2 DEF OnlyAt, ServerOnly
<1>4. Opened(e, r, j, decider) /\ Flagged(r, j) /\ Seen(e, r, j) /\ Ended(e, r, j, decider)
  BY DEF LogsAt, Logs
<1>5. j \in Seq(LineRecords)
  BY DEF Serving, Reporting
<1> HIDE DEF e, r, q, j, k
<1>6. q.method = r.method /\ q.decider = r.decider
  BY <1>2 DEF EndsAs
<1>7. KeepsLines(j, k) /\ Flagged(q, k) /\ Seen(e, q, k)
  BY <1>2, <1>4, <1>5, EndsKeep
<1>8. Opened(e, q, k, decider) /\ InTurn(e, q, k, decider)
  BY <1>1, <1>4, <1>6 DEF Opened, InTurn
<1>9. Ended(e, q, k, decider)
  BY <1>4, <1>6, <1>7, EndedKept
<1>10. QED
  BY <1>3, <1>7, <1>8, <1>9 DEF LogsAt, Logs, OnlyAt, q, k

\* The handler of a stream returns.
LEMMA StreamReturnsLogs ==
  ASSUME Serving, NEW x \in Execution, LogsAt(x), StreamReturns(x)
  PROVE  LogsAt(x)' /\ OnlyAt(x)
<1> DEFINE e == exec[x]
           f == exec'[x]
           r == reporter[x]
           j == journal[x]
<1>1. e.kind # "unary" /\ e.stage = "handling" /\ UNCHANGED <<reporter, journal>> /\ ServerOnly
  BY DEF StreamReturns, reporterVars
<1>2. f.stage = "closing" /\ f.kind = e.kind /\ \A y \in Execution \ {x} : exec'[y] = exec[y]
  BY DEF StreamReturns, Serving, ExecRecords
<1>3. OnlyAt(x)
  BY <1>1, <1>2 DEF OnlyAt, ServerOnly
<1>4. Opened(e, r, j, decider) /\ Flagged(r, j) /\ Seen(e, r, j) /\ Ended(e, r, j, decider)
  BY DEF LogsAt, Logs
<1> HIDE DEF e, f, r, j
<1>5. Opened(f, r, j, decider) /\ Seen(f, r, j) /\ InTurn(f, r, j, decider)
  BY <1>1, <1>2, <1>4 DEF Opened, Seen, InTurn
<1>6. Ended(f, r, j, decider)
  BY <1>1, <1>2, <1>4 DEF Ended
<1>7. QED
  BY <1>1, <1>3, <1>4, <1>5, <1>6 DEF LogsAt, Logs, OnlyAt, f, r, j

\* A call is over, and its finished line written if it is asked for.
LEMMA ClosesLogs ==
  ASSUME Serving, NEW x \in Execution, LogsAt(x), Closes(x)
  PROVE  LogsAt(x)' /\ OnlyAt(x)
<1> DEFINE e == exec[x]
           f == exec'[x]
           r == reporter[x]
           q == reporter'[x]
           j == journal[x]
           k == journal'[x]
           out == e.outcome
           ctx == WithStatus(r.ctx, Final(out))
           line == Line("call", Final(out), ctx)
<1>1. e.stage = "closing" /\ Stage(x, "over") /\ PostCall(x, out) /\ ServerOnly
  BY DEF Closes
<1>2. /\ f.stage = "over" /\ f.kind = e.kind /\ f.outcome = out
      /\ \A y \in Execution \ {x} : exec'[y] = exec[y]
  BY <1>1, StageDoes
<1>3. /\ r \in ReporterRecords /\ r.ctx \in Contexts /\ j \in Seq(LineRecords)
      /\ DOMAIN reporter = Execution /\ DOMAIN journal = Execution /\ out \in Outcome \cup {OK}
  BY DEF Serving, Reporting, ReporterRecords, ExecRecords
<1>4. out \in Error
  <2>1. Outcome \subseteq Error
    BY PathAssumption
  <2>2. out \in Outcome \cup {OK}
    BY <1>3
  <2>3. OK \in Error
    BY DEF OK, Error
  <2> HIDE DEF out
  <2>4. QED
    BY <2>1, <2>2, <2>3
<1>5. Final(out) \in Error
  BY <1>4 DEF Final, Error, OK
<1>6. /\ Opened(e, r, j, decider) /\ Flagged(r, j) /\ Seen(e, r, j)
      /\ InTurn(e, r, j, decider) /\ Ended(e, r, j, decider)
  BY DEF LogsAt, Logs
<1>7. r.decider = decider
  BY <1>1, <1>6 DEF Opened
<1>8. shouldLog(r, out).event = "FinishCall" <=> Asks(e, r, decider)
  BY <1>7 DEF shouldLog, Asks, EmptyDecision
<1>9. /\ ctx \in Contexts /\ ctx.contents = r.ctx.contents
      /\ ctx.status = IF Final(out) = OK THEN r.ctx.status ELSE CodeOf(out)
  <2>1. ctx \in Contexts
    BY <1>3, <1>5, StatusTyped
  <2>2. Final(out) # OK => Final(out) = out
    BY DEF Final
  <2>3. QED
    BY <1>3, <2>1, <2>2 DEF WithStatus, Contexts
<1>10. line \in LineRecords /\ line.by = "call" /\ line.status = ctx.status
       /\ line.contents = ctx.contents
  <2> HIDE DEF ctx
  <2>1. line \in LineRecords
    BY <1>9, LineTyped
  <2>2. QED
    BY <2>1 DEF Line
<1>11. Places(j, {"call"}) = {}
  BY <1>1, <1>6 DEF Ended
<1>12. e.kind = "unary" =>
         /\ ~r.met /\ ~r.callback["receive"].busy /\ ~r.callback["send"].busy
         /\ r.method = "health" => Places(j, Direction) # {}
         /\ Asks(e, r, decider) => r.ctx.contents = OfCall(e, decider)
  BY <1>1, <1>6 DEF InTurn
<1>13. OfCall(f, decider) = OfCall(e, decider)
  BY <1>2 DEF OfCall
<1>14. CASE Asks(e, r, decider)
  <2>1. /\ reporter' = [reporter EXCEPT ![x].ctx = ctx]
        /\ journal' = [journal EXCEPT ![x] = Append(@, line)]
    BY <1>1, <1>8, <1>14 DEF PostCall
  <2> HIDE DEF ctx, line
  <2>2. k = Append(j, line) /\ OnlyAt(x)
    BY <1>1, <1>2, <1>3, <2>1 DEF OnlyAt, ServerOnly
  <2>3. /\ q.method = r.method /\ q.decider = r.decider /\ q.met = r.met
        /\ q.callback = r.callback /\ q.startCallLogged = r.startCallLogged
    BY <1>3, <2>1 DEF ReporterRecords
  <2> HIDE DEF e, f, r, q, j, k, out
  <2>4. Places(k, Direction) = Places(j, Direction)
    <3> DEFINE writers == Direction
    <3>1. line.by \notin writers
      BY <1>10 DEF Direction
    <3> HIDE DEF writers
    <3>2. Places(Append(j, line), writers) = Places(j, writers)
      <4>1. Lengthened(j, line, writers)
        BY <1>3, <1>10, OneMore
      <4>2. QED
        BY <3>1, <4>1 DEF Lengthened
    <3>3. QED
      BY <2>2, <3>2 DEF writers
  <2>5. Places(k, {"call"}) = {Len(j) + 1}
    <3> DEFINE writers == {"call"}
    <3>1. line.by \in writers /\ Places(j, writers) = {}
      BY <1>10, <1>11
    <3> HIDE DEF writers
    <3>2. Places(Append(j, line), writers) = Places(j, writers) \cup {Len(j) + 1}
      <4>1. Lengthened(j, line, writers)
        BY <1>3, <1>10, OneMore
      <4>2. QED
        BY <3>1, <4>1 DEF Lengthened
    <3>3. QED
      BY <2>2, <3>1, <3>2 DEF writers
  <2>6. k[Len(j) + 1] = line
    BY <1>3, <2>2
  <2>7. \A s : s \in Statuses(j) => s \in Statuses(k)
    <3>1. ASSUME NEW s, s \in Statuses(j) PROVE s \in Statuses(Append(j, line))
      BY <1>3, <1>10, <3>1, OneStatusMore
    <3>2. QED
      BY <2>2, <3>1
  <2>8. Opened(f, q, k, decider) /\ Seen(f, q, k)
    BY <1>1, <1>2, <1>6, <2>3 DEF Opened, Seen
  <2>9. Flagged(q, k)
    BY <1>6, <2>3, <2>4 DEF Flagged
  <2>10. InTurn(f, q, k, decider)
    BY <1>2, <1>12, <2>3, <2>4 DEF InTurn
  <2>11. Ended(f, q, k, decider)
    <3>1. r.ctx.status \in {OK} \cup Statuses(j)
      BY <1>1, <1>6 DEF Seen
    <3>2. line.status \in (IF f.outcome \in {OK, EOF} THEN {OK} \cup (Statuses(k) \ {OK})
                           ELSE {CodeOf(f.outcome)})
      BY <1>2, <1>9, <1>10, <2>7, <3>1 DEF Final
    <3>3. f.kind = "unary" => line.contents = OfCall(f, decider)
      BY <1>2, <1>9, <1>10, <1>12, <1>13, <1>14
    <3>4. f.stage = "over" /\ Asks(f, q, decider)
      BY <1>2, <1>14, <2>3 DEF Asks, out
    <3>5. QED
      BY <2>5, <2>6, <3>2, <3>3, <3>4 DEF Ended
  <2>12. QED
    BY <2>2, <2>8, <2>9, <2>10, <2>11 DEF LogsAt, Logs, OnlyAt, f, q, k
<1>15. CASE ~Asks(e, r, decider)
  <2>1. q = r /\ k = j /\ OnlyAt(x)
    BY <1>1, <1>2, <1>8, <1>15 DEF PostCall, reporterVars, OnlyAt, ServerOnly
  <2> HIDE DEF e, f, r, q, j, k
  <2>2. Opened(f, q, k, decider) /\ Seen(f, q, k) /\ Flagged(q, k)
    BY <1>1, <1>2, <1>6, <2>1 DEF Opened, Seen
  <2>3. InTurn(f, q, k, decider)
    BY <1>2, <1>12, <2>1 DEF InTurn
  <2>4. ~Asks(f, q, decider)
    BY <1>2, <1>15, <2>1 DEF Asks, out
  <2>5. Ended(f, q, k, decider)
    BY <1>11, <2>1, <2>4 DEF Ended
  <2>6. QED
    BY <2>1, <2>2, <2>3, <2>5 DEF LogsAt, Logs, OnlyAt, f, q, k
<1>16. QED
  BY <1>14, <1>15

-------------------------------------------------------------------------------
\* A call remains what it is.
SameCall(c) == call'[c].kind = call[c].kind /\ call'[c].method = call[c].method

LEMMA BecomesSame ==
  ASSUME NEW c \in Caller, DOMAIN call = Caller, NEW q, DOMAIN q = CallFields,
         q.kind = call[c].kind, q.method = call[c].method, NEW code,
         Becomes(c, q) \/ Becomes(c, Down(q)) \/ Becomes(c, Up(q, code))
  PROVE  \A y \in Caller : SameCall(y)
<1>1. /\ Down(q).kind = q.kind /\ Down(q).method = q.method
      /\ Up(q, code).kind = q.kind /\ Up(q, code).method = q.method
  BY DEF Down, Up, CallFields, NoCall
<1>2. QED
  BY <1>1 DEF Becomes, SameCall

LEMMA CallerStepSame ==
  ASSUME NEW c \in Caller, DOMAIN call = Caller, call[c] \in CallRecords, CallerStep(c)
  PROVE  \A y \in Caller : SameCall(y)
<1> DEFINE r == call[c]
<1>1. DOMAIN r = CallFields
  BY CallParts
<1>2. CASE \/ WalkDown(c) \/ EnterRetry(c) \/ Trace(c) \/ AttemptExpires(c)
           \/ WalkUp(c) \/ TraceEnds(c)
  <2>1. \E code : Becomes(c, Down(r)) \/ Becomes(c, Up(r, code))
    BY <1>2 DEF WalkDown, EnterRetry, Trace, AttemptExpires, WalkUp, TraceEnds
  <2>2. QED
    BY <1>1, <2>1, BecomesSame
<1>3. CASE Send(c)
  <2> DEFINE q == [r EXCEPT !.stage = "sent", !.tries = @ + 1]
  <2>1. DOMAIN q = CallFields /\ q.kind = r.kind /\ q.method = r.method
    BY <1>1 DEF CallFields, NoCall
  <2>2. \E code : Becomes(c, q) \/ Becomes(c, Up(r, code))
    BY <1>3 DEF Send
  <2> HIDE DEF q
  <2>3. QED
    BY <1>1, <2>1, <2>2, BecomesSame
<1>4. CASE StartTimer(c)
  <2> DEFINE q == [r EXCEPT !.left = Sooner(@, conn[c].opt.timeout)]
  <2>1. DOMAIN q = CallFields /\ q.kind = r.kind /\ q.method = r.method
    BY <1>1 DEF CallFields, NoCall
  <2>2. Becomes(c, Down(q))
    BY <1>4 DEF StartTimer
  <2> HIDE DEF q
  <2>3. QED
    BY <2>1, <2>2, BecomesSame
<1>5. CASE LogFinished(c)
  <2> DEFINE q == [r EXCEPT !.logged = @ + 1]
  <2>1. DOMAIN q = CallFields /\ q.kind = r.kind /\ q.method = r.method
    BY <1>1 DEF CallFields, NoCall
  <2>2. Becomes(c, Up(q, r.code))
    BY <1>5 DEF LogFinished
  <2> HIDE DEF q
  <2>3. QED
    BY <2>1, <2>2, BecomesSame
<1>6. CASE StopTimer(c)
  <2> DEFINE q == [r EXCEPT !.left = NoDeadline]
  <2>1. DOMAIN q = CallFields /\ q.kind = r.kind /\ q.method = r.method
    BY <1>1 DEF CallFields, NoCall
  <2>2. Becomes(c, Up(q, r.code))
    BY <1>6 DEF StopTimer
  <2> HIDE DEF q
  <2>3. QED
    BY <2>1, <2>2, BecomesSame
<1>7. CASE Retry(c)
  <2> DEFINE q == [r EXCEPT !.stage = "backoff", !.wait = Backoff]
  <2>1. DOMAIN q = CallFields /\ q.kind = r.kind /\ q.method = r.method
    BY <1>1 DEF CallFields, NoCall
  <2>2. Becomes(c, q) \/ Becomes(c, Up(r, r.code))
    BY <1>7 DEF Retry
  <2> HIDE DEF q
  <2>3. QED
    BY <1>1, <2>1, <2>2, BecomesSame
<1>8. CASE BackoffEnds(c)
  <2> DEFINE q == [r EXCEPT !.wait = 0]
  <2>1. DOMAIN q = CallFields /\ q.kind = r.kind /\ q.method = r.method
    BY <1>1 DEF CallFields, NoCall
  <2>2. Becomes(c, Down(r)) \/ Becomes(c, Up(q, ContextCode(r)))
    BY <1>8 DEF BackoffEnds
  <2> HIDE DEF q
  <2>3. QED
    BY <1>1, <2>1, <2>2, BecomesSame
<1>9. CASE Return(c)
  <2> DEFINE q == [r EXCEPT !.stage = "done"]
  <2>1. DOMAIN q = CallFields /\ q.kind = r.kind /\ q.method = r.method
    BY <1>1 DEF CallFields, NoCall
  <2>2. Becomes(c, q)
    BY <1>9 DEF Return
  <2> HIDE DEF q
  <2>3. QED
    BY <2>1, <2>2, BecomesSame
<1>10. QED
  BY <1>2, <1>3, <1>4, <1>5, <1>6, <1>7, <1>8, <1>9 DEF CallerStep

\* And one of the health service is unary, whoever makes it.
LEMMA HealthStaysUnary == PathInv /\ HealthIsUnary /\ [Next]_vars => HealthIsUnary'
<1> SUFFICES ASSUME PathInv, HealthIsUnary, [Next]_vars PROVE HealthIsUnary'
  OBVIOUS
<1>1. /\ DOMAIN call = Caller
      /\ \A c \in Caller : call[c] \in CallRecords /\ DOMAIN call[c] = CallFields
  BY CallParts DEF PathInv, DeadlineInv, CallsInv, Standing
<1>2. ASSUME \A c \in Caller : SameCall(c) PROVE HealthIsUnary'
  BY <1>2 DEF HealthIsUnary, SameCall
<1>3. ASSUME UNCHANGED call PROVE HealthIsUnary'
  BY <1>3 DEF HealthIsUnary
<1>4. ASSUME NEW c \in Caller, ClientBegins(c) PROVE HealthIsUnary'
  <2>1. ASSUME NEW g \in Given, NewClient(c, g) PROVE HealthIsUnary'
    BY <1>3, <2>1 DEF NewClient
  <2>2. ASSUME NEW kind, NEW method, method = "health" => kind = "unary",
               Call(c, kind, method)
        PROVE  HealthIsUnary'
    <3> DEFINE s == [call[c] EXCEPT !.kind = kind, !.method = method]
    <3>1. DOMAIN s = CallFields /\ s.kind = kind /\ s.method = method
      BY <1>1 DEF CallFields, NoCall
    <3>2. Becomes(c, Down(s))
      BY <2>2 DEF Call
    <3> HIDE DEF s
    <3>3. Down(s).kind = kind /\ Down(s).method = method
      BY <3>1 DEF Down, CallFields, NoCall
    <3>4. QED
      BY <1>1, <2>2, <3>2, <3>3 DEF Becomes, HealthIsUnary
  <2>3. ASSUME Cancel(c) PROVE HealthIsUnary'
    <3> DEFINE q == [call[c] EXCEPT !.cancelled = TRUE]
    <3>1. DOMAIN q = CallFields /\ q.kind = call[c].kind /\ q.method = call[c].method
      BY <1>1 DEF CallFields, NoCall
    <3>2. Becomes(c, q)
      BY <2>3 DEF Cancel
    <3> HIDE DEF q
    <3>3. QED
      BY <1>1, <1>2, <3>1, <3>2, BecomesSame
  <2>4. QED
    BY <1>4, <2>1, <2>2, <2>3 DEF ClientBegins
<1>5. ASSUME NEW c \in Caller, CallerStep(c) PROVE HealthIsUnary'
  BY <1>1, <1>2, <1>5, CallerStepSame
<1>6. ASSUME NEW c \in Caller, NEW code, AttemptEnds(c, code) PROVE HealthIsUnary'
  BY <1>1, <1>2, <1>6, BecomesSame DEF AttemptEnds
<1>7. ASSUME Tick PROVE HealthIsUnary'
  <2>1. ASSUME NEW c \in Caller PROVE SameCall(c)
    BY <1>1, <1>7 DEF Tick, SameCall, CallFields, NoCall
  <2>2. QED
    BY <1>2, <2>1
<1>8. CASE \E c \in Caller : ClientBegins(c) \/ ClientStep(c) \/ Break(c) \/ Answer(c)
  BY <1>4, <1>5, <1>6, <1>8 DEF ClientStep, Break, Answer
<1>9. CASE Exit \/ TimePasses
  BY <1>3, <1>7, <1>9 DEF Exit, CloseConns, TimePasses
<1>10. ASSUME NEW x \in Execution,
              \/ Arrive(x) \/ Sends(x) \/ StreamReturns(x) \/ ServerStep(x)
              \/ \E d \in Direction : StreamCallback(x, d)
       PROVE  HealthIsUnary'
  BY <1>3, <1>10 DEF Arrive, Sends, StreamReturns, ServerStep, StreamCallback, Receives,
                     Received, Sent, Closes, StreamCallbackEnds, ServerOnly
<1>11. CASE UNCHANGED vars
  BY <1>3, <1>11 DEF vars
<1>12. QED
  BY <1>8, <1>9, <1>10, <1>11 DEF Next

-------------------------------------------------------------------------------
\* No call has a line to begin with.
LEMMA LogInvInit == Init => LogInv
<1> SUFFICES ASSUME Init PROVE LogInv
  OBVIOUS
<1>1. PathInv
  BY PathInvInit
<1>2. HealthIsUnary
  BY DEF Init, ClientInit, HealthIsUnary, NoCall
<1>3. ASSUME NEW x \in Execution PROVE Logs(exec[x], reporter[x], journal[x], decider)
  <2> DEFINE e == exec[x]
             r == reporter[x]
  <2>1. e.stage = "none" /\ e.kind = "unary" /\ journal[x] = <<>>
    BY DEF Init, ReporterInit, NotArrived
  <2>2. /\ r.ctx = NoContext /\ NoContext.status = OK
        /\ \A d \in Direction : r.callback[d] = Idle
        /\ ~Idle.busy /\ Idle.saw = NoContext
    BY DEF Init, ReporterInit, NewReporter, Idle, NoContext
  <2>3. \A writers : Places(<<>>, writers) = {}
    BY DEF Places
  <2> HIDE DEF e, r
  <2>4. Opened(e, r, <<>>, decider) /\ Seen(e, r, <<>>) /\ InTurn(e, r, <<>>, decider)
    BY <2>1, <2>2 DEF Opened, Seen, InTurn
  <2>5. Flagged(r, <<>>) /\ Ended(e, r, <<>>, decider)
    BY <2>1, <2>2, <2>3 DEF Flagged, Ended
  <2>6. QED
    BY <2>1, <2>4, <2>5 DEF Logs, e, r
<1>4. QED
  BY <1>1, <1>2, <1>3 DEF LogInv

\* And every step keeps the lines what they are to be.
LEMMA LogInvStep == LogInv /\ [Next]_vars => LogInv'
<1> SUFFICES ASSUME LogInv, [Next]_vars PROVE LogInv'
  OBVIOUS
<1>1. PathInv' /\ HealthIsUnary'
  BY PathInvStep, HealthStaysUnary DEF LogInv
<1>2. Serving /\ HealthIsUnary /\ \A x \in Execution : LogsAt(x)
  BY DEF LogInv, PathInv, LogsAt
<1>3. ASSUME NEW x \in Execution, LogsAt(x)', OnlyAt(x)
      PROVE  \A y \in Execution : LogsAt(y)'
  BY <1>2, <1>3 DEF LogsAt, OnlyAt
<1>4. ASSUME UNCHANGED serverVars PROVE \A y \in Execution : LogsAt(y)'
  BY <1>2, <1>4 DEF serverVars, LogsAt
<1>5. CASE \/ \E c \in Caller : ClientBegins(c) \/ ClientStep(c) \/ Break(c) \/ Answer(c)
           \/ Exit \/ TimePasses
  <2>1. UNCHANGED serverVars
    BY <1>5 DEF ClientBegins, ClientStep, Break, Answer, Exit, TimePasses
  <2>2. QED
    BY <1>1, <1>4, <2>1 DEF LogInv, LogsAt
<1>6. ASSUME NEW x \in Execution,
             \/ Arrive(x) \/ Sends(x) \/ StreamReturns(x) \/ ServerStep(x)
             \/ \E d \in Direction : StreamCallback(x, d)
      PROVE  \A y \in Execution : LogsAt(y)'
  <2>1. CASE Arrive(x)
    BY <1>2, <1>3, <2>1, ArriveLogs
  <2>2. CASE Sends(x)
    BY <1>2, <1>3, <2>2, SendsLogs
  <2>3. CASE StreamReturns(x)
    BY <1>2, <1>3, <2>3, StreamReturnsLogs
  <2>4. CASE Receives(x)
    BY <1>2, <1>3, <2>4, ReceivesLogs
  <2>5. CASE Received(x)
    BY <1>2, <1>3, <2>5, ReceivedLogs
  <2>6. CASE Sent(x)
    BY <1>2, <1>3, <2>6, SentLogs
  <2>7. CASE Closes(x)
    BY <1>2, <1>3, <2>7, ClosesLogs
  <2>8. ASSUME NEW d \in Direction, StreamCallbackEnds(x, d)
        PROVE  \A y \in Execution : LogsAt(y)'
    BY <1>2, <1>3, <2>8, StreamCallbackEndsLogs
  <2>9. ASSUME NEW d \in Direction, StreamCallback(x, d)
        PROVE  \A y \in Execution : LogsAt(y)'
    BY <1>2, <1>3, <2>9, StreamCallbackLogs
  <2>10. QED
    BY <1>6, <2>1, <2>2, <2>3, <2>4, <2>5, <2>6, <2>7, <2>8, <2>9 DEF ServerStep
<1>7. CASE UNCHANGED vars
  BY <1>1, <1>4, <1>7 DEF vars, serverVars, LogInv, LogsAt
<1>8. QED
  BY <1>1, <1>5, <1>6, <1>7 DEF Next, LogInv, LogsAt

\* In every behaviour.
THEOREM LogInvariance == Spec => []LogInv
<1>1. Init => LogInv
  BY LogInvInit
<1>2. LogInv /\ [Next]_vars => LogInv'
  BY LogInvStep
<1>3. QED
  BY <1>1, <1>2, PTL DEF Spec

\* A handled call is one finished line of the reporter, with the status its client is
\* sent and the contents that were asked for, if the decider asks for it; else it is
\* none.  Excepted are a context's error returned as it is, whose line says Unknown
\* whatever the client is sent, and io.EOF, whose line says success or repeats an
\* earlier status.
THEOREM FinishedAsAnswered == Spec => []LoggedAsAnswered
<1>1. LogInv => LoggedAsAnswered
  <2> SUFFICES ASSUME LogInv, NEW x \in Execution
               PROVE  LET finished == LinesBy(x, {"call"})
                          earlier == {journal[x][i].status : i \in LinesBy(x, Direction)} \ {OK}
                          status == IF exec[x].outcome \in {OK, EOF} THEN {OK} \cup earlier
                                    ELSE IF exec[x].outcome \in ContextErrors THEN {Unknown}
                                    ELSE {SentCode(exec[x].outcome)}
                          contents == {d \in Direction :
                                         \/ d = "receive" /\ decider.request
                                         \/ d = "send" /\ decider.response /\ exec[x].outcome = OK}
                      IN  IF exec[x].stage = "over" /\ AsksFinish(x)
                          THEN \E i \in finished :
                                 /\ finished = {i} /\ journal[x][i].status \in status
                                 /\ exec[x].kind = "unary" /\ earlier = {} =>
                                      journal[x][i].contents = contents
                          ELSE finished = {}
    BY DEF LoggedAsAnswered
  <2>1. Ended(exec[x], reporter[x], journal[x], decider)
    BY DEF LogInv, Logs
  <2>2. /\ LinesBy(x, {"call"}) = Places(journal[x], {"call"})
        /\ LinesBy(x, Direction) = Places(journal[x], Direction)
    BY DEF LinesBy, Places
  <2>3. {journal[x][i].status : i \in LinesBy(x, Direction)} = Statuses(journal[x])
    BY <2>2 DEF Statuses
  <2>4. AsksFinish(x) <=> Asks(exec[x], reporter[x], decider)
    BY DEF AsksFinish, Asks
  <2>5. OfCall(exec[x], decider) =
          {d \in Direction : \/ d = "receive" /\ decider.request
                             \/ d = "send" /\ decider.response /\ exec[x].outcome = OK}
    BY DEF OfCall
  <2>6. CASE exec[x].stage = "over" /\ AsksFinish(x)
    <3>1. PICK i \in Places(journal[x], {"call"}) :
            /\ Places(journal[x], {"call"}) = {i}
            /\ journal[x][i].status \in
                 (IF exec[x].outcome \in {OK, EOF}
                  THEN {OK} \cup (Statuses(journal[x]) \ {OK})
                  ELSE {CodeOf(exec[x].outcome)})
            /\ exec[x].kind = "unary" => journal[x][i].contents = OfCall(exec[x], decider)
      BY <2>1, <2>4, <2>6 DEF Ended
    <3>2. CodeOf(exec[x].outcome) = IF exec[x].outcome \in ContextErrors THEN Unknown
                                    ELSE SentCode(exec[x].outcome)
      BY DEF SentCode, CodeOf, ContextErrors, RawCanceled, RawDeadline
    <3>3. QED
      BY <2>2, <2>3, <2>5, <2>6, <3>1, <3>2
  <2>7. CASE ~(exec[x].stage = "over" /\ AsksFinish(x))
    <3>1. LinesBy(x, {"call"}) = {}
      BY <2>1, <2>2, <2>4, <2>7 DEF Ended
    <3>2. QED
      BY <2>7, <3>1
  <2>8. QED
    BY <2>6, <2>7
<1>2. QED
  BY <1>1, LogInvariance, PTL

\* A call has one started line of the reporter at most, however many messages it has, unless callbacks
\* for both directions ran at once; and one of the health service has exactly one.
THEOREM StartedAtMostOnce == Spec => []StartedOnce
<1>1. LogInv => StartedOnce
  <2> SUFFICES ASSUME LogInv, NEW x \in Execution
               PROVE  /\ ~reporter[x].met => Cardinality(LinesBy(x, Direction)) <= 1
                      /\ reporter[x].method = "health"
                         /\ exec[x].stage \in {"handling", "sending", "over"} =>
                           Cardinality(LinesBy(x, Direction)) = 1
    BY DEF StartedOnce
  <2> DEFINE started == Places(journal[x], Direction)
  <2>1. /\ Opened(exec[x], reporter[x], journal[x], decider) /\ Flagged(reporter[x], journal[x])
        /\ InTurn(exec[x], reporter[x], journal[x], decider)
    BY DEF LogInv, Logs
  <2>2. LinesBy(x, Direction) = started
    BY DEF LinesBy, Places
  <2>3. ~reporter[x].met => \A i, k \in started : i = k
    BY <2>1 DEF Flagged
  <2>4. reporter[x].method = "health" /\ exec[x].stage \in {"handling", "sending", "over"} =>
          ~reporter[x].met /\ started # {}
    BY <2>1 DEF Opened, InTurn
  <2> HIDE DEF started
  <2>5. started = {} => Cardinality(started) = 0
    BY FS_EmptySet
  <2>6. ASSUME NEW i \in started, \A k \in started : i = k PROVE Cardinality(started) = 1
    <3>1. started = {i}
      BY <2>6
    <3>2. QED
      BY <3>1, FS_Singleton
  <2>7. QED
    BY <2>2, <2>3, <2>4, <2>5, <2>6
<1>2. QED
  BY <1>1, LogInvariance, PTL
===============================================================================
