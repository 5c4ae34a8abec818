---------------------------- MODULE PipelineProofs ----------------------------
(***************************************************************************)
(* Proofs about Pipeline, for every set of clients, options, requests and  *)
(* bounds: its types, that each server's own guards judge a request before *)
(* its handler does, and that the chain answers a request at most once.    *)
(***************************************************************************)
EXTENDS Pipeline, SequenceTheorems, WellFoundedInduction, TLAPS

Kind == {"recover", "health", "validate", "tracer", "limit", "auth", "user", "handler"}
LinkOf == [kind : Kind, owner : Owner]
Stage == {"idle", "walking", "recursing", "done", "aborted"}
RequestOf == [via : {"none", "mux", "unary", "stream"}, srv : Nat, path : {"api", "health"},
              method : {"GET", "OPTIONS"}, at : Nat, stage : Stage, status : Code,
              body : Seq(Code), judged : SUBSET LinkOf, wrote : 0 .. MaxWrites,
              failed : BOOLEAN]
ServerOf == [opts : Options, mux : Seq(LinkOf), grpc : Seq(LinkOf)]

\* None of the links is a guard that server s brought.
Foreign(links, s) ==
  \A i \in 1 .. Len(links) : links[i].owner = s => links[i].kind \notin {"limit", "auth"}

\* None of the links is a handler or of a server after the n-th.
Tame(links, n) ==
  \A i \in 1 .. Len(links) : links[i].owner <= n /\ links[i].kind # "handler"

\* The one handler of a chain is its last link.
Handled(chain) == /\ Len(chain) > 0
                  /\ \A i \in 1 .. Len(chain) : chain[i].kind = "handler" <=> i = Len(chain)

\* A chain of server s has the guards of its options, the limiter before authFunc.
Guards(chain, s, opts) ==
  /\ opts.limiter => \E i \in 1 .. Len(chain) : chain[i] = Link("limit", s)
  /\ opts.auth => \E i \in 1 .. Len(chain) : chain[i] = Link("auth", s)
  /\ opts.limiter => \A j \in 1 .. Len(chain) :
                       chain[j] = Link("auth", s) =>
                         \E i \in 1 .. j - 1 : chain[i] = Link("limit", s)

Sound(chain, s, opts) == chain \in Seq(LinkOf) /\ Handled(chain) /\ Guards(chain, s, opts)

\* What servers leave to the next one is theirs.
Inherited ==
  /\ default.limiter \in 0 .. Len(servers) /\ default.auth \in 0 .. Len(servers)
  /\ default.middleWares \in Seq(LinkOf)
  /\ Tame(default.middleWares, Len(servers))

Built ==
  /\ servers \in Seq(ServerOf) /\ Len(servers) <= MaxServers
  /\ \A s \in 1 .. Len(servers) : /\ Sound(servers[s].mux, s, servers[s].opts)
                                  /\ Sound(servers[s].grpc, s, servers[s].opts)

Plain == /\ recoverPanic \in BOOLEAN
         /\ tokens \in [Owner -> 0 .. Quota]
         /\ req \in [Client -> RequestOf]
         /\ fate \in {"alive", "limit", "auth", "user", "handler", "write"}

ChainOf(r, svs) == IF r.via = "mux" THEN svs[r.srv].mux ELSE svs[r.srv].grpc

\* A request has been let through by exactly the links before it that look at it.
Walked(r, chain) ==
  /\ \A j \in 1 .. r.at - 1 : Transparent(chain[j], r) \/ chain[j] \in r.judged
  /\ \A link \in r.judged : \E j \in 1 .. r.at - 1 : chain[j] = link

\* What the body of a request has beside the writes of user code: nothing on its way,
\* an error if it failed, and otherwise what the health check or a gRPC call returns.
Answering(r, chain) ==
  LET own == IF r.via # "mux" \/ chain[r.at].kind = "health" THEN 1 ELSE 0
  IN  /\ r.stage = "walking" => Len(r.body) = r.wrote /\ ~r.failed
      /\ r.stage = "done" /\ r.failed =>
           Len(r.body) = r.wrote + 1 /\ r.body[Len(r.body)] # "OK"
      /\ r.stage = "done" /\ ~r.failed => Len(r.body) = r.wrote + own

\* A request on its way along a chain of a server that was built.
OnItsWay(r, svs) == r.stage # "idle" => /\ r.srv \in 1 .. Len(svs)
                                        /\ r.at \in 1 .. Len(ChainOf(r, svs))
                                        /\ Walked(r, ChainOf(r, svs))
                                        /\ Answering(r, ChainOf(r, svs))

Moving == \A c \in Client : OnItsWay(req[c], servers)

IInv == Inherited /\ Built /\ Plain /\ Moving

-------------------------------------------------------------------------------
(* Chains *)

\* A link that is added on a condition.
LEMMA IfSeq ==
  ASSUME NEW b \in BOOLEAN, NEW link \in LinkOf
  PROVE  /\ If(b, link) \in Seq(LinkOf)
         /\ Len(If(b, link)) = IF b THEN 1 ELSE 0
         /\ \A i \in 1 .. Len(If(b, link)) : If(b, link)[i] = link
BY DEF If

\* Where the links of two sequences are in their concatenation.
LEMMA Places ==
  ASSUME NEW s \in Seq(LinkOf), NEW t \in Seq(LinkOf)
  PROVE  /\ s \o t \in Seq(LinkOf) /\ Len(s \o t) = Len(s) + Len(t)
         /\ \A i \in 1 .. Len(s) : (s \o t)[i] = s[i]
         /\ \A i \in 1 .. Len(t) : (s \o t)[Len(s) + i] = t[i]
<1>1. /\ s \o t \in Seq(LinkOf) /\ Len(s \o t) = Len(s) + Len(t)
      /\ \A i \in 1 .. Len(s) + Len(t) :
           (s \o t)[i] = IF i <= Len(s) THEN s[i] ELSE t[i - Len(s)]
  BY ConcatProperties
<1>2. Len(s) \in Nat /\ Len(t) \in Nat
  OBVIOUS
<1>3. ASSUME NEW i \in 1 .. Len(t) PROVE (s \o t)[Len(s) + i] = t[i]
  <2>1. Len(s) + i \in 1 .. Len(s) + Len(t) /\ ~(Len(s) + i <= Len(s))
        /\ Len(s) + i - Len(s) = i
    BY <1>2
  <2> QED
    BY <1>1, <2>1
<1> QED
  BY <1>1, <1>2, <1>3

\* Both chains are built this way: links without guards of the server's own, perhaps
\* a limiter, perhaps an authFunc, and more links without such guards that end with
\* the handler.
LEMMA ChainShape ==
  ASSUME NEW s \in Owner, NEW opts \in Options,
         NEW A \in Seq(LinkOf), NEW lim \in BOOLEAN, NEW x \in Owner,
         NEW auth \in BOOLEAN, NEW y \in Owner, NEW D \in Seq(LinkOf),
         Foreign(A, s), Foreign(D, s), Handled(D),
         \A i \in 1 .. Len(A) : A[i].kind # "handler",
         opts.limiter => lim /\ x = s,
         opts.auth => auth /\ y = s
  PROVE  Sound(((A \o If(lim, Link("limit", x))) \o If(auth, Link("auth", y))) \o D, s, opts)
<1> DEFINE B == If(lim, Link("limit", x))
           C == If(auth, Link("auth", y))
           chain == ((A \o B) \o C) \o D
<1>1. Link("limit", x) \in LinkOf /\ Link("auth", y) \in LinkOf
  BY DEF Link, LinkOf, Kind
<1>2. /\ B \in Seq(LinkOf) /\ Len(B) = (IF lim THEN 1 ELSE 0)
      /\ \A i \in 1 .. Len(B) : B[i] = Link("limit", x)
  BY <1>1, IfSeq
<1>3. /\ C \in Seq(LinkOf) /\ Len(C) = (IF auth THEN 1 ELSE 0)
      /\ \A i \in 1 .. Len(C) : C[i] = Link("auth", y)
  BY <1>1, IfSeq
<1> DEFINE a == Len(A)
           b == Len(B)
           k == Len(C)
           d == Len(D)
<1>4. a \in Nat /\ b \in Nat /\ k \in Nat /\ d \in Nat
  BY <1>2, <1>3
<1> HIDE DEF B, C, a, b, k, d
<1>5. /\ chain \in Seq(LinkOf) /\ Len(chain) = a + b + k + d
      /\ \A i \in 1 .. a : chain[i] = A[i]
      /\ \A i \in 1 .. b : chain[a + i] = B[i]
      /\ \A i \in 1 .. k : chain[a + b + i] = C[i]
      /\ \A i \in 1 .. d : chain[a + b + k + i] = D[i]
  <2>1. /\ A \o B \in Seq(LinkOf) /\ Len(A \o B) = a + b
        /\ \A i \in 1 .. a : (A \o B)[i] = A[i]
        /\ \A i \in 1 .. b : (A \o B)[a + i] = B[i]
    BY <1>2, Places DEF a, b
  <2> DEFINE AB == A \o B
  <2> HIDE DEF AB
  <2>2. /\ AB \o C \in Seq(LinkOf) /\ Len(AB \o C) = a + b + k
        /\ \A i \in 1 .. a + b : (AB \o C)[i] = AB[i]
        /\ \A i \in 1 .. k : (AB \o C)[a + b + i] = C[i]
    <3>1. AB \in Seq(LinkOf) /\ Len(AB) = a + b
      BY <2>1 DEF AB
    <3>2. /\ AB \o C \in Seq(LinkOf) /\ Len(AB \o C) = Len(AB) + Len(C)
          /\ \A i \in 1 .. Len(AB) : (AB \o C)[i] = AB[i]
          /\ \A i \in 1 .. Len(C) : (AB \o C)[Len(AB) + i] = C[i]
      BY <1>3, <3>1, Places
    <3> QED
      BY <3>1, <3>2 DEF k
  <2> DEFINE ABC == AB \o C
  <2> HIDE DEF ABC
  <2>3. /\ ABC \o D \in Seq(LinkOf) /\ Len(ABC \o D) = a + b + k + d
        /\ \A i \in 1 .. a + b + k : (ABC \o D)[i] = ABC[i]
        /\ \A i \in 1 .. d : (ABC \o D)[a + b + k + i] = D[i]
    BY <2>2, Places, SMTT(30) DEF ABC, d
  <2>4. chain = ABC \o D
    BY DEF AB, ABC
  <2> HIDE DEF chain
  <2>5. \A i \in 1 .. a : chain[i] = A[i]
    BY <1>4, <2>1, <2>2, <2>3, <2>4 DEF AB, ABC
  <2>6. \A i \in 1 .. b : chain[a + i] = B[i]
    <3> TAKE i \in 1 .. b
    <3>1. a + i \in 1 .. a + b /\ a + i \in 1 .. a + b + k
      BY <1>4
    <3> QED
      BY <2>1, <2>2, <2>3, <2>4, <3>1 DEF AB, ABC
  <2>7. \A i \in 1 .. k : chain[a + b + i] = C[i]
    <3> TAKE i \in 1 .. k
    <3>1. a + b + i \in 1 .. a + b + k
      BY <1>4
    <3> QED
      BY <2>2, <2>3, <2>4, <3>1 DEF ABC
  <2> QED
    BY <2>3, <2>4, <2>5, <2>6, <2>7
<1> HIDE DEF chain
<1>6. \A i \in 1 .. Len(chain) :
        \/ i \in 1 .. a /\ chain[i] = A[i]
        \/ i - a \in 1 .. b /\ chain[i] = Link("limit", x)
        \/ i - a - b \in 1 .. k /\ chain[i] = Link("auth", y)
        \/ i - a - b - k \in 1 .. d /\ chain[i] = D[i - a - b - k]
  <2> TAKE i \in 1 .. Len(chain)
  <2>1. CASE i <= a
    BY <1>4, <1>5, <2>1
  <2>2. CASE a < i /\ i <= a + b
    <3>1. i - a \in 1 .. b /\ a + (i - a) = i
      BY <1>4, <1>5, <2>2
    <3> QED
      BY <1>2, <1>5, <3>1 DEF b
  <2>3. CASE a + b < i /\ i <= a + b + k
    <3>1. i - a - b \in 1 .. k /\ a + b + (i - a - b) = i
      BY <1>4, <1>5, <2>3
    <3> QED
      BY <1>3, <1>5, <3>1 DEF k
  <2>4. CASE a + b + k < i
    <3>1. i - a - b - k \in 1 .. d /\ a + b + k + (i - a - b - k) = i
      BY <1>4, <1>5, <2>4, SMTT(30)
    <3> QED
      BY <1>5, <3>1
  <2> QED
    BY <1>4, <1>5, <2>1, <2>2, <2>3, <2>4
<1>7. Handled(chain)
  <2>1. d > 0 /\ \A i \in 1 .. d : D[i].kind = "handler" <=> i = d
    BY DEF Handled, d
  <2>2. \A i \in 1 .. a : A[i].kind # "handler"
    BY DEF a
  <2>3. Link("limit", x).kind = "limit" /\ Link("auth", y).kind = "auth"
    BY DEF Link
  <2>4. ASSUME NEW i \in 1 .. Len(chain) PROVE chain[i].kind = "handler" <=> i = Len(chain)
    <3>1. CASE i - a - b - k \in 1 .. d /\ chain[i] = D[i - a - b - k]
      BY <1>4, <1>5, <2>1, <3>1
    <3>2. ASSUME ~(i - a - b - k \in 1 .. d) PROVE i # Len(chain)
      BY <1>4, <1>5, <2>1, <3>2, SMTT(30)
    <3>3. ASSUME ~(i - a - b - k \in 1 .. d) PROVE chain[i].kind # "handler"
      BY <1>6, <2>2, <2>3, <3>3
    <3>4. ~(i - a - b - k \in 1 .. d) \/ chain[i] = D[i - a - b - k]
      <4>1. ASSUME i - a - b - k \in 1 .. d PROVE chain[i] = D[i - a - b - k]
        <5>1. a + b + k + (i - a - b - k) = i
          BY <1>4
        <5> QED
          BY <1>5, <4>1, <5>1
      <4> QED
        BY <4>1
    <3> QED
      BY <3>1, <3>2, <3>3, <3>4
  <2> QED
    BY <1>4, <1>5, <2>1, <2>4 DEF Handled
<1>8. ASSUME opts.limiter PROVE a + 1 \in 1 .. Len(chain) /\ chain[a + 1] = Link("limit", s)
                                /\ b = 1
  BY <1>2, <1>4, <1>5, <1>8 DEF b
<1>9. ASSUME opts.auth
      PROVE  a + b + 1 \in 1 .. Len(chain) /\ chain[a + b + 1] = Link("auth", s)
  BY <1>3, <1>4, <1>5, <1>9 DEF k
<1>10. ASSUME opts.limiter, NEW j \in 1 .. Len(chain), chain[j] = Link("auth", s)
       PROVE  \E i \in 1 .. j - 1 : chain[i] = Link("limit", s)
  <2>1. chain[j].kind = "auth" /\ chain[j].owner = s
    BY <1>10 DEF Link
  <2>2. Link("limit", x).kind = "limit"
    BY DEF Link
  <2>3. ~(j \in 1 .. a /\ chain[j] = A[j])
    BY <2>1 DEF Foreign, a
  <2>4. ~(j - a - b - k \in 1 .. d /\ chain[j] = D[j - a - b - k])
    BY <2>1 DEF Foreign, d
  <2>5. j - a - b \in 1 .. k
    BY <1>6, <2>1, <2>2, <2>3, <2>4
  <2>6. a + 1 \in 1 .. j - 1
    BY <1>4, <1>8, <1>10, <2>5
  <2> QED
    BY <1>8, <1>10, <2>6
<1> QED
  BY <1>5, <1>7, <1>8, <1>9, <1>10 DEF Sound, Guards, chain, B, C

\* No guard is a server's own before it is built.
LEMMA TameIsForeign ==
  ASSUME NEW links \in Seq(LinkOf), NEW n \in Nat, Tame(links, n)
  PROVE  Foreign(links, n + 1) /\ Tame(links, n + 1)
<1>1. ASSUME NEW i \in 1 .. Len(links)
      PROVE  links[i].owner # n + 1 /\ links[i].owner <= n + 1
  <2>1. links[i] \in LinkOf
    OBVIOUS
  <2>2. links[i].owner \in Nat
    BY <2>1, PipelineAssumption DEF LinkOf, Owner
  <2>3. links[i].owner <= n
    BY DEF Tame
  <2> QED
    BY <2>2, <2>3
<1> QED
  BY <1>1 DEF Foreign, Tame

\* Concatenations of links may be grouped either way.
LEMMA Regrouped ==
  ASSUME NEW s \in Seq(LinkOf), NEW t \in Seq(LinkOf), NEW u \in Seq(LinkOf)
  PROVE  (s \o t) \o u = s \o (t \o u)
BY ConcatAssociative

\* The links of a concatenation are those of its parts.
LEMMA FromBoth ==
  ASSUME NEW s \in Seq(LinkOf), NEW t \in Seq(LinkOf), NEW n
  PROVE  /\ Foreign(s, n) /\ Foreign(t, n) => Foreign(s \o t, n)
         /\ Tame(s, n) /\ Tame(t, n) => Tame(s \o t, n)
<1>1. ASSUME NEW i \in 1 .. Len(s \o t)
      PROVE  \/ \E j \in 1 .. Len(s) : (s \o t)[i] = s[j]
             \/ \E j \in 1 .. Len(t) : (s \o t)[i] = t[j]
  <2>1. Len(s) \in Nat /\ Len(t) \in Nat
    OBVIOUS
  <2>2. CASE i <= Len(s)
    BY <2>1, <2>2, Places
  <2>3. CASE ~(i <= Len(s))
    <3>1. i - Len(s) \in 1 .. Len(t) /\ Len(s) + (i - Len(s)) = i
      BY <2>1, <2>3, Places
    <3> QED
      BY <3>1, Places
  <2> QED
    BY <2>2, <2>3
<1> QED
  BY <1>1 DEF Foreign, Tame

\* The links a server adds itself.
LEMMA OwnLinks ==
  ASSUME NEW s \in Owner, NEW b \in BOOLEAN
  PROVE  /\ If(b, Link("user", s)) \in Seq(LinkOf)
         /\ Foreign(If(b, Link("user", s)), s) /\ Tame(If(b, Link("user", s)), s)
         /\ <<Link("tracer", s)>> \in Seq(LinkOf)
         /\ Foreign(<<Link("tracer", s)>>, s) /\ Tame(<<Link("tracer", s)>>, s)
         /\ <<Link("recover", s), Link("health", s)>> \in Seq(LinkOf)
         /\ Foreign(<<Link("recover", s), Link("health", s)>>, s)
         /\ Tame(<<Link("recover", s), Link("health", s)>>, s)
         /\ <<Link("validate", s), Link("tracer", s)>> \in Seq(LinkOf)
         /\ Foreign(<<Link("validate", s), Link("tracer", s)>>, s)
         /\ Tame(<<Link("validate", s), Link("tracer", s)>>, s)
<1>1. /\ Link("user", s) \in LinkOf /\ Link("tracer", s) \in LinkOf
      /\ Link("recover", s) \in LinkOf /\ Link("health", s) \in LinkOf
      /\ Link("validate", s) \in LinkOf
  BY DEF Link, LinkOf, Kind
<1>2. \A k : Link(k, s).kind = k /\ Link(k, s).owner = s
  BY DEF Link
<1>3. s <= s
  BY PipelineAssumption DEF Owner
<1>4. /\ If(b, Link("user", s)) \in Seq(LinkOf)
      /\ Foreign(If(b, Link("user", s)), s) /\ Tame(If(b, Link("user", s)), s)
  BY <1>1, <1>2, <1>3, IfSeq DEF Foreign, Tame
<1>5. /\ <<Link("tracer", s)>> \in Seq(LinkOf)
      /\ Foreign(<<Link("tracer", s)>>, s) /\ Tame(<<Link("tracer", s)>>, s)
  BY <1>1, <1>2, <1>3 DEF Foreign, Tame
<1>6. ASSUME NEW k \in {"recover", "validate"}, NEW m \in {"health", "tracer"}
      PROVE  /\ <<Link(k, s), Link(m, s)>> \in Seq(LinkOf)
             /\ Foreign(<<Link(k, s), Link(m, s)>>, s) /\ Tame(<<Link(k, s), Link(m, s)>>, s)
  <2> DEFINE two == <<Link(k, s), Link(m, s)>>
  <2>1. two \in Seq(LinkOf) /\ Len(two) = 2 /\ two[1] = Link(k, s) /\ two[2] = Link(m, s)
    BY <1>1
  <2> HIDE DEF two
  <2>2. \A i \in 1 .. Len(two) : i = 1 \/ i = 2
    BY <2>1
  <2>3. Foreign(two, s) /\ Tame(two, s)
    BY <1>2, <1>3, <2>1, <2>2 DEF Foreign, Tame
  <2> QED
    BY <2>1, <2>3 DEF two
<1> QED
  BY <1>4, <1>5, <1>6

\* The end of either chain.
LEMMA Ends ==
  ASSUME NEW s \in Owner
  PROVE  /\ <<Link("handler", s)>> \in Seq(LinkOf)
         /\ Foreign(<<Link("handler", s)>>, s) /\ Handled(<<Link("handler", s)>>)
         /\ Innermost(s) \in Seq(LinkOf)
         /\ Foreign(Innermost(s), s) /\ Handled(Innermost(s))
<1>1. Link("recover", s) \in LinkOf /\ Link("handler", s) \in LinkOf
  BY DEF Link, LinkOf, Kind
<1>2. Link("recover", s).kind = "recover" /\ Link("handler", s).kind = "handler"
  BY DEF Link
<1>3. /\ <<Link("handler", s)>> \in Seq(LinkOf)
      /\ Foreign(<<Link("handler", s)>>, s) /\ Handled(<<Link("handler", s)>>)
  BY <1>1, <1>2 DEF Foreign, Handled
<1>4. /\ Innermost(s) \in Seq(LinkOf) /\ Len(Innermost(s)) = 2
      /\ Innermost(s)[1] = Link("recover", s) /\ Innermost(s)[2] = Link("handler", s)
  BY <1>1 DEF Innermost
<1>5. Foreign(Innermost(s), s) /\ Handled(Innermost(s))
  BY <1>2, <1>4 DEF Foreign, Handled
<1> QED
  BY <1>3, <1>4, <1>5

\* The chain around the gateway's mux: what servers before this one left, then its
\* own links, with the limiter and the authFunc it inherited or was given.
LEMMA MuxChainSound ==
  ASSUME NEW n \in Nat, n + 1 \in Owner, NEW opts \in Options,
         NEW mw \in Seq(LinkOf), Tame(mw, n), NEW l \in 0 .. n, NEW a \in 0 .. n,
         NEW option,
         option.limiter = Chosen(opts.limiter, l, n + 1),
         option.auth = Chosen(opts.auth, a, n + 1),
         option.middleWares = mw \o If(opts.user, Link("user", n + 1))
                                 \o <<Link("tracer", n + 1)>>
                                 \o If(option.limiter # Nobody, Link("limit", option.limiter))
                                 \o If(option.auth # Nobody, Link("auth", option.auth))
  PROVE  /\ Sound(MuxChain(option, n + 1), n + 1, opts)
         /\ option.limiter \in 0 .. n + 1 /\ option.auth \in 0 .. n + 1
         /\ option.middleWares \in Seq(LinkOf) /\ Tame(option.middleWares, n + 1)
<1> DEFINE s == n + 1
           limiter == Chosen(opts.limiter, l, s)
           auth == Chosen(opts.auth, a, s)
           x == IF limiter # Nobody THEN limiter ELSE s
           y == IF auth # Nobody THEN auth ELSE s
           U == If(opts.user, Link("user", s))
           T == <<Link("tracer", s)>>
           L == If(limiter # Nobody, Link("limit", x))
           G == If(auth # Nobody, Link("auth", y))
           P == <<Link("recover", s), Link("health", s)>>
           M == (mw \o U) \o T
           D == <<Link("handler", s)>>
<1>1. opts.limiter \in BOOLEAN /\ opts.auth \in BOOLEAN /\ opts.user \in BOOLEAN
  BY PipelineAssumption
<1>2. /\ limiter \in 0 .. s /\ auth \in 0 .. s
      /\ opts.limiter => limiter = s
      /\ opts.auth => auth = s
      /\ x \in Owner /\ y \in Owner
  BY <1>1, PipelineAssumption DEF Chosen, Nobody, Owner
<1>3. /\ option.limiter = limiter /\ option.auth = auth
      /\ option.middleWares = (M \o L) \o G
  BY DEF If
<1>4. MuxChain(option, s) = (P \o ((M \o L) \o G)) \o D
  BY <1>3 DEF MuxChain
<1> HIDE DEF s, limiter, auth, x, y, U, T, L, G, P, D
<1>5. M \in Seq(LinkOf) /\ Foreign(M, s) /\ Tame(M, s)
  <2>1. Foreign(mw, s) /\ Tame(mw, s)
    BY TameIsForeign DEF s
  <2>2. U \in Seq(LinkOf) /\ Foreign(U, s) /\ Tame(U, s)
    BY <1>1, OwnLinks DEF U, s
  <2>3. T \in Seq(LinkOf) /\ Foreign(T, s) /\ Tame(T, s)
    BY <1>1, OwnLinks DEF T, s
  <2>4. mw \o U \in Seq(LinkOf) /\ Foreign(mw \o U, s) /\ Tame(mw \o U, s)
    BY <2>1, <2>2, FromBoth, Places
  <2> QED
    BY <2>3, <2>4, FromBoth, Places
<1> HIDE DEF M
<1>6. /\ L \in Seq(LinkOf) /\ Tame(L, s)
      /\ G \in Seq(LinkOf) /\ Tame(G, s)
  <2>1. ASSUME NEW z \in Owner, z <= s
        PROVE  /\ Link("limit", z) \in LinkOf /\ Link("auth", z) \in LinkOf
               /\ Link("limit", z).kind = "limit" /\ Link("auth", z).kind = "auth"
               /\ Link("limit", z).owner <= s /\ Link("auth", z).owner <= s
    BY <2>1 DEF Link, LinkOf, Kind
  <2>2. x <= s /\ y <= s
    BY <1>2 DEF x, y, s
  <2>3. ASSUME NEW condition \in BOOLEAN, NEW z \in Owner, z <= s
        PROVE  /\ If(condition, Link("limit", z)) \in Seq(LinkOf)
               /\ Tame(If(condition, Link("limit", z)), s)
    <3>1. PICK link \in LinkOf : link = Link("limit", z) /\ link.kind = "limit" /\ link.owner <= s
      BY <2>1, <2>3
    <3>2. If(condition, link) \in Seq(LinkOf) /\ Tame(If(condition, link), s)
      BY <3>1, IfSeq DEF Tame
    <3> QED
      BY <3>1, <3>2
  <2>4. ASSUME NEW condition \in BOOLEAN, NEW z \in Owner, z <= s
        PROVE  /\ If(condition, Link("auth", z)) \in Seq(LinkOf)
               /\ Tame(If(condition, Link("auth", z)), s)
    <3>1. PICK link \in LinkOf : link = Link("auth", z) /\ link.kind = "auth" /\ link.owner <= s
      BY <2>1, <2>4
    <3>2. If(condition, link) \in Seq(LinkOf) /\ Tame(If(condition, link), s)
      BY <3>1, IfSeq DEF Tame
    <3> QED
      BY <3>1, <3>2
  <2> QED
    BY <1>2, <2>2, <2>3, <2>4 DEF L, G
<1>7. P \in Seq(LinkOf) /\ Foreign(P, s) /\ Tame(P, s)
  BY <1>1, OwnLinks DEF P, s
<1>8. D \in Seq(LinkOf) /\ Foreign(D, s) /\ Handled(D)
  BY Ends DEF D, s
<1>9. P \o M \in Seq(LinkOf) /\ Foreign(P \o M, s) /\ Tame(P \o M, s)
  BY <1>5, <1>7, FromBoth, Places
<1>10. M \o L \in Seq(LinkOf) /\ Tame(M \o L, s)
  BY <1>5, <1>6, FromBoth, Places
<1>11. (M \o L) \o G \in Seq(LinkOf) /\ Tame((M \o L) \o G, s)
  BY <1>6, <1>10, FromBoth, Places
<1>12. P \o ((M \o L) \o G) = ((P \o M) \o L) \o G
  <2>1. P \o ((M \o L) \o G) = (P \o (M \o L)) \o G
    BY <1>6, <1>7, <1>10, Regrouped
  <2>2. P \o (M \o L) = (P \o M) \o L
    BY <1>5, <1>6, <1>7, Regrouped
  <2> QED
    BY <2>1, <2>2
<1>13. Sound((((P \o M) \o L) \o G) \o D, s, opts)
  <2> DEFINE PM == P \o M
  <2>1. PM \in Seq(LinkOf) /\ Foreign(PM, s) /\ \A i \in 1 .. Len(PM) : PM[i].kind # "handler"
    BY <1>9 DEF Tame
  <2> HIDE DEF PM
  <2>2. s \in Owner
    BY DEF s
  <2>3. Sound(((PM \o If(limiter # Nobody, Link("limit", x)))
                  \o If(auth # Nobody, Link("auth", y))) \o D, s, opts)
    <3>1. opts.limiter => limiter # Nobody /\ x = s
      BY <1>2, <2>2, PipelineAssumption DEF x, Nobody, Owner
    <3>2. opts.auth => auth # Nobody /\ y = s
      BY <1>2, <2>2, PipelineAssumption DEF y, Nobody, Owner
    <3> QED
      BY <1>2, <1>8, <2>1, <2>2, <3>1, <3>2, ChainShape
  <2> QED
    BY <2>3 DEF PM, L, G
<1> QED
  BY <1>2, <1>3, <1>4, <1>11, <1>12, <1>13 DEF s

\* The chain of interceptors of a gRPC server.
LEMMA GrpcChainSound ==
  ASSUME NEW s \in Owner, NEW opts \in Options
  PROVE  Sound(GrpcChain(opts, s), s, opts)
<1> DEFINE V == <<Link("validate", s), Link("tracer", s)>>
           L == If(opts.limiter, Link("limit", s))
           G == If(opts.auth, Link("auth", s))
           U == If(opts.user, Link("user", s))
           I == Innermost(s)
<1>1. opts.limiter \in BOOLEAN /\ opts.auth \in BOOLEAN /\ opts.user \in BOOLEAN
  BY PipelineAssumption
<1>2. GrpcChain(opts, s) = (((V \o L) \o G) \o U) \o I
  BY DEF GrpcChain
<1>3. V \in Seq(LinkOf) /\ Foreign(V, s) /\ \A i \in 1 .. Len(V) : V[i].kind # "handler"
  BY <1>1, OwnLinks DEF Tame
<1>4. U \in Seq(LinkOf) /\ Foreign(U, s) /\ Tame(U, s)
  BY <1>1, OwnLinks
<1>5. I \in Seq(LinkOf) /\ Foreign(I, s) /\ Handled(I)
  BY Ends
<1>6. L \in Seq(LinkOf) /\ G \in Seq(LinkOf)
  <2>1. Link("limit", s) \in LinkOf /\ Link("auth", s) \in LinkOf
    BY DEF Link, LinkOf, Kind
  <2> QED
    BY <1>1, <2>1, IfSeq
<1> HIDE DEF V, L, G, U, I
<1>7. U \o I \in Seq(LinkOf) /\ Foreign(U \o I, s)
  BY <1>4, <1>5, FromBoth, Places
<1>8. Handled(U \o I)
  <2>1. /\ U \o I \in Seq(LinkOf) /\ Len(U \o I) = Len(U) + Len(I)
        /\ \A i \in 1 .. Len(U) : (U \o I)[i] = U[i]
        /\ \A i \in 1 .. Len(I) : (U \o I)[Len(U) + i] = I[i]
    BY <1>4, <1>5, Places
  <2>2. Len(U) \in Nat /\ Len(I) \in Nat /\ Len(I) > 0
    BY <1>4, <1>5 DEF Handled
  <2>3. ASSUME NEW i \in 1 .. Len(U \o I)
        PROVE  (U \o I)[i].kind = "handler" <=> i = Len(U \o I)
    <3>1. CASE i <= Len(U)
      BY <1>4, <2>1, <2>2, <3>1 DEF Tame
    <3>2. CASE ~(i <= Len(U))
      <4>1. i - Len(U) \in 1 .. Len(I) /\ Len(U) + (i - Len(U)) = i
        BY <2>1, <2>2, <3>2
      <4>2. (U \o I)[i] = I[i - Len(U)]
        BY <2>1, <4>1
      <4>3. I[i - Len(U)].kind = "handler" <=> i - Len(U) = Len(I)
        BY <1>5, <4>1 DEF Handled
      <4> QED
        BY <2>1, <2>2, <4>1, <4>2, <4>3
    <3> QED
      BY <3>1, <3>2
  <2> QED
    BY <2>1, <2>2, <2>3 DEF Handled
<1>9. (V \o L) \o G \in Seq(LinkOf)
  <2>1. V \o L \in Seq(LinkOf)
    BY <1>3, <1>6, Places
  <2> QED
    BY <1>6, <2>1, Places
<1>10. (((V \o L) \o G) \o U) \o I = ((V \o L) \o G) \o (U \o I)
  BY <1>4, <1>5, <1>9, Regrouped
<1>11. Sound(((V \o L) \o G) \o (U \o I), s, opts)
  <2> DEFINE UI == U \o I
  <2>1. UI \in Seq(LinkOf) /\ Foreign(UI, s) /\ Handled(UI)
    BY <1>7, <1>8
  <2> HIDE DEF UI
  <2>2. Sound(((V \o If(opts.limiter, Link("limit", s)))
                 \o If(opts.auth, Link("auth", s))) \o UI, s, opts)
    BY <1>1, <1>3, <2>1, ChainShape
  <2> QED
    BY <2>2 DEF UI, L, G
<1> QED
  BY <1>2, <1>10, <1>11

-------------------------------------------------------------------------------
(* Servers *)

\* NewServer leaves to the next server what its chain has, and the chains of the
\* servers before it as they are.
LEMMA NewServerKeeps ==
  ASSUME IInv, NEW opts \in Options, NewServer(opts)
  PROVE  IInv'
<1> DEFINE n == Len(servers)
           self == n + 1
           option == MuxOption(opts, self)
           new == [opts |-> opts, mux |-> MuxChain(option, self),
                   grpc |-> GrpcChain(opts, self)]
<1>1. /\ servers \in Seq(ServerOf) /\ n \in Nat /\ self \in Owner
      /\ servers' = Append(servers, new) /\ default' = option
      /\ UNCHANGED <<recoverPanic, tokens, req, fate>>
  BY DEF NewServer, IInv, Built
<1>2. PICK m \in Nat : m = n
  BY <1>1
<1>3. PICK mw \in Seq(LinkOf), l \in 0 .. m, a \in 0 .. m :
        /\ mw = default.middleWares /\ l = default.limiter /\ a = default.auth
        /\ Tame(mw, m)
  BY <1>2 DEF IInv, Inherited
<1>4. PICK o : o = option
  OBVIOUS
<1>5. /\ Sound(MuxChain(o, m + 1), m + 1, opts)
      /\ o.limiter \in 0 .. m + 1 /\ o.auth \in 0 .. m + 1
      /\ o.middleWares \in Seq(LinkOf) /\ Tame(o.middleWares, m + 1)
  <2>1. /\ o.limiter = Chosen(opts.limiter, l, m + 1)
        /\ o.auth = Chosen(opts.auth, a, m + 1)
        /\ o.middleWares = mw \o If(opts.user, Link("user", m + 1))
                              \o <<Link("tracer", m + 1)>>
                              \o If(o.limiter # Nobody, Link("limit", o.limiter))
                              \o If(o.auth # Nobody, Link("auth", o.auth))
    BY <1>2, <1>3, <1>4 DEF MuxOption
  <2>2. m + 1 \in Owner
    BY <1>1, <1>2
  <2> QED
    BY <2>1, <2>2, <1>3, MuxChainSound
<1>6. Sound(GrpcChain(opts, m + 1), m + 1, opts)
  BY <1>1, <1>2, GrpcChainSound
<1>7. PICK sv : sv = new
  OBVIOUS
<1>8. /\ sv \in ServerOf /\ sv.opts = opts
      /\ Sound(sv.mux, m + 1, opts) /\ Sound(sv.grpc, m + 1, opts)
  BY <1>2, <1>4, <1>5, <1>6, <1>7 DEF Sound, ServerOf
<1> HIDE DEF new, option
<1>9. /\ servers' \in Seq(ServerOf) /\ Len(servers') = m + 1 /\ servers'[m + 1] = sv
      /\ \A s \in 1 .. m : servers'[s] = servers[s]
  BY <1>1, <1>2, <1>7, <1>8
<1>10. Inherited'
  BY <1>1, <1>4, <1>5, <1>9 DEF Inherited
<1>11. Built'
  <2>1. m + 1 <= MaxServers
    BY <1>1, <1>2, PipelineAssumption DEF Owner
  <2>2. ASSUME NEW s \in 1 .. m + 1
        PROVE  /\ Sound(servers'[s].mux, s, servers'[s].opts)
               /\ Sound(servers'[s].grpc, s, servers'[s].opts)
    <3>1. CASE s = m + 1
      BY <1>8, <1>9, <3>1
    <3>2. CASE s \in 1 .. m
      BY <1>2, <1>9, <3>2 DEF IInv, Built
    <3> QED
      BY <3>1, <3>2
  <2> QED
    BY <1>9, <2>1, <2>2 DEF Built
<1>12. Moving'
  <2>1. ASSUME NEW c \in Client PROVE OnItsWay(req[c], servers')
    <3>1. PICK r : r = req[c]
      OBVIOUS
    <3>2. CASE r.stage = "idle"
      BY <3>1, <3>2 DEF OnItsWay
    <3>3. CASE r.stage # "idle"
      <4>1. r.srv \in 1 .. m /\ OnItsWay(r, servers)
        BY <1>2, <3>1, <3>3 DEF IInv, Moving, OnItsWay
      <4>2. ChainOf(r, servers') = ChainOf(r, servers)
        BY <1>9, <4>1 DEF ChainOf
      <4>3. r.srv \in 1 .. Len(servers')
        BY <1>9, <4>1
      <4> QED
        BY <3>1, <3>3, <4>1, <4>2, <4>3 DEF OnItsWay
    <3> QED
      BY <3>2, <3>3
  <2> QED
    BY <1>1, <2>1 DEF Moving
<1>13. Plain'
  BY <1>1 DEF IInv, Plain
<1> QED
  BY <1>10, <1>11, <1>12, <1>13 DEF IInv

-------------------------------------------------------------------------------
(* Requests *)

\* A set of numbers that is not empty has a first one.
LEMMA LeastNumber ==
  ASSUME NEW T, T \subseteq Nat, T # {}
  PROVE  \E i \in T : \A j \in T : i <= j
<1>1. PICK i \in T : \A j \in T : <<j, i>> \notin OpToRel(<, Nat)
  BY NatLessThanWellFounded, WFMin
<1>2. ASSUME NEW j \in T PROVE i <= j
  <2>1. i \in Nat /\ j \in Nat
    OBVIOUS
  <2>2. ~(j < i)
    BY <1>1, <2>1 DEF OpToRel
  <2> QED
    BY <2>1, <2>2
<1> QED
  BY <1>2

\* The next link that looks at a request: there is one, the handler at the latest.
LEMMA FollowingIs ==
  ASSUME NEW r, Chain(r) \in Seq(LinkOf), Handled(Chain(r)), NEW i \in 1 .. Len(Chain(r))
  PROVE  /\ Following(r, i) \in i .. Len(Chain(r))
         /\ \A k \in i .. Following(r, i) - 1 : Transparent(Chain(r)[k], r)
<1>1. PICK chain : chain = Chain(r)
  OBVIOUS
<1>2. chain \in Seq(LinkOf) /\ Len(chain) \in Nat /\ i \in 1 .. Len(chain)
  BY <1>1
<1> DEFINE T == {j \in i .. Len(chain) : ~Transparent(chain[j], r)}
<1>3. T # {} /\ T \subseteq Nat
  <2>1. chain[Len(chain)].kind = "handler"
    BY <1>1, <1>2 DEF Handled
  <2>2. Len(chain) \in T
    BY <1>2, <2>1 DEF Transparent
  <2> QED
    BY <1>2, <2>2
<1>4. PICK j \in T : \A k \in T : j <= k
  BY <1>3, LeastNumber
<1>5. \A k \in i .. j - 1 : Transparent(chain[k], r)
  BY <1>2, <1>4
<1>6. \E h \in i .. Len(Chain(r)) : /\ ~Transparent(Chain(r)[h], r)
                                    /\ \A k \in i .. h - 1 : Transparent(Chain(r)[k], r)
  BY <1>1, <1>4, <1>5
<1> QED
  BY <1>6 DEF Following

\* The request of c is on a sound chain.
LEMMA OnChain ==
  ASSUME IInv, NEW c \in Client, req[c].stage # "idle"
  PROVE  /\ req[c] \in RequestOf
         /\ req[c].srv \in 1 .. Len(servers)
         /\ Chain(req[c]) = ChainOf(req[c], servers)
         /\ Sound(Chain(req[c]), req[c].srv, servers[req[c].srv].opts)
         /\ req[c].at \in 1 .. Len(Chain(req[c]))
         /\ Current(req[c]) \in LinkOf
         /\ Walked(req[c], Chain(req[c])) /\ Answering(req[c], Chain(req[c]))
<1>1. req[c] \in RequestOf /\ OnItsWay(req[c], servers)
  BY DEF IInv, Plain, Moving
<1>2. PICK r \in RequestOf : r = req[c]
  BY <1>1
<1>3. r.srv \in 1 .. Len(servers) /\ Chain(r) = ChainOf(r, servers)
      /\ r.at \in 1 .. Len(ChainOf(r, servers)) /\ Walked(r, ChainOf(r, servers))
      /\ Answering(r, ChainOf(r, servers))
  BY <1>1, <1>2 DEF OnItsWay, Chain, ChainOf
<1>4. Sound(Chain(r), r.srv, servers[r.srv].opts)
  BY <1>3 DEF IInv, Built, Chain
<1>5. Current(r) \in LinkOf
  BY <1>3, <1>4 DEF Sound, Current
<1> QED
  BY <1>2, <1>3, <1>4, <1>5

\* A step of one request leaves the others where they are.
LEMMA OneMoves ==
  ASSUME IInv, NEW c \in Client, req' \in [Client -> RequestOf],
         \A d \in Client \ {c} : req'[d] = req[d],
         OnItsWay(req'[c], servers),
         UNCHANGED <<default, servers, recoverPanic>>,
         tokens' \in [Owner -> 0 .. Quota],
         fate' \in {"alive", "limit", "auth", "user", "handler", "write"}
  PROVE  IInv'
<1>1. Moving'
  <2>1. ASSUME NEW d \in Client PROVE OnItsWay(req'[d], servers)
    BY DEF IInv, Moving
  <2>2. servers' = servers
    OBVIOUS
  <2> QED
    BY <2>1, <2>2 DEF Moving
<1>2. Inherited' /\ Built'
  BY DEF IInv, Inherited, Built
<1>3. Plain'
  BY DEF IInv, Plain
<1> QED
  BY <1>1, <1>2, <1>3 DEF IInv

\* Whether a link looks at a request, and which chain it walks, is settled when it
\* arrives.
LEMMA SameWay ==
  ASSUME NEW r, NEW q, q.via = r.via, q.srv = r.srv, q.path = r.path, q.method = r.method
  PROVE  /\ \A link : Transparent(link, q) <=> Transparent(link, r)
         /\ ChainOf(q, servers) = ChainOf(r, servers)
BY DEF Transparent, Preflight, ChainOf

\* A request that a link lets pass has been judged by it and by nobody after it.
LEMMA PassMoves ==
  ASSUME IInv, NEW c \in Client, req[c].stage = "walking",
         Current(req[c]).kind # "handler", Pass(c)
  PROVE  /\ req' \in [Client -> RequestOf] /\ \A d \in Client \ {c} : req'[d] = req[d]
         /\ OnItsWay(req'[c], servers)
<1> DEFINE q == req'[c]
<1>1. PICK r \in RequestOf : r = req[c]
  BY DEF IInv, Plain
<1>2. PICK chain \in Seq(LinkOf) :
        /\ chain = Chain(r) /\ Handled(chain) /\ r.at \in 1 .. Len(chain)
        /\ chain = ChainOf(r, servers)
        /\ Walked(r, chain) /\ Answering(r, chain) /\ r.srv \in 1 .. Len(servers)
  BY <1>1, OnChain DEF Sound
<1>3. Len(chain) \in Nat /\ r.at < Len(chain) /\ chain[r.at] \in LinkOf
      /\ Current(r) = chain[r.at]
  <2>1. Current(r) = chain[r.at]
    BY <1>2 DEF Current
  <2>2. r.at # Len(chain)
    BY <1>1, <1>2, <2>1 DEF Handled
  <2> QED
    BY <1>2, <2>1, <2>2
<1>4. PICK next \in r.at + 1 .. Len(chain) :
        /\ next = Following(r, r.at + 1)
        /\ \A k \in r.at + 1 .. next - 1 : Transparent(chain[k], r)
  <2>1. r.at + 1 \in 1 .. Len(chain)
    BY <1>2, <1>3
  <2> QED
    BY <1>2, <2>1, FollowingIs
<1>5. req' = [req EXCEPT ![c].at = next, ![c].judged = @ \cup {chain[r.at]}]
  BY <1>1, <1>3, <1>4 DEF Pass
<1>6. req \in [Client -> RequestOf]
  BY DEF IInv, Plain
<1>7. next \in Nat /\ r.judged \cup {chain[r.at]} \in SUBSET LinkOf
  BY <1>2, <1>3 DEF RequestOf
<1>8. req' \in [Client -> RequestOf] /\ \A d \in Client \ {c} : req'[d] = req[d]
  BY <1>1, <1>5, <1>6, <1>7 DEF RequestOf
<1>9. /\ q.via = r.via /\ q.srv = r.srv /\ q.path = r.path /\ q.method = r.method
      /\ q.at = next /\ q.judged = r.judged \cup {chain[r.at]} /\ q.stage = r.stage
      /\ q.wrote = r.wrote /\ q.body = r.body /\ q.failed = r.failed
  BY <1>1, <1>5, <1>6 DEF RequestOf
<1> HIDE DEF q
<1>10. PICK p : p = q
  OBVIOUS
<1>11. Walked(p, chain)
  <2>1. \A link : Transparent(link, p) <=> Transparent(link, r)
    BY <1>9, <1>10, SameWay
  <2>2. r.at \in Nat
    BY <1>2
  <2>3. ASSUME NEW j \in 1 .. next - 1
        PROVE  Transparent(chain[j], p) \/ chain[j] \in p.judged
    <3>1. j < r.at \/ j = r.at \/ j \in r.at + 1 .. next - 1
      BY <2>2
    <3>2. j < r.at => j \in 1 .. r.at - 1
      BY <2>2
    <3> QED
      BY <1>2, <1>4, <1>9, <1>10, <2>1, <3>1, <3>2 DEF Walked
  <2>4. ASSUME NEW link \in p.judged PROVE \E j \in 1 .. next - 1 : chain[j] = link
    <3>1. r.at \in 1 .. next - 1 /\ 1 .. r.at - 1 \subseteq 1 .. next - 1
      BY <1>2, <2>2
    <3> QED
      BY <1>2, <1>9, <1>10, <3>1 DEF Walked
  <2> QED
    BY <1>9, <1>10, <2>3, <2>4 DEF Walked
<1>12. Answering(p, chain)
  BY <1>1, <1>2, <1>3, <1>9, <1>10 DEF Answering
<1>13. ChainOf(p, servers) = chain
  BY <1>2, <1>9, <1>10, SameWay
<1>14. OnItsWay(p, servers)
  <2>1. next \in 1 .. Len(chain)
    BY <1>2
  <2> QED
    BY <1>2, <1>9, <1>10, <1>11, <1>12, <1>13, <2>1 DEF OnItsWay
<1> QED
  BY <1>8, <1>10, <1>14 DEF q

\* A request stays at its link, and what was written agrees with where it got to.
LEMMA StaysSound ==
  ASSUME IInv, NEW c \in Client, req[c].stage # "idle", NEW q,
         q.via = req[c].via, q.srv = req[c].srv, q.path = req[c].path,
         q.method = req[c].method, q.at = req[c].at, q.judged = req[c].judged,
         Answering(q, Chain(req[c]))
  PROVE  OnItsWay(q, servers)
<1>1. PICK r \in RequestOf : r = req[c]
  BY DEF IInv, Plain
<1>2. PICK chain : /\ chain = Chain(r) /\ chain = ChainOf(r, servers)
                   /\ r.at \in 1 .. Len(chain) /\ Walked(r, chain)
                   /\ r.srv \in 1 .. Len(servers)
  BY <1>1, OnChain
<1>3. ChainOf(q, servers) = chain /\ \A link : Transparent(link, q) <=> Transparent(link, r)
  BY <1>1, <1>2, SameWay
<1>4. Walked(q, chain)
  BY <1>1, <1>2, <1>3 DEF Walked
<1> QED
  BY <1>1, <1>2, <1>3, <1>4 DEF OnItsWay

\* A write that fails leaves the request where it is, for ever.
LEMMA RecursingMoves ==
  ASSUME IInv, NEW c \in Client, req[c].stage = "walking", NEW code \in Code,
         req' = [req EXCEPT ![c].status = code, ![c].stage = "recursing"]
  PROVE  /\ req' \in [Client -> RequestOf] /\ \A d \in Client \ {c} : req'[d] = req[d]
         /\ OnItsWay(req'[c], servers)
<1>1. PICK r \in RequestOf : r = req[c]
  BY DEF IInv, Plain
<1>2. PICK chain : chain = Chain(r) /\ Answering(r, chain)
  BY <1>1, OnChain
<1>3. req \in [Client -> RequestOf]
  BY DEF IInv, Plain
<1>4. req' \in [Client -> RequestOf] /\ \A d \in Client \ {c} : req'[d] = req[d]
  BY <1>1, <1>3 DEF RequestOf, Stage
<1>5. PICK q : q = req'[c]
  OBVIOUS
<1>6. /\ q.via = r.via /\ q.srv = r.srv /\ q.path = r.path /\ q.method = r.method
      /\ q.at = r.at /\ q.judged = r.judged /\ q.stage = "recursing"
  BY <1>1, <1>3, <1>5 DEF RequestOf
<1>7. Answering(q, chain)
  BY <1>6 DEF Answering
<1>8. OnItsWay(q, servers)
  BY <1>1, <1>2, <1>6, <1>7, StaysSound
<1> QED
  BY <1>4, <1>5, <1>8

\* The answer of a link that stops a request; a write that fails does not end.
LEMMA AnswerMoves ==
  ASSUME IInv, NEW c \in Client, req[c].stage = "walking", NEW code \in Code,
         NEW failed \in BOOLEAN, failed => code # "OK", ~failed => req[c].via # "mux",
         Answer(c, code, failed)
  PROVE  /\ req' \in [Client -> RequestOf] /\ \A d \in Client \ {c} : req'[d] = req[d]
         /\ OnItsWay(req'[c], servers)
<1>1. PICK r \in RequestOf : r = req[c]
  BY DEF IInv, Plain
<1>2. r.body \in Seq(Code) /\ Append(r.body, code) \in Seq(Code) /\ Len(r.body) \in Nat
  BY DEF RequestOf
<1>3. PICK chain : chain = Chain(r) /\ Answering(r, chain)
  BY <1>1, OnChain
<1>4. req \in [Client -> RequestOf]
  BY DEF IInv, Plain
<1>5. CASE req' = [req EXCEPT ![c].status = code, ![c].body = Append(@, code),
                              ![c].stage = "done", ![c].failed = failed]
  <2>1. req' \in [Client -> RequestOf] /\ \A d \in Client \ {c} : req'[d] = req[d]
    BY <1>1, <1>2, <1>4, <1>5 DEF RequestOf, Stage
  <2>2. PICK q : q = req'[c]
    OBVIOUS
  <2>3. /\ q.via = r.via /\ q.srv = r.srv /\ q.path = r.path /\ q.method = r.method
        /\ q.at = r.at /\ q.judged = r.judged /\ q.stage = "done" /\ q.wrote = r.wrote
        /\ q.body = Append(r.body, code) /\ q.failed = failed
    BY <1>1, <1>4, <1>5, <2>2 DEF RequestOf
  <2>4. Answering(q, chain)
    <3>1. Len(r.body) = r.wrote
      BY <1>1, <1>3 DEF Answering
    <3>2. Len(q.body) = r.wrote + 1 /\ q.body[Len(q.body)] = code
      BY <1>2, <2>3, <3>1
    <3>3. ~failed => q.via # "mux"
      BY <1>1, <2>3
    <3> QED
      BY <2>3, <3>2, <3>3 DEF Answering
  <2>5. OnItsWay(q, servers)
    BY <1>1, <1>3, <2>3, <2>4, StaysSound
  <2> QED
    BY <2>1, <2>2, <2>5
<1>6. CASE req' = [req EXCEPT ![c].status = code, ![c].stage = "recursing"]
  BY <1>6, RecursingMoves
<1> QED
  BY <1>5, <1>6 DEF Answer

\* A link that refuses a request answers with an error.
LEMMA RefuseMoves ==
  ASSUME IInv, NEW c \in Client, req[c].stage = "walking", NEW code \in Code \ {"OK"},
         Refuse(c, code)
  PROVE  /\ req' \in [Client -> RequestOf] /\ \A d \in Client \ {c} : req'[d] = req[d]
         /\ OnItsWay(req'[c], servers)
<1>1. Answer(c, code, TRUE)
  BY DEF Refuse, StatusOnError
<1> QED
  BY <1>1, AnswerMoves

\* User code returns, on the mux with what it has written, be it nothing.
LEMMA ReturnMoves ==
  ASSUME IInv, NEW c \in Client, req[c].stage = "walking",
         Current(req[c]).kind \in {"user", "handler"}, Returns(c)
  PROVE  /\ req' \in [Client -> RequestOf] /\ \A d \in Client \ {c} : req'[d] = req[d]
         /\ OnItsWay(req'[c], servers)
<1>1. CASE req[c].via # "mux"
  <2>1. Answer(c, "OK", FALSE) /\ "OK" \in Code
    BY <1>1 DEF Returns, Code
  <2> QED
    BY <1>1, <2>1, AnswerMoves
<1>2. CASE req[c].via = "mux"
  <2>1. PICK r \in RequestOf : r = req[c]
    BY DEF IInv, Plain
  <2>2. PICK chain : /\ chain = Chain(r) /\ Answering(r, chain)
                     /\ chain[r.at].kind \in {"user", "handler"}
    BY <2>1, OnChain DEF Current
  <2>3. req \in [Client -> RequestOf] /\ req' = [req EXCEPT ![c].stage = "done"]
    BY <1>2 DEF Returns, IInv, Plain
  <2>4. req' \in [Client -> RequestOf] /\ \A d \in Client \ {c} : req'[d] = req[d]
    BY <2>1, <2>3 DEF RequestOf, Stage
  <2>5. PICK q : q = req'[c]
    OBVIOUS
  <2>6. /\ q.via = r.via /\ q.srv = r.srv /\ q.path = r.path /\ q.method = r.method
        /\ q.at = r.at /\ q.judged = r.judged /\ q.stage = "done" /\ q.wrote = r.wrote
        /\ q.body = r.body /\ q.failed = r.failed
    BY <2>1, <2>3, <2>5 DEF RequestOf
  <2>7. Answering(q, chain)
    <3>1. Len(r.body) = r.wrote /\ ~r.failed /\ r.via = "mux" /\ r.wrote \in Nat
      BY <1>2, <2>1, <2>2, PipelineAssumption DEF Answering, RequestOf
    <3> QED
      BY <2>2, <2>6, <3>1 DEF Answering
  <2>8. OnItsWay(q, servers)
    BY <2>1, <2>2, <2>6, <2>7, StaysSound
  <2> QED
    BY <2>4, <2>5, <2>8
<1> QED
  BY <1>1, <1>2

\* The links before the handler.
LEMMA LinkSteps ==
  ASSUME IInv, NEW c \in Client,
         HealthAnswers(c) \/ Validate(c) \/ Trace(c) \/ LimitDecides(c) \/ Auth(c) \/ User(c)
  PROVE  IInv'
<1>1. req[c].stage = "walking" /\ UNCHANGED <<default, servers, recoverPanic, fate, tokens>>
  BY DEF HealthAnswers, Validate, Trace, LimitDecides, Auth, User, At, Keep
<1>2. tokens' \in [Owner -> 0 .. Quota]
      /\ fate' \in {"alive", "limit", "auth", "user", "handler", "write"}
  BY <1>1 DEF IInv, Plain
<1>3. SUFFICES /\ req' \in [Client -> RequestOf] /\ \A d \in Client \ {c} : req'[d] = req[d]
               /\ OnItsWay(req'[c], servers)
  BY <1>1, <1>2, OneMoves
<1>4. CASE HealthAnswers(c)
  <2>1. PICK r \in RequestOf : r = req[c]
    BY DEF IInv, Plain
  <2>2. PICK chain : /\ chain = Chain(r) /\ r.at \in 1 .. Len(chain) /\ Answering(r, chain)
                     /\ chain[r.at].kind = "health"
    BY <1>1, <1>4, <2>1, OnChain DEF HealthAnswers, At, Current
  <2>3. req' = [req EXCEPT ![c].body = Append(@, "OK"), ![c].stage = "done"]
        /\ req \in [Client -> RequestOf]
    BY <1>4 DEF HealthAnswers, IInv, Plain
  <2>4. r.body \in Seq(Code) /\ Append(r.body, "OK") \in Seq(Code)
        /\ Len(Append(r.body, "OK")) = Len(r.body) + 1
    BY DEF Code, RequestOf
  <2>5. req' \in [Client -> RequestOf] /\ \A d \in Client \ {c} : req'[d] = req[d]
    BY <2>1, <2>3, <2>4 DEF RequestOf, Stage
  <2>6. PICK q : q = req'[c]
    OBVIOUS
  <2>7. /\ q.via = r.via /\ q.srv = r.srv /\ q.path = r.path /\ q.method = r.method
        /\ q.at = r.at /\ q.judged = r.judged /\ q.stage = "done" /\ q.wrote = r.wrote
        /\ q.body = Append(r.body, "OK") /\ q.failed = r.failed
    BY <2>1, <2>3, <2>6 DEF RequestOf
  <2>8. Answering(q, chain)
    BY <1>1, <2>1, <2>2, <2>4, <2>7 DEF Answering
  <2>9. OnItsWay(q, servers)
    BY <1>1, <2>1, <2>2, <2>7, <2>8, StaysSound
  <2> QED
    BY <2>5, <2>6, <2>9
<1>5. CASE Pass(c) /\ ~HealthAnswers(c)
  <2>1. Current(req[c]).kind # "handler"
    BY <1>5 DEF Validate, Trace, LimitDecides, Auth, User, At
  <2> QED
    BY <1>1, <1>5, <2>1, PassMoves
<1>6. ASSUME NEW code \in {"InvalidArgument", "Unknown", "Aborted", "PermissionDenied",
                           "Unauthenticated", "NotFound"},
             Refuse(c, code)
      PROVE  /\ req' \in [Client -> RequestOf] /\ \A d \in Client \ {c} : req'[d] = req[d]
             /\ OnItsWay(req'[c], servers)
  <2>1. code \in Code \ {"OK"}
    BY DEF Code, Refusal
  <2> QED
    BY <1>1, <1>6, <2>1, RefuseMoves
<1>7. CASE User(c) /\ Returns(c)
  <2>1. Current(req[c]).kind \in {"user", "handler"}
    BY <1>7 DEF User, At
  <2> QED
    BY <1>1, <1>7, <2>1, ReturnMoves
<1>8. Denial(req[c]) \in {"PermissionDenied", "Unauthenticated"}
  BY DEF Denial
<1> QED
  BY <1>4, <1>5, <1>6, <1>7, <1>8 DEF Validate, Trace, LimitDecides, Auth, User

\* The limiter takes a token for a request that it lets pass.
LEMMA LimiterSteps ==
  ASSUME IInv, NEW c \in Client, LimitAsks(c)
  PROVE  IInv'
<1>1. req[c].stage = "walking" /\ Current(req[c]).kind = "limit"
      /\ UNCHANGED <<default, servers, recoverPanic, fate>>
  BY DEF LimitAsks, At, Keep
<1>2. PICK o : o = Current(req[c]).owner
  OBVIOUS
<1>3. o \in Owner /\ tokens \in [Owner -> 0 .. Quota]
      /\ fate \in {"alive", "limit", "auth", "user", "handler", "write"}
  BY <1>1, <1>2, OnChain DEF LinkOf, IInv, Plain
<1>4. CASE tokens[o] > 0
  <2>1. Pass(c) /\ tokens' = [tokens EXCEPT ![o] = @ - 1]
    BY <1>2, <1>4 DEF LimitAsks
  <2>2. tokens' \in [Owner -> 0 .. Quota]
    <3>1. tokens[o] - 1 \in 0 .. Quota
      BY <1>3, <1>4, PipelineAssumption
    <3> QED
      BY <1>3, <2>1, <3>1
  <2>3. /\ req' \in [Client -> RequestOf] /\ \A d \in Client \ {c} : req'[d] = req[d]
        /\ OnItsWay(req'[c], servers)
    BY <1>1, <2>1, PassMoves
  <2> QED
    BY <1>1, <1>3, <2>2, <2>3, OneMoves
<1>5. CASE ~(tokens[o] > 0)
  <2>1. Refuse(c, "ResourceExhausted") /\ tokens' = tokens
    BY <1>2, <1>5 DEF LimitAsks
  <2>2. "ResourceExhausted" \in Code \ {"OK"}
    BY DEF Code, Refusal
  <2>3. /\ req' \in [Client -> RequestOf] /\ \A d \in Client \ {c} : req'[d] = req[d]
        /\ OnItsWay(req'[c], servers)
    BY <1>1, <2>1, <2>2, RefuseMoves
  <2> QED
    BY <1>1, <1>3, <2>1, <2>3, OneMoves
<1> QED
  BY <1>4, <1>5

\* User code on the mux writes; the handler returns or fails.
LEMMA HandlerSteps ==
  ASSUME IInv, NEW c \in Client, UserWrites(c) \/ HandlerReturns(c) \/ HandlerFails(c)
  PROVE  IInv'
<1>1. req[c].stage = "walking" /\ Current(req[c]).kind \in {"user", "handler"}
      /\ UNCHANGED <<default, servers, recoverPanic, fate, tokens>>
  BY DEF UserWrites, UserCode, HandlerReturns, HandlerFails, At, Keep
<1>2. tokens' \in [Owner -> 0 .. Quota]
      /\ fate' \in {"alive", "limit", "auth", "user", "handler", "write"}
  BY <1>1 DEF IInv, Plain
<1>3. SUFFICES /\ req' \in [Client -> RequestOf] /\ \A d \in Client \ {c} : req'[d] = req[d]
               /\ OnItsWay(req'[c], servers)
  BY <1>1, <1>2, OneMoves
<1>4. PICK r \in RequestOf : r = req[c]
  BY DEF IInv, Plain
<1>5. PICK chain : chain = Chain(r) /\ Answering(r, chain)
  BY <1>1, <1>4, OnChain
<1>6. req \in [Client -> RequestOf]
  BY DEF IInv, Plain
<1>7. ASSUME NEW code \in Code, r.wrote < MaxWrites,
             req' = [req EXCEPT ![c].status = code, ![c].body = Append(@, code),
                                ![c].wrote = @ + 1]
      PROVE  /\ req' \in [Client -> RequestOf] /\ \A d \in Client \ {c} : req'[d] = req[d]
             /\ OnItsWay(req'[c], servers)
  <2>1. r.wrote + 1 \in 0 .. MaxWrites /\ r.wrote \in Nat /\ r.body \in Seq(Code)
        /\ Append(r.body, code) \in Seq(Code) /\ Len(Append(r.body, code)) = Len(r.body) + 1
    <3>1. r.wrote \in 0 .. MaxWrites /\ r.body \in Seq(Code)
      BY DEF RequestOf
    <3> QED
      BY <1>7, <3>1, PipelineAssumption
  <2>2. req' = [req EXCEPT ![c].status = code, ![c].body = Append(r.body, code),
                           ![c].wrote = r.wrote + 1]
    BY <1>4, <1>7
  <2>3. req' \in [Client -> RequestOf] /\ \A d \in Client \ {c} : req'[d] = req[d]
    BY <1>4, <1>6, <2>1, <2>2 DEF RequestOf
  <2>4. PICK q : q = req'[c]
    OBVIOUS
  <2>5. /\ q.via = r.via /\ q.srv = r.srv /\ q.path = r.path /\ q.method = r.method
        /\ q.at = r.at /\ q.judged = r.judged /\ q.stage = "walking" /\ q.wrote = r.wrote + 1
        /\ q.body = Append(r.body, code) /\ q.failed = r.failed
    BY <1>1, <1>4, <1>6, <2>2, <2>4 DEF RequestOf
  <2>6. Answering(q, chain)
    BY <1>1, <1>4, <1>5, <2>1, <2>5 DEF Answering
  <2>7. OnItsWay(q, servers)
    BY <1>1, <1>4, <1>5, <2>5, <2>6, StaysSound
  <2> QED
    BY <2>3, <2>4, <2>7
<1>8. CASE UserWrites(c)
  <2>1. req[c].status \in Code /\ "NotFound" \in Code
    BY <1>4 DEF RequestOf, Code
  <2>2. PICK code \in Code :
          \/ req' = [req EXCEPT ![c].status = code, ![c].body = Append(@, code),
                                ![c].wrote = @ + 1]
          \/ req' = [req EXCEPT ![c].status = code, ![c].stage = "recursing"]
    BY <1>8, <2>1 DEF UserWrites
  <2>3. r.wrote < MaxWrites
    BY <1>4, <1>8 DEF UserWrites
  <2> QED
    BY <1>1, <1>7, <2>2, <2>3, RecursingMoves
<1>9. CASE HandlerReturns(c)
  BY <1>1, <1>9, ReturnMoves DEF HandlerReturns
<1>10. CASE HandlerFails(c)
  <2>1. "NotFound" \in Code \ {"OK"}
    BY DEF Code
  <2> QED
    BY <1>1, <1>10, <2>1, RefuseMoves DEF HandlerFails
<1> QED
  BY <1>8, <1>9, <1>10

\* A panic, recovered or not, and the writer that calls itself.
LEMMA PanicSteps ==
  ASSUME IInv, NEW c \in Client, RecoveredPanic(c) \/ EscapedPanic(c) \/ StackOverflow(c)
  PROVE  IInv'
<1>1. req \in [Client -> RequestOf] /\ tokens \in [Owner -> 0 .. Quota]
      /\ fate \in {"alive", "limit", "auth", "user", "handler", "write"}
  BY DEF IInv, Plain
<1>2. CASE RecoveredPanic(c)
  <2>1. req[c].stage = "walking" /\ UNCHANGED <<default, servers, recoverPanic, fate, tokens>>
    BY <1>2 DEF RecoveredPanic, MayPanic, At, Keep
  <2>2. "Internal" \in Code \ {"OK"}
    BY DEF Code
  <2>3. /\ req' \in [Client -> RequestOf] /\ \A d \in Client \ {c} : req'[d] = req[d]
        /\ OnItsWay(req'[c], servers)
    BY <1>2, <2>1, <2>2, RefuseMoves DEF RecoveredPanic
  <2> QED
    BY <1>1, <2>1, <2>3, OneMoves
<1>3. CASE EscapedPanic(c)
  <2>1. req[c].stage = "walking" /\ UNCHANGED <<default, servers, recoverPanic, tokens>>
        /\ fate' \in {"alive", "limit", "auth", "user", "handler", "write"}
        /\ req' = [req EXCEPT ![c].stage = "aborted"]
    BY <1>1, <1>3 DEF EscapedPanic, MayPanic, At
  <2>2. PICK r \in RequestOf : r = req[c]
    BY <1>1
  <2>3. PICK chain : chain = Chain(r) /\ Answering(r, chain)
    BY <2>1, <2>2, OnChain
  <2>4. req' \in [Client -> RequestOf] /\ \A d \in Client \ {c} : req'[d] = req[d]
    BY <1>1, <2>1, <2>2 DEF RequestOf, Stage
  <2>5. PICK q : q = req'[c]
    OBVIOUS
  <2>6. /\ q.via = r.via /\ q.srv = r.srv /\ q.path = r.path /\ q.method = r.method
        /\ q.at = r.at /\ q.judged = r.judged /\ q.stage = "aborted" /\ q.wrote = r.wrote
    BY <1>1, <2>1, <2>2, <2>5 DEF RequestOf
  <2>7. Answering(q, chain)
    BY <2>3, <2>6 DEF Answering
  <2>8. OnItsWay(q, servers)
    BY <2>1, <2>2, <2>3, <2>6, <2>7, StaysSound
  <2> QED
    BY <1>1, <2>1, <2>4, <2>5, <2>8, OneMoves
<1>4. CASE StackOverflow(c)
  BY <1>4 DEF StackOverflow, IInv, Inherited, Built, Plain, Moving
<1> QED
  BY <1>2, <1>3, <1>4

\* A request arrives at the first link that looks at it.
LEMMA ArriveSteps ==
  ASSUME IInv, NEW c \in Client, NEW a \in Requests[c], NEW s \in 1 .. Len(servers),
         Arrive(c, a, s)
  PROVE  IInv'
<1> DEFINE p == [NoRequest EXCEPT !.via = a.via, !.srv = s, !.path = a.path,
                                  !.method = a.method, !.stage = "walking",
                                  !.status = FirstStatus]
<1>1. PICK r : r = p
  OBVIOUS
<1>2. /\ r.via = a.via /\ r.srv = s /\ r.path = a.path /\ r.method = a.method
      /\ r.stage = "walking" /\ r.status = "OK" /\ r.at = 0 /\ r.body = <<>>
      /\ r.judged = {} /\ r.wrote = 0 /\ r.failed = FALSE
  BY <1>1 DEF NoRequest, FirstStatus
<1>3. r \in RequestOf
  <2>1. a.via \in {"none", "mux", "unary", "stream"} /\ a.path \in {"api", "health"}
        /\ a.method \in {"GET", "OPTIONS"} /\ s \in Nat
    BY PipelineAssumption
  <2>2. <<>> \in Seq(Code) /\ {} \in SUBSET LinkOf /\ 0 \in 0 .. MaxWrites /\ "OK" \in Code
        /\ "walking" \in Stage
    BY PipelineAssumption DEF Code, Stage
  <2> QED
    BY <1>1, <2>1, <2>2 DEF NoRequest, FirstStatus, RequestOf
<1>4. PICK chain \in Seq(LinkOf) : /\ chain = Chain(r) /\ chain = ChainOf(r, servers)
                                   /\ Handled(chain) /\ Len(chain) \in Nat
  <2>1. Chain(r) = ChainOf(r, servers)
    BY DEF Chain, ChainOf
  <2>2. Sound(servers[s].mux, s, servers[s].opts) /\ Sound(servers[s].grpc, s, servers[s].opts)
    BY DEF IInv, Built
  <2>3. Chain(r) \in Seq(LinkOf) /\ Handled(Chain(r))
    BY <1>2, <2>2 DEF Chain, Sound
  <2> QED
    BY <2>1, <2>3
<1>5. PICK next \in 1 .. Len(chain) :
        /\ next = Following(r, 1)
        /\ \A k \in 1 .. next - 1 : Transparent(chain[k], r)
  <2>1. 1 \in 1 .. Len(chain)
    BY <1>4 DEF Handled
  <2> QED
    BY <1>4, <2>1, FollowingIs
<1>6. req' = [req EXCEPT ![c] = [r EXCEPT !.at = next]]
      /\ UNCHANGED <<default, servers, recoverPanic, fate, tokens>>
  BY <1>1, <1>5 DEF Arrive, Keep
<1>7. PICK q : q = [r EXCEPT !.at = next]
  OBVIOUS
<1>8. q \in RequestOf
  <2>1. next \in Nat
    BY <1>4
  <2> QED
    BY <1>3, <1>7, <2>1 DEF RequestOf
<1>9. /\ q.via = r.via /\ q.srv = r.srv /\ q.path = r.path /\ q.method = r.method
      /\ q.at = next /\ q.judged = {} /\ q.stage = "walking" /\ q.wrote = 0 /\ q.body = <<>>
      /\ ~q.failed
  BY <1>2, <1>3, <1>7 DEF RequestOf
<1>10. OnItsWay(q, servers)
  <2>1. ChainOf(q, servers) = chain /\ \A link : Transparent(link, q) <=> Transparent(link, r)
    BY <1>4, <1>9, SameWay
  <2>2. Walked(q, chain)
    BY <1>5, <1>9, <2>1 DEF Walked
  <2>3. Answering(q, chain)
    BY <1>9 DEF Answering
  <2> QED
    BY <1>2, <1>9, <2>1, <2>2, <2>3 DEF OnItsWay
<1>11. req' \in [Client -> RequestOf] /\ req'[c] = q
       /\ \A d \in Client \ {c} : req'[d] = req[d]
  BY <1>6, <1>7, <1>8 DEF IInv, Plain
<1>12. tokens' \in [Owner -> 0 .. Quota]
       /\ fate' \in {"alive", "limit", "auth", "user", "handler", "write"}
  BY <1>6 DEF IInv, Plain
<1> QED
  BY <1>6, <1>10, <1>11, <1>12, OneMoves

\* A request that ended leaves.
LEMMA LeaveSteps ==
  ASSUME IInv, NEW c \in Client, Leave(c)
  PROVE  IInv'
<1>1. req' = [req EXCEPT ![c] = NoRequest]
      /\ UNCHANGED <<default, servers, recoverPanic, fate, tokens>>
  BY DEF Leave, Keep
<1>2. NoRequest \in RequestOf /\ NoRequest.stage = "idle"
  <2>1. <<>> \in Seq(Code) /\ {} \in SUBSET LinkOf /\ 0 \in 0 .. MaxWrites /\ "OK" \in Code
        /\ "idle" \in Stage /\ Nobody \in Nat
    BY PipelineAssumption DEF Code, Stage, Nobody
  <2> QED
    BY <2>1 DEF NoRequest, RequestOf
<1>3. req' \in [Client -> RequestOf] /\ req'[c] = NoRequest
      /\ \A d \in Client \ {c} : req'[d] = req[d]
  BY <1>1, <1>2 DEF IInv, Plain
<1>4. OnItsWay(NoRequest, servers)
  BY <1>2 DEF OnItsWay
<1>5. tokens' \in [Owner -> 0 .. Quota]
      /\ fate' \in {"alive", "limit", "auth", "user", "handler", "write"}
  BY <1>1 DEF IInv, Plain
<1> QED
  BY <1>1, <1>3, <1>4, <1>5, OneMoves

-------------------------------------------------------------------------------
(* The theorems *)

\* No server is built and nobody asks for anything.
LEMMA InitIInv == Init => IInv
<1> SUFFICES ASSUME Init PROVE IInv
  OBVIOUS
<1>1. Inherited
  <2>1. default.middleWares = <<>> /\ <<>> \in Seq(LinkOf) /\ Len(<<>>) = 0
    BY DEF Init
  <2>2. servers = <<>> /\ default.limiter = 0 /\ default.auth = 0
    BY DEF Init, Nobody
  <2> QED
    BY <2>1, <2>2 DEF Inherited, Tame
<1>2. Built
  <2>1. servers = <<>> /\ <<>> \in Seq(ServerOf) /\ Len(<<>>) = 0
    BY DEF Init
  <2> QED
    BY <2>1, PipelineAssumption DEF Built
<1>3. NoRequest \in RequestOf
  <2>1. <<>> \in Seq(Code) /\ {} \in SUBSET LinkOf /\ 0 \in 0 .. MaxWrites /\ "OK" \in Code
        /\ "idle" \in Stage /\ Nobody \in Nat
    BY PipelineAssumption DEF Code, Stage, Nobody
  <2> QED
    BY <2>1 DEF NoRequest, RequestOf
<1>4. Plain
  <2>1. Quota \in 0 .. Quota
    BY PipelineAssumption
  <2> QED
    BY <1>3, <2>1 DEF Init, Plain
<1>5. Moving
  BY DEF Init, Moving, OnItsWay, NoRequest
<1> QED
  BY <1>1, <1>2, <1>4, <1>5 DEF IInv

\* Every step keeps the invariant.
LEMMA NextIInv == IInv /\ [Next]_vars => IInv'
<1> SUFFICES ASSUME IInv, [Next]_vars PROVE IInv'
  OBVIOUS
<1>1. ASSUME NEW opts \in Options, NewServer(opts) PROVE IInv'
  BY <1>1, NewServerKeeps
<1>2. CASE DisableRecover
  BY <1>2 DEF DisableRecover, IInv, Inherited, Built, Plain, Moving
<1>3. CASE UNCHANGED vars
  BY <1>3 DEF vars, IInv, Inherited, Built, Plain, Moving
<1>4. ASSUME NEW c \in Client, NEW a \in Requests[c], NEW s \in 1 .. Len(servers), Arrive(c, a, s)
      PROVE  IInv'
  BY <1>4, ArriveSteps
<1>5. ASSUME NEW c \in Client, Step(c) PROVE IInv'
  BY <1>5, LinkSteps, LimiterSteps, HandlerSteps, PanicSteps DEF Step
<1>6. ASSUME NEW c \in Client, Leave(c) PROVE IInv'
  BY <1>6, LeaveSteps
<1> QED
  BY <1>1, <1>2, <1>3, <1>4, <1>5, <1>6 DEF Next

\* The invariant holds of every server that is built and of every request.
THEOREM Invariance == Spec => []IInv
BY InitIInv, NextIInv, PTL DEF Spec

\* Every variable has a value of the code's types, and a writer always has a status.
THEOREM TypeCorrect == Spec => []TypeOK
<1>1. IInv => TypeOK
  <2> SUFFICES ASSUME IInv PROVE TypeOK
    OBVIOUS
  <2>1. /\ default.limiter \in Owner \cup {Nobody} /\ default.auth \in Owner \cup {Nobody}
        /\ Len(servers) <= MaxServers
    <3>1. Len(servers) \in Nat /\ Len(servers) <= MaxServers
          /\ default.limiter \in 0 .. Len(servers) /\ default.auth \in 0 .. Len(servers)
      BY DEF IInv, Inherited, Built
    <3> QED
      BY <3>1, PipelineAssumption DEF Owner, Nobody
  <2>2. recoverPanic \in BOOLEAN /\ tokens \in [Owner -> 0 .. Quota]
        /\ fate \in {"alive", "limit", "auth", "user", "handler", "write"}
    BY DEF IInv, Plain
  <2>3. ASSUME NEW c \in Client
        PROVE  /\ req[c].stage \in {"idle", "walking", "recursing", "done", "aborted"}
               /\ req[c].stage = "walking" => req[c].at \in 1 .. Len(Chain(req[c]))
               /\ req[c].status \in Code
               /\ \A i \in 1 .. Len(req[c].body) : req[c].body[i] \in Code
               /\ req[c].wrote \in 0 .. MaxWrites /\ req[c].failed \in BOOLEAN
    <3>1. PICK r \in RequestOf : r = req[c]
      BY DEF IInv, Plain
    <3>2. /\ r.stage \in Stage /\ r.status \in Code /\ r.body \in Seq(Code)
          /\ r.wrote \in 0 .. MaxWrites /\ r.failed \in BOOLEAN
      BY DEF RequestOf
    <3>3. req[c].stage = "walking" => req[c].at \in 1 .. Len(Chain(req[c]))
      BY OnChain
    <3> QED
      BY <3>1, <3>2, <3>3 DEF Stage
  <2> QED
    BY <2>1, <2>2, <2>3 DEF TypeOK
<1> QED
  BY Invariance, <1>1, PTL

\* A request comes to a handler only after the server's own limiter, and its own
\* authFunc after that one, let it through, whatever servers were built before it
\* and left in the default options; a preflight request and, for authFunc, the health
\* service are exempt.
THEOREM GuardsComeFirst == Spec => []Guarded
<1>1. IInv => Guarded
  <2> SUFFICES ASSUME IInv, NEW c \in Client, req[c].stage # "idle", ~Preflight(req[c])
               PROVE  LET r == req[c]
                          opts == servers[r.srv].opts
                          limited == Link("limit", r.srv) \in r.judged
                          authorized == Link("auth", r.srv) \in r.judged
                      IN  /\ r.at = Len(Chain(r)) =>
                               /\ opts.limiter => limited
                               /\ opts.auth => authorized
                                                 \/ (r.via # "mux" /\ r.path = "health")
                          /\ authorized /\ opts.limiter => limited
    BY DEF Guarded
  <2>1. PICK r \in RequestOf : r = req[c]
    BY DEF IInv, Plain
  <2>2. PICK opts : opts = servers[r.srv].opts
    OBVIOUS
  <2>3. PICK chain \in Seq(LinkOf) :
          /\ chain = Chain(r) /\ Handled(chain) /\ Guards(chain, r.srv, opts)
          /\ r.at \in 1 .. Len(chain) /\ Walked(r, chain) /\ Len(chain) \in Nat
    BY <2>1, <2>2, OnChain DEF Sound
  <2>4. Link("limit", r.srv).kind = "limit" /\ Link("auth", r.srv).kind = "auth"
    BY DEF Link
  <2>5. ASSUME NEW i \in 1 .. Len(chain), chain[i].kind \in {"limit", "auth"},
               r.at = Len(chain)
        PROVE  Transparent(chain[i], r) \/ chain[i] \in r.judged
    <3>1. i # Len(chain)
      BY <2>3, <2>5 DEF Handled
    <3>2. i \in 1 .. r.at - 1
      BY <2>3, <2>5, <3>1
    <3> QED
      BY <2>3, <3>2 DEF Walked
  <2>6. ~Preflight(r)
    BY <2>1
  <2>7. ~Transparent(Link("limit", r.srv), r)
    BY <2>4, <2>6 DEF Transparent
  <2>8. Transparent(Link("auth", r.srv), r) => r.via # "mux" /\ r.path = "health"
    BY <2>4, <2>6 DEF Transparent
  <2>9. ASSUME opts.limiter, r.at = Len(chain) PROVE Link("limit", r.srv) \in r.judged
    <3>1. PICK i \in 1 .. Len(chain) : chain[i] = Link("limit", r.srv)
      BY <2>3, <2>9 DEF Guards
    <3> QED
      BY <2>4, <2>5, <2>7, <2>9, <3>1
  <2>10. ASSUME opts.auth, r.at = Len(chain)
         PROVE  Link("auth", r.srv) \in r.judged \/ (r.via # "mux" /\ r.path = "health")
    <3>1. PICK i \in 1 .. Len(chain) : chain[i] = Link("auth", r.srv)
      BY <2>3, <2>10 DEF Guards
    <3> QED
      BY <2>4, <2>5, <2>8, <2>10, <3>1
  <2>11. ASSUME Link("auth", r.srv) \in r.judged, opts.limiter
         PROVE  Link("limit", r.srv) \in r.judged
    <3>1. PICK j \in 1 .. r.at - 1 : chain[j] = Link("auth", r.srv)
      BY <2>3, <2>11 DEF Walked
    <3>2. j \in 1 .. Len(chain)
      BY <2>3
    <3>3. PICK i \in 1 .. j - 1 : chain[i] = Link("limit", r.srv)
      BY <2>3, <2>11, <3>1, <3>2 DEF Guards
    <3>4. i \in 1 .. r.at - 1
      BY <2>3, <3>3
    <3> QED
      BY <2>3, <2>7, <3>3, <3>4 DEF Walked
  <2> QED
    BY <2>1, <2>2, <2>3, <2>9, <2>10, <2>11
<1> QED
  BY Invariance, <1>1, PTL

\* The chain answers a request at most once, besides what user code on the mux writes: with
\* an error, as the last thing, exactly if a link refused it, the handler failed or a panic
\* was recovered; otherwise only the health check and a gRPC call are answered, and a
\* handler on the mux that writes nothing leaves none.
THEOREM AnsweredOnce == Spec => []OneAnswer
<1>1. IInv => OneAnswer
  <2> SUFFICES ASSUME IInv, NEW c \in Client, req[c].stage = "done"
               PROVE  LET r == req[c]
                          own == IF r.via # "mux" \/ Current(r).kind = "health" THEN 1 ELSE 0
                      IN  /\ r.failed => Len(r.body) = r.wrote + 1
                                         /\ r.body[Len(r.body)] # "OK"
                          /\ ~r.failed => Len(r.body) = r.wrote + own
    BY DEF OneAnswer
  <2>1. Answering(req[c], Chain(req[c]))
    BY OnChain
  <2> QED
    BY <2>1 DEF Answering, Current
<1> QED
  BY Invariance, <1>1, PTL
===============================================================================
