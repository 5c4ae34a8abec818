-------------------------- MODULE ApplicationProofs --------------------------
(***************************************************************************)
(* Proofs about the two things an application does before it serves: it    *)
(* reads its configuration (ExpandEnv, ConfigReload), and it starts its    *)
(* server, to stop it in the end (ServerLifecycle).  Three parts:          *)
(*   - expandEnv computes, for every text, what it is meant to compute;    *)
(*   - the types of ConfigReload, and that a quiet configuration is the    *)
(*     file's last version, expanded;                                      *)
(*   - the types of ServerLifecycle, for every set of services, callers of *)
(*     Close, calls and requests, and the order in which a server starts   *)
(*     and stops.                                                          *)
(***************************************************************************)
EXTENDS ServerLifecycle, ConfigReload, FiniteSetTheorems, SequenceTheorems,
        WellFoundedInduction, TLAPS

-------------------------------------------------------------------------------
(***************************************************************************)
(* expandEnv.  Its loop, the scan for a name and the reading from left to  *)
(* right are recursive functions: that there is one for each equation is   *)
(* shown first, by the least number of places for which there is none.     *)
(***************************************************************************)
\* A set of natural numbers has a least element.
LEMMA Least ==
  ASSUME NEW T, T \subseteq Nat, T # {}
  PROVE  \E i \in T : \A j \in T : i <= j
<1>1. PICK i \in T : \A j \in T : <<j, i>> \notin OpToRel(<, Nat)
  BY NatLessThanWellFounded, WFMin
<1>2. ASSUME NEW j \in T PROVE i <= j
  <2>1. i \in Nat /\ j \in Nat
    OBVIOUS
  <2>2. ~(j < i)
    BY <1>1, <2>1 DEF OpToRel
  <2>3. QED
    BY <2>1, <2>2
<1>3. QED
  BY <1>2

-------------------------------------------------------------------------------
\* The scan as the equation that defines it: what it finds at a place.
ScanStep(s, j, f, i) ==
  IF i > Len(s) \/ s[i] \in Stop THEN [name |-> <<>>, width |-> 0]
  ELSE IF s[i] = "}" THEN [name |-> SubSeq(s, j + 2, i - 1), width |-> i - j]
  ELSE f[i + 1]

\* f is the scan over the last n places of the text.
Scans(s, j, n, f) ==
  /\ f = [i \in Nat |-> f[i]]
  /\ \A i \in Nat : i + n > Len(s) => f[i] = ScanStep(s, j, f, i)

LEMMA ScansExists ==
  ASSUME NEW s \in Seq(Char), NEW j \in Nat
  PROVE  \A n \in Nat : \E f : Scans(s, j, n, f)
<1> DEFINE T == {n \in Nat : ~ \E f : Scans(s, j, n, f)}
<1>1. SUFFICES ASSUME T # {} PROVE FALSE
  OBVIOUS
<1>2. PICK n \in T : \A m \in T : n <= m
  <2>1. T \subseteq Nat
    OBVIOUS
  <2>2. QED
    BY <1>1, <2>1, Least
<1>3. Len(s) \in Nat
  OBVIOUS
<1>4. CASE n = 0
  <2> DEFINE f == [i \in Nat |-> [name |-> <<>>, width |-> 0]]
  <2>1. f = [i \in Nat |-> f[i]]
    OBVIOUS
  <2>2. ASSUME NEW i \in Nat, i + 0 > Len(s) PROVE f[i] = ScanStep(s, j, f, i)
    BY <1>3, <2>2 DEF ScanStep
  <2>3. Scans(s, j, 0, f)
    BY <2>1, <2>2 DEF Scans
  <2>4. QED
    BY <1>2, <1>4, <2>3
<1>5. CASE n # 0
  <2>1. n \in Nat /\ n - 1 \in Nat /\ n - 1 \notin T
    BY <1>2, <1>5
  <2>2. PICK f : Scans(s, j, n - 1, f)
    BY <2>1
  <2> DEFINE g == [i \in Nat |-> IF i + n = Len(s) + 1 THEN ScanStep(s, j, f, i) ELSE f[i]]
  <2>3. ASSUME NEW i \in Nat, i + n > Len(s) PROVE g[i] = ScanStep(s, j, g, i)
    <3>1. g[i] = ScanStep(s, j, f, i)
      <4>1. CASE i + n = Len(s) + 1
        BY <4>1
      <4>2. CASE i + n # Len(s) + 1
        <5>1. i + (n - 1) > Len(s)
          BY <1>3, <2>1, <2>3, <4>2
        <5>2. QED
          BY <2>2, <4>2, <5>1 DEF Scans
      <4>3. QED
        BY <4>1, <4>2
    <3>2. g[i + 1] = f[i + 1]
      <4>1. i + 1 \in Nat /\ (i + 1) + n # Len(s) + 1
        BY <1>3, <2>1, <2>3
      <4>2. QED
        BY <4>1
    <3>3. QED
      BY <3>1, <3>2 DEF ScanStep
  <2>4. Scans(s, j, n, g)
    <3>1. g = [i \in Nat |-> g[i]]
      OBVIOUS
    <3>2. QED
      BY <2>3, <3>1 DEF Scans
  <2>5. QED
    BY <1>2, <2>4
<1>6. QED
  BY <1>4, <1>5

LEMMA ScanIs ==
  ASSUME NEW s \in Seq(Char), NEW j \in Nat, NEW i \in Nat
  PROVE  Scan(s, j)[i] = ScanStep(s, j, Scan(s, j), i)
<1>1. Len(s) \in Nat /\ Len(s) + 1 \in Nat
  OBVIOUS
<1>2. PICK f : Scans(s, j, Len(s) + 1, f)
  BY <1>1, ScansExists
<1>3. f = [k \in Nat |-> ScanStep(s, j, f, k)]
  <2>1. \A k \in Nat : f[k] = ScanStep(s, j, f, k)
    BY <1>1, <1>2 DEF Scans
  <2>2. QED
    BY <1>2, <2>1 DEF Scans
<1>4. Scan(s, j) = [k \in Nat |-> ScanStep(s, j, Scan(s, j), k)]
  BY <1>3 DEF Scan, ScanStep
<1>5. QED
  BY <1>4

-------------------------------------------------------------------------------
\* What ends the scan of a name: a character that cannot be in one, the brace, or the
\* end of the text.
InName(s, k) == ~(k > Len(s)) /\ s[k] \notin Stop /\ s[k] # "}"

\* The scan from i on ends at e.
EndsAt(s, i, e) == /\ e \in i .. Len(s) + 1 /\ ~InName(s, e)
                   /\ \A k \in i .. e - 1 : InName(s, k)

\* There is the brace.
Ended(s, e) == ~(e > Len(s)) /\ s[e] = "}"

LEMMA EndExists ==
  ASSUME NEW s \in Seq(Char), NEW i \in Nat, i <= Len(s) + 1
  PROVE  \E e : EndsAt(s, i, e)
<1> DEFINE T == {k \in Nat : i <= k /\ ~InName(s, k)}
<1>1. Len(s) \in Nat
  OBVIOUS
<1>2. T \subseteq Nat /\ Len(s) + 1 \in T
  <2>1. Len(s) + 1 \in Nat /\ Len(s) + 1 > Len(s) /\ i <= Len(s) + 1
    BY <1>1
  <2>2. QED
    BY <2>1 DEF InName
<1>3. PICK e \in T : \A k \in T : e <= k
  BY <1>2, Least
<1>4. e \in Nat /\ i <= e /\ ~InName(s, e) /\ e <= Len(s) + 1
  BY <1>2, <1>3
<1>5. ASSUME NEW k \in i .. e - 1 PROVE InName(s, k)
  <2>1. k \in Nat /\ i <= k /\ ~(e <= k)
    BY <1>4
  <2>2. QED
    BY <1>3, <2>1
<1>6. e \in i .. Len(s) + 1
  BY <1>1, <1>4
<1>7. QED
  BY <1>4, <1>5, <1>6 DEF EndsAt

\* It finds there what it finds from i on.
LEMMA ScanGoesOn ==
  ASSUME NEW s \in Seq(Char), NEW j \in Nat, NEW i \in Nat, NEW e, EndsAt(s, i, e)
  PROVE  Scan(s, j)[i] = Scan(s, j)[e]
<1>1. e \in Nat /\ i <= e /\ Len(s) \in Nat
  BY DEF EndsAt
<1> DEFINE T == {k \in Nat : i <= e - k /\ Scan(s, j)[e - k] # Scan(s, j)[e]}
<1>2. SUFFICES ASSUME T # {} PROVE FALSE
  <2>1. e - i \in Nat /\ e - (e - i) = i
    BY <1>1
  <2>2. e - i \notin T
    BY <1>2
  <2>3. QED
    BY <1>1, <2>1, <2>2
<1>3. PICK k \in T : \A m \in T : k <= m
  <2>1. T \subseteq Nat
    OBVIOUS
  <2>2. QED
    BY <1>2, <2>1, Least
<1>4. k \in Nat /\ k # 0 /\ i <= e - k
  <2>1. k = 0 => e - k = e
    BY <1>1
  <2>2. QED
    BY <1>3, <2>1
<1>5. k - 1 \in Nat /\ k - 1 \notin T /\ i <= e - (k - 1)
  BY <1>1, <1>3, <1>4
<1>6. Scan(s, j)[e - (k - 1)] = Scan(s, j)[e]
  BY <1>5
<1>7. PICK m \in Nat : m = e - k /\ m \in i .. e - 1 /\ m + 1 = e - (k - 1)
  BY <1>1, <1>4
<1>8. InName(s, m)
  BY <1>7 DEF EndsAt
<1>9. Scan(s, j)[m] = Scan(s, j)[m + 1]
  <2>1. Scan(s, j)[m] = ScanStep(s, j, Scan(s, j), m)
    BY <1>7, ScanIs
  <2>2. ~(m > Len(s)) /\ s[m] \notin Stop /\ s[m] # "}"
    BY <1>1, <1>7, <1>8 DEF InName
  <2>3. QED
    BY <2>1, <2>2 DEF ScanStep
<1>10. QED
  BY <1>3, <1>6, <1>7, <1>9

\* getShellName: the name up to the brace, or nothing.
LEMMA ShellName ==
  ASSUME NEW s \in Seq(Char), NEW j \in Nat, NEW e, EndsAt(s, j + 2, e)
  PROVE  getShellName(s, j) =
           IF Ended(s, e) THEN [name |-> SubSeq(s, j + 2, e - 1), width |-> e - j]
                                       ELSE [name |-> <<>>, width |-> 0]
<1>1. j + 2 \in Nat /\ e \in Nat /\ Len(s) \in Nat /\ e <= Len(s) + 1
  BY DEF EndsAt
<1>2. getShellName(s, j) = ScanStep(s, j, Scan(s, j), e)
  <2>1. Scan(s, j)[j + 2] = Scan(s, j)[e]
    BY <1>1, ScanGoesOn
  <2>2. Scan(s, j)[e] = ScanStep(s, j, Scan(s, j), e)
    BY <1>1, ScanIs
  <2>3. QED
    BY <2>1, <2>2 DEF getShellName
<1>3. e > Len(s) \/ s[e] \in Stop \/ s[e] = "}"
  BY <1>1 DEF EndsAt, InName
<1>4. CASE Ended(s, e)
  <2>1. "}" \notin Stop
    BY DEF Stop
  <2>2. QED
    BY <1>2, <1>4, <2>1 DEF ScanStep, Ended
<1>5. CASE ~Ended(s, e)
  <2>1. e > Len(s) \/ s[e] \in Stop
    BY <1>1, <1>3, <1>5 DEF Ended
  <2>2. QED
    BY <1>2, <1>5, <2>1 DEF ScanStep
<1>6. QED
  BY <1>4, <1>5

\* A placeholder becomes a text.
LEMMA ReplacementIn == ASSUME NEW found PROVE Replacement(found) \in Seq(Char)
<1>1. <<>> \in Seq(Char) /\ <<"$">> \in Seq(Char)
  <2>1. "$" \in Char
    BY EnvAssumption
  <2>2. QED
    BY <2>1
<1>2. Getenv(found.name) \in Seq(Char)
  BY <1>1, EnvAssumption DEF Getenv
<1>3. QED
  BY <1>1, <1>2 DEF Replacement

\* Behind a placeholder the loop goes on.
LEMMA ResumesLater ==
  ASSUME NEW s \in Seq(Char), NEW j \in Nat, IsPlaceholder(s, j)
  PROVE  Resume(j, getShellName(s, j).width) \in j + 1 .. Len(s) + 1
<1> DEFINE found == getShellName(s, j)
<1>1. Len(s) \in Nat /\ j + 2 \in Nat
  OBVIOUS
<1>2. PICK e : EndsAt(s, j + 2, e)
  <2>1. j + 2 <= Len(s)
    BY DEF IsPlaceholder
  <2>2. j + 2 <= Len(s) + 1
    BY <1>1, <2>1
  <2>3. QED
    BY <1>1, <2>2, EndExists
<1>3. e \in Nat /\ j + 2 <= e /\ e <= Len(s) + 1
  BY <1>1, <1>2 DEF EndsAt
<1>4. CASE Ended(s, e)
  <2>1. found = [name |-> SubSeq(s, j + 2, e - 1), width |-> e - j]
    BY <1>2, <1>4, ShellName
  <2>2. found.width = e - j
    BY <2>1
  <2> HIDE DEF found
  <2>3. Resume(j, found.width) = e + 1
    <3>1. Resume(j, e - j) = e + 1
      BY <1>3 DEF Resume
    <3>2. QED
      BY <2>2, <3>1
  <2>4. e + 1 \in j + 1 .. Len(s) + 1
    <3>1. ~(e > Len(s))
      BY <1>4 DEF Ended
    <3>2. QED
      BY <1>1, <1>3, <3>1
  <2>5. QED
    BY <2>3, <2>4 DEF found
<1>5. CASE ~Ended(s, e)
  <2>1. found = [name |-> <<>>, width |-> 0]
    BY <1>2, <1>5, ShellName
  <2>2. found.width = 0
    BY <2>1
  <2> HIDE DEF found
  <2>3. Resume(j, found.width) = j + 1
    BY <2>2 DEF Resume
  <2>4. j + 1 \in j + 1 .. Len(s) + 1
    BY <1>1, <1>3
  <2>5. QED
    BY <2>3, <2>4 DEF found
<1>6. QED
  BY <1>4, <1>5

\* The loop as the equation that defines it.
ExpandStep(s, f, j) ==
  IF j > Len(s) THEN <<>>
  ELSE IF ~IsPlaceholder(s, j) THEN <<s[j]>> \o f[j + 1]
  ELSE Replacement(getShellName(s, j)) \o f[Resume(j, getShellName(s, j).width)]

\* f is what the loop makes of the last n places of the text.
Expands(s, n, f) ==
  /\ f = [j \in Nat |-> f[j]]
  /\ \A j \in Nat : j + n > Len(s) => f[j] = ExpandStep(s, f, j)

\* Only what comes later counts.
LEMMA ExpandsLater ==
  ASSUME NEW s \in Seq(Char), NEW j \in Nat, NEW f, NEW g,
         \A k \in Nat : k > j => g[k] = f[k]
  PROVE  ExpandStep(s, g, j) = ExpandStep(s, f, j)
<1>1. g[j + 1] = f[j + 1]
  OBVIOUS
<1>2. CASE IsPlaceholder(s, j)
  <2>1. PICK r : r = Resume(j, getShellName(s, j).width)
    OBVIOUS
  <2>2. r \in j + 1 .. Len(s) + 1
    BY <1>2, <2>1, ResumesLater
  <2>3. g[r] = f[r]
    <3>1. r \in Nat /\ r > j
      BY <2>2
    <3>2. QED
      BY <3>1
  <2>4. QED
    BY <1>2, <2>1, <2>3 DEF ExpandStep
<1>3. CASE ~IsPlaceholder(s, j)
  BY <1>1, <1>3 DEF ExpandStep
<1>4. QED
  BY <1>2, <1>3

\* It is a text if what comes later is one.
LEMMA ExpandsToText ==
  ASSUME NEW s \in Seq(Char), NEW j \in Nat \ {0}, NEW f,
         \A k \in Nat : k > j => f[k] \in Seq(Char)
  PROVE  ExpandStep(s, f, j) \in Seq(Char)
<1>1. Len(s) \in Nat /\ j + 1 \in Nat /\ j + 1 > j
  OBVIOUS
<1>2. CASE j > Len(s)
  BY <1>2 DEF ExpandStep
<1>3. CASE ~(j > Len(s)) /\ ~IsPlaceholder(s, j)
  <2>1. j \in 1 .. Len(s)
    BY <1>1, <1>3
  <2>2. <<s[j]>> \in Seq(Char)
    BY <2>1
  <2>3. f[j + 1] \in Seq(Char)
    BY <1>1
  <2>4. <<s[j]>> \o f[j + 1] \in Seq(Char)
    BY <2>2, <2>3, ConcatProperties
  <2>5. QED
    BY <1>3, <2>4 DEF ExpandStep
<1>4. CASE ~(j > Len(s)) /\ IsPlaceholder(s, j)
  <2>1. PICK r : r = Resume(j, getShellName(s, j).width)
    OBVIOUS
  <2>2. r \in j + 1 .. Len(s) + 1
    BY <1>4, <2>1, ResumesLater
  <2>3. r \in Nat /\ r > j
    BY <1>1, <2>2
  <2>4. Replacement(getShellName(s, j)) \o f[r] \in Seq(Char)
    BY <2>3, ReplacementIn, ConcatProperties
  <2>5. QED
    BY <1>4, <2>1, <2>4 DEF ExpandStep
<1>5. QED
  BY <1>2, <1>3, <1>4

LEMMA ExpandsExists ==
  ASSUME NEW s \in Seq(Char)
  PROVE  \A n \in Nat : \E f : Expands(s, n, f)
<1> DEFINE T == {n \in Nat : ~ \E f : Expands(s, n, f)}
<1>1. SUFFICES ASSUME T # {} PROVE FALSE
  OBVIOUS
<1>2. PICK n \in T : \A m \in T : n <= m
  <2>1. T \subseteq Nat
    OBVIOUS
  <2>2. QED
    BY <1>1, <2>1, Least
<1>3. Len(s) \in Nat
  OBVIOUS
<1>4. CASE n = 0
  <2> DEFINE f == [j \in Nat |-> <<>>]
  <2>1. f = [j \in Nat |-> f[j]]
    OBVIOUS
  <2>2. ASSUME NEW j \in Nat, j + 0 > Len(s) PROVE f[j] = ExpandStep(s, f, j)
    BY <1>3, <2>2 DEF ExpandStep
  <2>3. Expands(s, 0, f)
    BY <2>1, <2>2 DEF Expands
  <2>4. QED
    BY <1>2, <1>4, <2>3
<1>5. CASE n # 0
  <2>1. n \in Nat /\ n - 1 \in Nat /\ n - 1 \notin T
    BY <1>2, <1>5
  <2>2. PICK f : Expands(s, n - 1, f)
    BY <2>1
  <2> DEFINE g == [j \in Nat |-> IF j + n = Len(s) + 1 THEN ExpandStep(s, f, j) ELSE f[j]]
  <2>3. ASSUME NEW j \in Nat, j + n > Len(s) PROVE g[j] = ExpandStep(s, g, j)
    <3>1. \A k \in Nat : k > j => k + n # Len(s) + 1
      BY <1>3, <2>1, <2>3
    <3>2. \A k \in Nat : k > j => g[k] = f[k]
      BY <3>1
    <3>3. g[j] = ExpandStep(s, f, j)
      <4>1. CASE j + n = Len(s) + 1
        BY <4>1
      <4>2. CASE j + n # Len(s) + 1
        <5>1. j + (n - 1) > Len(s)
          BY <1>3, <2>1, <2>3, <4>2
        <5>2. f[j] = ExpandStep(s, f, j)
          BY <2>2, <5>1 DEF Expands
        <5>3. QED
          BY <4>2, <5>2
      <4>3. QED
        BY <4>1, <4>2
    <3> HIDE DEF g
    <3>4. ExpandStep(s, g, j) = ExpandStep(s, f, j)
      BY <3>2, ExpandsLater
    <3>5. QED
      BY <3>3, <3>4
  <2>4. Expands(s, n, g)
    <3>1. g = [j \in Nat |-> g[j]]
      OBVIOUS
    <3> HIDE DEF g
    <3>2. QED
      BY <2>3, <3>1 DEF Expands
  <2>5. QED
    BY <1>2, <2>4
<1>6. QED
  BY <1>4, <1>5

LEMMA ExpandedIs ==
  ASSUME NEW s \in Seq(Char), NEW j \in Nat
  PROVE  Expanded(s)[j] = ExpandStep(s, Expanded(s), j)
<1>1. Len(s) \in Nat /\ Len(s) + 1 \in Nat
  OBVIOUS
<1>2. PICK f : Expands(s, Len(s) + 1, f)
  BY <1>1, ExpandsExists
<1>3. f = [k \in Nat |-> ExpandStep(s, f, k)]
  <2>1. \A k \in Nat : f[k] = ExpandStep(s, f, k)
    BY <1>1, <1>2 DEF Expands
  <2>2. QED
    BY <1>2, <2>1 DEF Expands
<1>4. Expanded(s) = [k \in Nat |-> ExpandStep(s, Expanded(s), k)]
  BY <1>3 DEF Expanded, ExpandStep
<1>5. QED
  BY <1>4

LEMMA ExpandedText ==
  ASSUME NEW s \in Seq(Char), NEW i \in Nat \ {0}
  PROVE  Expanded(s)[i] \in Seq(Char)
<1> DEFINE T == {n \in Nat : \E j \in Nat \ {0} : /\ j + n > Len(s)
                                                 /\ Expanded(s)[j] \notin Seq(Char)}
<1>1. Len(s) \in Nat
  OBVIOUS
<1>2. SUFFICES ASSUME T # {} PROVE FALSE
  <2>1. i + Len(s) > Len(s)
    BY <1>1
  <2>2. Len(s) \notin T
    BY <1>2
  <2>3. QED
    BY <1>1, <2>1, <2>2
<1>3. PICK n \in T : \A m \in T : n <= m
  <2>1. T \subseteq Nat
    OBVIOUS
  <2>2. QED
    BY <1>2, <2>1, Least
<1>4. PICK j \in Nat \ {0} : j + n > Len(s) /\ Expanded(s)[j] \notin Seq(Char)
  BY <1>3
<1>5. Expanded(s)[j] = ExpandStep(s, Expanded(s), j)
  BY ExpandedIs
<1>6. ~(j > Len(s))
  <2>1. <<>> \in Seq(Char)
    OBVIOUS
  <2>2. QED
    BY <1>4, <1>5, <2>1 DEF ExpandStep
<1>7. n # 0 /\ n \in Nat
  <2>1. n \in Nat
    BY <1>3
  <2>2. n = 0 => j > Len(s)
    BY <1>1, <1>4
  <2>3. QED
    BY <1>6, <2>1, <2>2
<1>8. n - 1 \in Nat /\ n - 1 \notin T
  <2>1. n - 1 \in Nat /\ ~(n <= n - 1)
    BY <1>7
  <2> HIDE DEF T
  <2>2. QED
    BY <1>3, <2>1
<1>9. \A k \in Nat : k > j => k # 0 /\ k + (n - 1) > Len(s)
  BY <1>1, <1>4, <1>7
<1>10. \A k \in Nat : k > j => Expanded(s)[k] \in Seq(Char)
  BY <1>8, <1>9
<1>11. QED
  BY <1>4, <1>5, <1>10, ExpandsToText

-------------------------------------------------------------------------------
\* The reading as the equation that defines it.
State == [done : Seq(Char), open : Seq(Char)]
Start == [done |-> <<>>, open |-> <<>>]
ReadStep(s, f, n) == IF n = 0 THEN Start ELSE Reading(f[n - 1], s[n])

\* f is the reading of the first n places of the text.
Reads(s, n, f) ==
  /\ f = [i \in 0 .. Len(s) |-> f[i]]
  /\ \A i \in 0 .. Len(s) : i <= n => f[i] = ReadStep(s, f, i)

LEMMA ReadsExists ==
  ASSUME NEW s \in Seq(Char)
  PROVE  \A n \in Nat : \E f : Reads(s, n, f)
<1> DEFINE T == {n \in Nat : ~ \E f : Reads(s, n, f)}
<1>1. SUFFICES ASSUME T # {} PROVE FALSE
  OBVIOUS
<1>2. PICK n \in T : \A m \in T : n <= m
  <2>1. T \subseteq Nat
    OBVIOUS
  <2>2. QED
    BY <1>1, <2>1, Least
<1>3. Len(s) \in Nat
  OBVIOUS
<1>4. CASE n = 0
  <2> DEFINE f == [i \in 0 .. Len(s) |-> Start]
  <2>1. f = [i \in 0 .. Len(s) |-> f[i]]
    OBVIOUS
  <2>2. \A i \in 0 .. Len(s) : i <= 0 => f[i] = ReadStep(s, f, i)
    BY <1>3 DEF ReadStep
  <2>3. Reads(s, 0, f)
    BY <2>1, <2>2 DEF Reads
  <2>4. QED
    BY <1>2, <1>4, <2>3
<1>5. CASE n # 0
  <2>1. n \in Nat /\ n - 1 \in Nat /\ n - 1 \notin T
    BY <1>2, <1>5
  <2>2. PICK f : Reads(s, n - 1, f)
    BY <2>1
  <2> DEFINE g == [i \in 0 .. Len(s) |-> IF i = n THEN ReadStep(s, f, i) ELSE f[i]]
  <2>3. ASSUME NEW i \in 0 .. Len(s), i <= n PROVE g[i] = ReadStep(s, g, i)
    <3>1. g[i] = ReadStep(s, f, i)
      <4>1. CASE i = n
        BY <4>1
      <4>2. CASE i # n
        <5>1. i <= n - 1
          BY <1>3, <2>1, <2>3, <4>2
        <5>2. QED
          BY <2>2, <4>2, <5>1 DEF Reads
      <4>3. QED
        BY <4>1, <4>2
    <3>2. i # 0 => g[i - 1] = f[i - 1]
      <4>1. i # 0 => i - 1 \in 0 .. Len(s) /\ i - 1 # n
        BY <1>3, <2>1, <2>3
      <4>2. QED
        BY <4>1
    <3>3. QED
      BY <3>1, <3>2 DEF ReadStep
  <2>4. Reads(s, n, g)
    <3>1. g = [i \in 0 .. Len(s) |-> g[i]]
      OBVIOUS
    <3> HIDE DEF g
    <3>2. QED
      BY <2>3, <3>1 DEF Reads
  <2>5. QED
    BY <1>2, <2>4
<1>6. QED
  BY <1>4, <1>5

LEMMA ReadingsAre ==
  ASSUME NEW s \in Seq(Char)
  PROVE  /\ Readings(s)[0] = Start
         /\ \A k \in Nat : k < Len(s) => Readings(s)[k + 1] = Reading(Readings(s)[k], s[k + 1])
<1>1. Len(s) \in Nat
  OBVIOUS
<1>2. PICK f : Reads(s, Len(s), f)
  BY <1>1, ReadsExists
<1>3. f = [n \in 0 .. Len(s) |-> ReadStep(s, f, n)]
  <2>1. \A n \in 0 .. Len(s) : f[n] = ReadStep(s, f, n)
    BY <1>1, <1>2 DEF Reads
  <2>2. QED
    BY <1>2, <2>1 DEF Reads
<1>4. Readings(s) = [n \in 0 .. Len(s) |-> ReadStep(s, Readings(s), n)]
  BY <1>3 DEF Readings, ReadStep, Start
<1>5. Readings(s)[0] = Start
  <2>1. Readings(s)[0] = ReadStep(s, Readings(s), 0)
    BY <1>1, <1>4
  <2>2. QED
    BY <2>1 DEF ReadStep
<1>6. ASSUME NEW k \in Nat, k < Len(s)
      PROVE  Readings(s)[k + 1] = Reading(Readings(s)[k], s[k + 1])
  <2>1. k + 1 \in 0 .. Len(s) /\ k + 1 # 0 /\ (k + 1) - 1 = k
    BY <1>1, <1>6
  <2>2. Readings(s)[k + 1] = ReadStep(s, Readings(s), k + 1)
    BY <1>4, <2>1
  <2>3. QED
    BY <2>1, <2>2 DEF ReadStep
<1>7. QED
  BY <1>5, <1>6

\* One more character: the placeholder goes on, its "$" was just a "$", it is there, or
\* it is none.
LEMMA ReadingIs ==
  ASSUME NEW a \in State, NEW char
  PROVE  /\ GoesOn(a.open, char) => Reading(a, char) = [a EXCEPT !.open = Append(a.open, char)]
         /\ Len(a.open) = 1 /\ char = "$" =>
              Reading(a, char) = [a EXCEPT !.done = Append(@, "$")]
         /\ Len(a.open) > 1 /\ char = "}" =>
              Reading(a, char) = [done |-> a.done \o Getenv(SubSeq(a.open, 3, Len(a.open))),
                                  open |-> <<>>]
         /\ \/ Len(a.open) = 0 /\ char # "$"
            \/ Len(a.open) = 1 /\ char \notin {"$", "{"}
            \/ Len(a.open) > 1 /\ char \in Stop
            => Reading(a, char) = [done |-> a.done \o Append(a.open, char), open |-> <<>>]
<1>1. /\ Len(a.open) = 0 => ~(Len(a.open) = 1) /\ ~(Len(a.open) > 1)
      /\ Len(a.open) = 1 => ~(Len(a.open) = 0) /\ ~(Len(a.open) > 1)
      /\ Len(a.open) > 1 => ~(Len(a.open) = 0) /\ ~(Len(a.open) = 1)
  <2>1. PICK n \in Nat : n = Len(a.open)
    BY DEF State
  <2>2. /\ n = 0 => ~(n = 1) /\ ~(n > 1)
        /\ n = 1 => ~(n = 0) /\ ~(n > 1)
        /\ n > 1 => ~(n = 0) /\ ~(n = 1)
    OBVIOUS
  <2>3. QED
    BY <2>1, <2>2
<1>2. "}" \notin Stop /\ "$" # "{"
  BY DEF Stop
<1>3. Len(a.open) = 1 /\ char = "$" => ~GoesOn(a.open, char)
  BY <1>1, <1>2 DEF GoesOn
<1>4. Len(a.open) > 1 /\ char = "}" => ~GoesOn(a.open, char) /\ Len(a.open) # 1
  BY <1>1 DEF GoesOn
<1>5. \/ Len(a.open) = 0 /\ char # "$"
      \/ Len(a.open) = 1 /\ char \notin {"$", "{"}
      \/ Len(a.open) > 1 /\ char \in Stop
      => /\ ~GoesOn(a.open, char)
         /\ ~(Len(a.open) = 1 /\ char = "$") /\ ~(Len(a.open) > 1 /\ char = "}")
  BY <1>1, <1>2 DEF GoesOn
<1>6. QED
  BY <1>3, <1>4, <1>5 DEF Reading

-------------------------------------------------------------------------------
LEMMA Joined ==
  ASSUME NEW x \in Seq(Char), NEW y \in Seq(Char), NEW z \in Seq(Char)
  PROVE  (x \o y) \o z = x \o (y \o z)
  BY ConcatAssociative

\* A character that is no placeholder's "$" is copied, and so is a "$" whose scan
\* ends without a brace.
LEMMA CopiesPlain ==
  ASSUME NEW s \in Seq(Char), NEW k \in 1 .. Len(s), ~IsPlaceholder(s, k)
  PROVE  Expanded(s)[k] = <<s[k]>> \o Expanded(s)[k + 1]
<1>1. k \in Nat /\ ~(k > Len(s))
  OBVIOUS
<1>2. QED
  BY <1>1, ExpandedIs DEF ExpandStep

LEMMA CopiesUnended ==
  ASSUME NEW s \in Seq(Char), NEW k \in 1 .. Len(s), NEW e,
         EndsAt(s, k, e), ~Ended(s, e)
  PROVE  Expanded(s)[k] = <<s[k]>> \o Expanded(s)[k + 1]
<1>1. CASE ~IsPlaceholder(s, k)
  BY <1>1, CopiesPlain
<1>2. CASE IsPlaceholder(s, k)
  <2>1. k \in Nat /\ ~(k > Len(s)) /\ Len(s) \in Nat
    OBVIOUS
  <2>2. e \in Nat /\ k <= e /\ e <= Len(s) + 1 /\ ~InName(s, e)
    BY <2>1 DEF EndsAt
  <2>3. InName(s, k) /\ InName(s, k + 1)
    <3>1. s[k] = "$" /\ s[k + 1] = "{" /\ k + 2 <= Len(s)
      BY <1>2 DEF IsPlaceholder
    <3>2. ~(k > Len(s)) /\ ~(k + 1 > Len(s))
      <4>1. k + 2 <= Len(s)
        BY <3>1
      <4>2. QED
        BY <2>1, <4>1
    <3>3. "$" \notin Stop /\ "{" \notin Stop /\ "$" # "}" /\ "{" # "}"
      BY DEF Stop
    <3>4. QED
      BY <3>1, <3>2, <3>3 DEF InName
  <2>4. e # k /\ e # k + 1
    BY <2>2, <2>3
  <2>5. k + 2 <= e
    BY <2>1, <2>2, <2>4
  <2>6. EndsAt(s, k + 2, e)
    <3>1. e \in k + 2 .. Len(s) + 1
      BY <2>1, <2>2, <2>5
    <3>2. \A i \in k + 2 .. e - 1 : i \in k .. e - 1
      BY <2>1, <2>2
    <3>3. QED
      BY <2>2, <3>1, <3>2 DEF EndsAt
  <2>7. getShellName(s, k) = [name |-> <<>>, width |-> 0]
    BY <2>1, <2>6, ShellName
  <2>8. Replacement(getShellName(s, k)) = <<"$">>
    <3>1. getShellName(s, k).name = <<>> /\ getShellName(s, k).width = 0
      BY <2>7
    <3>2. ~(0 > 0)
      OBVIOUS
    <3>3. QED
      BY <3>1, <3>2 DEF Replacement
  <2>9. Resume(k, getShellName(s, k).width) = k + 1
    <3>1. getShellName(s, k).width = 0
      BY <2>7
    <3>2. Resume(k, 0) = k + 1
      BY <2>1 DEF Resume
    <3>3. QED
      BY <3>1, <3>2
  <2>10. s[k] = "$"
    BY <1>2 DEF IsPlaceholder
  <2>11. Expanded(s)[k] = ExpandStep(s, Expanded(s), k)
    BY <2>1, ExpandedIs
  <2>12. QED
    BY <1>2, <2>1, <2>8, <2>9, <2>10, <2>11 DEF ExpandStep
<1>3. QED
  BY <1>1, <1>2

\* And so is everything up to there.
LEMMA CopiesUpTo ==
  ASSUME NEW s \in Seq(Char), NEW p \in Nat \ {0}, NEW e,
         EndsAt(s, p, e), ~Ended(s, e)
  PROVE  Expanded(s)[p] = SubSeq(s, p, e - 1) \o Expanded(s)[e]
<1> DEFINE Copied(k) == Expanded(s)[k] = SubSeq(s, k, e - 1) \o Expanded(s)[e]
           T == {n \in Nat : \E k \in p .. e : k + n = e /\ ~Copied(k)}
<1>1. Len(s) \in Nat /\ e \in Nat /\ p <= e /\ e <= Len(s) + 1
  BY DEF EndsAt
<1>2. SUFFICES ASSUME T # {} PROVE FALSE
  <2>1. e - p \in Nat /\ p + (e - p) = e /\ p \in p .. e
    BY <1>1
  <2>2. e - p \notin T
    BY <1>2
  <2> HIDE DEF Copied
  <2>3. Copied(p)
    BY <2>1, <2>2
  <2>4. QED
    BY <2>3 DEF Copied
<1>3. PICK n \in T : \A m \in T : n <= m
  <2>1. T \subseteq Nat
    OBVIOUS
  <2>2. QED
    BY <1>2, <2>1, Least
<1>4. PICK k \in p .. e : k + n = e /\ ~Copied(k)
  BY <1>3
<1>5. n \in Nat /\ k \in Nat /\ k # 0
  BY <1>1, <1>3
<1>6. Expanded(s)[e] \in Seq(Char)
  <2>1. e \in Nat \ {0}
    BY <1>1
  <2>2. QED
    BY <2>1, ExpandedText
<1>7. n # 0
  <2>1. ASSUME n = 0 PROVE FALSE
    <3>1. k = e /\ e - 1 < e /\ e \in Int /\ e - 1 \in Int
      BY <1>1, <1>4, <1>5, <2>1
    <3>2. SubSeq(s, e, e - 1) = <<>>
      BY <3>1, SubSeqEmpty
    <3>3. <<>> \o Expanded(s)[e] = Expanded(s)[e]
      BY <1>6, ConcatEmptySeq
    <3>4. QED
      BY <1>4, <3>1, <3>2, <3>3
  <2>2. QED
    BY <2>1
<1>8. /\ k + 1 \in p .. e /\ (k + 1) + (n - 1) = e /\ n - 1 \in Nat /\ ~(n <= n - 1)
      /\ k \in 1 .. Len(s) /\ e - 1 \in k .. Len(s)
  BY <1>1, <1>4, <1>5, <1>7
<1>9. Copied(k + 1)
  <2> HIDE DEF Copied
  <2>1. n - 1 \notin T
    <3> HIDE DEF T
    <3>1. QED
      BY <1>3, <1>8
  <2>2. QED
    BY <1>8, <2>1
<1>10. Expanded(s)[k] = <<s[k]>> \o Expanded(s)[k + 1]
  <2>1. EndsAt(s, k, e)
    <3>1. e \in k .. Len(s) + 1 /\ \A i \in k .. e - 1 : i \in p .. e - 1
      BY <1>1, <1>4, <1>5
    <3>2. QED
      BY <3>1 DEF EndsAt
  <2>2. QED
    BY <1>8, <2>1, CopiesUnended
<1>11. SubSeq(s, k, e - 1) = <<s[k]>> \o SubSeq(s, k + 1, e - 1)
  BY <1>8, SubSeqRecursiveFirst
<1>12. (<<s[k]>> \o SubSeq(s, k + 1, e - 1)) \o Expanded(s)[e]
         = <<s[k]>> \o (SubSeq(s, k + 1, e - 1) \o Expanded(s)[e])
  <2>1. <<s[k]>> \in Seq(Char)
    BY <1>8
  <2>2. SubSeq(s, k + 1, e - 1) \in Seq(Char)
    <3>1. \A i \in k + 1 .. e - 1 : i \in 1 .. Len(s)
      BY <1>1, <1>8
    <3>2. \A i \in k + 1 .. e - 1 : s[i] \in Char
      BY <3>1, ElementOfSeq
    <3>3. k + 1 \in Int /\ e - 1 \in Int
      BY <1>1, <1>5
    <3>4. QED
      BY <3>2, <3>3, SubSeqProperties
  <2> HIDE DEF T, Copied
  <2>3. QED
    BY <1>6, <2>1, <2>2, Joined
<1>13. QED
  BY <1>4, <1>9, <1>10, <1>11, <1>12

-------------------------------------------------------------------------------
\* After k characters of the text the reading is at a, where the open placeholder, if
\* there is one, starts at p.
Opens(s, k, p) == /\ p <= k => s[p] = "$"
                  /\ p < k => s[p + 1] = "{"
                  /\ \A i \in p .. k : InName(s, i)

ReadTo(s, k, p, a) == /\ a \in State /\ k \in 0 .. Len(s) /\ p \in 1 .. k + 1
                      /\ a.open = SubSeq(s, p, k)
                      /\ Opens(s, k, p)

\* What was written for good, and what the loop makes of the rest, is always the same.
Agrees(s, k, a) ==
  \E p : ReadTo(s, k, p, a) /\ a.done \o Expanded(s)[p] = expandEnv(s)

LEMMA ReadToLen ==
  ASSUME NEW s \in Seq(Char), NEW k, NEW p, NEW a, ReadTo(s, k, p, a)
  PROVE  a.open \in Seq(Char) /\ a.done \in Seq(Char) /\ Len(a.open) = k + 1 - p
<1>1. k \in Nat /\ p \in Nat /\ k <= Len(s) /\ 1 <= p /\ p <= k + 1 /\ Len(s) \in Nat
  BY DEF ReadTo
<1>2. Len(SubSeq(s, p, k)) = IF p <= k THEN k - p + 1 ELSE 0
  <2>1. \A i \in p .. k : i \in 1 .. Len(s)
    BY <1>1
  <2>2. \A i \in p .. k : s[i] \in Char
    BY <2>1, ElementOfSeq
  <2>3. QED
    BY <1>1, <2>2, SubSeqProperties
<1>3. Len(SubSeq(s, p, k)) = k + 1 - p
  BY <1>1, <1>2
<1>4. QED
  BY <1>3 DEF ReadTo, State

\* The placeholder that is no placeholder after all: it was copied.
LEMMA KeptAgrees ==
  ASSUME NEW s \in Seq(Char), NEW k, NEW p, NEW a, NEW b, ReadTo(s, k, p, a), k < Len(s),
         a.done \o Expanded(s)[p] = expandEnv(s),
         b = [done |-> a.done \o Append(a.open, s[k + 1]), open |-> <<>>],
         Expanded(s)[p] = SubSeq(s, p, k) \o Expanded(s)[k + 1],
         Expanded(s)[k + 1] = <<s[k + 1]>> \o Expanded(s)[k + 2]
  PROVE  Agrees(s, k + 1, b)
<1>1. k \in Nat /\ Len(s) \in Nat /\ k + 1 \in 1 .. Len(s) /\ k + 2 \in Nat \ {0}
  BY DEF ReadTo
<1>2. a.open \in Seq(Char) /\ a.done \in Seq(Char)
  BY ReadToLen
<1>3. PICK c \in Char : c = s[k + 1]
  BY <1>1, ElementOfSeq
<1>4. PICK rest \in Seq(Char) : rest = Expanded(s)[k + 2]
  BY <1>1, ExpandedText
<1>5. Append(a.open, c) = a.open \o <<c>> /\ Append(a.open, c) \in Seq(Char)
  BY <1>2, AppendIsConcat, AppendProperties
<1>6. <<c>> \in Seq(Char)
  OBVIOUS
<1>7. a.open \o (<<c>> \o rest) = Append(a.open, c) \o rest
  <2>1. (a.open \o <<c>>) \o rest = a.open \o (<<c>> \o rest)
    BY <1>2, <1>6, Joined
  <2>2. QED
    BY <1>5, <2>1
<1>8. a.done \o (Append(a.open, c) \o rest) = (a.done \o Append(a.open, c)) \o rest
  BY <1>2, <1>5, Joined
<1>9. a.open = SubSeq(s, p, k)
  BY DEF ReadTo
<1>10. b.done \o rest = expandEnv(s)
  <2>1. Expanded(s)[p] = a.open \o (<<c>> \o rest)
    BY <1>3, <1>4, <1>9
  <2>2. b.done = a.done \o Append(a.open, c)
    BY <1>3
  <2>3. QED
    BY <1>7, <1>8, <2>1, <2>2
<1>11. ReadTo(s, k + 1, k + 2, b)
  <2>1. b \in State
    <3>1. a.done \o Append(a.open, c) \in Seq(Char)
      BY <1>2, <1>5, ConcatProperties
    <3>2. <<>> \in Seq(Char)
      OBVIOUS
    <3>3. QED
      BY <1>3, <3>1, <3>2 DEF State
  <2>2. b.open = SubSeq(s, k + 2, k + 1)
    <3>1. SubSeq(s, k + 2, k + 1) = <<>>
      BY <1>1, SubSeqEmpty
    <3>2. QED
      BY <3>1
  <2>3. Opens(s, k + 1, k + 2)
    <3>1. ~(k + 2 <= k + 1) /\ ~(k + 2 < k + 1) /\ k + 2 .. k + 1 = {}
      BY <1>1
    <3>2. QED
      BY <3>1 DEF Opens
  <2>4. k + 1 \in 0 .. Len(s) /\ k + 2 \in 1 .. (k + 1) + 1
    BY <1>1
  <2>5. QED
    BY <2>1, <2>2, <2>3, <2>4 DEF ReadTo
<1>12. QED
  BY <1>4, <1>10, <1>11 DEF Agrees

\* The placeholder goes on.
LEMMA GoesOnAgrees ==
  ASSUME NEW s \in Seq(Char), NEW k, NEW p, NEW a, NEW b, ReadTo(s, k, p, a), k < Len(s),
         a.done \o Expanded(s)[p] = expandEnv(s),
         GoesOn(a.open, s[k + 1]), b = [a EXCEPT !.open = Append(a.open, s[k + 1])]
  PROVE  Agrees(s, k + 1, b)
<1>1. /\ k \in Nat /\ p \in Nat /\ 1 <= p /\ p <= k + 1 /\ Len(s) \in Nat
      /\ k + 1 \in 1 .. Len(s)
  BY DEF ReadTo
<1>2. a.open \in Seq(Char) /\ a.done \in Seq(Char) /\ Len(a.open) = k + 1 - p
  BY ReadToLen
<1>3. PICK c \in Char : c = s[k + 1]
  BY <1>1, ElementOfSeq
<1>4. b \in State /\ b.done = a.done /\ b.open = Append(a.open, c)
  <2>1. Append(a.open, c) \in Seq(Char)
    BY <1>2, AppendProperties
  <2>2. a \in State
    BY DEF ReadTo
  <2>3. QED
    BY <1>3, <2>1, <2>2 DEF State
<1>5. b.open = SubSeq(s, p, k + 1)
  <2>1. SubSeq(s, p, k + 1) = SubSeq(s, p, (k + 1) - 1) \o <<s[k + 1]>>
    <3>1. p \in 1 .. Len(s) /\ k + 1 \in p .. Len(s)
      BY <1>1
    <3>2. QED
      BY <3>1, SubSeqRecursiveSecond
  <2>2. (k + 1) - 1 = k
    BY <1>1
  <2>3. Append(a.open, c) = a.open \o <<c>>
    BY <1>2, AppendIsConcat
  <2>4. a.open = SubSeq(s, p, k)
    BY DEF ReadTo
  <2>5. QED
    BY <1>3, <1>4, <2>1, <2>2, <2>3, <2>4
<1>6. Opens(s, k, p)
  BY DEF ReadTo
<1>7. /\ p = k + 1 => s[k + 1] = "$"
      /\ p = k => s[k + 1] = "{"
      /\ s[k + 1] \notin Stop /\ s[k + 1] # "}"
  <2>1. /\ p = k + 1 <=> Len(a.open) = 0
        /\ p = k <=> Len(a.open) = 1
    BY <1>1, <1>2
  <2>2. ~(Len(a.open) = 0 /\ Len(a.open) > 1) /\ ~(Len(a.open) = 1 /\ Len(a.open) > 1)
        /\ ~(Len(a.open) = 0 /\ Len(a.open) = 1)
    BY <1>1, <1>2
  <2>3. "$" \notin Stop /\ "{" \notin Stop /\ "$" # "}" /\ "{" # "}"
    BY DEF Stop
  <2>4. QED
    BY <2>1, <2>2, <2>3 DEF GoesOn
<1>8. Opens(s, k + 1, p)
  <2>1. p <= k + 1 => s[p] = "$"
    <3>1. p = k + 1 \/ p <= k
      BY <1>1
    <3>2. QED
      BY <1>6, <1>7, <3>1 DEF Opens
  <2>2. p < k + 1 => s[p + 1] = "{"
    <3>1. p < k + 1 => p = k \/ p < k
      BY <1>1
    <3>2. QED
      BY <1>6, <1>7, <3>1 DEF Opens
  <2>3. \A i \in p .. k + 1 : InName(s, i)
    <3>1. \A i \in p .. k + 1 : i \in p .. k \/ i = k + 1
      BY <1>1
    <3>2. ~(k + 1 > Len(s))
      BY <1>1
    <3>3. InName(s, k + 1)
      BY <1>7, <3>2 DEF InName
    <3>4. QED
      BY <1>6, <3>1, <3>3 DEF Opens
  <2>4. QED
    BY <2>1, <2>2, <2>3 DEF Opens
<1>9. ReadTo(s, k + 1, p, b)
  <2>1. k + 1 \in 0 .. Len(s) /\ p \in 1 .. (k + 1) + 1
    BY <1>1
  <2>2. QED
    BY <1>4, <1>5, <1>8, <2>1 DEF ReadTo
<1>10. QED
  BY <1>4, <1>9 DEF Agrees

\* Where no placeholder is open, or only its "$" is, the loop copies.
LEMMA CopiesOpen ==
  ASSUME NEW s \in Seq(Char), NEW k, NEW p, NEW a, ReadTo(s, k, p, a), k < Len(s)
  PROVE  /\ s[k + 1] # "$" =>
              Expanded(s)[k + 1] = <<s[k + 1]>> \o Expanded(s)[k + 2]
         /\ p = k /\ s[k + 1] # "{" => Expanded(s)[k] = <<s[k]>> \o Expanded(s)[k + 1]
<1>1. k \in Nat /\ Len(s) \in Nat /\ k + 1 \in 1 .. Len(s) /\ (k + 1) + 1 = k + 2
  BY DEF ReadTo
<1>2. ASSUME s[k + 1] # "$"
      PROVE  Expanded(s)[k + 1] = <<s[k + 1]>> \o Expanded(s)[k + 2]
  <2>1. ~IsPlaceholder(s, k + 1)
    BY <1>2 DEF IsPlaceholder
  <2>2. Expanded(s)[k + 1] = <<s[k + 1]>> \o Expanded(s)[(k + 1) + 1]
    BY <1>1, <2>1, CopiesPlain
  <2>3. QED
    BY <1>1, <2>2
<1>3. ASSUME p = k, s[k + 1] # "{"
      PROVE  Expanded(s)[k] = <<s[k]>> \o Expanded(s)[k + 1]
  <2>1. ~IsPlaceholder(s, k)
    BY <1>3 DEF IsPlaceholder
  <2>2. p \in 1 .. k + 1
    BY DEF ReadTo
  <2>3. k \in 1 .. Len(s)
    <3>1. p = k
      BY <1>3
    <3>2. QED
      BY <1>1, <2>2, <3>1
  <2>4. QED
    BY <2>1, <2>3, CopiesPlain
<1>4. QED
  BY <1>2, <1>3

\* The placeholder is there: the loop replaces it and goes on behind it.
LEMMA ReplacesOpen ==
  ASSUME NEW s \in Seq(Char), NEW k, NEW p, NEW a, ReadTo(s, k, p, a), k < Len(s),
         p < k, Ended(s, k + 1)
  PROVE  Expanded(s)[p] = Getenv(SubSeq(a.open, 3, Len(a.open))) \o Expanded(s)[k + 2]
<1> DEFINE name == SubSeq(s, p + 2, k)
<1>1. /\ k \in Nat /\ p \in Nat \ {0} /\ p + 2 <= k + 1 /\ Len(s) \in Nat /\ k <= Len(s)
      /\ k + 1 <= Len(s)
  <2>1. k \in 0 .. Len(s) /\ p \in 1 .. k + 1 /\ Len(s) \in Nat
    BY DEF ReadTo
  <2>2. k < Len(s) /\ p < k
    OBVIOUS
  <2>3. QED
    BY <2>1, <2>2
<1>2. IsPlaceholder(s, p)
  <2>1. p <= k /\ p < k /\ p + 2 <= Len(s)
    BY <1>1
  <2>2. s[p] = "$" /\ s[p + 1] = "{"
    BY <2>1 DEF ReadTo, Opens
  <2>3. QED
    BY <2>1, <2>2 DEF IsPlaceholder
<1>3. EndsAt(s, p + 2, k + 1)
  <2>1. ~InName(s, k + 1)
    BY DEF InName, Ended
  <2>2. k + 1 \in p + 2 .. Len(s) + 1 /\ \A i \in p + 2 .. (k + 1) - 1 : i \in p .. k
    BY <1>1
  <2>3. \A i \in p .. k : InName(s, i)
    BY DEF ReadTo, Opens
  <2>4. QED
    BY <2>1, <2>2, <2>3 DEF EndsAt
<1>4. getShellName(s, p) = [name |-> name, width |-> (k + 1) - p]
  <2>1. getShellName(s, p) = [name |-> SubSeq(s, p + 2, (k + 1) - 1), width |-> (k + 1) - p]
    BY <1>1, <1>3, ShellName
  <2>2. (k + 1) - 1 = k
    BY <1>1
  <2>3. QED
    BY <2>1, <2>2
<1>5. name = SubSeq(a.open, 3, Len(a.open))
  <2>1. Len(a.open) = k + 1 - p /\ a.open = SubSeq(s, p, k)
    BY ReadToLen DEF ReadTo
  <2>2. CASE p + 2 <= k
    <3>1. /\ p \in 1 .. Len(s) /\ k \in 1 .. Len(s)
          /\ 3 \in 1 .. k - p + 1 /\ k + 1 - p \in 1 .. k - p + 1
          /\ p + 3 - 1 = p + 2 /\ p + (k + 1 - p) - 1 = k
      BY <1>1, <2>2
    <3>2. SubSeq(SubSeq(s, p, k), 3, k + 1 - p) = SubSeq(s, p + 3 - 1, p + (k + 1 - p) - 1)
      BY <3>1, SubSeqOfSubSeq
    <3>3. QED
      BY <2>1, <3>1, <3>2
  <2>3. CASE ~(p + 2 <= k)
    <3>1. /\ k < p + 2 /\ k + 1 - p < 3
          /\ p + 2 \in Int /\ k \in Int /\ 3 \in Int /\ k + 1 - p \in Int
      BY <1>1, <2>3
    <3>2. SubSeq(s, p + 2, k) = <<>> /\ SubSeq(a.open, 3, k + 1 - p) = <<>>
      BY <3>1, SubSeqEmpty
    <3>3. QED
      BY <2>1, <3>2
  <2>4. QED
    BY <2>2, <2>3
<1> HIDE DEF name
<1>6. Replacement(getShellName(s, p)) = Getenv(name)
  <2>1. getShellName(s, p).name = name /\ getShellName(s, p).width = (k + 1) - p
    BY <1>4
  <2>2. (k + 1) - p > 0
    BY <1>1
  <2>3. Getenv(<<>>) = <<>>
    BY EnvAssumption DEF Getenv
  <2>4. QED
    BY <2>1, <2>2, <2>3 DEF Replacement
<1>7. Resume(p, getShellName(s, p).width) = k + 2
  <2>1. getShellName(s, p).width = (k + 1) - p
    BY <1>4
  <2>2. Resume(p, (k + 1) - p) = k + 2
    BY <1>1 DEF Resume
  <2>3. QED
    BY <2>1, <2>2
<1>8. Expanded(s)[p] = Replacement(getShellName(s, p))
                         \o Expanded(s)[Resume(p, getShellName(s, p).width)]
  <2>1. ~(p > Len(s))
    BY <1>1
  <2>2. Expanded(s)[p] = ExpandStep(s, Expanded(s), p)
    BY <1>1, ExpandedIs
  <2>3. QED
    BY <1>2, <2>1, <2>2 DEF ExpandStep
<1>9. QED
  BY <1>5, <1>6, <1>7, <1>8

LEMMA OneCharacter ==
  ASSUME NEW s \in Seq(Char), NEW i \in 1 .. Len(s)
  PROVE  SubSeq(s, i, i) = <<s[i]>>
<1>1. i \in i .. Len(s) /\ i + 1 \in Int /\ i \in Int /\ i < i + 1
  OBVIOUS
<1>2. SubSeq(s, i, i) = <<s[i]>> \o SubSeq(s, i + 1, i)
  BY <1>1, SubSeqRecursiveFirst
<1>3. SubSeq(s, i + 1, i) = <<>>
  BY <1>1, SubSeqEmpty
<1>4. <<s[i]>> \in Seq(Char)
  OBVIOUS
<1>5. QED
  BY <1>2, <1>3, <1>4, ConcatEmptySeq

\* Nothing is open.
LEMMA ClosedReadTo ==
  ASSUME NEW s \in Seq(Char), NEW k, k + 1 \in 1 .. Len(s), k \in Nat, NEW b \in State,
         b.open = <<>>
  PROVE  ReadTo(s, k + 1, k + 2, b)
<1>1. SubSeq(s, k + 2, k + 1) = <<>>
  BY SubSeqEmpty
<1>2. ~(k + 2 <= k + 1) /\ ~(k + 2 < k + 1) /\ k + 2 .. k + 1 = {}
  OBVIOUS
<1>3. Opens(s, k + 1, k + 2)
  BY <1>2 DEF Opens
<1>4. k + 1 \in 0 .. Len(s) /\ k + 2 \in 1 .. (k + 1) + 1
  OBVIOUS
<1>5. QED
  BY <1>1, <1>3, <1>4 DEF ReadTo

\* The name is there.
LEMMA ReplacedAgrees ==
  ASSUME NEW s \in Seq(Char), NEW k, NEW p, NEW a, NEW b, ReadTo(s, k, p, a), k < Len(s),
         a.done \o Expanded(s)[p] = expandEnv(s),
         p < k, Ended(s, k + 1),
         b = [done |-> a.done \o Getenv(SubSeq(a.open, 3, Len(a.open))), open |-> <<>>]
  PROVE  Agrees(s, k + 1, b)
<1>1. k \in Nat /\ Len(s) \in Nat /\ k + 1 \in 1 .. Len(s) /\ k + 2 \in Nat \ {0}
  BY DEF ReadTo
<1>2. a.done \in Seq(Char)
  BY ReadToLen
<1>3. PICK value \in Seq(Char) : value = Getenv(SubSeq(a.open, 3, Len(a.open)))
  <2>1. <<>> \in Seq(Char)
    OBVIOUS
  <2>2. QED
    BY <2>1, EnvAssumption DEF Getenv
<1>4. PICK rest \in Seq(Char) : rest = Expanded(s)[k + 2]
  BY <1>1, ExpandedText
<1>5. Expanded(s)[p] = value \o rest
  <2>1. Expanded(s)[p] = Getenv(SubSeq(a.open, 3, Len(a.open))) \o Expanded(s)[k + 2]
    BY ReplacesOpen
  <2>2. QED
    BY <1>3, <1>4, <2>1
<1>6. a.done \o (value \o rest) = (a.done \o value) \o rest
  BY <1>2, Joined
<1>7. b.done = a.done \o value /\ b.open = <<>> /\ b \in State
  <2>1. a.done \o value \in Seq(Char) /\ <<>> \in Seq(Char)
    BY <1>2, ConcatProperties
  <2>2. QED
    BY <1>3, <2>1 DEF State
<1>8. b.done \o rest = expandEnv(s)
  BY <1>5, <1>6, <1>7
<1>9. ReadTo(s, k + 1, k + 2, b)
  BY <1>1, <1>7, ClosedReadTo
<1>10. QED
  BY <1>4, <1>8, <1>9 DEF Agrees

\* A "$" behind a "$": the first is copied, the second is open.
LEMMA SecondAgrees ==
  ASSUME NEW s \in Seq(Char), NEW k, NEW a, NEW b, ReadTo(s, k, k, a), k < Len(s),
         a.done \o Expanded(s)[k] = expandEnv(s),
         s[k + 1] = "$", b = [a EXCEPT !.done = Append(@, "$")]
  PROVE  Agrees(s, k + 1, b)
<1>1. k \in Nat /\ Len(s) \in Nat /\ k \in 1 .. Len(s) /\ k + 1 \in 1 .. Len(s)
      /\ k + 1 \in Nat \ {0}
  <2>1. k \in 0 .. Len(s) /\ k \in 1 .. k + 1 /\ Len(s) \in Nat
    BY DEF ReadTo
  <2>2. k < Len(s)
    OBVIOUS
  <2>3. QED
    BY <2>1, <2>2
<1>2. a.done \in Seq(Char) /\ a \in State
  BY ReadToLen DEF ReadTo
<1>3. "$" \in Char /\ <<"$">> \in Seq(Char)
  <2>1. "$" \in Char
    BY EnvAssumption
  <2>2. QED
    BY <2>1
<1>4. PICK rest \in Seq(Char) : rest = Expanded(s)[k + 1]
  BY <1>1, ExpandedText
<1>5. s[k] = "$"
  <2>1. k <= k
    BY <1>1
  <2>2. QED
    BY <2>1 DEF ReadTo, Opens
<1>6. Expanded(s)[k] = <<"$">> \o rest
  <2>1. s[k + 1] # "{"
    OBVIOUS
  <2>2. QED
    BY <1>4, <1>5, <2>1, CopiesOpen
<1>7. (a.done \o <<"$">>) \o rest = a.done \o (<<"$">> \o rest)
  BY <1>2, <1>3, Joined
<1>8. /\ Append(a.done, "$") = a.done \o <<"$">> /\ Append(a.done, "$") \in Seq(Char)
  BY <1>2, <1>3, AppendIsConcat, AppendProperties
<1>9. b.done = a.done \o <<"$">> /\ b.open = a.open /\ b \in State
  BY <1>2, <1>8 DEF State
<1>10. b.done \o rest = expandEnv(s)
  BY <1>6, <1>7, <1>9
<1>11. ReadTo(s, k + 1, k + 1, b)
  <2>1. b.open = SubSeq(s, k + 1, k + 1)
    BY <1>1, <1>5, <1>9, OneCharacter DEF ReadTo
  <2>2. k + 1 \in 0 .. Len(s) /\ k + 1 \in 1 .. (k + 1) + 1
        /\ ~(k + 1 < k + 1) /\ ~(k + 1 > Len(s))
        /\ \A i \in k + 1 .. k + 1 : i = k + 1
    BY <1>1
  <2>3. InName(s, k + 1)
    BY <2>2 DEF InName, Stop
  <2>4. Opens(s, k + 1, k + 1)
    BY <2>2, <2>3 DEF Opens
  <2>5. QED
    BY <1>9, <2>1, <2>2, <2>4 DEF ReadTo
<1>12. QED
  BY <1>4, <1>10, <1>11 DEF Agrees

\* One character more, and the two agree still.
LEMMA ReadsOn ==
  ASSUME NEW s \in Seq(Char), NEW k \in Nat, k < Len(s), NEW a, Agrees(s, k, a)
  PROVE  Agrees(s, k + 1, Reading(a, s[k + 1]))
<1> DEFINE char == s[k + 1]
           b == Reading(a, char)
           kept == [done |-> a.done \o Append(a.open, char), open |-> <<>>]
<1>1. PICK p : ReadTo(s, k, p, a) /\ a.done \o Expanded(s)[p] = expandEnv(s)
  BY DEF Agrees
<1>2. Len(s) \in Nat /\ p \in Nat /\ 1 <= p /\ p <= k + 1 /\ k + 1 \in 1 .. Len(s)
  BY <1>1 DEF ReadTo
<1>3. a \in State /\ Len(a.open) = k + 1 - p
  BY <1>1, ReadToLen DEF ReadTo
<1>4. /\ Len(a.open) = 0 <=> p = k + 1
      /\ Len(a.open) = 1 <=> p = k
      /\ Len(a.open) > 1 <=> p < k
      /\ p = k + 1 \/ p = k \/ p < k
  BY <1>2, <1>3
<1> HIDE DEF b, char
<1>5. CASE GoesOn(a.open, char)
  <2>1. b = [a EXCEPT !.open = Append(a.open, char)]
    BY <1>3, <1>5, ReadingIs DEF b
  <2>2. QED
    BY <1>1, <1>5, <2>1, GoesOnAgrees DEF b, char
<1>6. CASE Len(a.open) = 1 /\ char = "$"
  <2>1. b = [a EXCEPT !.done = Append(@, "$")]
    BY <1>3, <1>6, ReadingIs DEF b
  <2>2. p = k
    BY <1>4, <1>6
  <2>3. QED
    BY <1>1, <1>6, <2>1, <2>2, SecondAgrees DEF b, char
<1>7. CASE Len(a.open) > 1 /\ char = "}"
  <2>1. b = [done |-> a.done \o Getenv(SubSeq(a.open, 3, Len(a.open))), open |-> <<>>]
    BY <1>3, <1>7, ReadingIs DEF b
  <2>2. p < k
    BY <1>4, <1>7
  <2>3. Ended(s, k + 1)
    <3>1. ~(k + 1 > Len(s))
      BY <1>2
    <3>2. QED
      BY <1>7, <3>1 DEF Ended, char
  <2>4. QED
    BY <1>1, <2>1, <2>2, <2>3, ReplacedAgrees DEF b, char
<1>8. CASE Len(a.open) = 0 /\ char # "$"
  <2>1. b = kept
    BY <1>3, <1>8, ReadingIs DEF b
  <2>2. p = k + 1
    BY <1>4, <1>8
  <2>3. Expanded(s)[k + 1] = <<char>> \o Expanded(s)[k + 2]
    BY <1>1, <1>8, CopiesOpen DEF char
  <2>4. Expanded(s)[p] = SubSeq(s, p, k) \o Expanded(s)[k + 1]
    <3>1. k < k + 1 /\ k \in Int /\ k + 1 \in Int /\ k + 1 \in Nat \ {0}
      OBVIOUS
    <3>2. SubSeq(s, k + 1, k) = <<>>
      BY <3>1, SubSeqEmpty
    <3>3. Expanded(s)[k + 1] \in Seq(Char)
      BY <3>1, ExpandedText
    <3>4. <<>> \o Expanded(s)[k + 1] = Expanded(s)[k + 1]
      BY <3>3, ConcatEmptySeq
    <3>5. QED
      BY <2>2, <3>2, <3>4
  <2>5. QED
    BY <1>1, <2>1, <2>3, <2>4, KeptAgrees DEF b, char
<1>9. CASE Len(a.open) = 1 /\ char \notin {"$", "{"}
  <2>1. b = kept
    BY <1>3, <1>9, ReadingIs DEF b
  <2>2. p = k
    BY <1>4, <1>9
  <2>3. char # "$" /\ char # "{"
    BY <1>9
  <2>4. Expanded(s)[k + 1] = <<char>> \o Expanded(s)[k + 2]
    BY <1>1, <2>3, CopiesOpen DEF char
  <2>5. Expanded(s)[p] = SubSeq(s, p, k) \o Expanded(s)[k + 1]
    <3>1. Expanded(s)[k] = <<s[k]>> \o Expanded(s)[k + 1]
      BY <1>1, <2>2, <2>3, CopiesOpen DEF char
    <3>2. k \in 1 .. Len(s)
      BY <1>2, <2>2
    <3>3. SubSeq(s, k, k) = <<s[k]>>
      BY <3>2, OneCharacter
    <3>4. QED
      BY <2>2, <3>1, <3>3
  <2>6. QED
    BY <1>1, <2>1, <2>4, <2>5, KeptAgrees DEF b, char
<1>10. CASE Len(a.open) > 1 /\ char \in Stop
  <2>1. b = kept
    BY <1>3, <1>10, ReadingIs DEF b
  <2>2. char # "$" /\ char # "}"
    BY <1>10 DEF Stop
  <2>3. Expanded(s)[k + 1] = <<char>> \o Expanded(s)[k + 2]
    BY <1>1, <2>2, CopiesOpen DEF char
  <2>4. Expanded(s)[p] = SubSeq(s, p, k) \o Expanded(s)[k + 1]
    <3>1. ~InName(s, k + 1) /\ ~Ended(s, k + 1)
      BY <1>10, <2>2 DEF InName, Ended, char
    <3>2. k + 1 \in p .. Len(s) + 1 /\ (k + 1) - 1 = k /\ p \in Nat \ {0}
      BY <1>2
    <3>3. EndsAt(s, p, k + 1)
      BY <1>1, <3>1, <3>2 DEF EndsAt, ReadTo, Opens
    <3>4. Expanded(s)[p] = SubSeq(s, p, (k + 1) - 1) \o Expanded(s)[k + 1]
      BY <3>1, <3>2, <3>3, CopiesUpTo
    <3>5. QED
      BY <3>2, <3>4
  <2>5. QED
    BY <1>1, <2>1, <2>3, <2>4, KeptAgrees DEF b, char
<1>11. QED
  <2>1. \/ Len(a.open) = 0 \/ Len(a.open) = 1 \/ Len(a.open) > 1
    BY <1>4
  <2>2. QED
    BY <1>5, <1>6, <1>7, <1>8, <1>9, <1>10, <2>1 DEF GoesOn, b, char

LEMMA ReadsAll ==
  ASSUME NEW s \in Seq(Char)
  PROVE  Agrees(s, Len(s), Readings(s)[Len(s)])
<1> DEFINE T == {n \in Nat : n <= Len(s) /\ ~Agrees(s, n, Readings(s)[n])}
<1>1. Len(s) \in Nat /\ Len(s) <= Len(s)
  OBVIOUS
<1>2. SUFFICES ASSUME T # {} PROVE FALSE
  BY <1>1
<1>3. PICK n \in T : \A m \in T : n <= m
  <2>1. T \subseteq Nat
    OBVIOUS
  <2>2. QED
    BY <1>2, <2>1, Least
<1>4. n \in Nat /\ n <= Len(s) /\ ~Agrees(s, n, Readings(s)[n])
  BY <1>3
<1>5. CASE n = 0
  <2>1. Readings(s)[0] = Start
    BY ReadingsAre
  <2>2. <<>> \in Seq(Char)
    OBVIOUS
  <2>3. Start \in State /\ Start.open = <<>> /\ Start.done = <<>>
    BY <2>2 DEF Start, State
  <2>4. ReadTo(s, 0, 1, Start)
    <3>1. SubSeq(s, 1, 0) = <<>>
      BY SubSeqEmpty
    <3>2. 0 \in 0 .. Len(s) /\ 1 \in 1 .. 0 + 1 /\ ~(1 <= 0) /\ ~(1 < 0) /\ 1 .. 0 = {}
      BY <1>1
    <3>3. Opens(s, 0, 1)
      BY <3>2 DEF Opens
    <3>4. QED
      BY <2>3, <3>1, <3>2, <3>3 DEF ReadTo
  <2>5. <<>> \o Expanded(s)[1] = expandEnv(s)
    <3>1. Expanded(s)[1] \in Seq(Char)
      BY ExpandedText
    <3>2. QED
      BY <3>1, ConcatEmptySeq DEF expandEnv
  <2>6. Agrees(s, 0, Start)
    BY <2>3, <2>4, <2>5 DEF Agrees
  <2>7. QED
    BY <1>4, <1>5, <2>1, <2>6
<1>6. CASE n # 0
  <2>1. PICK k \in Nat : n = k + 1 /\ k < Len(s) /\ k <= Len(s) /\ ~(n <= k)
    <3>1. n - 1 \in Nat /\ n = (n - 1) + 1 /\ n - 1 < Len(s) /\ n - 1 <= Len(s) /\ ~(n <= n - 1)
      BY <1>1, <1>4, <1>6
    <3>2. QED
      BY <3>1
  <2>2. k \notin T
    <3> HIDE DEF T
    <3>1. QED
      BY <1>3, <2>1
  <2>3. Agrees(s, k, Readings(s)[k])
    BY <2>1, <2>2
  <2>4. Agrees(s, k + 1, Reading(Readings(s)[k], s[k + 1]))
    BY <2>1, <2>3, ReadsOn
  <2>5. Readings(s)[k + 1] = Reading(Readings(s)[k], s[k + 1])
    BY <2>1, ReadingsAre
  <2>6. QED
    BY <1>4, <2>1, <2>4, <2>5
<1>7. QED
  BY <1>5, <1>6

\* expandEnv computes what it is meant to, for every text and every environment: the
\* scan for each name, which starts anew at every placeholder, and the one reading
\* from left to right write the same (expandEnv, getShellName).
THEOREM ExpandsAsMeant == \A s \in Seq(Char) : expandEnv(s) = Expansion(s)
<1>1. SUFFICES ASSUME NEW s \in Seq(Char) PROVE expandEnv(s) = Expansion(s)
  OBVIOUS
<1> DEFINE a == Readings(s)[Len(s)]
           k == Len(s)
<1>2. Agrees(s, k, a)
  BY ReadsAll
<1> HIDE DEF a
<1>3. PICK p : ReadTo(s, k, p, a) /\ a.done \o Expanded(s)[p] = expandEnv(s)
  BY <1>2 DEF Agrees
<1>4. a.open \in Seq(Char) /\ a.open = SubSeq(s, p, k)
  BY <1>3, ReadToLen DEF ReadTo
<1>5. k \in Nat /\ p \in Nat \ {0} /\ p <= k + 1 /\ k + 1 > k /\ (k + 1) - 1 = k
      /\ k + 1 \in p .. k + 1
  BY <1>3 DEF ReadTo
<1>6. EndsAt(s, p, k + 1) /\ ~Ended(s, k + 1)
  BY <1>3, <1>5 DEF EndsAt, Ended, InName, ReadTo, Opens
<1>7. Expanded(s)[p] = SubSeq(s, p, (k + 1) - 1) \o Expanded(s)[k + 1]
  BY <1>5, <1>6, CopiesUpTo
<1>8. Expanded(s)[k + 1] = <<>>
  <2>1. k + 1 \in Nat
    BY <1>5
  <2>2. QED
    BY <1>5, <2>1, ExpandedIs DEF ExpandStep
<1>9. Expanded(s)[p] = a.open
  BY <1>4, <1>5, <1>7, <1>8, ConcatEmptySeq
<1>10. QED
  BY <1>3, <1>9 DEF Expansion, a

-------------------------------------------------------------------------------
(***************************************************************************)
(* ConfigReload.                                                           *)
(***************************************************************************)
\* The types of ConfigReload, with the shape of what ReloadTypeOK looks into.
Stage == {"idle", "changed", "begun", "read", "made", "loaded", "failed"}

Shaped ==
  /\ provider \in Provider
  /\ file \in [exists : BOOLEAN, text : Texts]
  /\ events \in Seq({"write", "remove"}) /\ changes \in 0 .. MaxChanges
  /\ watcher \in {"off", "on", "ended"}
  /\ callback \in BOOLEAN /\ typed \in BOOLEAN
  /\ DOMAIN config = {"owner", "texts"} /\ config.owner \in Loader \cup {"none", "raw"}
  /\ kvstore \subseteq RemoteTexts
  /\ DOMAIN load = Loader
  /\ \A p \in Loader : DOMAIN load[p] = {"stage", "text"} /\ load[p].stage \in Stage
  /\ fate \in {"alive", "crashed"} /\ past \subseteq {"raced", "shadowed"}

\* Nothing was raced, or it was repaired by a load that met no other.
Undisturbed == "raced" \notin past

\* Main starts to load when watcher and callback are there; two loads that meet are
\* noted; the map that an undisturbed load has made is its own, and empty.
Starting == /\ load["main"].stage # "idle" => callback /\ watcher # "off"
            /\ load["main"].stage # "changed"
            /\ watcher = "off" => ~callback /\ load["watcher"].stage = "idle" /\ events = <<>>

Apart == Undisturbed => ~(Loading("main") /\ Loading("watcher"))

Made == \A p \in Loader : Undisturbed /\ load[p].stage = "made" =>
          config.owner = p /\ config.texts = {}

OneText == Undisturbed => config.texts = {} \/ \E text \in config.texts : config.texts = {text}

\* With a provider nothing is read from the file, unless the watcher's read shadows it.
FromProvider == Remote =>
  /\ \A p \in Loader : load[p].stage \notin {"read", "made"}
  /\ "shadowed" \notin past => config.texts = {}
  /\ load["main"].stage = "loaded" => kvstore # {}

\* Without an event left, the file is there as it was written last, and what a loader
\* has read is what it holds.
LastEvent == watcher = "on" /\ events # <<>> /\ events[Len(events)] = "write" => file.exists

Current(p) == load[p].stage \in {"read", "made"} => load[p].text = Loaded(file.text)

Unchanged ==
  watcher = "on" /\ events = <<>> /\ ~Remote =>
    /\ load["main"].stage \in {"read", "made", "loaded"} => file.exists
    /\ Current("watcher")
    /\ Undisturbed => Current("main")

\* And once the loads are over, viper holds it.
Settled ==
  /\ watcher = "on" /\ events = <<>> /\ ~Remote /\ Undisturbed
  /\ load["main"].stage = "loaded"
  /\ load["watcher"].stage \in {"idle", "loaded", "failed"}
  => LET text == Loaded(file.text)
     IN  config.texts = IF Parses(text) THEN {text} ELSE {}

ReloadInv == /\ Shaped /\ Starting /\ Apart /\ Made /\ OneText /\ FromProvider
             /\ LastEvent /\ Unchanged /\ Settled

-------------------------------------------------------------------------------
\* A loader that goes on to another stage, with the text it has.
Moves(p, stage) ==
  /\ DOMAIN load' = Loader /\ DOMAIN load'[p] = {"stage", "text"}
  /\ load'[p].stage = stage /\ load'[p].text = load[p].text
  /\ \A q \in Loader \ {p} : load'[q] = load[q]

LEMMA BecomesMoves ==
  ASSUME Shaped, NEW p \in Loader, NEW stage, load' = [load EXCEPT ![p].stage = stage]
  PROVE  Moves(p, stage)
  BY DEF Shaped, Moves

\* Nothing is read, loaded or going on before NewConfig.
LEMMA InitReloadInv == ReloadInit => ReloadInv
<1> SUFFICES ASSUME ReloadInit PROVE ReloadInv
  OBVIOUS
<1>1. \A p \in Loader : load[p] = Idle
  BY DEF ReloadInit
<1>2. Shaped
  <2>1. <<>> \in Seq({"write", "remove"})
    OBVIOUS
  <2>2. events \in Seq({"write", "remove"})
    BY <2>1 DEF ReloadInit
  <2>3. file \in [exists : BOOLEAN, text : Texts]
    BY DEF ReloadInit
  <2>4. changes \in 0 .. MaxChanges
    BY ReloadAssumption DEF ReloadInit
  <2>5. /\ DOMAIN load = Loader
        /\ \A p \in Loader : DOMAIN load[p] = {"stage", "text"} /\ load[p].stage \in Stage
    BY <1>1 DEF ReloadInit, Idle, Stage
  <2>6. DOMAIN config = {"owner", "texts"} /\ config.owner \in Loader \cup {"none", "raw"}
    BY DEF ReloadInit
  <2>7. QED
    BY <2>2, <2>3, <2>4, <2>5, <2>6 DEF ReloadInit, Shaped
<1>3. Starting /\ Apart /\ Made /\ OneText /\ FromProvider
  BY <1>1 DEF ReloadInit, Starting, Apart, Made, OneText, FromProvider, Loading, Idle, Loader
<1>4. LastEvent /\ Unchanged /\ Settled
  BY DEF ReloadInit, LastEvent, Unchanged, Settled
<1>5. QED
  BY <1>2, <1>3, <1>4 DEF ReloadInv

\* The file changes: the watcher is told, if there is one.
LEMMA ChangeKeeps ==
  ASSUME ReloadInv, NEW event \in {"write", "remove"}, Notify(event),
         file' \in [exists : BOOLEAN, text : Texts], event = "write" => file'.exists
  PROVE  ReloadInv'
<1>1. /\ UNCHANGED <<provider, watcher, callback, config, kvstore, typed, load, fate, past>>
      /\ changes < MaxChanges /\ changes' = changes + 1
      /\ events' = IF watcher = "on" THEN Append(events, event) ELSE events
  BY DEF Notify
<1>2. events \in Seq({"write", "remove"}) /\ changes \in 0 .. MaxChanges
  BY DEF ReloadInv, Shaped
<1>3. events' \in Seq({"write", "remove"})
  BY <1>1, <1>2
<1>4. watcher = "on" => events' # <<>> /\ events'[Len(events')] = event
  BY <1>1, <1>2
<1>5. Shaped'
  <2>1. changes' \in 0 .. MaxChanges
    BY <1>1, <1>2, ReloadAssumption
  <2>2. QED
    BY <1>1, <1>3, <2>1 DEF ReloadInv, Shaped
<1>6. Starting' /\ Apart' /\ Made' /\ OneText' /\ FromProvider'
  BY <1>1 DEF ReloadInv, Starting, Apart, Made, OneText, FromProvider, Loading, Undisturbed, Remote
<1>7. LastEvent' /\ Unchanged' /\ Settled'
  BY <1>1, <1>4 DEF LastEvent, Unchanged, Settled
<1>8. QED
  BY <1>5, <1>6, <1>7 DEF ReloadInv

\* NewConfig comes to its watcher and its callback.
LEMMA PreparesKeeps == ASSUME ReloadInv, WatchConfig \/ OnConfigChange PROVE ReloadInv'
<1>1. /\ load["main"].stage = "idle"
      /\ UNCHANGED <<provider, file, events, changes, config, kvstore, typed, load, fate, past>>
      /\ \/ watcher = "off" /\ watcher' = "on" /\ callback' = callback
         \/ watcher # "off" /\ watcher' = watcher /\ callback' = TRUE
  BY DEF WatchConfig, OnConfigChange, At
<1>2. Shaped'
  BY <1>1 DEF ReloadInv, Shaped
<1>3. Starting' /\ Apart' /\ Made' /\ OneText' /\ FromProvider'
  BY <1>1 DEF ReloadInv, Starting, Apart, Made, OneText, FromProvider, Loading, Undisturbed, Remote
<1>4. LastEvent' /\ Unchanged' /\ Settled'
  <2>1. CASE watcher = "off"
    BY <1>1, <2>1 DEF ReloadInv, LastEvent, Unchanged, Settled, Starting, Current
  <2>2. CASE watcher # "off"
    BY <1>1, <2>2 DEF ReloadInv, LastEvent, Unchanged, Settled, Current, Undisturbed, Remote
  <2>3. QED
    BY <2>1, <2>2
<1>5. QED
  BY <1>2, <1>3, <1>4 DEF ReloadInv

\* A load begins, of main or of the watcher: one that meets another is noted.
LEMMA BeginsKeeps ==
  ASSUME ReloadInv, NEW p \in Loader, Begins(p), callback, watcher # "off",
         p = "main" => load[p].stage = "idle",
         p = "watcher" => load[p].stage = "changed",
         UNCHANGED <<provider, file, events, changes, watcher, callback, config, kvstore, typed,
                     fate>>
  PROVE  ReloadInv'
<1>1. /\ load' = [load EXCEPT ![p].stage = "begun"]
      /\ past' = past \cup (IF \E other \in Loader \ {p} : Loading(other) THEN {"raced"} ELSE {})
  BY DEF Begins, Becomes
<1>2. Shaped
  BY DEF ReloadInv
<1>3. Moves(p, "begun")
  BY <1>1, <1>2, BecomesMoves
<1>4. Undisturbed' => Undisturbed /\ \A other \in Loader \ {p} : ~Loading(other)
  BY <1>1 DEF Undisturbed
<1>5. Shaped'
  BY <1>1, <1>2, <1>3 DEF Shaped, Moves, Stage
<1>6. Starting' /\ Apart'
  BY <1>3, <1>4 DEF ReloadInv, Starting, Apart, Loading, Moves, Loader
<1>7. Made' /\ OneText'
  BY <1>3, <1>4 DEF ReloadInv, Made, OneText, Moves
<1>8. FromProvider'
  BY <1>1, <1>3 DEF ReloadInv, FromProvider, Moves, Remote, Loader
<1>9. LastEvent' /\ Unchanged' /\ Settled'
  BY <1>3, <1>4
  DEF ReloadInv, LastEvent, Unchanged, Settled, Current, Moves, Loader, Remote
<1>10. QED
  BY <1>5, <1>6, <1>7, <1>8, <1>9 DEF ReloadInv

\* The watcher runs the callback, or there is none yet.
LEMMA CallsKeeps == ASSUME ReloadInv, NewConfigLoads \/ WatcherCalls PROVE ReloadInv'
<1>1. CASE NewConfigLoads
  <2>1. watcher # "off" /\ callback
    BY <1>1 DEF NewConfigLoads, ReloadInv, Starting
  <2>2. QED
    BY <1>1, <2>1, BeginsKeeps DEF NewConfigLoads, At, Loader
<1>2. CASE WatcherCalls /\ Calls
  <2>1. watcher # "off" /\ callback /\ load["watcher"].stage = "changed"
    BY <1>2 DEF WatcherCalls, At, Calls, ReloadInv, Starting
  <2>2. QED
    BY <1>2, <2>1, BeginsKeeps DEF WatcherCalls, Loader
<1>3. CASE WatcherCalls /\ ~Calls
  <2>1. /\ load' = [load EXCEPT !["watcher"].stage = "idle"]
        /\ load["watcher"].stage = "changed" /\ ~callback
        /\ UNCHANGED <<provider, file, events, changes, watcher, callback, config, kvstore, typed,
                       fate, past>>
    BY <1>3 DEF WatcherCalls, Becomes, At, Calls
  <2>2. Shaped
    BY DEF ReloadInv
  <2>3. Moves("watcher", "idle")
    BY <2>1, <2>2, BecomesMoves DEF Loader
  <2>4. Shaped'
    BY <2>1, <2>2, <2>3 DEF Shaped, Moves, Stage, Loader
  <2>5. Starting' /\ Apart' /\ Made' /\ OneText'
    BY <2>1, <2>3
    DEF ReloadInv, Starting, Apart, Made, OneText, Loading, Moves, Loader, Undisturbed
  <2>6. FromProvider'
    BY <2>1, <2>3 DEF ReloadInv, FromProvider, Moves, Remote, Loader
  <2>7. load["main"].stage = "idle"
    BY <2>1 DEF ReloadInv, Starting
  <2>8. LastEvent' /\ Unchanged' /\ Settled'
    BY <2>1, <2>3, <2>7
    DEF ReloadInv, LastEvent, Unchanged, Settled, Current, Moves, Loader, Remote
  <2>9. QED
    BY <2>4, <2>5, <2>6, <2>8 DEF ReloadInv
<1>4. QED
  BY <1>1, <1>2, <1>3

\* A loader reads the file, and expands it.
LEMMA ReadFileKeeps == ASSUME ReloadInv, NEW p \in Loader, ReadFile(p) PROVE ReloadInv'
<1>1. /\ load[p].stage = "begun" /\ ~Remote
      /\ UNCHANGED <<provider, file, events, changes, watcher, callback, config, kvstore, typed,
                     fate, past>>
      /\ load' = [load EXCEPT ![p] =
           IF file.exists THEN [stage |-> "read", text |-> Loaded(file.text)]
                          ELSE [stage |-> "failed", text |-> <<>>]]
  BY DEF ReadFile, At
<1>2. Shaped
  BY DEF ReloadInv
<1>3. /\ DOMAIN load' = Loader /\ DOMAIN load'[p] = {"stage", "text"}
      /\ \A q \in Loader \ {p} : load'[q] = load[q]
      /\ file.exists => load'[p].stage = "read" /\ load'[p].text = Loaded(file.text)
      /\ ~file.exists => load'[p].stage = "failed"
  BY <1>1, <1>2 DEF Shaped
<1> HIDE DEF Loaded
<1>4. Shaped'
  BY <1>1, <1>2, <1>3 DEF Shaped, Stage
<1>5. Starting' /\ Apart' /\ Made' /\ OneText'
  BY <1>1, <1>3 DEF ReloadInv, Starting, Apart, Made, OneText, Loading, Loader, Undisturbed
<1>6. FromProvider'
  BY <1>1, <1>3 DEF ReloadInv, FromProvider, Remote, Loader
<1>7. LastEvent' /\ Unchanged'
  BY <1>1, <1>3
  DEF ReloadInv, LastEvent, Unchanged, Current, Loader, Remote, Undisturbed
<1>8. Settled'
  <2>1. SUFFICES ASSUME p = "watcher", watcher = "on", events = <<>>, ~file.exists,
                        load["main"].stage = "loaded"
                 PROVE  FALSE
    BY <1>1, <1>3 DEF Settled, Loader, Remote, Undisturbed
  <2>2. QED
    BY <1>1, <2>1 DEF ReloadInv, Unchanged
<1>9. QED
  BY <1>4, <1>5, <1>6, <1>7, <1>8 DEF ReloadInv

\* A load makes its map: that of the watcher may be the first that meets no other.
LEMMA MakeMapKeeps == ASSUME ReloadInv, NEW p \in Loader, MakeMap(p) PROVE ReloadInv'
<1>1. /\ load[p].stage = "read"
      /\ load' = [load EXCEPT ![p].stage = "made"]
      /\ UNCHANGED <<provider, file, events, changes, watcher, callback, kvstore, typed, fate>>
      /\ past' = IF p = "watcher" /\ ~Loading("main") THEN past \ {"raced"} ELSE past
  BY DEF MakeMap, At, Becomes
<1>2. Shaped
  BY DEF ReloadInv
<1>3. Moves(p, "made")
  BY <1>1, <1>2, BecomesMoves
<1>4. DOMAIN config' = {"owner", "texts"} /\ config'.owner = p /\ config'.texts = {}
  BY DEF MakeMap, Fresh
<1>5. Undisturbed' => \A other \in Loader \ {p} : ~Loading(other)
  BY <1>1 DEF Undisturbed, ReloadInv, Apart, Loading, Loader
<1>6. ~Remote
  BY <1>1 DEF ReloadInv, FromProvider
<1>7. Shaped'
  BY <1>1, <1>2, <1>3, <1>4 DEF Shaped, Moves, Stage, Loader
<1>8. Starting' /\ Apart' /\ Made' /\ OneText'
  BY <1>1, <1>3, <1>4, <1>5
  DEF ReloadInv, Starting, Apart, Made, OneText, Loading, Moves, Loader
<1>9. FromProvider'
  BY <1>1, <1>6 DEF FromProvider, Remote
<1>10. LastEvent' /\ Unchanged' /\ Settled'
  BY <1>1, <1>3, <1>5
  DEF ReloadInv, LastEvent, Unchanged, Settled, Current, Moves, Loader, Remote, Loading, Undisturbed
<1>11. QED
  BY <1>7, <1>8, <1>9, <1>10 DEF ReloadInv

\* A load fills the map: its own, unless it met another load.
LEMMA FillMapKeeps == ASSUME ReloadInv, NEW p \in Loader, FillMap(p) PROVE ReloadInv'
<1> DEFINE parses == Parses(load[p].text)
           stage == IF parses THEN "loaded" ELSE "failed"
<1>1. /\ load[p].stage = "made"
      /\ load' = [load EXCEPT ![p].stage = stage]
      /\ UNCHANGED <<provider, file, events, changes, watcher, callback, kvstore, typed, fate, past>>
  BY DEF FillMap, At
<1>2. Shaped
  BY DEF ReloadInv
<1>3. \/ /\ parses /\ DOMAIN config' = {"owner", "texts"} /\ config'.owner = config.owner
         /\ config'.texts = config.texts \cup {load[p].text}
      \/ parses /\ config.owner # p /\ config' = config
      \/ ~parses /\ config' = config
  BY <1>2 DEF FillMap, Shaped
<1>4. Moves(p, stage) /\ stage \in {"loaded", "failed"} /\ (parses <=> stage = "loaded")
  BY <1>1, <1>2, BecomesMoves
<1> HIDE DEF stage
<1>5. Undisturbed => /\ config.owner = p /\ config.texts = {}
                     /\ \A other \in Loader \ {p} : ~Loading(other)
  BY <1>1 DEF ReloadInv, Made, Apart, Loading, Loader
<1>6. Undisturbed => config'.texts = IF parses THEN {load[p].text} ELSE {}
  BY <1>3, <1>5
<1> HIDE DEF parses
<1>7. Shaped'
  BY <1>1, <1>2, <1>3, <1>4 DEF Shaped, Moves, Stage, Loader
<1>8. Starting' /\ Apart' /\ Made' /\ OneText'
  BY <1>1, <1>4, <1>5, <1>6
  DEF ReloadInv, Starting, Apart, Made, OneText, Loading, Moves, Loader, Undisturbed
<1>9. ~Remote
  BY <1>1 DEF ReloadInv, FromProvider
<1>10. FromProvider'
  BY <1>1, <1>9 DEF FromProvider, Remote
<1>11. LastEvent' /\ Unchanged'
  BY <1>1, <1>4, <1>5
  DEF ReloadInv, LastEvent, Unchanged, Current, Moves, Loader, Remote, Undisturbed, Loading
<1>12. Settled'
  <2>1. SUFFICES ASSUME watcher = "on", events = <<>>, Undisturbed,
                        load'["main"].stage = "loaded"
                 PROVE  config'.texts = IF Parses(Loaded(file.text))
                                          THEN {Loaded(file.text)} ELSE {}
    BY <1>1 DEF Settled, Undisturbed
  <2>2. load[p].text = Loaded(file.text)
    BY <1>1, <1>9, <2>1 DEF ReloadInv, Unchanged, Current, Loader
  <2>3. QED
    BY <1>6, <2>1, <2>2 DEF parses
<1>13. QED
  BY <1>7, <1>8, <1>10, <1>11, <1>12 DEF ReloadInv

\* A provider is asked: what it holds is filled into the map that it has of its own.
LEMMA ReadRemoteKeeps ==
  ASSUME ReloadInv, NEW p \in Loader, ReadRemoteConfig(p) PROVE ReloadInv'
<1>1. PICK stage \in {"loaded", "failed"} :
        /\ load[p].stage = "begun" /\ Remote /\ typed' = (typed \/ provider # "refused")
        /\ load' = [load EXCEPT ![p].stage = stage]
        /\ kvstore' \subseteq kvstore \cup RemoteTexts /\ kvstore \subseteq kvstore'
        /\ stage = "loaded" => kvstore' # {}
        /\ UNCHANGED <<provider, file, events, changes, watcher, callback, config, fate, past>>
  BY DEF ReadRemoteConfig, At, Becomes
<1>2. Shaped
  BY DEF ReloadInv
<1>3. Moves(p, stage)
  BY <1>1, <1>2, BecomesMoves
<1>4. Shaped'
  BY <1>1, <1>2, <1>3 DEF Shaped, Moves, Stage
<1>5. Starting' /\ Apart' /\ Made' /\ OneText'
  BY <1>1, <1>3
  DEF ReloadInv, Starting, Apart, Made, OneText, Loading, Moves, Loader, Undisturbed
<1>6. FromProvider'
  BY <1>1, <1>3 DEF ReloadInv, FromProvider, Moves, Remote, Loader
<1>7. LastEvent' /\ Unchanged' /\ Settled'
  BY <1>1 DEF ReloadInv, LastEvent, Unchanged, Settled, Remote
<1>8. QED
  BY <1>4, <1>5, <1>6, <1>7 DEF ReloadInv

\* The watcher takes an event: viper reads the file, raw, and the callback is due.
LEMMA WatcherReadsKeeps == ASSUME ReloadInv, WatcherReads PROVE ReloadInv'
<1>1. /\ load["watcher"].stage = "idle" /\ watcher = "on" /\ events # <<>>
      /\ Head(events) = "write" /\ events' = Tail(events)
      /\ config' = IF FileReadable THEN [owner |-> "raw", texts |-> {file.text}] ELSE config
      /\ past' = past
                 \cup (IF Remote /\ FileReadable THEN {"shadowed"} ELSE {})
                 \cup (IF Loading("main") THEN {"raced"} ELSE {})
      /\ load' = [load EXCEPT !["watcher"].stage = "changed"]
      /\ UNCHANGED <<provider, file, changes, watcher, callback, kvstore, typed, fate>>
  BY DEF WatcherReads, At
<1>2. Shaped
  BY DEF ReloadInv
<1>3. Moves("watcher", "changed")
  BY <1>1, <1>2, BecomesMoves DEF Loader
<1>4. Undisturbed' => Undisturbed /\ ~Loading("main")
  BY <1>1 DEF Undisturbed
<1>5. /\ DOMAIN config' = {"owner", "texts"} /\ config'.owner \in Loader \cup {"none", "raw"}
      /\ config'.texts = {file.text} \/ config' = config
  BY <1>1, <1>2 DEF Shaped
<1>6. Remote /\ "shadowed" \notin past' => "shadowed" \notin past /\ config' = config
  BY <1>1
<1>7. events \in Seq({"write", "remove"})
  BY <1>2 DEF Shaped
<1>8. /\ events' \in Seq({"write", "remove"})
      /\ events' # <<>> => events'[Len(events')] = events[Len(events)]
  BY <1>1, <1>7
<1>9. events' = <<>> => events[Len(events)] = "write"
  <2>1. Len(events') = Len(events) - 1 /\ Head(events) = events[1] /\ Len(events) \in Nat
    BY <1>1, <1>7
  <2>2. ASSUME events' = <<>> PROVE events[Len(events)] = "write"
    <3>1. Len(events') = 0
      BY <2>2
    <3>2. Len(events) = 1
      BY <2>1, <3>1
    <3>3. QED
      BY <1>1, <2>1, <3>2
  <2>3. QED
    BY <2>2
<1>10. file.exists \/ events' # <<>>
  BY <1>1, <1>9 DEF ReloadInv, LastEvent
<1>11. Shaped'
  BY <1>1, <1>2, <1>3, <1>5, <1>8 DEF Shaped, Moves, Stage, Loader
<1>12. Starting'
  BY <1>1, <1>3 DEF ReloadInv, Starting, Moves, Loader
<1>13. Apart' /\ Made' /\ OneText'
  BY <1>3, <1>4, <1>5 DEF ReloadInv, Apart, Made, OneText, Loading, Moves, Loader
<1>14. FromProvider'
  BY <1>1, <1>3, <1>6 DEF ReloadInv, FromProvider, Moves, Remote, Loader
<1>15. LastEvent'
  BY <1>1, <1>8 DEF ReloadInv, LastEvent
<1>16. Unchanged' /\ Settled'
  BY <1>1, <1>3, <1>4, <1>10
  DEF Unchanged, Settled, Current, Moves, Loader, Loading
<1>17. QED
  BY <1>11, <1>12, <1>13, <1>14, <1>15, <1>16 DEF ReloadInv

\* The watcher ends, waits again, or two loads meet in a map: nothing else changes.
LEMMA EndsKeeps ==
  ASSUME ReloadInv, WatcherEnds \/ Reloaded \/ ConcurrentMapAccess PROVE ReloadInv'
<1>1. CASE WatcherEnds
  <2>1. /\ events' = <<>> /\ watcher' = "ended" /\ watcher = "on"
        /\ UNCHANGED <<provider, file, changes, callback, config, kvstore, typed, load, fate,
                       past>>
    BY <1>1 DEF WatcherEnds
  <2>2. Shaped'
    BY <2>1 DEF ReloadInv, Shaped
  <2>3. Starting' /\ Apart' /\ Made' /\ OneText' /\ FromProvider'
    BY <2>1
    DEF ReloadInv, Starting, Apart, Made, OneText, FromProvider, Loading, Undisturbed, Remote
  <2>4. LastEvent' /\ Unchanged' /\ Settled'
    BY <2>1 DEF LastEvent, Unchanged, Settled
  <2>5. QED
    BY <2>2, <2>3, <2>4 DEF ReloadInv
<1>2. CASE Reloaded
  <2>1. /\ load["watcher"].stage \in {"loaded", "failed"}
        /\ load' = [load EXCEPT !["watcher"].stage = "idle"]
        /\ UNCHANGED <<provider, file, events, changes, watcher, callback, config, kvstore,
                       typed, fate, past>>
    BY <1>2 DEF Reloaded, At
  <2>2. Shaped
    BY DEF ReloadInv
  <2>3. Moves("watcher", "idle")
    BY <2>1, <2>2, BecomesMoves DEF Loader
  <2>4. Shaped'
    BY <2>1, <2>2, <2>3 DEF Shaped, Moves, Stage, Loader
  <2>5. Starting' /\ Apart' /\ Made' /\ OneText'
    BY <2>1, <2>3
    DEF ReloadInv, Starting, Apart, Made, OneText, Loading, Moves, Loader, Undisturbed
  <2>6. FromProvider'
    BY <2>1, <2>3 DEF ReloadInv, FromProvider, Moves, Remote, Loader
  <2>7. LastEvent' /\ Unchanged' /\ Settled'
    BY <2>1, <2>3
    DEF ReloadInv, LastEvent, Unchanged, Settled, Current, Moves, Loader, Remote, Undisturbed
  <2>8. QED
    BY <2>4, <2>5, <2>6, <2>7 DEF ReloadInv
<1>3. CASE ConcurrentMapAccess
  <2>1. /\ fate' = "crashed"
        /\ UNCHANGED <<provider, file, events, changes, watcher, callback, config, kvstore,
                       typed, load, past>>
    BY <1>3 DEF ConcurrentMapAccess
  <2>2. QED
    BY <2>1
    DEF ReloadInv, Shaped, Starting, Apart, Made, OneText, FromProvider, LastEvent, Unchanged,
        Settled, Loading, Current, Undisturbed, Remote
<1>4. QED
  BY <1>1, <1>2, <1>3

\* Every step keeps the invariant.
LEMMA NextReloadInv == ReloadInv /\ [ReloadNext]_reloadVars => ReloadInv'
<1> SUFFICES ASSUME ReloadInv, [ReloadNext]_reloadVars PROVE ReloadInv'
  OBVIOUS
<1>1. file \in [exists : BOOLEAN, text : Texts]
  BY DEF ReloadInv, Shaped
<1>2. ASSUME NEW text \in Texts, WriteFile(text) PROVE ReloadInv'
  <2>1. file' = [exists |-> TRUE, text |-> text] /\ Notify("write")
    BY <1>2 DEF WriteFile
  <2>2. file' \in [exists : BOOLEAN, text : Texts] /\ file'.exists
    BY <2>1
  <2>3. QED
    BY <2>1, <2>2, ChangeKeeps
<1>3. CASE RemoveFile
  <2>1. file' = [file EXCEPT !.exists = FALSE] /\ Notify("remove")
    BY <1>3 DEF RemoveFile
  <2>2. file' \in [exists : BOOLEAN, text : Texts]
    BY <1>1, <2>1
  <2>3. QED
    BY <2>1, <2>2, ChangeKeeps
<1>4. ASSUME NEW p \in Loader, LoaderStep(p) PROVE ReloadInv'
  BY <1>4, ReadFileKeeps, MakeMapKeeps, FillMapKeeps, ReadRemoteKeeps DEF LoaderStep
<1>5. CASE MainStep
  BY <1>4, <1>5, PreparesKeeps, CallsKeeps DEF MainStep, Loader
<1>6. CASE WatcherStep
  BY <1>4, <1>6, WatcherReadsKeeps, CallsKeeps, EndsKeeps DEF WatcherStep, Loader
<1>7. CASE ConcurrentMapAccess
  BY <1>7, EndsKeeps
<1>8. CASE UNCHANGED reloadVars
  BY <1>8
  DEF reloadVars, ReloadInv, Shaped, Starting, Apart, Made, OneText, FromProvider, LastEvent,
      Unchanged, Settled, Loading, Current, Undisturbed, Remote
<1>9. QED
  BY <1>2, <1>3, <1>5, <1>6, <1>7, <1>8 DEF ReloadNext

LEMMA ReloadInvariant == ReloadSpec => []ReloadInv
  BY InitReloadInv, NextReloadInv, PTL DEF ReloadSpec

\* The types hold, and a load that met no other leaves one text in the map.
LEMMA ReloadInvTypes == ReloadInv => ReloadTypeOK
<1> SUFFICES ASSUME ReloadInv PROVE ReloadTypeOK
  OBVIOUS
<1>1. "raced" \notin past => Cardinality(config.texts) <= 1
  <2>1. ASSUME config.texts = {} PROVE Cardinality(config.texts) <= 1
    <3>1. Cardinality({}) = 0
      BY FS_EmptySet
    <3>2. QED
      BY <2>1, <3>1
  <2>2. ASSUME NEW text, config.texts = {text} PROVE Cardinality(config.texts) <= 1
    <3>1. Cardinality({text}) = 1
      BY FS_Singleton
    <3>2. QED
      BY <2>2, <3>1
  <2>3. QED
    BY <2>1, <2>2 DEF ReloadInv, OneText, Undisturbed
<1>2. Shaped
  BY DEF ReloadInv
<1>3. QED
  BY <1>1, <1>2 DEF Shaped, Stage, ReloadTypeOK

\* Whatever the loads do to each other, every variable keeps its type, and an undisturbed
\* load leaves the texts of one file in viper's map (NewConfig, loadConfig, ReadConfig).
THEOREM ReloadTypeCorrect == ReloadSpec => []ReloadTypeOK
  BY ReloadInvariant, ReloadInvTypes, PTL

\* Between the events viper holds the file's last version, or what the provider gave.
LEMMA ReloadInvFresh == ASSUME ReloadInv, Quiet, past = {} PROVE UpToDate
<1>1. ~Remote => config.texts = IF Parses(Loaded(file.text)) THEN {Loaded(file.text)} ELSE {}
  BY DEF ReloadInv, Settled, Quiet, Undisturbed
<1>2. Remote => config.texts = {} /\ kvstore # {} /\ kvstore \subseteq RemoteTexts
  BY DEF ReloadInv, FromProvider, Shaped, Quiet
<1>3. Loaded(file.text) = Expansion(file.text)
  <2>1. file.text \in Texts
    BY DEF ReloadInv, Shaped
  <2>2. QED
    BY <2>1, ReloadAssumption, ExpandsAsMeant DEF Loaded
<1>4. QED
  BY <1>1, <1>2, <1>3 DEF UpToDate, Seen

\* For every file, provider and environment, and however events, reads and loads come to
\* lie: once nothing goes on, viper holds the file as it was written last, with its
\* variables replaced, unless two loads met or the file shadows a provider (NewConfig,
\* loadConfig, expandEnv).
THEOREM FreshAlways == ReloadSpec => []FreshWhenQuiet
<1>1. ReloadInv => FreshWhenQuiet
  BY ReloadInvFresh DEF FreshWhenQuiet
<1>2. QED
  BY <1>1, ReloadInvariant, PTL

-------------------------------------------------------------------------------
(***************************************************************************)
(* ServerLifecycle.                                                        *)
(***************************************************************************)
Protocol == {"grpc", "http"}
FnState == {"off", "begin", "healthy", "serving", "walking"} \cup Returned
CloseState == {"idle", "unhealthy", "deregistering", "shutting", "stopping", "returned"}

\* The types: TypeOK with those of the functions and, of the entries and names that
\* register handles, that they are of services there are.
Plain == /\ setup \in Setups
         /\ app \in {"new", "refused", "started"}
         /\ services \subseteq Service \cup {HealthName}
         /\ health \in {"unknown", "SERVING", "NOT_SERVING"}
         /\ grpc \in {"new", "serving", "stopping", "stopped"}
         /\ http \in {"new", "serving", "closed"}
         /\ metrics \in {"new", "serving", "closed"}
         /\ fn \in [Fn -> FnState]
         /\ cpc \in [Closer -> CloseState]
         /\ calls \subseteq Call /\ requests \subseteq Request
         /\ lateStart \in BOOLEAN /\ gaveUp \in BOOLEAN

NameOf(name, S) == \E s \in S, p \in Protocol : name = RegisteredName(<<s, p>>)

Named == /\ registering \in Seq(services \X Protocol)
         /\ \A name \in registry : NameOf(name, services)

Typed == Plain /\ Named

\* A function of Start runs only after Application.Start registered the services,
\* and register only with a discovery.
Begun == /\ app = "new" => services = {}
         /\ app = "started" => Service \subseteq services
         /\ \A f \in Fn : fn[f] # "off" => app = "started" /\ Configured(f)
         /\ ~setup.discover => registry = {}

\* While register walks, a name it is to announce is known or among the entries
\* left, of which there are none when it has returned nil.
Announcing ==
  /\ fn["register"] \in {"walking", "nil"} =>
       \A s \in Service, p \in Protocol :
         \/ RegisteredName(<<s, p>>) \in registry
         \/ \E j \in 1 .. Len(registering) : registering[j] = <<s, p>>
  /\ fn["register"] = "nil" => registering = <<>>
  /\ fn["register"] = "walking" => registering # <<>>

\* How far a Close is says how far the servers are.
InStep ==
  /\ \A c \in Closer :
       /\ cpc[c] \in {"shutting", "stopping", "returned"} => http = "closed"
       /\ cpc[c] \in {"stopping", "returned"} => grpc \in {"stopping", "stopped"}
  /\ grpc \in {"stopping", "stopped"} => http = "closed"

Drains == NotServingOnceClosing /\ DrainedOnReturn /\ GatewayDrainedFirst

IInv == Typed /\ Begun /\ Announcing /\ InStep /\ Drains

-------------------------------------------------------------------------------
(* Walks *)

\* register and deRegister: a walk over the services there are passes every one of
\* them under each protocol, and nothing else.
LEMMA WalkIsComplete ==
  ASSUME NEW walk \in Walks, IsFiniteSet(services)
  PROVE  /\ walk \in Seq(services \X Protocol)
         /\ \A s \in services, p \in Protocol :
              \E j \in 1 .. Len(walk) : walk[j] = <<s, p>>
<1>1. PICK order \in SetToSeqs(services) :
        walk = [i \in 1 .. Len(order) * Len(Protocols) |->
                  <<order[(i - 1) \div Len(Protocols) + 1],
                    Protocols[((i - 1) % Len(Protocols)) + 1]>>]
  BY DEF Walks
<1> DEFINE n == Cardinality(services)
           D == 1 .. n
<1>2. n \in Nat
  BY FS_CardinalityType
<1>3. order \in [D -> services] /\ \A i, j \in D : i # j => order[i] # order[j]
  BY DEF SetToSeqs
<1>4. Len(order) = n /\ order \in Seq(services)
  BY <1>2, <1>3
<1>5. Len(Protocols) = 2 /\ Protocols[1] = "grpc" /\ Protocols[2] = "http"
  BY DEF Protocols
<1> HIDE DEF n
<1>6. walk = [i \in 1 .. n * 2 |-> <<order[(i - 1) \div 2 + 1],
                                     Protocols[((i - 1) % 2) + 1]>>]
  BY <1>1, <1>4, <1>5
<1>7. \A i \in 1 .. n * 2 : (i - 1) \div 2 + 1 \in D /\ ((i - 1) % 2) + 1 \in {1, 2}
  BY <1>2
<1>8. \A i \in 1 .. n * 2 : walk[i] \in services \X Protocol
  BY <1>3, <1>5, <1>6, <1>7 DEF Protocol
<1>9. walk \in Seq(services \X Protocol) /\ Len(walk) = n * 2
  <2>1. walk \in [1 .. n * 2 -> services \X Protocol]
    BY <1>6, <1>8
  <2>2. n * 2 \in Nat
    BY <1>2
  <2> QED
    BY <2>1, <2>2
<1>10. \A s \in services : \E i \in D : order[i] = s
  <2>1. order \in Injection(D, services)
    BY <1>3 DEF Injection, IsInjective
  <2>2. Cardinality(D) = Cardinality(services)
    BY <1>2, FS_Interval DEF n
  <2>3. order \in Surjection(D, services)
    BY <2>1, <2>2, FS_Injection
  <2> QED
    BY <2>3 DEF Surjection
<1>11. ASSUME NEW s \in services, NEW p \in Protocol
       PROVE  \E j \in 1 .. Len(walk) : walk[j] = <<s, p>>
  <2>1. PICK i \in D : order[i] = s
    BY <1>10
  <2>2. CASE p = "grpc"
    <3>1. 2 * i - 1 \in 1 .. n * 2 /\ (2 * i - 1 - 1) \div 2 + 1 = i
          /\ ((2 * i - 1 - 1) % 2) + 1 = 1
      BY <1>2, <2>1
    <3>2. walk[2 * i - 1] = <<s, p>>
      BY <1>5, <1>6, <2>1, <2>2, <3>1
    <3> QED
      BY <1>9, <3>1, <3>2
  <2>3. CASE p = "http"
    <3>1. 2 * i \in 1 .. n * 2 /\ (2 * i - 1) \div 2 + 1 = i /\ ((2 * i - 1) % 2) + 1 = 2
      BY <1>2, <2>1
    <3>2. walk[2 * i] = <<s, p>>
      BY <1>5, <1>6, <2>1, <2>3, <3>1
    <3> QED
      BY <1>9, <3>1, <3>2
  <2> QED
    BY <2>2, <2>3 DEF Protocol
<1> QED
  BY <1>9, <1>11

-------------------------------------------------------------------------------
(* The types *)

\* The services there are come from a finite set.
LEMMA ServicesFinite == ASSUME Typed PROVE IsFiniteSet(services)
<1>1. IsFiniteSet(Service \cup {HealthName})
  BY LifecycleAssumption, FS_AddElement
<1> QED
  BY <1>1, FS_Subset DEF Typed, Plain

\* The names of a walk's entries are names of services there are.
LEMMA HeadName ==
  ASSUME Typed, registering # <<>>
  PROVE  /\ NameOf(RegisteredName(Head(registering)), services)
         /\ Tail(registering) \in Seq(services \X Protocol)
<1>1. registering \in Seq(services \X Protocol)
  BY DEF Typed, Named
<1>2. Head(registering) \in services \X Protocol
      /\ Tail(registering) \in Seq(services \X Protocol)
  BY <1>1
<1>3. PICK s \in services, p \in Protocol : Head(registering) = <<s, p>>
  BY <1>2
<1> QED
  BY <1>2, <1>3 DEF NameOf

\* More services: what was typed for fewer of them still is.
LEMMA ServicesGrow ==
  ASSUME NEW S, NEW T, S \subseteq T
  PROVE  /\ Seq(S \X Protocol) \subseteq Seq(T \X Protocol)
         /\ \A name : NameOf(name, S) => NameOf(name, T)
<1>1. S \X Protocol \subseteq T \X Protocol
  OBVIOUS
<1>2. ASSUME NEW e \in Seq(S \X Protocol) PROVE e \in Seq(T \X Protocol)
  BY <1>1
<1> QED
  BY <1>2 DEF NameOf

\* NewApp and NewServer give the types.
LEMMA InitIInv == Init => IInv
<1> SUFFICES ASSUME Init PROVE IInv
  OBVIOUS
<1>1. Plain
  BY DEF Init, Plain, FnState, CloseState
<1>2. Named
  <2>1. <<>> \in Seq(services \X Protocol)
    OBVIOUS
  <2> QED
    BY <2>1 DEF Init, Named
<1>3. Begun /\ Announcing /\ InStep /\ Drains
  BY DEF Init, Begun, Announcing, InStep, Drains, NotServingOnceClosing, DrainedOnReturn,
         GatewayDrainedFirst, Closing, Closed, Fn
<1> QED
  BY <1>1, <1>2, <1>3 DEF IInv, Typed

\* What register handles stays of services there are: services only come, and the
\* next name is made of an entry left.
LEMMA NextNamed == IInv /\ [Next]_vars => Named'
<1> SUFFICES ASSUME IInv, [Next]_vars PROVE Named'
  OBVIOUS
<1>1. CASE services \subseteq services' /\ UNCHANGED <<registering, registry>>
  BY <1>1, ServicesGrow DEF IInv, Typed, Named
<1>2. CASE UNCHANGED <<services, registering>> /\ registry' \subseteq registry
  BY <1>2 DEF IInv, Typed, Named
<1>3. ASSUME AppStart PROVE services \subseteq services' /\ UNCHANGED <<registering, registry>>
  BY <1>3 DEF AppStart, IInv, Begun
<1>4. ASSUME HealthStart
      PROVE  services \subseteq services' /\ UNCHANGED <<registering, registry>>
  BY <1>4 DEF HealthStart
<1>5. CASE RegisterBegin
  <2>1. registering' \in Seq(services \X Protocol)
    BY <1>5, ServicesFinite, WalkIsComplete DEF RegisterBegin, IInv
  <2> QED
    BY <1>5, <2>1 DEF RegisterBegin, IInv, Typed, Named
<1>6. CASE RegisterNext \/ RegisterError
  <2>1. registering # <<>>
    BY <1>6 DEF RegisterNext, RegisterError, IInv, Announcing
  <2>2. NameOf(RegisteredName(Head(registering)), services)
        /\ Tail(registering) \in Seq(services \X Protocol)
    BY <2>1, HeadName DEF IInv
  <2>3. services' = services /\ registering' \in {Tail(registering), <<>>}
        /\ registry' \subseteq registry \cup {RegisteredName(Head(registering))}
    BY <1>6 DEF RegisterNext, RegisterError
  <2>4. registering' \in Seq(services \X Protocol)
    <3>1. <<>> \in Seq(services \X Protocol)
      OBVIOUS
    <3> QED
      BY <2>2, <2>3, <3>1
  <2> QED
    BY <2>2, <2>3, <2>4 DEF IInv, Typed, Named
<1>7. ASSUME NEW c \in Closer, Deregister(c) \/ DeregisterError(c)
      PROVE  UNCHANGED <<services, registering>> /\ registry' \subseteq registry
  BY <1>7 DEF Deregister, DeregisterError, starts
<1>8. ASSUME NEW c \in Closer, CloseMetrics(c)
      PROVE  UNCHANGED <<services, registering, registry>>
  BY <1>8 DEF CloseMetrics, starts
<1>9. ASSUME NEW c \in Closer,
             CloseHealth(c) \/ ShutdownHTTP(c) \/ StopGRPC(c) \/ GiveUp(c) \/ CloseReturn(c)
      PROVE  UNCHANGED <<services, registering, registry>>
  BY <1>9 DEF CloseHealth, ShutdownHTTP, StopGRPC, GiveUp, CloseReturn, starts
<1>10. ASSUME \/ AppRefused \/ ListenError \/ Serve \/ ServeReturn \/ ListenHTTP
              \/ ListenMetrics \/ \E f \in {"http", "metrics"} : ListenReturn(f)
       PROVE  UNCHANGED <<services, registering, registry>>
  BY <1>10 DEF AppRefused, ListenError, Serve, ServeReturn, ListenHTTP, ListenMetrics,
               ListenReturn, starts
<1>11. ASSUME \/ \E k \in Call : CallBegin(k) \/ CallEnd(k)
              \/ \E r \in Request : RequestBegin(r) \/ RequestEnd(r)
              \/ UNCHANGED vars
       PROVE  UNCHANGED <<services, registering, registry>>
  BY <1>11 DEF CallBegin, CallEnd, RequestBegin, RequestEnd, starts, vars
<1> QED
  BY <1>1, <1>2, <1>3, <1>4, <1>5, <1>6, <1>7, <1>8, <1>9, <1>10, <1>11 DEF Next

\* The functions of Start keep the types.
LEMMA StartPlain ==
  ASSUME IInv,
         \/ AppRefused \/ AppStart \/ ListenError \/ HealthStart \/ Serve \/ ServeReturn
         \/ ListenHTTP \/ ListenMetrics \/ \E f \in {"http", "metrics"} : ListenReturn(f)
         \/ RegisterBegin \/ RegisterNext \/ RegisterError
  PROVE  Plain'
<1>1. Plain
  BY DEF IInv, Typed
<1> USE <1>1 DEF Plain, FnState, Returned, Fn
<1>2. CASE AppRefused \/ AppStart \/ ListenError
  BY <1>2 DEF AppRefused, AppStart, ListenError, starts, closes, traffic, history
<1>3. CASE HealthStart
  <2>1. lateStart' \in BOOLEAN
    BY <1>3 DEF HealthStart
  <2> QED
    BY <1>3, <2>1 DEF HealthStart, closes, traffic
<1>4. CASE Serve \/ ServeReturn
  BY <1>4 DEF Serve, ServeReturn, closes, traffic, history
<1>5. CASE ListenHTTP
  BY <1>5 DEF ListenHTTP, closes, traffic, history
<1>6. CASE ListenMetrics
  BY <1>6 DEF ListenMetrics, closes, traffic, history
<1>7. CASE \E f \in {"http", "metrics"} : ListenReturn(f)
  BY <1>7 DEF ListenReturn, closes, traffic, history
<1>8. CASE RegisterBegin \/ RegisterNext \/ RegisterError
  BY <1>8 DEF RegisterBegin, RegisterNext, RegisterError, RegisterState, closes, traffic,
              history
<1> QED
  BY <1>2, <1>3, <1>4, <1>5, <1>6, <1>7, <1>8

\* Close keeps the types.
LEMMA ClosePlain ==
  ASSUME IInv, NEW c \in Closer,
         \/ CloseHealth(c) \/ CloseMetrics(c) \/ Deregister(c) \/ DeregisterError(c)
         \/ ShutdownHTTP(c) \/ StopGRPC(c) \/ GiveUp(c) \/ CloseReturn(c)
  PROVE  Plain'
<1>1. Plain
  BY DEF IInv, Typed
<1> USE <1>1 DEF Plain, CloseState, Goes, starts, traffic, history
<1>2. CASE CloseHealth(c) \/ CloseMetrics(c)
  BY <1>2 DEF CloseHealth, CloseMetrics, MetricsAtClose
<1>3. CASE Deregister(c) \/ DeregisterError(c)
  BY <1>3 DEF Deregister, DeregisterError
<1>4. CASE ShutdownHTTP(c) \/ CloseReturn(c)
  BY <1>4 DEF ShutdownHTTP, CloseReturn
<1>5. CASE StopGRPC(c) \/ GiveUp(c)
  BY <1>5 DEF StopGRPC, GiveUp
<1> QED
  BY <1>2, <1>3, <1>4, <1>5

\* Calls and requests keep the types.
LEMMA TrafficPlain ==
  ASSUME IInv,
         \/ \E k \in Call : CallBegin(k) \/ CallEnd(k)
         \/ \E r \in Request : RequestBegin(r) \/ RequestEnd(r)
         \/ UNCHANGED vars
  PROVE  Plain'
<1>1. Plain
  BY DEF IInv, Typed
<1> QED
  BY <1>1 DEF Plain, CallBegin, CallEnd, RequestBegin, RequestEnd, starts, closes, history,
              vars, traffic

\* Every step keeps the types.
LEMMA NextTyped == IInv /\ [Next]_vars => Typed'
<1> SUFFICES ASSUME IInv, [Next]_vars PROVE Typed'
  OBVIOUS
<1>1. Plain'
  BY StartPlain, ClosePlain, TrafficPlain DEF Next
<1> QED
  BY <1>1, NextNamed DEF Typed

-------------------------------------------------------------------------------
(* The order of things *)

\* Only Application.Start begins the functions of Start, after the services are
\* registered, and only register makes a name known.
LEMMA NextBegun == IInv /\ [Next]_vars => Begun'
<1> SUFFICES ASSUME IInv, [Next]_vars PROVE Begun'
  OBVIOUS
<1>1. Begun /\ fn \in [Fn -> FnState] /\ setup.discover \in BOOLEAN
  BY LifecycleAssumption DEF IInv, Typed, Plain
<1> USE <1>1 DEF Begun, Fn, Configured
<1>2. ASSUME UNCHANGED <<setup, app, services, fn>>, registry' \subseteq registry
      PROVE  Begun'
  BY <1>2
<1>3. CASE AppRefused \/ AppStart
  BY <1>3 DEF AppRefused, AppStart, starts
<1>4. CASE \/ ListenError \/ HealthStart \/ Serve \/ ServeReturn
  BY <1>4 DEF ListenError, HealthStart, Serve, ServeReturn
<1>5. CASE \/ ListenHTTP \/ ListenMetrics \/ \E f \in {"http", "metrics"} : ListenReturn(f)
  BY <1>5 DEF ListenHTTP, ListenMetrics, ListenReturn
<1>6. CASE RegisterBegin \/ RegisterNext \/ RegisterError
  BY <1>6 DEF RegisterBegin, RegisterNext, RegisterError
<1>7. CASE \E c \in Closer : Deregister(c) \/ DeregisterError(c)
  <2>1. UNCHANGED <<setup, app, services, fn>> /\ registry' \subseteq registry
    BY <1>7 DEF Deregister, DeregisterError, starts
  <2> QED
    BY <1>2, <2>1
<1>8. CASE \E c \in Closer : \/ CloseHealth(c) \/ CloseMetrics(c) \/ ShutdownHTTP(c)
                             \/ StopGRPC(c) \/ GiveUp(c) \/ CloseReturn(c)
  <2>1. UNCHANGED <<setup, app, services, fn, registry>>
    BY <1>8 DEF CloseHealth, CloseMetrics, ShutdownHTTP, StopGRPC, GiveUp, CloseReturn, starts
  <2> QED
    BY <1>2, <2>1
<1>9. CASE \/ \E k \in Call : CallBegin(k) \/ CallEnd(k)
           \/ \E r \in Request : RequestBegin(r) \/ RequestEnd(r)
           \/ UNCHANGED vars
  <2>1. UNCHANGED <<setup, app, services, fn, registry>>
    BY <1>9 DEF CallBegin, CallEnd, RequestBegin, RequestEnd, starts, vars
  <2> QED
    BY <1>2, <2>1
<1> QED
  BY <1>3, <1>4, <1>5, <1>6, <1>7, <1>8, <1>9 DEF Next

\* register announces the services one by one; deRegister's names are others.
LEMMA NextAnnouncing == IInv /\ [Next]_vars => Announcing'
<1> SUFFICES ASSUME IInv, [Next]_vars PROVE Announcing'
  OBVIOUS
<1>1. Announcing /\ fn \in [Fn -> FnState]
  BY DEF IInv, Typed, Plain
<1>2. ASSUME UNCHANGED registering, fn'["register"] = fn["register"],
             \A s \in Service, p \in Protocol :
               RegisteredName(<<s, p>>) \in registry => RegisteredName(<<s, p>>) \in registry'
      PROVE  Announcing'
  BY <1>1, <1>2 DEF Announcing
<1>3. CASE AppStart
  BY <1>3 DEF AppStart, Announcing, Fn, Configured
<1>4. CASE AppRefused
  BY <1>2, <1>4 DEF AppRefused, starts
<1>5. CASE \/ ListenError \/ HealthStart \/ Serve \/ ServeReturn \/ ListenHTTP
           \/ ListenMetrics \/ \E f \in {"http", "metrics"} : ListenReturn(f)
  <2>1. UNCHANGED <<registering, registry>> /\ fn'["register"] = fn["register"]
    BY <1>1, <1>5 DEF ListenError, HealthStart, Serve, ServeReturn, ListenHTTP, ListenMetrics,
                      ListenReturn, Fn
  <2> QED
    BY <1>2, <2>1
<1>6. CASE RegisterBegin
  <2>1. Service \subseteq services
    BY <1>6 DEF RegisterBegin, IInv, Begun, Fn
  <2>2. \A s \in services, p \in Protocol :
          \E j \in 1 .. Len(registering') : registering'[j] = <<s, p>>
    BY <1>6, ServicesFinite, WalkIsComplete DEF RegisterBegin, IInv
  <2>3. fn'["register"] = IF registering' = <<>> THEN "nil" ELSE "walking"
    BY <1>1, <1>6 DEF RegisterBegin, RegisterState, Fn
  <2> QED
    BY <2>1, <2>2, <2>3 DEF Announcing
<1>7. CASE RegisterNext
  <2>1. registering # <<>> /\ registering \in Seq(services \X Protocol)
    BY <1>7 DEF RegisterNext, IInv, Announcing, Typed, Named
  <2>2. fn'["register"] = IF registering' = <<>> THEN "nil" ELSE "walking"
    BY <1>1, <1>7 DEF RegisterNext, RegisterState, Fn
  <2>3. ASSUME NEW s \in Service, NEW p \in Protocol,
               RegisteredName(<<s, p>>) \notin registry'
        PROVE  \E j \in 1 .. Len(registering') : registering'[j] = <<s, p>>
    <3>1. PICK j \in 1 .. Len(registering) : registering[j] = <<s, p>>
      BY <1>1, <1>7, <2>3 DEF RegisterNext, Announcing
    <3>2. j # 1
      <4>1. Head(registering) = registering[1]
        BY <2>1
      <4>2. RegisteredName(Head(registering)) \in registry'
        BY <1>7 DEF RegisterNext
      <4> QED
        BY <2>3, <3>1, <4>1, <4>2
    <3>3. j - 1 \in 1 .. Len(registering') /\ registering'[j - 1] = registering[j]
      BY <1>7, <2>1, <3>1, <3>2 DEF RegisterNext
    <3> QED
      BY <3>1, <3>3
  <2> QED
    BY <2>2, <2>3 DEF Announcing
<1>8. CASE RegisterError
  BY <1>1, <1>8 DEF RegisterError, Announcing, Fn
<1>9. CASE \E c \in Closer : Deregister(c) \/ DeregisterError(c)
  <2>1. PICK c \in Closer : Deregister(c) \/ DeregisterError(c)
    BY <1>9
  <2>2. PICK e : registry' \in {registry, registry \ {RemovedName(e)}}
    BY <2>1 DEF Deregister, DeregisterError
  <2>3. \A s \in Service, p \in Protocol : RegisteredName(<<s, p>>) # RemovedName(e)
    BY DEF RegisteredName, RemovedName
  <2>4. UNCHANGED <<registering, fn>>
    BY <2>1 DEF Deregister, DeregisterError, starts
  <2> QED
    BY <1>2, <2>2, <2>3, <2>4
<1>10. CASE \E c \in Closer : \/ CloseHealth(c) \/ CloseMetrics(c) \/ ShutdownHTTP(c)
                              \/ StopGRPC(c) \/ GiveUp(c) \/ CloseReturn(c)
  <2>1. UNCHANGED <<registering, fn, registry>>
    BY <1>10 DEF CloseHealth, CloseMetrics, ShutdownHTTP, StopGRPC, GiveUp, CloseReturn, starts
  <2> QED
    BY <1>2, <2>1
<1>11. CASE \/ \E k \in Call : CallBegin(k) \/ CallEnd(k)
            \/ \E r \in Request : RequestBegin(r) \/ RequestEnd(r)
            \/ UNCHANGED vars
  <2>1. UNCHANGED <<registering, fn, registry>>
    BY <1>11 DEF CallBegin, CallEnd, RequestBegin, RequestEnd, starts, vars
  <2> QED
    BY <1>2, <2>1
<1> QED
  BY <1>3, <1>4, <1>5, <1>6, <1>7, <1>8, <1>9, <1>10, <1>11 DEF Next

\* A Close goes its way once, and the servers keep up with it.
LEMMA NextInStep == IInv /\ [Next]_vars => InStep'
<1> SUFFICES ASSUME IInv, [Next]_vars PROVE InStep'
  OBVIOUS
<1>1. InStep /\ cpc \in [Closer -> CloseState]
  BY DEF IInv, Typed, Plain
<1> USE <1>1 DEF InStep
<1>2. CASE \E c \in Closer : Deregister(c) \/ DeregisterError(c)
  BY <1>2 DEF Deregister, DeregisterError
<1>3. CASE \E c \in Closer : CloseHealth(c) \/ CloseMetrics(c)
  BY <1>3 DEF CloseHealth, CloseMetrics, Goes
<1>4. CASE \E c \in Closer : ShutdownHTTP(c) \/ StopGRPC(c) \/ GiveUp(c) \/ CloseReturn(c)
  BY <1>4 DEF ShutdownHTTP, StopGRPC, GiveUp, CloseReturn, Goes
<1>5. CASE Serve
  BY <1>5 DEF Serve, closes
<1>6. CASE ListenHTTP
  BY <1>6 DEF ListenHTTP, closes
<1>7. CASE \/ AppRefused \/ AppStart \/ ListenError \/ HealthStart \/ ServeReturn
           \/ ListenMetrics \/ \E f \in {"http", "metrics"} : ListenReturn(f)
           \/ RegisterBegin \/ RegisterNext \/ RegisterError
  <2>1. UNCHANGED <<cpc, http, grpc>>
    BY <1>7 DEF AppRefused, AppStart, ListenError, HealthStart, ServeReturn, ListenMetrics,
                ListenReturn, RegisterBegin, RegisterNext, RegisterError, closes
  <2> QED
    BY <2>1
<1>8. CASE \/ \E k \in Call : CallBegin(k) \/ CallEnd(k)
           \/ \E r \in Request : RequestBegin(r) \/ RequestEnd(r)
           \/ UNCHANGED vars
  <2>1. UNCHANGED <<cpc, http, grpc>>
    BY <1>8 DEF CallBegin, CallEnd, RequestBegin, RequestEnd, closes, vars
  <2> QED
    BY <2>1
<1> QED
  BY <1>2, <1>3, <1>4, <1>5, <1>6, <1>7, <1>8 DEF Next

\* The health check, the calls and the gateway's requests while a server closes.
LEMMA NextDrains == IInv /\ [Next]_vars => Drains'
<1> SUFFICES ASSUME IInv, [Next]_vars PROVE Drains'
  OBVIOUS
<1>1. /\ Drains /\ InStep /\ cpc \in [Closer -> CloseState]
      /\ lateStart \in BOOLEAN /\ gaveUp \in BOOLEAN
  BY DEF IInv, Typed, Plain
<1> USE <1>1 DEF Drains, NotServingOnceClosing, DrainedOnReturn, GatewayDrainedFirst,
                 Closing, Closed
<1>2. ASSUME UNCHANGED <<cpc, health, grpc, lateStart, gaveUp>>,
             calls' \subseteq calls, requests' \subseteq requests
      PROVE  Drains'
  BY <1>2
<1>3. CASE HealthStart
  BY <1>3 DEF HealthStart, closes, traffic
<1>4. CASE Serve
  BY <1>4 DEF Serve, closes, traffic, history, InStep
<1>5. ASSUME NEW c \in Closer, CloseHealth(c)
      PROVE  Drains'
  BY <1>5 DEF CloseHealth, Goes, traffic, history
<1>6. ASSUME NEW c \in Closer, CloseMetrics(c) \/ ShutdownHTTP(c)
      PROVE  Drains'
  BY <1>6 DEF CloseMetrics, ShutdownHTTP, Goes, traffic, history
<1>7. ASSUME NEW c \in Closer, StopGRPC(c) \/ GiveUp(c)
      PROVE  Drains'
  BY <1>7 DEF StopGRPC, GiveUp, Goes, traffic, history, MayStopGRPC
<1>8. ASSUME NEW c \in Closer, CloseReturn(c)
      PROVE  Drains'
  BY <1>8 DEF CloseReturn, Goes, traffic, history, Drained, InStep
<1>9. ASSUME NEW c \in Closer, Deregister(c) \/ DeregisterError(c)
      PROVE  Drains'
  <2>1. UNCHANGED <<cpc, health, grpc, lateStart, gaveUp, calls, requests>>
    BY <1>9 DEF Deregister, DeregisterError, traffic, history
  <2> QED
    BY <1>2, <2>1
<1>10. CASE \/ AppRefused \/ AppStart \/ ListenError \/ ServeReturn \/ ListenHTTP
            \/ ListenMetrics \/ \E f \in {"http", "metrics"} : ListenReturn(f)
            \/ RegisterBegin \/ RegisterNext \/ RegisterError
  <2>1. UNCHANGED <<cpc, health, grpc, lateStart, gaveUp, calls, requests>>
    BY <1>10 DEF AppRefused, AppStart, ListenError, ServeReturn, ListenHTTP, ListenMetrics,
                 ListenReturn, RegisterBegin, RegisterNext, RegisterError, closes, traffic,
                 history
  <2> QED
    BY <1>2, <2>1
<1>11. ASSUME NEW k \in Call, CallBegin(k)
       PROVE  Drains'
  BY <1>11 DEF CallBegin, closes, history
<1>12. ASSUME NEW r \in Request, RequestBegin(r)
       PROVE  Drains'
  BY <1>12 DEF RequestBegin, closes, history, InStep
<1>13. CASE \/ \E k \in Call : CallEnd(k)
            \/ \E r \in Request : RequestEnd(r)
            \/ UNCHANGED vars
  <2>1. UNCHANGED <<cpc, health, grpc, lateStart, gaveUp>> /\ calls' \subseteq calls
        /\ requests' \subseteq requests
    BY <1>13 DEF CallEnd, RequestEnd, closes, traffic, history, vars
  <2> QED
    BY <1>2, <2>1
<1> QED
  BY <1>3, <1>4, <1>5, <1>6, <1>7, <1>8, <1>9, <1>10, <1>11, <1>12, <1>13 DEF Next

\* The invariant holds, and with it the types and the order.
THEOREM Invariance == Spec => []IInv
<1>1. IInv /\ [Next]_vars => IInv'
  BY NextTyped, NextBegun, NextAnnouncing, NextInStep, NextDrains DEF IInv
<1> QED
  BY InitIInv, <1>1, PTL DEF Spec

\* Every variable keeps its type, and the discovery is told names of services there
\* are, by their two protocols, if there is a discovery at all.
THEOREM TypeCorrect == Spec => []TypeOK
<1>1. IInv => TypeOK
  <2> SUFFICES ASSUME IInv PROVE TypeOK
    OBVIOUS
  <2>1. Plain /\ Named /\ Begun
    BY DEF IInv, Typed
  <2>2. registry \subseteq {RegisteredName(<<s, p>>) : s \in services, p \in {"grpc", "http"}}
    BY <2>1, SMTT(30) DEF Named, NameOf, Protocol
  <2> QED
    BY <2>1, <2>2 DEF Plain, Begun, TypeOK, FnState, CloseState, Fn
<1> QED
  BY Invariance, <1>1, PTL

\* Whatever order the functions of Start and the calls of Close take: the health
\* check says NOT_SERVING once a Close has begun, a Close returns with no call in
\* progress, the gateway's requests come before the calls behind it, and register
\* returns nil only when every service is announced.
THEOREM StartsAndStopsInOrder == Spec => []Orderly
<1>1. IInv => Orderly
  <2> SUFFICES ASSUME IInv PROVE Orderly
    OBVIOUS
  <2>1. \A i \in 1 .. Len(Protocols) : Protocols[i] \in Protocol
    BY DEF Protocols, Protocol
  <2>2. AllAnnounced
    BY <2>1 DEF IInv, Announcing, AllAnnounced
  <2> QED
    BY <2>2 DEF IInv, Drains, Orderly
<1> QED
  BY Invariance, <1>1, PTL
===============================================================================
