-------------------------- MODULE BatchLoggerProofs --------------------------
(***************************************************************************)
(* Proofs about BatchLogger, for every set of producers, every             *)
(* configuration and every number of log calls: its types, its statistics  *)
(* and what Close promises, and that it implements LogSink.                *)
(***************************************************************************)
EXTENDS BatchLogger, FiniteSetTheorems, SequenceTheorems, TLAPS

\* No entry occurs twice in s.
NoRepeat(s) == \A i, j \in 1 .. Len(s) : s[i] = s[j] => i = j

\* The entries in the batches f; InFlight is Flying(batch).
Flying(f) == UNION {Elements(f[q]) : q \in Writer}

\* The buffer b and the batches f share no entry and repeat none.
Apart(b, f) == /\ NoRepeat(b)
               /\ \A q \in Writer : NoRepeat(f[q]) /\ Elements(f[q]) \cap Elements(b) = {}
               /\ \A q, r \in Writer : q # r => Elements(f[q]) \cap Elements(f[r]) = {}

\* Before EnableBatchLogging nothing is buffered or refused; after it both
\* sizes are positive.
Sized == /\ ~enabled => buffer = <<>> /\ dropped = 0
         /\ enabled => size.flush >= 1 /\ size.buffer >= 1

\* Every entry that exists was logged, so the next one of a producer is new.
Fresh == /\ \A e \in Elements(buffer) \cup InFlight \cup Elements(written) : e[2] <= sent[e[1]]
         /\ promised \subseteq Elements(buffer) \cup InFlight \cup Elements(written)

\* Where Close and the processor stand: its last flush follows close(stopCh) and
\* leaves no promised entry in the buffer, and only an idle processor has left.
Draining == /\ ~enabled => processor = "off"
            /\ processor \in {"last", "exited"} => /\ stopped
                                                   /\ promised \cap Elements(buffer) = {}
            /\ processor = "exited" => batch[Processor] = <<>>
            /\ closing = "returned" => processor = "exited"

\* The inductive invariant behind NothingLost: the statistics count distinct
\* entries, so entries must not repeat, so a new entry must be fresh.
IInv == /\ TypeOK
        /\ Sized
        /\ Fresh
        /\ Apart(buffer, batch)
        /\ IsFiniteSet(InFlight)
        /\ StatsMatch
        /\ NeverRefused
        /\ Draining

-------------------------------------------------------------------------------
\* Elements of the empty sequence and of a sequence with one more entry.
LEMMA ElementsAppend ==
  /\ Elements(<<>>) = {}
  /\ \A S : \A s \in Seq(S), e \in S : Elements(Append(s, e)) = Elements(s) \cup {e}
  <1>1. ASSUME NEW S, NEW s \in Seq(S), NEW e \in S
        PROVE  Elements(Append(s, e)) = Elements(s) \cup {e}
    <2>1. /\ Len(s) \in Nat
          /\ Len(Append(s, e)) = Len(s) + 1
          /\ \A i \in 1 .. Len(s) : Append(s, e)[i] = s[i]
          /\ Append(s, e)[Len(s) + 1] = e
      OBVIOUS
    <2>2. 1 .. Len(s) + 1 = (1 .. Len(s)) \cup {Len(s) + 1}
      BY <2>1
    <2>3. QED
      BY <2>1, <2>2 DEF Elements
  <1>2. QED
    BY <1>1 DEF Elements

\* The elements of a sequence over S are in S.
LEMMA ElementsType ==
  ASSUME NEW S, NEW s \in Seq(S)
  PROVE  Elements(s) \subseteq S
  BY DEF Elements

\* Appending a new entry repeats nothing.
LEMMA AppendNoRepeat ==
  ASSUME NEW S, NEW s \in Seq(S), NEW e \in S, NoRepeat(s), e \notin Elements(s)
  PROVE  NoRepeat(Append(s, e))
  <1>1. /\ Len(s) \in Nat
        /\ Len(Append(s, e)) = Len(s) + 1
        /\ \A i \in 1 .. Len(s) : Append(s, e)[i] = s[i]
        /\ Append(s, e)[Len(s) + 1] = e
    OBVIOUS
  <1>2. \A i \in 1 .. Len(s) : s[i] # e
    BY DEF Elements
  <1>3. ASSUME NEW i \in 1 .. Len(s) + 1, NEW j \in 1 .. Len(s) + 1,
               Append(s, e)[i] = Append(s, e)[j]
        PROVE  i = j
    <2>1. CASE i \in 1 .. Len(s) /\ j \in 1 .. Len(s)
      BY <1>1, <1>3, <2>1 DEF NoRepeat
    <2>2. CASE i = Len(s) + 1 /\ j \in 1 .. Len(s)
      BY <1>1, <1>2, <1>3, <2>2
    <2>3. CASE j = Len(s) + 1 /\ i \in 1 .. Len(s)
      BY <1>1, <1>2, <1>3, <2>3
    <2>4. QED
      BY <1>1, <2>1, <2>2, <2>3
  <1>4. QED
    BY <1>1, <1>3 DEF NoRepeat

\* The first entry of a batch, and what is left of it.
LEMMA TailElements ==
  ASSUME NEW S, NEW s \in Seq(S), s # <<>>, NoRepeat(s)
  PROVE  /\ Head(s) \in Elements(s)
         /\ Tail(s) \in Seq(S)
         /\ NoRepeat(Tail(s))
         /\ Elements(Tail(s)) = Elements(s) \ {Head(s)}
  <1>1. /\ Len(s) \in Nat /\ Len(s) >= 1
        /\ Head(s) = s[1]
        /\ Tail(s) \in Seq(S)
        /\ Len(Tail(s)) = Len(s) - 1
        /\ \A i \in 1 .. Len(s) - 1 : Tail(s)[i] = s[i + 1]
    BY EmptySeq, LenProperties, HeadTailProperties
  <1>2. NoRepeat(Tail(s))
    <2>1. SUFFICES ASSUME NEW i \in 1 .. Len(s) - 1, NEW j \in 1 .. Len(s) - 1,
                          Tail(s)[i] = Tail(s)[j]
                   PROVE  i = j
      BY <1>1 DEF NoRepeat
    <2>2. s[i + 1] = s[j + 1] /\ i + 1 \in 1 .. Len(s) /\ j + 1 \in 1 .. Len(s)
      BY <1>1, <2>1
    <2>3. QED
      BY <2>2 DEF NoRepeat
  <1>3. ASSUME NEW e \in Elements(Tail(s)) PROVE e \in Elements(s) /\ e # s[1]
    <2>1. PICK i \in 1 .. Len(s) - 1 : e = s[i + 1]
      BY <1>1, <1>3 DEF Elements
    <2>2. i + 1 \in 1 .. Len(s) /\ i + 1 # 1 /\ 1 \in 1 .. Len(s)
      BY <1>1
    <2>3. QED
      BY <2>1, <2>2 DEF NoRepeat, Elements
  <1>4. ASSUME NEW e \in Elements(s), e # s[1] PROVE e \in Elements(Tail(s))
    <2>1. PICK i \in 1 .. Len(s) : e = s[i]
      BY <1>4 DEF Elements
    <2>2. i # 1 /\ i - 1 \in 1 .. Len(s) - 1 /\ (i - 1) + 1 = i
      BY <1>1, <1>4, <2>1
    <2>3. e = Tail(s)[i - 1]
      BY <1>1, <2>1, <2>2
    <2>4. QED
      BY <1>1, <2>2, <2>3 DEF Elements
  <1>5. Head(s) \in Elements(s)
    BY <1>1 DEF Elements
  <1>6. QED
    BY <1>1, <1>2, <1>3, <1>4, <1>5

\* A sequence that repeats nothing has as many elements as its length.
LEMMA CardinalityElements ==
  ASSUME NEW S, NEW s \in Seq(S), NoRepeat(s)
  PROVE  IsFiniteSet(Elements(s)) /\ Cardinality(Elements(s)) = Len(s)
  <1>1. Len(s) \in Nat /\ s \in [1 .. Len(s) -> Elements(s)]
    BY LenProperties DEF Elements
  <1>2. s \in Bijection(1 .. Len(s), Elements(s))
    BY <1>1 DEF Bijection, Injection, IsInjective, Surjection, NoRepeat, Elements
  <1>3. ExistsBijection(1 .. Len(s), Elements(s))
    BY <1>2 DEF ExistsBijection
  <1>4. IsFiniteSet(1 .. Len(s)) /\ Cardinality(1 .. Len(s)) = Len(s)
    BY <1>1, FS_Interval, SMTT(30)
  <1>5. QED
    BY <1>3, <1>4, FS_Bijection

-------------------------------------------------------------------------------
\* The batches of a typed state.
Batches == [Writer -> Seq(Entry)]

\* The batches g are f with s as q's.
Given(f, q, s, g) == g = [f EXCEPT ![q] = s]

\* The finite set T is S with the n members of U that are new to it.
Gains(S, T, U, n) == /\ T = S \cup U
                     /\ IsFiniteSet(T)
                     /\ Cardinality(T) = Cardinality(S) + n

\* The finite set T is S without its member h.
Loses(S, T, h) == /\ T = S \ {h}
                  /\ IsFiniteSet(T)
                  /\ Cardinality(T) = Cardinality(S) - 1

\* InFlight is what flies in batch.
LEMMA InFlightFlying == InFlight = Flying(batch)
  BY DEF InFlight, Flying

\* A buffer with one new entry shares nothing with the batches.
LEMMA AppendApart ==
  ASSUME NEW b \in Seq(Entry), NEW f \in Batches, NEW e \in Entry, Apart(b, f),
         e \notin Elements(b), e \notin Flying(f)
  PROVE  Apart(Append(b, e), f)
  <1>1. NoRepeat(Append(b, e)) /\ Elements(Append(b, e)) = Elements(b) \cup {e}
    BY AppendNoRepeat, ElementsAppend DEF Apart
  <1>2. QED
    BY <1>1 DEF Apart, Flying

\* Two finite sets that share nothing count together.
LEMMA DisjointUnion ==
  ASSUME NEW S, NEW T, IsFiniteSet(S), IsFiniteSet(T), S \cap T = {}
  PROVE  /\ IsFiniteSet(S \cup T)
         /\ Cardinality(S \cup T) = Cardinality(S) + Cardinality(T)
  <1>1. /\ IsFiniteSet(S \cup T)
        /\ Cardinality(S \cup T) = Cardinality(S) + Cardinality(T) - Cardinality(S \cap T)
    BY FS_Union
  <1>2. Cardinality(S \cap T) = 0
    BY FS_EmptySet
  <1>3. Cardinality(S) \in Nat /\ Cardinality(T) \in Nat
    BY FS_CardinalityType
  <1>4. QED
    BY <1>1, <1>2, <1>3

\* q takes the buffer b as its batch: the entries are the same, b's among those
\* in flight.
LEMMA TakeApart ==
  ASSUME NEW b \in Seq(Entry), NEW f \in Batches, NEW q \in Writer, Apart(b, f),
         f[q] = <<>>, IsFiniteSet(Flying(f)),
         NEW g, Given(f, q, b, g)
  PROVE  /\ g \in Batches
         /\ Apart(<<>>, g)
         /\ Gains(Flying(f), Flying(g), Elements(b), Len(b))
  <1>1. /\ g \in Batches
        /\ g[q] = b
        /\ \A r \in Writer : r # q => g[r] = f[r]
    BY DEF Batches, Given
  <1>2. Elements(f[q]) = {} /\ Elements(<<>>) = {} /\ NoRepeat(<<>>)
    BY ElementsAppend DEF NoRepeat
  <1>3. Apart(<<>>, g)
    BY <1>1, <1>2 DEF Apart
  <1>4. Flying(g) = Flying(f) \cup Elements(b)
    BY <1>1, <1>2 DEF Flying
  <1>5. Flying(f) \cap Elements(b) = {}
    BY DEF Apart, Flying
  <1>6. IsFiniteSet(Elements(b)) /\ Cardinality(Elements(b)) = Len(b)
    BY CardinalityElements DEF Apart
  <1>7. /\ IsFiniteSet(Flying(f) \cup Elements(b))
        /\ Cardinality(Flying(f) \cup Elements(b)) = Cardinality(Flying(f)) + Len(b)
    BY <1>5, <1>6, DisjointUnion
  <1>8. /\ IsFiniteSet(Flying(g))
        /\ Cardinality(Flying(g)) = Cardinality(Flying(f)) + Len(b)
    BY <1>4, <1>7
  <1>9. QED
    BY <1>1, <1>3, <1>4, <1>8 DEF Gains

\* The same of a step of q that takes b.
LEMMA TakeEffect ==
  ASSUME NEW b \in Seq(Entry), NEW q \in Writer, Take(q, b),
         batch \in Batches, Apart(b, batch), batch[q] = <<>>, IsFiniteSet(Flying(batch))
  PROVE  /\ batch' \in Batches
         /\ Apart(<<>>, batch')
         /\ Gains(Flying(batch), Flying(batch'), Elements(b), Len(b))
         /\ \A r \in Writer : r # q => batch'[r] = batch[r]
  <1>1. PICK f, g : f \in Batches /\ f = batch /\ g = batch'
    OBVIOUS
  <1>2. /\ Apart(b, f) /\ f[q] = <<>> /\ IsFiniteSet(Flying(f))
        /\ Given(f, q, b, g)
    BY <1>1 DEF Take, Given
  <1>3. /\ g \in Batches
        /\ Apart(<<>>, g)
        /\ Gains(Flying(f), Flying(g), Elements(b), Len(b))
    BY <1>1, <1>2, TakeApart
  <1>4. \A r \in Writer : r # q => g[r] = f[r]
    BY <1>2 DEF Batches, Given
  <1>5. QED
    BY <1>1, <1>3, <1>4

\* q writes the first entry of its batch: that entry leaves those in flight.
LEMMA WriteApart ==
  ASSUME NEW b \in Seq(Entry), NEW f \in Batches, NEW q \in Writer, Apart(b, f),
         f[q] # <<>>, IsFiniteSet(Flying(f)),
         NEW h, h = Head(f[q]),
         NEW t, t = Tail(f[q]), NEW g, Given(f, q, t, g)
  PROVE  /\ g \in Batches
         /\ Apart(b, g)
         /\ h \in Flying(f)
         /\ h \in Entry
         /\ Loses(Flying(f), Flying(g), h)
  <1>1. /\ f[q] \in Seq(Entry)
        /\ NoRepeat(f[q])
    BY DEF Batches, Apart
  <1>2. /\ h \in Elements(f[q])
        /\ t \in Seq(Entry)
        /\ NoRepeat(t)
        /\ Elements(t) = Elements(f[q]) \ {h}
    BY <1>1, TailElements
  <1>3. /\ g \in Batches
        /\ g[q] = t
        /\ \A r \in Writer : r # q => g[r] = f[r]
    BY <1>2 DEF Batches, Given
  <1>4. h \in Entry
    BY <1>1, <1>2, ElementsType
  <1>5. Apart(b, g)
    BY <1>2, <1>3 DEF Apart
  <1>6. h \in Flying(f)
    BY <1>2 DEF Flying
  <1>7. \A r \in Writer : r # q => h \notin Elements(f[r])
    BY <1>2 DEF Apart
  <1>8. Flying(g) = Flying(f) \ {h}
    <2>1. ASSUME NEW x \in Flying(g) PROVE x \in Flying(f) \ {h}
      BY <1>2, <1>3, <1>7 DEF Flying
    <2>2. ASSUME NEW x \in Flying(f), x # h PROVE x \in Flying(g)
      BY <1>2, <1>3, <2>2 DEF Flying
    <2>3. QED
      BY <2>1, <2>2
  <1>9. IsFiniteSet(Flying(g)) /\ Cardinality(Flying(g)) = Cardinality(Flying(f)) - 1
    BY <1>6, <1>8, FS_RemoveElement
  <1>10. QED
    BY <1>3, <1>4, <1>5, <1>6, <1>8, <1>9 DEF Loses

\* The same of the step that writes q's first entry.
LEMMA WriteEffect ==
  ASSUME NEW q \in Writer, NEW h, h = Head(batch[q]), WriteNext(q),
         buffer \in Seq(Entry), batch \in Batches, Apart(buffer, batch),
         IsFiniteSet(Flying(batch))
  PROVE  /\ batch' \in Batches
         /\ Apart(buffer, batch')
         /\ h \in Flying(batch)
         /\ h \in Entry
         /\ Loses(Flying(batch), Flying(batch'), h)
         /\ \A r \in Writer : r # q => batch'[r] = batch[r]
  <1>1. PICK b, f, t, g : /\ b \in Seq(Entry) /\ b = buffer
                         /\ f \in Batches /\ f = batch
                         /\ t = Tail(f[q]) /\ g = batch'
    OBVIOUS
  <1>2. /\ Apart(b, f) /\ f[q] # <<>> /\ IsFiniteSet(Flying(f))
        /\ h = Head(f[q])
        /\ Given(f, q, t, g)
    BY <1>1 DEF WriteNext, Given
  <1>3. /\ g \in Batches
        /\ Apart(b, g)
        /\ h \in Flying(f)
        /\ h \in Entry
        /\ Loses(Flying(f), Flying(g), h)
    BY <1>1, <1>2, WriteApart
  <1>4. \A r \in Writer : r # q => g[r] = f[r]
    BY <1>2 DEF Batches, Given
  <1>5. QED
    BY <1>1, <1>3, <1>4

-------------------------------------------------------------------------------
\* Nothing exists before the first call.
LEMMA InitIInv == Init => IInv
  <1> SUFFICES ASSUME Init PROVE IInv
    OBVIOUS
  <1>1. \A q \in Writer : batch[q] = <<>>
    BY DEF Init
  <1>2. Elements(<<>>) = {} /\ NoRepeat(<<>>)
    BY ElementsAppend DEF NoRepeat
  <1>3. InFlight = {} /\ Apart(<<>>, batch)
    BY <1>1, <1>2 DEF InFlight, Apart
  <1>4. IsFiniteSet({}) /\ Cardinality({}) = 0
    BY FS_EmptySet
  <1>5. TypeOK
    <2>1. /\ enabled \in BOOLEAN /\ stopped \in BOOLEAN /\ alive \in BOOLEAN
      BY Zenon DEF Init
    <2>2. /\ size \in [flush : Nat, buffer : Nat]
          /\ buffer \in Seq(Entry) /\ Len(buffer) <= size.buffer
          /\ batch \in [Writer -> Seq(Entry)]
          /\ written \in Seq(Entry)
          /\ total \in Nat /\ batched \in Nat /\ dropped \in Nat /\ direct \in Nat
      BY DEF Init
    <2>3. /\ processor \in {"off", "loop", "last", "exited"}
          /\ closing \in {"no", "waiting", "returned"}
          /\ sent \in [Producer -> 0 .. MaxLogs]
          /\ promised \subseteq Entry
      BY BatchAssumption DEF BatchAssumption, Init
    <2>4. QED
      BY <2>1, <2>2, <2>3, Zenon DEF TypeOK
  <1>6. Sized /\ Fresh /\ StatsMatch /\ NeverRefused /\ Draining
    BY <1>2, <1>3, <1>4 DEF Init, Sized, Fresh, StatsMatch, NeverRefused, Draining
  <1>7. QED
    BY <1>3, <1>4, <1>5, <1>6 DEF IInv, Init

\* Entries keep their producer and number.
LEMMA EntryType == \A e \in Entry : e[1] \in Producer /\ e[2] \in 1 .. MaxLogs
  BY DEF Entry

\* Every entry that exists is an Entry.
LEMMA ExistingType ==
  ASSUME TypeOK
  PROVE  /\ Elements(buffer) \subseteq Entry
         /\ InFlight \subseteq Entry
         /\ Elements(written) \subseteq Entry
  BY ElementsType DEF TypeOK, InFlight

\* A log call makes an entry that is nowhere yet.
LEMMA CallsEffect ==
  ASSUME TypeOK, Fresh, NEW p \in Producer, Calls(p)
  PROVE  /\ sent' \in [Producer -> 0 .. MaxLogs]
         /\ NewEntry(p) \in Entry
         /\ NewEntry(p) \notin Elements(buffer)
         /\ NewEntry(p) \notin InFlight
         /\ NewEntry(p) \notin Elements(written)
         /\ NewEntry(p) \notin promised
         /\ NewEntry(p)[2] <= sent'[NewEntry(p)[1]]
         /\ \A e \in Entry : e[2] <= sent[e[1]] => e[2] <= sent'[e[1]]
  <1>1. /\ MaxLogs \in Nat
        /\ sent \in [Producer -> 0 .. MaxLogs]
        /\ sent[p] \in 0 .. MaxLogs /\ sent[p] < MaxLogs
        /\ sent' = [sent EXCEPT ![p] = @ + 1]
    BY BatchAssumption DEF BatchAssumption, TypeOK, Calls
  <1>2. /\ sent' \in [Producer -> 0 .. MaxLogs]
        /\ sent'[p] = sent[p] + 1
        /\ \A r \in Producer : r # p => sent'[r] = sent[r]
    BY <1>1
  <1>3. NewEntry(p)[1] = p /\ NewEntry(p)[2] = sent[p] + 1
    BY DEF NewEntry
  <1>4. NewEntry(p) \in Entry
    BY <1>1 DEF NewEntry, Entry
  <1>5. ~(NewEntry(p)[2] <= sent[NewEntry(p)[1]])
    BY <1>1, <1>3
  <1>6. /\ NewEntry(p) \notin Elements(buffer) \cup InFlight \cup Elements(written)
        /\ NewEntry(p) \notin promised
    BY <1>5 DEF Fresh
  <1>7. ASSUME NEW e \in Entry, e[2] <= sent[e[1]] PROVE e[2] <= sent'[e[1]]
    BY <1>1, <1>2, <1>7, EntryType
  <1>8. QED
    BY <1>1, <1>2, <1>3, <1>4, <1>6, <1>7

-------------------------------------------------------------------------------
\* Flush, the ticker and the last flush: q takes all that is in the buffer.
LEMMA TakeIInv ==
  ASSUME IInv, NEW q \in Writer, batch[q] = <<>>, Take(q, buffer),
         UNCHANGED <<enabled, size, written, total, dropped, stopped, closing, alive, history>>,
         processor' \in {"off", "loop", "last", "exited"},
         Draining'
  PROVE  IInv'
  <1>1. /\ buffer' = <<>>
        /\ batch' = [batch EXCEPT ![q] = buffer]
        /\ batched' = batched + Len(buffer)
        /\ UNCHANGED <<enabled, size, written, total, dropped, stopped, closing, alive,
                       sent, direct, promised>>
    BY DEF Take, history
  <1>2. /\ buffer \in Seq(Entry) /\ batch \in Batches
        /\ IsFiniteSet(Flying(batch)) /\ Apart(buffer, batch)
    BY InFlightFlying DEF IInv, TypeOK, Batches
  <1>3. /\ batch' \in Batches
        /\ Apart(<<>>, batch')
        /\ Flying(batch') = Flying(batch) \cup Elements(buffer)
        /\ IsFiniteSet(Flying(batch'))
        /\ Cardinality(Flying(batch')) = Cardinality(Flying(batch)) + Len(buffer)
    <2>1. /\ batch' \in Batches
          /\ Apart(<<>>, batch')
          /\ Gains(Flying(batch), Flying(batch'), Elements(buffer), Len(buffer))
      BY <1>2, TakeEffect
    <2>2. QED
      BY <2>1 DEF Gains
  <1>4. InFlight' = Flying(batch') /\ InFlight = Flying(batch)
    BY InFlightFlying DEF InFlight, Flying
  <1>5. Elements(buffer') = {} /\ Elements(written') = Elements(written)
    BY <1>1, ElementsAppend
  <1>6. Len(buffer) \in Nat /\ Len(<<>>) = 0
    BY <1>2
  <1>7. TypeOK'
    BY <1>1, <1>3, <1>6 DEF IInv, TypeOK, Batches
  <1>8. Sized' /\ NeverRefused'
    BY <1>1, <1>6 DEF IInv, Sized, NeverRefused, TypeOK
  <1>9. Fresh'
    BY <1>1, <1>3, <1>4, <1>5 DEF IInv, Fresh
  <1>10. StatsMatch'
    <2>1. /\ Cardinality(Flying(batch)) \in Nat /\ Len(written) \in Nat
          /\ batched \in Nat /\ direct \in Nat
      BY <1>2, FS_CardinalityType DEF IInv, TypeOK
    <2>2. /\ total = batched + Len(buffer)
          /\ batched = Cardinality(Flying(batch)) + Len(written) - direct
      BY <1>4 DEF IInv, StatsMatch
    <2>3. /\ total' = batched' + Len(buffer')
          /\ batched' = Cardinality(Flying(batch')) + Len(written') - direct'
      BY <1>1, <1>3, <1>6, <2>1, <2>2
    <2>4. QED
      BY <1>4, <2>3 DEF StatsMatch
  <1>11. QED
    BY <1>1, <1>3, <1>4, <1>7, <1>8, <1>9, <1>10 DEF IInv

\* An entry that goes past the buffer: before EnableBatchLogging, or Fatal.
LEMMA DirectIInv ==
  ASSUME IInv, NEW p \in Producer, Calls(p),
         written' = Append(written, NewEntry(p)),
         direct' = direct + 1,
         alive' \in BOOLEAN,
         UNCHANGED <<enabled, size, buffer, batch, counters, stopped, processor, closing, promised>>
  PROVE  IInv'
  <1>1. /\ NewEntry(p) \in Entry
        /\ sent' \in [Producer -> 0 .. MaxLogs]
        /\ NewEntry(p)[2] <= sent'[NewEntry(p)[1]]
        /\ \A e \in Entry : e[2] <= sent[e[1]] => e[2] <= sent'[e[1]]
    BY CallsEffect DEF IInv
  <1>2. UNCHANGED <<enabled, size, buffer, batch, total, batched, dropped, stopped, processor,
                    closing, promised>>
    BY DEF counters
  <1>3. written \in Seq(Entry) /\ direct \in Nat /\ batched \in Nat
    BY DEF IInv, TypeOK
  <1>4. /\ written' \in Seq(Entry)
        /\ Len(written) \in Nat
        /\ Len(written') = Len(written) + 1
        /\ Elements(written') = Elements(written) \cup {NewEntry(p)}
    BY <1>1, <1>3, ElementsAppend
  <1>5. InFlight' = InFlight /\ Elements(buffer)' = Elements(buffer) /\ Apart(buffer', batch')
    BY <1>2 DEF InFlight, IInv
  <1>6. TypeOK'
    BY <1>1, <1>2, <1>3, <1>4 DEF IInv, TypeOK
  <1>7. Sized' /\ NeverRefused' /\ Draining'
    BY <1>2, <1>5 DEF IInv, Sized, NeverRefused, Draining
  <1>8. Fresh'
    BY <1>1, <1>2, <1>4, <1>5, ExistingType DEF IInv, Fresh
  <1>9. StatsMatch'
    <2>1. Cardinality(InFlight) \in Nat
      BY FS_CardinalityType DEF IInv
    <2>2. QED
      BY <1>2, <1>3, <1>4, <1>5, <2>1 DEF IInv, StatsMatch
  <1>10. QED
    BY <1>5, <1>6, <1>7, <1>8, <1>9 DEF IInv

\* addEntry appends a new entry, and hands the buffer to p when it is due.
LEMMA AddEntryIInv ==
  ASSUME IInv, NEW p \in Producer, AddEntry(p)
  PROVE  IInv'
  <1> DEFINE e == NewEntry(p)
             b == Append(buffer, e)
  <1>1. /\ e \in Entry
        /\ e \notin Elements(buffer)
        /\ e \notin InFlight
        /\ e \notin promised
        /\ sent' \in [Producer -> 0 .. MaxLogs]
        /\ e[2] <= sent'[e[1]]
        /\ \A x \in Entry : x[2] <= sent[x[1]] => x[2] <= sent'[x[1]]
    BY CallsEffect DEF IInv, AddEntry
  <1>2. /\ UNCHANGED <<enabled, size, written, dropped, stopped, processor, closing, alive,
                       direct, promised>>
        /\ total' = total + 1
        /\ enabled
        /\ ~(Len(buffer) >= size.buffer)
    BY DEF AddEntry, Full
  <1>3. batch[p] = <<>> /\ p \in Writer
    BY DEF AddEntry, Calls, Writer
  <1>4. \/ Len(b) >= size.flush /\ Take(p, b)
        \/ ~(Len(b) >= size.flush) /\ buffer' = b /\ UNCHANGED <<batch, batched>>
    BY DEF AddEntry, FlushDue
  <1>5. /\ buffer \in Seq(Entry) /\ batch \in Batches
        /\ IsFiniteSet(Flying(batch)) /\ Apart(buffer, batch)
        /\ Flying(batch) = InFlight
    BY InFlightFlying DEF IInv, TypeOK, Batches
  <1> HIDE DEF e
  <1>6. /\ b \in Seq(Entry)
        /\ Len(buffer) \in Nat
        /\ Len(b) = Len(buffer) + 1
        /\ Elements(b) = Elements(buffer) \cup {e}
        /\ Apart(b, batch)
    BY <1>1, <1>5, AppendApart, ElementsAppend
  <1> HIDE DEF b
  <1>7. InFlight' = Flying(batch') /\ Elements(written') = Elements(written)
    BY <1>2 DEF InFlight, Flying
  <1>8. Sized'
    BY <1>2 DEF IInv, Sized
  <1>9. size.flush \in Nat /\ size.buffer \in Nat /\ size.flush >= 1
    BY <1>2 DEF IInv, TypeOK, Sized
  <1>10. /\ total = batched + Len(buffer)
         /\ batched = Cardinality(Flying(batch)) + Len(written) - direct
         /\ Cardinality(Flying(batch)) \in Nat /\ Len(written) \in Nat
         /\ batched \in Nat /\ direct \in Nat /\ total \in Nat
    BY <1>5, FS_CardinalityType DEF IInv, StatsMatch, TypeOK
  <1>11. CASE Len(b) >= size.flush /\ Take(p, b)
    <2>1. buffer' = <<>> /\ batch' = [batch EXCEPT ![p] = b] /\ batched' = batched + Len(b)
      BY <1>11 DEF Take
    <2>2. /\ batch' \in Batches
          /\ Apart(<<>>, batch')
          /\ Flying(batch') = Flying(batch) \cup Elements(b)
          /\ IsFiniteSet(Flying(batch'))
          /\ Cardinality(Flying(batch')) = Cardinality(Flying(batch)) + Len(b)
      <3>1. /\ batch' \in Batches
            /\ Apart(<<>>, batch')
            /\ Gains(Flying(batch), Flying(batch'), Elements(b), Len(b))
        BY <1>3, <1>5, <1>6, <1>11, TakeEffect
      <3>2. QED
        BY <3>1 DEF Gains
    <2>3. Elements(buffer') = {} /\ Len(buffer') = 0
      BY <2>1, ElementsAppend
    <2>4. TypeOK'
      <3>1. /\ buffer' \in Seq(Entry) /\ Len(buffer') <= size.buffer
            /\ total' \in Nat /\ batched' \in Nat
            /\ batch' \in [Writer -> Seq(Entry)]
        <4>1. /\ buffer' \in Seq(Entry) /\ Len(buffer') <= size.buffer
          BY <1>9, <2>1, <2>3
        <4>2. total' \in Nat /\ batched' \in Nat
          BY <1>2, <1>6, <1>10, <2>1, SMTT(30)
        <4>3. QED
          BY <2>2, <4>1, <4>2 DEF Batches
      <3>2. QED
        BY <1>1, <1>2, <3>1 DEF IInv, TypeOK
    <2>5. NeverRefused'
      BY <1>2, <1>9, <2>3 DEF IInv, NeverRefused
    <2>6. Fresh'
      BY <1>1, <1>2, <1>5, <1>6, <1>7, <2>2, <2>3, ExistingType DEF IInv, Fresh
    <2>7. Draining'
      <3>1. processor = "exited" => batch'[Processor] = batch[Processor]
        <4>1. Processor # p
          BY BatchAssumption DEF BatchAssumption
        <4>2. Processor \in Writer
          BY DEF Writer
        <4>3. QED
          BY <1>5, <2>1, <4>1, <4>2 DEF Batches
      <3>2. QED
        BY <1>2, <2>3, <3>1 DEF IInv, Draining
    <2>8. StatsMatch'
      <3>1. /\ total' = batched' + Len(buffer')
            /\ batched' = Cardinality(Flying(batch')) + Len(written') - direct'
        <4>1. PICK n \in Nat, m \in Nat : n = Cardinality(Flying(batch)) /\ m = Len(b)
          BY <1>6, <1>10
        <4>2. /\ batched' = batched + m /\ Cardinality(Flying(batch')) = n + m
              /\ batched = n + Len(written) - direct
              /\ Len(written') = Len(written) /\ direct' = direct
          BY <1>2, <1>10, <2>1, <2>2, <4>1
        <4>3. batched' = Cardinality(Flying(batch')) + Len(written') - direct'
          <5>1. PICK w \in Nat, d \in Nat : w = Len(written) /\ d = direct
            BY <1>10
          <5>2. batched' = (n + w - d) + m
            BY <4>2, <5>1
          <5>3. QED
            BY <4>1, <4>2, <5>1, <5>2
        <4>4. total' = total + 1 /\ m = Len(buffer) + 1 /\ total = batched + Len(buffer)
          BY <1>2, <1>6, <1>10, <4>1
        <4>5. total' = batched' + Len(buffer')
          BY <1>6, <1>10, <2>3, <4>2, <4>4, SMTT(30)
        <4>6. QED
          BY <4>3, <4>5
      <3>2. QED
        BY <1>7, <3>1 DEF StatsMatch
    <2>9. Apart(buffer', batch') /\ IsFiniteSet(InFlight')
      BY <1>7, <2>1, <2>2
    <2>10. QED
      BY <1>8, <2>4, <2>5, <2>6, <2>7, <2>8, <2>9 DEF IInv
  <1>12. CASE ~(Len(b) >= size.flush) /\ buffer' = b /\ UNCHANGED <<batch, batched>>
    <2>1. ~(Len(b) >= size.flush) /\ buffer' = b /\ batch' = batch /\ batched' = batched
      BY <1>12
    <2>10. Len(buffer') = Len(buffer) + 1 /\ buffer' \in Seq(Entry)
      BY <1>6, <2>1
    <2>2. InFlight' = InFlight /\ Flying(batch') = Flying(batch)
      BY <1>5, <1>7, <2>1
    <2>3. TypeOK'
      <3>1. Len(buffer') <= size.buffer
        BY <1>2, <1>6, <1>9, <2>10
      <3>3. total' \in Nat
        BY <1>2, <1>10, SMTT(30)
      <3>2. QED
        BY <1>1, <1>2, <2>1, <2>10, <3>1, <3>3 DEF IInv, TypeOK
    <2>4. NeverRefused'
      BY <1>2, <1>6, <1>9, <2>1 DEF IInv, NeverRefused
    <2>5. Fresh'
      BY <1>1, <1>2, <1>6, <1>7, <2>1, <2>2, ExistingType DEF IInv, Fresh
    <2>6. Draining'
      BY <1>1, <1>2, <1>6, <2>1 DEF IInv, Draining
    <2>7. StatsMatch'
      <3>1. total' = batched' + Len(buffer')
        <4>1. total' = total + 1 /\ total = batched + Len(buffer) /\ batched' = batched
          BY <1>2, <1>10, <2>1
        <4>2. Len(buffer) \in Nat /\ batched \in Nat
          BY <1>6, <1>10
        <4>3. QED
          BY <2>10, <4>1, <4>2
      <3>2. batched' = Cardinality(Flying(batch')) + Len(written') - direct'
        BY <1>2, <1>10, <2>1, <2>2
      <3>3. QED
        BY <1>7, <3>1, <3>2 DEF StatsMatch
    <2>8. Apart(buffer', batch') /\ IsFiniteSet(InFlight')
      BY <1>5, <1>6, <2>1, <2>2
    <2>9. QED
      BY <1>8, <2>3, <2>4, <2>5, <2>6, <2>7, <2>8 DEF IInv
  <1>13. QED
    BY <1>4, <1>11, <1>12

\* writeBatch moves the first entry of q's batch to the sink.
LEMMA WriteNextIInv ==
  ASSUME IInv, NEW q \in Writer, WriteNext(q)
  PROVE  IInv'
  <1>0. PICK h : h = Head(batch[q])
    OBVIOUS
  <1>1. /\ batch[q] # <<>>
        /\ written' = Append(written, h)
        /\ batch' = [batch EXCEPT ![q] = Tail(batch[q])]
        /\ UNCHANGED <<enabled, size, buffer, total, batched, dropped, stopped, processor,
                       closing, alive, sent, direct, promised>>
    BY <1>0 DEF WriteNext, counters, history
  <1>2. /\ buffer \in Seq(Entry) /\ batch \in Batches
        /\ IsFiniteSet(Flying(batch)) /\ Apart(buffer, batch)
    BY InFlightFlying DEF IInv, TypeOK, Batches
  <1>3. /\ batch' \in Batches
        /\ Apart(buffer, batch')
        /\ h \in Flying(batch)
        /\ h \in Entry
        /\ \A r \in Writer : r # q => batch'[r] = batch[r]
        /\ Flying(batch') = Flying(batch) \ {h}
        /\ IsFiniteSet(Flying(batch'))
        /\ Cardinality(Flying(batch')) = Cardinality(Flying(batch)) - 1
    <2>1. /\ batch' \in Batches
          /\ Apart(buffer, batch')
          /\ h \in Flying(batch)
          /\ h \in Entry
          /\ Loses(Flying(batch), Flying(batch'), h)
          /\ \A r \in Writer : r # q => batch'[r] = batch[r]
      BY <1>0, <1>2, WriteEffect
    <2>2. QED
      BY <2>1 DEF Loses
  <1>4. InFlight' = Flying(batch') /\ InFlight = Flying(batch)
    BY InFlightFlying DEF InFlight, Flying
  <1>5. /\ written \in Seq(Entry)
        /\ written' \in Seq(Entry)
        /\ Len(written) \in Nat
        /\ Len(written') = Len(written) + 1
        /\ Elements(written') = Elements(written) \cup {h}
    <2>1. written \in Seq(Entry)
      BY DEF IInv, TypeOK
    <2>2. QED
      BY <1>1, <1>3, <2>1, ElementsAppend
  <1>6. TypeOK'
    BY <1>1, <1>3, <1>5 DEF IInv, TypeOK, Batches
  <1>7. Sized' /\ NeverRefused'
    BY <1>1 DEF IInv, Sized, NeverRefused
  <1>8. Fresh'
    BY <1>1, <1>3, <1>4, <1>5 DEF IInv, Fresh
  <1>9. Draining'
    <2>1. Processor \in Writer
      BY DEF Writer
    <2>2. batch[Processor] = <<>> => batch'[Processor] = <<>>
      BY <1>1, <1>3, <2>1
    <2>3. QED
      BY <1>1, <2>2 DEF IInv, Draining
  <1>10. StatsMatch'
    <2>1. /\ Cardinality(Flying(batch)) \in Nat /\ batched \in Nat /\ direct \in Nat
      BY <1>2, FS_CardinalityType DEF IInv, TypeOK
    <2>2. /\ total = batched + Len(buffer)
          /\ batched = Cardinality(Flying(batch)) + Len(written) - direct
      BY <1>4 DEF IInv, StatsMatch
    <2>3. batched' = Cardinality(Flying(batch')) + Len(written') - direct'
      BY <1>1, <1>3, <1>5, <2>1, <2>2
    <2>4. total' = batched' + Len(buffer')
      BY <1>1, <2>2
    <2>5. QED
      BY <1>4, <2>3, <2>4 DEF StatsMatch
  <1>11. Apart(buffer', batch') /\ IsFiniteSet(InFlight')
    BY <1>1, <1>3, <1>4
  <1>12. QED
    BY <1>6, <1>7, <1>8, <1>9, <1>10, <1>11 DEF IInv

-------------------------------------------------------------------------------
\* An action that leaves the entries and their counters alone, and may change
\* who is closing, or end the process.
LEMMA QuietIInv ==
  ASSUME IInv, UNCHANGED <<enabled, size, buffer, batch, written, counters, sent, direct>>,
         stopped' \in BOOLEAN, alive' \in BOOLEAN,
         processor' \in {"off", "loop", "last", "exited"},
         closing' \in {"no", "waiting", "returned"},
         promised' \subseteq Elements(buffer) \cup InFlight \cup Elements(written),
         Draining'
  PROVE  IInv'
  <1>1. UNCHANGED <<enabled, size, buffer, batch, written, total, batched, dropped, sent, direct>>
    BY DEF counters
  <1>2. InFlight' = InFlight
    BY <1>1 DEF InFlight
  <1>3. Apart(buffer', batch') /\ IsFiniteSet(InFlight')
    BY <1>1, <1>2 DEF IInv
  <1>4. promised' \subseteq Entry
    BY ExistingType DEF IInv
  <1>5. TypeOK'
    BY <1>1, <1>4 DEF IInv, TypeOK
  <1>6. Sized' /\ NeverRefused'
    BY <1>1 DEF IInv, Sized, NeverRefused
  <1>7. StatsMatch'
    BY <1>1, <1>2 DEF IInv, StatsMatch
  <1>8. Fresh'
    BY <1>1, <1>2 DEF IInv, Fresh
  <1>9. QED
    BY <1>3, <1>5, <1>6, <1>7, <1>8 DEF IInv

\* EnableBatchLogging fixes the sizes while the buffer is empty.
LEMMA EnableIInv ==
  ASSUME IInv, Enable
  PROVE  IInv'
  <1>1. /\ ~enabled /\ enabled'
        /\ processor' = "loop"
        /\ UNCHANGED <<buffer, batch, written, total, batched, dropped, stopped, closing, alive,
                       sent, direct, promised>>
    BY DEF Enable, counters, history
  <1>2. /\ size' \in [flush : Nat, buffer : Nat]
        /\ size'.flush >= 1 /\ size'.buffer >= 1
    <2>1. PICK config \in Configs : size' = Effective(config)
      BY DEF Enable
    <2>2. config.flush \in Int /\ config.buffer \in Int
      BY BatchAssumption DEF BatchAssumption
    <2>3. QED
      BY <2>1, <2>2 DEF Effective
  <1>3. buffer = <<>> /\ dropped = 0 /\ Len(<<>>) = 0
    BY <1>1 DEF IInv, Sized
  <1>4. InFlight' = InFlight
    BY <1>1 DEF InFlight
  <1>5. TypeOK'
    <2>1. enabled' \in BOOLEAN
      BY <1>1, Zenon
    <2>2. Len(buffer') <= size'.buffer
      BY <1>1, <1>2, <1>3
    <2>3. QED
      BY <1>1, <1>2, <2>1, <2>2 DEF IInv, TypeOK
  <1>6. Sized' /\ NeverRefused'
    <2>1. dropped' = 0 /\ Len(buffer') = 0
      BY <1>1, <1>3
    <2>2. QED
      BY <1>1, <1>2, <2>1 DEF Sized, NeverRefused
  <1>7. StatsMatch' /\ Fresh'
    BY <1>1, <1>4 DEF IInv, StatsMatch, Fresh
  <1>8. Draining'
    <2>1. closing # "returned"
      BY <1>1 DEF IInv, Draining
    <2>2. QED
      BY <1>1, <2>1 DEF Draining
  <1>9. Apart(buffer', batch') /\ IsFiniteSet(InFlight')
    BY <1>1, <1>4 DEF IInv
  <1>10. QED
    BY <1>5, <1>6, <1>7, <1>8, <1>9 DEF IInv

\* addEntry refuses an entry only when the sizes do not exclude it.
LEMMA AddRefusedIInv ==
  ASSUME IInv, NEW p \in Producer, AddRefused(p)
  PROVE  IInv'
  <1>1. /\ sent' \in [Producer -> 0 .. MaxLogs]
        /\ \A e \in Entry : e[2] <= sent[e[1]] => e[2] <= sent'[e[1]]
    BY CallsEffect DEF IInv, AddRefused
  <1>2. /\ enabled
        /\ Len(buffer) >= size.buffer
        /\ dropped' = dropped + 1
        /\ UNCHANGED <<enabled, size, buffer, batch, written, total, batched, stopped, processor,
                       closing, alive, direct, promised>>
    BY DEF AddRefused, Full
  <1>3. InFlight' = InFlight
    BY <1>2 DEF InFlight
  <1>4. Len(buffer) \in Nat /\ size.flush \in Nat /\ size.buffer \in Nat /\ dropped \in Nat
    BY DEF IInv, TypeOK
  <1>5. TypeOK'
    BY <1>1, <1>2, <1>4 DEF IInv, TypeOK
  <1>6. Sized' /\ NeverRefused'
    BY <1>2, <1>4 DEF IInv, Sized, NeverRefused
  <1>7. StatsMatch' /\ Draining'
    BY <1>2, <1>3 DEF IInv, StatsMatch, Draining
  <1>8. Fresh'
    BY <1>1, <1>2, <1>3, ExistingType DEF IInv, Fresh
  <1>9. Apart(buffer', batch') /\ IsFiniteSet(InFlight')
    BY <1>2, <1>3 DEF IInv
  <1>10. QED
    BY <1>5, <1>6, <1>7, <1>8, <1>9 DEF IInv

-------------------------------------------------------------------------------
\* Every step preserves the invariant.
LEMMA NextIInv == IInv /\ [Next]_vars => IInv'
  <1> SUFFICES ASSUME IInv, [Next]_vars PROVE IInv'
    OBVIOUS
  <1>1. Producer \subseteq Writer /\ Processor \in Writer /\ Processor \notin Producer
    BY BatchAssumption DEF BatchAssumption, Writer
  <1>2. CASE Enable
    BY <1>2, EnableIInv
  <1>3. ASSUME NEW p \in Producer, AddRefused(p) PROVE IInv'
    BY <1>3, AddRefusedIInv
  <1>4. ASSUME NEW p \in Producer, AddEntry(p) PROVE IInv'
    BY <1>4, AddEntryIInv
  <1>5. ASSUME NEW p \in Producer, LogDirect(p) PROVE IInv'
    <2>1. alive' \in BOOLEAN
      BY <1>5 DEF LogDirect, IInv, TypeOK
    <2>2. QED
      BY <1>5, <2>1, DirectIInv DEF LogDirect
  <1>6. ASSUME NEW p \in Producer, Fatal(p) PROVE IInv'
    <2>1. alive' \in BOOLEAN
      BY <1>6, Zenon DEF Fatal
    <2>2. QED
      BY <1>6, <2>1, DirectIInv DEF Fatal
  <1>7. ASSUME NEW p \in Producer, Flush(p) PROVE IInv'
    <2>1. /\ batch[p] = <<>> /\ Take(p, buffer)
          /\ UNCHANGED <<enabled, size, written, total, dropped, stopped, closing, alive, history>>
          /\ processor' = processor
          /\ UNCHANGED <<stopped, closing, promised>>
      BY <1>7 DEF Flush, history
    <2>2. processor' \in {"off", "loop", "last", "exited"}
      BY <2>1 DEF IInv, TypeOK
    <2>3. buffer' = <<>> /\ batch'[Processor] = batch[Processor]
      BY <1>1, <2>1 DEF Take, IInv, TypeOK
    <2>4. Draining'
      BY <2>1, <2>3, ElementsAppend DEF IInv, Draining
    <2>5. QED
      BY <1>1, <2>1, <2>2, <2>4, TakeIInv
  <1>8. ASSUME NEW q \in Writer, WriteNext(q) PROVE IInv'
    BY <1>8, WriteNextIInv
  <1>9. CASE Tick
    <2>1. /\ batch[Processor] = <<>> /\ Take(Processor, buffer)
          /\ UNCHANGED <<enabled, size, written, total, dropped, stopped, closing, alive, history>>
          /\ processor' = "loop" /\ processor = "loop"
          /\ UNCHANGED <<stopped, closing, promised>>
      BY <1>9 DEF Tick, history
    <2>2. Draining'
      BY <2>1 DEF IInv, Draining
    <2>3. QED
      BY <1>1, <2>1, <2>2, TakeIInv
  <1>10. CASE StopReceived
    <2>1. /\ batch[Processor] = <<>> /\ Take(Processor, buffer)
          /\ UNCHANGED <<enabled, size, written, total, dropped, stopped, closing, alive, history>>
          /\ processor' = "last" /\ processor = "loop"
          /\ stopped
          /\ UNCHANGED <<stopped, closing, promised>>
      BY <1>10 DEF StopReceived, history
    <2>2. Draining'
      BY <2>1, ElementsAppend DEF IInv, Draining, Take
    <2>3. QED
      BY <1>1, <2>1, <2>2, TakeIInv
  <1>11. CASE ProcessorExit
    <2>1. UNCHANGED <<enabled, size, buffer, batch, written, counters, sent, direct,
                      stopped, closing, alive, promised>>
      BY <1>11 DEF ProcessorExit, history
    <2>2. Draining' /\ processor' = "exited"
      BY <1>11, <2>1 DEF ProcessorExit, IInv, Draining
    <2>3. /\ stopped' \in BOOLEAN /\ alive' \in BOOLEAN
          /\ closing' \in {"no", "waiting", "returned"}
          /\ promised' \subseteq Elements(buffer) \cup InFlight \cup Elements(written)
      BY <2>1 DEF IInv, TypeOK, Fresh
    <2>4. QED
      BY <2>1, <2>2, <2>3, QuietIInv
  <1>12. CASE Close
    <2>1. /\ UNCHANGED <<enabled, size, buffer, batch, written, counters, sent, direct,
                         processor, alive>>
          /\ ~stopped /\ stopped' = TRUE
          /\ closing' = "waiting"
          /\ promised' = Elements(buffer) \cup Elements(batch[Processor])
      BY <1>12 DEF Close
    <2>2. Draining'
      BY <2>1 DEF IInv, Draining
    <2>3. /\ alive' \in BOOLEAN
          /\ processor' \in {"off", "loop", "last", "exited"}
          /\ promised' \subseteq Elements(buffer) \cup InFlight \cup Elements(written)
      BY <1>1, <2>1 DEF IInv, TypeOK, InFlight
    <2>4. stopped' \in BOOLEAN
      BY <2>1, Zenon
    <2>5. QED
      BY <2>1, <2>2, <2>3, <2>4, QuietIInv
  <1>13. CASE CloseAgain
    <2>1. /\ UNCHANGED <<enabled, size, buffer, batch, written, counters, sent, direct,
                         stopped, processor, closing, promised>>
          /\ alive' = FALSE
      BY <1>13 DEF CloseAgain, history
    <2>2. Draining'
      BY <2>1 DEF IInv, Draining
    <2>3. /\ stopped' \in BOOLEAN
          /\ processor' \in {"off", "loop", "last", "exited"}
          /\ closing' \in {"no", "waiting", "returned"}
          /\ promised' \subseteq Elements(buffer) \cup InFlight \cup Elements(written)
      BY <2>1 DEF IInv, TypeOK, Fresh
    <2>4. alive' \in BOOLEAN
      BY <2>1, Zenon
    <2>5. QED
      BY <2>1, <2>2, <2>3, <2>4, QuietIInv
  <1>14. CASE CloseReturn
    <2>1. /\ UNCHANGED <<enabled, size, buffer, batch, written, counters, sent, direct,
                         stopped, processor, alive, promised>>
          /\ closing' = "returned" /\ processor = "exited"
      BY <1>14 DEF CloseReturn, history
    <2>2. Draining'
      BY <2>1 DEF IInv, Draining
    <2>3. /\ stopped' \in BOOLEAN /\ alive' \in BOOLEAN
          /\ processor' \in {"off", "loop", "last", "exited"}
          /\ promised' \subseteq Elements(buffer) \cup InFlight \cup Elements(written)
      BY <2>1 DEF IInv, TypeOK, Fresh
    <2>4. QED
      BY <2>1, <2>2, <2>3, QuietIInv
  <1>15. CASE UNCHANGED vars
    <2>1. UNCHANGED <<enabled, size, buffer, batch, written, counters, sent, direct,
                      stopped, processor, closing, alive, promised>>
      BY <1>15 DEF vars, history
    <2>2. Draining'
      BY <2>1 DEF IInv, Draining
    <2>3. /\ stopped' \in BOOLEAN /\ alive' \in BOOLEAN
          /\ processor' \in {"off", "loop", "last", "exited"}
          /\ closing' \in {"no", "waiting", "returned"}
          /\ promised' \subseteq Elements(buffer) \cup InFlight \cup Elements(written)
      BY <2>1 DEF IInv, TypeOK, Fresh
    <2>4. QED
      BY <2>1, <2>2, <2>3, QuietIInv
  <1>16. QED
    BY <1>2, <1>3, <1>4, <1>5, <1>6, <1>7, <1>8, <1>9, <1>10, <1>11, <1>12, <1>13, <1>14, <1>15
    DEF Next

\* What Close promises follows: the processor has left with an empty batch, and
\* none of what was promised is in the buffer.
LEMMA IInvCloseDrains == IInv => CloseDrains
  <1> SUFFICES ASSUME IInv, closing = "returned", NEW e \in promised, e \notin Elements(written)
               PROVE  e \in UNION {Elements(batch[p]) : p \in Producer}
    BY DEF CloseDrains
  <1>1. e \notin Elements(buffer) /\ batch[Processor] = <<>>
    BY DEF IInv, Draining
  <1>2. PICK q \in Writer : e \in Elements(batch[q])
    BY <1>1 DEF IInv, Fresh, InFlight
  <1>3. q # Processor
    BY <1>1, <1>2, ElementsAppend
  <1>4. QED
    BY <1>2, <1>3 DEF Writer

\* The inductive invariant always holds.
THEOREM Invariance == Spec => []IInv
  BY InitIInv, NextIInv, PTL DEF Spec

\* Every variable keeps its type, and the buffer the size of its array.
THEOREM TypeCorrect == Spec => []TypeOK
  <1>1. IInv => TypeOK
    BY DEF IInv
  <1>2. QED
    BY <1>1, Invariance, PTL

\* No entry is lost on the way or refused without need: the statistics count
\* exactly the entries that are buffered, being written and written, and Close
\* leaves nothing of what it found with the processor (batch.go:115-149,
\* 181-186, 206-210).
THEOREM LossFree == Spec => []NothingLost
  <1>1. IInv => NothingLost
    BY IInvCloseDrains DEF IInv, NothingLost
  <1>2. QED
    BY <1>1, Invariance, PTL

-------------------------------------------------------------------------------
\* The entries pending in LogSink.
Pending == Elements(buffer) \cup InFlight

\* Taking the buffer keeps the entries that are pending.
LEMMA TakePending ==
  ASSUME IInv, NEW q \in Writer, batch[q] = <<>>, Take(q, buffer)
  PROVE  Pending' = Pending
  <1>1. /\ buffer' = <<>>
        /\ batch' = [batch EXCEPT ![q] = buffer]
    BY DEF Take
  <1>2. /\ buffer \in Seq(Entry) /\ batch \in Batches
        /\ IsFiniteSet(Flying(batch)) /\ Apart(buffer, batch)
    BY InFlightFlying DEF IInv, TypeOK, Batches
  <1>3. Flying(batch') = Flying(batch) \cup Elements(buffer)
    <2>1. Gains(Flying(batch), Flying(batch'), Elements(buffer), Len(buffer))
      BY <1>2, TakeEffect
    <2>2. QED
      BY <2>1 DEF Gains
  <1>4. InFlight' = Flying(batch') /\ InFlight = Flying(batch)
    BY InFlightFlying DEF InFlight, Flying
  <1>5. Elements(buffer') = {}
    BY <1>1, ElementsAppend
  <1>6. QED
    BY <1>3, <1>4, <1>5 DEF Pending

\* Every step of the logger is one of LogSink's, or none.
LEMMA StepImplements == IInv /\ [Next]_vars => [LS!Next]_(LS!vars)
  <1> SUFFICES ASSUME IInv, [Next]_vars
               PROVE  LS!Next \/ (Pending' = Pending /\ written' = written /\ alive' = alive)
    BY DEF Pending, LS!vars
  <1>1. /\ Producer \subseteq Writer /\ Processor \in Writer
        /\ Pending \subseteq Entry
        /\ LS!Emitted = Elements(written)
    BY ExistingType DEF Writer, Pending, IInv, LS!Emitted, Elements
  <1>2. CASE \/ Enable \/ ProcessorExit \/ Close \/ CloseReturn
             \/ UNCHANGED vars
             \/ \E p \in Producer : AddRefused(p)
    <2>1. UNCHANGED <<buffer, batch, written, alive>>
      BY <1>2 DEF Enable, ProcessorExit, Close, CloseReturn, AddRefused, vars
    <2>2. QED
      BY <2>1 DEF Pending, InFlight, Elements
  <1>3. ASSUME NEW p \in Producer, AddEntry(p) PROVE LS!Next
    <2> DEFINE e == NewEntry(p)
               b == Append(buffer, e)
    <2>1. e \in Entry /\ e \notin Pending \cup Elements(written)
      BY <1>3, CallsEffect DEF IInv, AddEntry, Pending
    <2>2. alive /\ UNCHANGED <<written, alive>>
      BY <1>3 DEF AddEntry, Calls
    <2>3. /\ buffer \in Seq(Entry) /\ batch \in Batches
          /\ IsFiniteSet(Flying(batch)) /\ Apart(buffer, batch)
      BY InFlightFlying DEF IInv, TypeOK, Batches
    <2>4. InFlight' = Flying(batch') /\ InFlight = Flying(batch)
      BY InFlightFlying DEF InFlight, Flying
    <2>5. \/ Take(p, b)
          \/ buffer' = b /\ batch' = batch
      BY <1>3 DEF AddEntry
    <2>6. batch[p] = <<>>
      BY <1>3 DEF AddEntry, Calls
    <2> HIDE DEF e
    <2>7. /\ b \in Seq(Entry)
          /\ Elements(b) = Elements(buffer) \cup {e}
          /\ Apart(b, batch)
      BY <2>1, <2>3, <2>4, AppendApart, ElementsAppend DEF Pending
    <2> HIDE DEF b
    <2>8. ASSUME Take(p, b) PROVE Pending' = Pending \cup {e}
      <3>1. buffer' = <<>> /\ batch' = [batch EXCEPT ![p] = b]
        BY <2>8 DEF Take
      <3>2. Flying(batch') = Flying(batch) \cup Elements(b)
        <4>1. p \in Writer
          BY DEF Writer
        <4>2. Gains(Flying(batch), Flying(batch'), Elements(b), Len(b))
          BY <2>3, <2>6, <2>7, <2>8, <4>1, TakeEffect
        <4>3. QED
          BY <4>2 DEF Gains
      <3>3. Elements(buffer') = {}
        BY <3>1, ElementsAppend
      <3>4. QED
        BY <2>4, <2>7, <3>2, <3>3 DEF Pending
    <2>9. ASSUME buffer' = b, batch' = batch PROVE Pending' = Pending \cup {e}
      BY <2>4, <2>7, <2>9 DEF Pending
    <2>10. Pending' = Pending \cup {e}
      BY <2>5, <2>8, <2>9
    <2>11. LS!Accept(e)
      BY <1>1, <2>1, <2>2, <2>10 DEF LS!Accept, Pending
    <2>12. QED
      BY <2>1, <2>11 DEF LS!Next
  <1>4. ASSUME NEW p \in Producer, LogDirect(p) \/ Fatal(p) PROVE LS!Next
    <2>1. NewEntry(p) \in Entry /\ NewEntry(p) \notin Pending \cup Elements(written)
      BY <1>4, CallsEffect DEF IInv, LogDirect, Fatal, Pending
    <2>2. /\ alive
          /\ written' = Append(written, NewEntry(p))
          /\ UNCHANGED <<buffer, batch>>
      BY <1>4 DEF LogDirect, Fatal, Calls
    <2>3. alive' \in BOOLEAN
      <3>1. CASE LogDirect(p)
        BY <3>1 DEF LogDirect, IInv, TypeOK
      <3>2. CASE Fatal(p)
        BY <3>2, Zenon DEF Fatal
      <3>3. QED
        BY <1>4, <3>1, <3>2
    <2>4. Pending' = Pending
      BY <2>2 DEF Pending, InFlight, Elements
    <2>5. LS!EmitDirect(NewEntry(p))
      BY <1>1, <2>1, <2>2, <2>3, <2>4 DEF LS!EmitDirect, Pending
    <2>6. QED
      BY <2>1, <2>5 DEF LS!Next
  <1>5. ASSUME NEW p \in Producer, Flush(p) PROVE UNCHANGED <<Pending, written, alive>>
    <2>1. batch[p] = <<>> /\ Take(p, buffer) /\ UNCHANGED <<written, alive>>
      BY <1>5 DEF Flush
    <2>2. QED
      BY <1>1, <2>1, TakePending
  <1>6. CASE Tick \/ StopReceived
    <2>1. batch[Processor] = <<>> /\ Take(Processor, buffer) /\ UNCHANGED <<written, alive>>
      BY <1>6 DEF Tick, StopReceived
    <2>2. QED
      BY <1>1, <2>1, TakePending
  <1>7. ASSUME NEW q \in Writer, WriteNext(q) PROVE LS!Next
    <2>0. PICK h : h = Head(batch[q])
      OBVIOUS
    <2>1. /\ alive
          /\ batch[q] # <<>>
          /\ written' = Append(written, h)
          /\ batch' = [batch EXCEPT ![q] = Tail(batch[q])]
          /\ UNCHANGED <<buffer, alive>>
      BY <1>7, <2>0 DEF WriteNext
    <2>2. /\ buffer \in Seq(Entry) /\ batch \in Batches
          /\ IsFiniteSet(Flying(batch)) /\ Apart(buffer, batch)
      BY InFlightFlying DEF IInv, TypeOK, Batches
    <2>3. /\ h \in Flying(batch) /\ h \in Entry
          /\ Flying(batch') = Flying(batch) \ {h}
      <3>1. /\ h \in Flying(batch) /\ h \in Entry
            /\ Loses(Flying(batch), Flying(batch'), h)
        BY <1>7, <2>0, <2>2, WriteEffect
      <3>2. QED
        BY <3>1 DEF Loses
    <2>4. InFlight' = Flying(batch') /\ InFlight = Flying(batch)
      BY InFlightFlying DEF InFlight, Flying
    <2>5. h \notin Elements(buffer)
      <3>1. batch[q] \in Seq(Entry) /\ NoRepeat(batch[q])
        BY <2>2 DEF Batches, Apart
      <3>2. h \in Elements(batch[q])
        BY <2>0, <2>1, <3>1, TailElements
      <3>3. QED
        BY <2>2, <3>2 DEF Apart
    <2>6. Pending' = Pending \ {h}
      BY <2>1, <2>3, <2>4, <2>5 DEF Pending, Elements
    <2>7. LS!Emit(h)
      BY <2>1, <2>3, <2>4, <2>6 DEF LS!Emit, Pending
    <2>8. QED
      BY <2>3, <2>7 DEF LS!Next
  <1>8. CASE CloseAgain
    <2>1. alive /\ alive' = FALSE /\ UNCHANGED <<buffer, batch, written>>
      BY <1>8 DEF CloseAgain
    <2>2. Pending' = Pending
      BY <2>1 DEF Pending, InFlight, Elements
    <2>3. LS!Die
      BY <2>1, <2>2 DEF LS!Die, Pending
    <2>4. QED
      BY <2>3 DEF LS!Next
  <1>9. QED
    BY <1>2, <1>3, <1>4, <1>5, <1>6, <1>7, <1>8 DEF Next

\* batch.go implements what a logger promises: an entry reaches the sink at most
\* once, only after it was logged, and never leaves the buffer for nowhere.
THEOREM Refinement == Spec => ImplementsLogSink
  <1>1. Init => LS!Init
    <2> SUFFICES ASSUME Init PROVE LS!Init
      OBVIOUS
    <2>1. \A q \in Writer : batch[q] = <<>>
      BY DEF Init
    <2>2. Elements(<<>>) = {}
      BY ElementsAppend
    <2>3. InFlight = {} /\ Elements(buffer) = {}
      BY <2>1, <2>2 DEF InFlight, Init
    <2>4. QED
      BY <2>3 DEF Init, LS!Init
  <1>2. QED
    BY <1>1, StepImplements, Invariance, PTL DEF Spec, ImplementsLogSink, LS!Spec

\* The sink received no entry twice, and nothing that is still pending.
WrittenOnce == NoRepeat(written) /\ Pending \cap Elements(written) = {}

\* A step of LogSink adds at most one entry to the sink, which was not there.
LEMMA SinkStepOnce == TypeOK /\ WrittenOnce /\ [LS!Next]_(LS!vars) => WrittenOnce'
  <1> SUFFICES ASSUME TypeOK, WrittenOnce, [LS!Next]_(LS!vars) PROVE WrittenOnce'
    OBVIOUS
  <1>1. written \in Seq(Entry) /\ LS!Emitted = Elements(written)
    BY DEF TypeOK, LS!Emitted, Elements
  <1>2. ASSUME NEW e \in Entry, e \notin Elements(written),
               written' = Append(written, e),
               e \notin Pending', Pending' \subseteq Pending
        PROVE  WrittenOnce'
    <2>1. /\ NoRepeat(Append(written, e))
          /\ Elements(Append(written, e)) = Elements(written) \cup {e}
      BY <1>1, <1>2, AppendNoRepeat, ElementsAppend DEF WrittenOnce
    <2>2. NoRepeat(written)' /\ Elements(written') = Elements(written) \cup {e}
      BY <1>2, <2>1 DEF NoRepeat
    <2>3. QED
      BY <1>2, <2>2 DEF WrittenOnce
  <1>3. ASSUME NEW e \in Entry, LS!Accept(e) PROVE WrittenOnce'
    <2>1. /\ e \notin Elements(written)
          /\ Pending' = Pending \cup {e}
          /\ written' = written
      BY <1>1, <1>3 DEF LS!Accept, Pending
    <2>2. NoRepeat(written)' /\ Elements(written') = Elements(written)
      BY <2>1 DEF NoRepeat, Elements, WrittenOnce
    <2>3. QED
      BY <2>1, <2>2 DEF WrittenOnce
  <1>4. ASSUME NEW e \in Entry, LS!Emit(e) PROVE WrittenOnce'
    <2>1. /\ e \in Pending
          /\ Pending' = Pending \ {e}
          /\ written' = Append(written, e)
      BY <1>4 DEF LS!Emit, Pending
    <2>2. QED
      BY <1>2, <2>1 DEF WrittenOnce
  <1>5. ASSUME NEW e \in Entry, LS!EmitDirect(e) PROVE WrittenOnce'
    <2>1. /\ e \notin Pending \cup Elements(written)
          /\ Pending' = Pending
          /\ written' = Append(written, e)
      BY <1>1, <1>5 DEF LS!EmitDirect, Pending
    <2>2. QED
      BY <1>2, <2>1
  <1>6. CASE LS!Die \/ UNCHANGED LS!vars
    <2>1. Pending' = Pending /\ written' = written
      BY <1>6 DEF LS!Die, LS!vars, Pending
    <2>2. NoRepeat(written)' /\ Elements(written') = Elements(written)
      BY <2>1 DEF NoRepeat, Elements, WrittenOnce
    <2>3. QED
      BY <2>1, <2>2 DEF WrittenOnce
  <1>7. QED
    BY <1>3, <1>4, <1>5, <1>6 DEF LS!Next

\* However many goroutines write their batches at the same time, the sink
\* receives each entry at most once (batch.go:136-166).
THEOREM AtMostOnce == Spec => []WrittenOnce
  <1>1. Init => WrittenOnce
    <2> SUFFICES ASSUME Init PROVE WrittenOnce
      OBVIOUS
    <2>1. written = <<>>
      BY DEF Init
    <2>2. QED
      BY <2>1, ElementsAppend DEF WrittenOnce, NoRepeat
  <1>2. IInv /\ WrittenOnce /\ [Next]_vars => WrittenOnce'
    BY StepImplements, SinkStepOnce DEF IInv
  <1>3. QED
    BY <1>1, <1>2, Invariance, PTL DEF Spec
===============================================================================
