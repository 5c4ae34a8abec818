--------------------------- MODULE HttpClientProofs ---------------------------
(***************************************************************************)
(* What Request promises its caller, for any number of goroutines, any     *)
(* answers and any number of retries; and what the arithmetic of the       *)
(* timeout makes of a long one.                                            *)
(***************************************************************************)
EXTENDS HttpClient, TLAPS

\* A request still trying has tries left, one that is reading was answered, and
\* nothing is returned before the end: what the loop of Request relies on.
TriesLeft == \A p \in Proc : pc[p] \in {"trying", "waiting"} => attempt[p] <= RetryTimes
ReadsAnswer == \A p \in Proc : pc[p] = "reading" => p \in answered /\ status[p] # 0
ReturnsLast == \A p \in Proc : pc[p] # "idle" => result[p] = "none"

IInv == TypeOK /\ TriesLeft /\ ReadsAnswer /\ ReturnsLast /\ NilMeansAnswered /\ BodiesClosed

\* The invariant holds before any Request.
LEMMA InitInv == Init => IInv
  BY HttpAssumption
  DEF Init, IInv, TypeOK, TriesLeft, ReadsAnswer, ReturnsLast, NilMeansAnswered, BodiesClosed

\* A failed attempt, however it failed, keeps the invariant.
LEMMA FailInv ==
  ASSUME IInv, NEW p \in Proc, pc[p] \in {"trying", "waiting"}, Fail(p)
  PROVE  IInv'
<1>1. /\ RetryTimes \in Nat /\ attempt[p] \in Nat /\ attempt[p] <= RetryTimes
      /\ attempt' = [attempt EXCEPT ![p] = @ + 1]
  BY HttpAssumption DEF Fail, IInv, TypeOK, TriesLeft
<1>2. CASE LastTry(p)
  <2>1. /\ pc' = [pc EXCEPT ![p] = "idle"]
        /\ result' = [result EXCEPT ![p] = "error"]
        /\ UNCHANGED <<timeout, status, open, cancelled, answered>>
    BY <1>2 DEF Fail, AfterLastTry
  <2>2. TypeOK'
    BY <1>1, <2>1 DEF IInv, TypeOK
  <2>3. TriesLeft' /\ ReadsAnswer' /\ ReturnsLast' /\ NilMeansAnswered'
    BY <1>1, <2>1
    DEF IInv, TypeOK, TriesLeft, ReadsAnswer, ReturnsLast, NilMeansAnswered
  <2>4. BodiesClosed'
    BY <2>1 DEF IInv, TypeOK, BodiesClosed
  <2>5. QED
    BY <2>2, <2>3, <2>4 DEF IInv
<1>3. CASE ~LastTry(p)
  <2>1. /\ pc' = [pc EXCEPT ![p] = "trying"]
        /\ UNCHANGED <<timeout, status, open, cancelled, answered, result>>
    BY <1>3 DEF Fail
  <2>2. attempt[p] + 1 <= RetryTimes
    BY <1>1, <1>3 DEF LastTry
  <2>3. TypeOK'
    BY <1>1, <2>1 DEF IInv, TypeOK
  <2>4. TriesLeft' /\ ReadsAnswer' /\ ReturnsLast' /\ NilMeansAnswered'
    BY <1>1, <2>1, <2>2
    DEF IInv, TypeOK, TriesLeft, ReadsAnswer, ReturnsLast, NilMeansAnswered
  <2>5. BodiesClosed'
    BY <2>1 DEF IInv, TypeOK, BodiesClosed
  <2>6. QED
    BY <2>3, <2>4, <2>5 DEF IInv
<1>4. QED
  BY <1>2, <1>3

\* Each of the ways out that follow an answer keeps the invariant.
LEMMA ReturnInv ==
  ASSUME IInv, NEW p \in Proc, NEW decoded \in BOOLEAN, pc[p] = "reading", Return(p, decoded)
  PROVE  IInv'
<1>1. /\ pc' = [pc EXCEPT ![p] = "idle"]
      /\ open' = open \ {p}
      /\ UNCHANGED <<timeout, attempt, status, cancelled, answered>>
      /\ \E r \in {"nil", "error"} : result' = [result EXCEPT ![p] = r]
  BY DEF Return, OpenAfter
<1>2. p \in answered /\ status[p] # 0
  BY DEF IInv, ReadsAnswer
<1>3. TypeOK'
  BY <1>1 DEF IInv, TypeOK
<1>4. TriesLeft' /\ ReadsAnswer' /\ ReturnsLast' /\ NilMeansAnswered'
  BY <1>1, <1>2 DEF IInv, TypeOK, TriesLeft, ReadsAnswer, ReturnsLast, NilMeansAnswered
<1>5. BodiesClosed'
  BY <1>1 DEF IInv, TypeOK, BodiesClosed
<1>6. QED
  BY <1>3, <1>4, <1>5 DEF IInv

\* Every step keeps the invariant.
LEMMA NextInv == IInv /\ [Next]_vars => IInv'
<1> SUFFICES ASSUME IInv, [Next]_vars PROVE IInv'
  OBVIOUS
<1> USE DEF IInv, TypeOK, TriesLeft, ReadsAnswer, ReturnsLast, NilMeansAnswered, BodiesClosed
<1>1. CASE UNCHANGED vars
  BY <1>1 DEF vars
<1>2. ASSUME NEW p \in Proc, Request(p) PROVE IInv'
  BY <1>2, HttpAssumption DEF Request
<1>3. ASSUME NEW p \in Proc, Send(p) PROVE IInv'
  BY <1>3 DEF Send
<1>4. ASSUME NEW p \in Proc, Unsent(p) \/ AnswerLost(p) \/ TimeOut(p) PROVE IInv'
  <2> HIDE DEF IInv
  <2>1. pc[p] \in {"trying", "waiting"} /\ Fail(p)
    BY <1>4 DEF Unsent, AnswerLost, TimeOut
  <2>2. QED
    BY <2>1, FailInv
<1>5. ASSUME NEW p \in Proc, Answer(p) PROVE IInv'
  BY <1>5, HttpAssumption DEF Answer
<1>6. ASSUME NEW p \in Proc, Parse(p) \/ ReadFails(p) PROVE IInv'
  <2> HIDE DEF IInv
  <2>1. pc[p] = "reading" /\ \E decoded \in BOOLEAN : Return(p, decoded)
    BY <1>6 DEF Parse, ReadFails
  <2>2. QED
    BY <2>1, ReturnInv
<1>7. ASSUME NEW p \in Proc, Cancel(p) PROVE IInv'
  BY <1>7 DEF Cancel
<1>8. QED
  BY <1>1, <1>2, <1>3, <1>4, <1>5, <1>6, <1>7 DEF Next

\* The invariant holds in every state of every behaviour.
LEMMA Invariance == Spec => []IInv
  BY InitInv, NextInv, PTL DEF Spec

\* Request tries once and at most RetryTimes times more, whatever the number of
\* retries (http.go:212).
THEOREM TypeCorrect == Spec => []TypeOK
<1>1. IInv => TypeOK
  BY DEF IInv
<1>2. QED
  BY <1>1, Invariance, PTL

\* A nil result stands for an answer, for any number of retries: no error of an
\* earlier attempt is left over and none of the last is lost (http.go:211-225).
THEOREM NilIsAnswered == Spec => []NilMeansAnswered
<1>1. IInv => NilMeansAnswered
  BY DEF IInv
<1>2. QED
  BY <1>1, Invariance, PTL

\* No response body outlives its Request (http.go:219-221, 227-240).
THEOREM NoBodyLeaks == Spec => []BodiesClosed
<1>1. IInv => BodiesClosed
  BY DEF IInv
<1>2. QED
  BY <1>1, Invariance, PTL

\* The loop goes on after a cancellation, but sends nothing (http.go:212-222, 261).
THEOREM CancelIsRespected == Spec => NothingSentAfterCancel
<1>1. IInv /\ [Next]_vars =>
        [\A p \in Proc : pc[p] = "trying" /\ pc'[p] = "waiting" => p \notin cancelled]_vars
  <2> SUFFICES ASSUME IInv, Next,
                      NEW p \in Proc, pc[p] = "trying", pc'[p] = "waiting"
               PROVE  p \notin cancelled
    OBVIOUS
  <2>1. PICK q \in Proc : \/ Request(q) \/ Send(q) \/ Unsent(q) \/ AnswerLost(q) \/ TimeOut(q)
                          \/ Answer(q) \/ Parse(q) \/ ReadFails(q) \/ Cancel(q)
    BY DEF Next
  <2>2. ~(Unsent(q) \/ AnswerLost(q) \/ TimeOut(q))
    BY DEF IInv, TypeOK, Unsent, AnswerLost, TimeOut, Fail
  <2>3. ~(Request(q) \/ Answer(q) \/ Parse(q) \/ ReadFails(q) \/ Cancel(q))
    BY DEF IInv, TypeOK, Request, Answer, Parse, ReadFails, Return, Cancel
  <2>4. Send(q)
    BY <2>1, <2>2, <2>3
  <2>5. QED
    BY <2>4 DEF IInv, TypeOK, Send, MayBeSent
<1>2. QED
  BY <1>1, Invariance, PTL DEF Spec, NothingSentAfterCancel

\* A timeout whose product with time.Second lies in the upper half of the range of
\* a duration is none at all.  Go's durations count nanoseconds in 64 bits, so this
\* is the case of the default of ten seconds: 10 * 10^9 * 10^9 lies between 2^63 and
\* 2^64 (http.go:29, 260).
THEOREM LongTimeoutIsNone ==
  ASSUME timeout \in Nat,
         Wrap <= 2 * (timeout * Second), timeout * Second < Wrap
  PROVE  ClientTimeout(timeout) < 0 /\ ~TimesOut
<1> DEFINE product == timeout * Second
<1>1. product \in Nat /\ product < Wrap /\ Wrap <= 2 * product
  BY HttpAssumption
<1> HIDE DEF product
<1>2. product % Wrap = product
  BY <1>1, HttpAssumption
<1>3. product >= Wrap \div 2
  BY <1>1, HttpAssumption
<1>4. Signed(product) = product - Wrap
  BY <1>2, <1>3 DEF Signed
<1>5. ClientTimeout(timeout) = product - Wrap
  BY <1>4 DEF ClientTimeout, product
<1>6. QED
  BY <1>1, <1>5, HttpAssumption DEF TimesOut
===============================================================================
