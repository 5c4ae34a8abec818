------------------------------ MODULE HttpClient ------------------------------
(***************************************************************************)
(* The HTTP client, client/http.go: Request, which Get, GetRaw, Post and   *)
(* PostRaw call, with its retries.                                         *)
(*                                                                         *)
(* A request is tried until an attempt is answered, whatever the status,   *)
(* or RetryTimes retries have failed.  External: net/http and ctxhttp.  An *)
(* attempt fails before it reaches the server, or after, with the answer   *)
(* lost; once the context is done an attempt fails without being sent; and *)
(* the client's Timeout covers an attempt and the reading of the answer,   *)
(* when it is positive.                                                    *)
(*                                                                         *)
(* Left out: headers, tracing, logging, the URL, the encoding of the body. *)
(***************************************************************************)
EXTENDS Integers

CONSTANTS Proc,       \* goroutines that share the client
          Status,     \* what servers answer
          Timeouts,   \* HttpClientOptions.timeout, in units of time.Duration
          Second,     \* time.Second, in the same unit
          Wrap,       \* 2^w for a time.Duration of w bits
          RetryTimes  \* HttpClientOptions.retryTimes

ASSUME HttpAssumption == /\ Status \subseteq Nat \ {0}
                         /\ Timeouts \subseteq Nat \ {0}
                         /\ Second \in Nat \ {0}
                         /\ Wrap \in Nat \ {0} /\ Wrap % 2 = 0
                         /\ RetryTimes \in Nat \ {0}

\* A product of durations as a signed integer of the width of time.Duration.
Signed(n) == LET m == n % Wrap IN IF m >= Wrap \div 2 THEN m - Wrap ELSE m

\* request: a timeout that is a duration already is multiplied by time.Second.
ClientTimeout(timeout) == Signed(timeout * Second)

VARIABLES
  timeout,    \* the client's timeout option
  pc,         \* "idle", "trying", "waiting" for an answer, "reading" it
  attempt,    \* attempt[p]: the loop's tryTimes
  status,     \* status[p]: of the answer being read, or 0
  open,       \* requests whose response body is open
  cancelled,  \* requests whose context is done
  result,     \* result[p]: what the last Request returned
  answered    \* requests whose last attempt was answered (history)

vars == <<timeout, pc, attempt, status, open, cancelled, result, answered>>

Init == /\ timeout \in Timeouts
        /\ pc = [p \in Proc |-> "idle"]
        /\ attempt = [p \in Proc |-> 0]
        /\ status = [p \in Proc |-> 0]
        /\ open = {}
        /\ cancelled = {}
        /\ result = [p \in Proc |-> "none"]
        /\ answered = {}

\* Request up to its loop.  An error of buildRequestBody is overwritten by the
\* first attempt, which then goes out without a body: nothing else changes.
Request(p) ==
  /\ pc[p] = "idle"
  /\ pc' = [pc EXCEPT ![p] = "trying"]
  /\ attempt' = [attempt EXCEPT ![p] = 0]
  /\ status' = [status EXCEPT ![p] = 0]
  /\ cancelled' = cancelled \ {p}
  /\ result' = [result EXCEPT ![p] = "none"]
  /\ answered' = answered \ {p}
  /\ UNCHANGED <<timeout, open>>

\* ctxhttp: an attempt whose context is done is not sent.
MayBeSent(p) == p \notin cancelled

Send(p) ==
  /\ pc[p] = "trying"
  /\ MayBeSent(p)
  /\ pc' = [pc EXCEPT ![p] = "waiting"]
  /\ UNCHANGED <<timeout, attempt, status, open, cancelled, result, answered>>

\* Mutant of LastTry: one retry too many.
LastTryLate(p) == attempt[p] > RetryTimes

LastTry(p) == attempt[p] = RetryTimes

\* Mutant of AfterLastTry: err is declared again inside the loop.
AfterLastTryNil == "nil"

AfterLastTry == "error"

\* The attempt is an error: there is no response, and the loop goes on or ends.
Fail(p) ==
  /\ attempt' = [attempt EXCEPT ![p] = @ + 1]
  /\ IF LastTry(p)
       THEN /\ pc' = [pc EXCEPT ![p] = "idle"]
            /\ result' = [result EXCEPT ![p] = AfterLastTry]
       ELSE pc' = [pc EXCEPT ![p] = "trying"] /\ UNCHANGED result
  /\ UNCHANGED <<timeout, status, open, cancelled, answered>>

\* Not sent: no connection, no such URL, or the context is done.
Unsent(p) == pc[p] = "trying" /\ Fail(p)

\* The connection breaks, or the context is done, before the answer comes.
AnswerLost(p) == pc[p] = "waiting" /\ Fail(p)

\* Mutant of TimesOut: the timeout is never set on the client.
TimesOutNever == FALSE

\* http.Client takes a Timeout that is not positive for none at all.
TimesOut == ClientTimeout(timeout) > 0

TimeOut(p) ==
  /\ TimesOut
  /\ pc[p] = "waiting"
  /\ Fail(p)

Answer(p) ==
  /\ pc[p] = "waiting"
  /\ \E s \in Status : status' = [status EXCEPT ![p] = s]
  /\ pc' = [pc EXCEPT ![p] = "reading"]
  /\ attempt' = [attempt EXCEPT ![p] = @ + 1]
  /\ open' = open \cup {p}
  /\ answered' = answered \cup {p}
  /\ UNCHANGED <<timeout, cancelled, result>>

-------------------------------------------------------------------------------
\* Mutant of OpenAfter: the body is closed only where the answer was decoded.
OpenAfterUnlessError(p, decoded) == IF decoded THEN open \ {p} ELSE open

\* The deferred Close of the response body.
OpenAfter(p, decoded) == open \ {p}

\* The test of the status code at the end of Request.
StatusIsError(s) == s > 200 /\ s < 300

Return(p, decoded) ==
  /\ pc' = [pc EXCEPT ![p] = "idle"]
  /\ open' = OpenAfter(p, decoded)
  /\ result' = [result EXCEPT ![p] = IF decoded /\ ~StatusIsError(status[p]) THEN "nil" ELSE "error"]
  /\ UNCHANGED <<timeout, attempt, status, cancelled, answered>>

\* parseResponseBody has read the answer and decoded it, or failed to.
Parse(p) == pc[p] = "reading" /\ \E decoded \in BOOLEAN : Return(p, decoded)

\* The timeout runs out, or the context is done, while the answer is being read.
\* The error of ReadAll is overwritten where what was read so far is decoded.
ReadFails(p) ==
  /\ pc[p] = "reading"
  /\ TimesOut \/ p \in cancelled
  /\ \E decoded \in BOOLEAN : Return(p, decoded)

\* The caller's context is cancelled or reaches its deadline.
Cancel(p) ==
  /\ pc[p] # "idle"
  /\ p \notin cancelled
  /\ cancelled' = cancelled \cup {p}
  /\ UNCHANGED <<timeout, pc, attempt, status, open, result, answered>>

Next == \E p \in Proc : \/ Request(p) \/ Send(p) \/ Unsent(p) \/ AnswerLost(p) \/ TimeOut(p)
                        \/ Answer(p) \/ Parse(p) \/ ReadFails(p) \/ Cancel(p)

Spec == Init /\ [][Next]_vars

\* An attempt is sent or fails, a timeout that is set runs out, and a context that
\* is done ends the attempt.  A server may keep silent for ever, before its answer
\* or in the middle of it.
FairSpec == /\ Spec
            /\ \A p \in Proc : /\ WF_vars(Send(p) \/ Unsent(p))
                               /\ WF_vars(TimeOut(p))
                               /\ WF_vars(p \in cancelled /\ AnswerLost(p))
                               /\ WF_vars(ReadFails(p))

-------------------------------------------------------------------------------
\* Every variable holds a value of its Go type, and a request is tried at most
\* once and RetryTimes times more (http.go:205-222).
TypeOK == /\ timeout \in Timeouts
          /\ pc \in [Proc -> {"idle", "trying", "waiting", "reading"}]
          /\ attempt \in [Proc -> 0 .. RetryTimes + 1]
          /\ status \in [Proc -> Status \cup {0}]
          /\ open \subseteq Proc /\ cancelled \subseteq Proc /\ answered \subseteq Proc
          /\ result \in [Proc -> {"none", "nil", "error"}]

\* A Request returns nil only when its last attempt was answered: the error of an
\* attempt before it does not remain, and that of the last one is not lost
\* (http.go:211-225).
NilMeansAnswered == \A p \in Proc : result[p] = "nil" => p \in answered /\ status[p] # 0

\* The body of every response is closed by the time Request returns, on each of
\* its ways out (http.go:219-221, 227-240).
BodiesClosed == open \subseteq {p \in Proc : pc[p] = "reading"}

\* Nothing is sent for a request whose context is done, though the loop goes on
\* trying (http.go:212-222, 261).
NothingSentAfterCancel ==
  [][\A p \in Proc : pc[p] = "trying" /\ pc'[p] = "waiting" => p \notin cancelled]_vars

\* Every Request returns, whatever the server does, because of its timeout
\* (http.go:28-29, 260-261).
RequestReturns == \A p \in Proc : (pc[p] # "idle") ~> (pc[p] = "idle")
===============================================================================
