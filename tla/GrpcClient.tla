------------------------------ MODULE GrpcClient ------------------------------
(***************************************************************************)
(* A client made by NewClient (client/grpc.go) and one call through it.    *)
(*                                                                         *)
(* NewClient turns what it is given, options and the query of a URI, into  *)
(* a chain of interceptors.  A call walks down the chain, an attempt is    *)
(* sent over the connection, and its code walks up again.  The timeout     *)
(* link gives the call a deadline, the retry link sends it down again when *)
(* the code is Unavailable, after a backoff.  Interceptors themselves are  *)
(* those of go-grpc-middleware; what the code decides is which of them     *)
(* there are, in which order and with which settings.                      *)
(*                                                                         *)
(* Time is counted in ticks by timers that run down.  Walking takes none;  *)
(* a timer that has run out is acted upon before the next tick.            *)
(***************************************************************************)
EXTENDS ErrorCodes, Sequences, FiniteSets

CONSTANTS Caller,      \* each makes a client and one call through it
          Given,       \* what NewClient may be given
          Backoff,     \* ticks between two attempts
          MaxElapsed   \* bound: the history of how long a call took stops here

\* A number in a query is {n}, or {} when it is missing or is none.
ASSUME ClientAssumption ==
  /\ \A g \in Given :
       /\ DOMAIN g = {"withTimeout", "timeout", "retry", "secure", "metrics", "logger",
                      "creds", "user", "pool"}
       /\ g.withTimeout \in Nat
       /\ \A q \in {g.timeout, g.retry} : q \subseteq Int /\ \A n \in q : q = {n}
       /\ {g.secure, g.metrics, g.logger, g.creds, g.user, g.pool} \subseteq BOOLEAN
  /\ Backoff \in Nat \ {0} /\ MaxElapsed \in Nat

Kind == {"unary", "clientStream"}
Method == {"api", "health"}
NoDeadline == -1

VARIABLES
  conn,   \* each caller's client: what was given, its options and its connection
  call    \* each caller's call

clientVars == <<conn, call>>

-------------------------------------------------------------------------------
Parsed(found) == IF found = {} THEN 0 ELSE CHOOSE n \in found : TRUE

\* Mutant of Timeout: the option decides, and the query's timeout is lost.
TimeoutOption(g) == g.withTimeout

\* evaluateOptions: options first, then the query replaces them.  What WithTimeout
\* set is lost even if the query names no timeout.
Timeout(g) == Parsed(g.timeout)

\* What the functions WithMetrics, WithLogger, ... set.
Optional(g) ==
  [timeout |-> g.withTimeout, retryTimes |-> 0, secure |-> FALSE, metrics |-> FALSE,
   logger |-> g.logger, creds |-> g.creds, user |-> g.user, pool |-> g.pool]

evaluateOptions(g) ==
  [Optional(g) EXCEPT !.timeout = Timeout(g), !.retryTimes = Parsed(g.retry),
                      !.secure = g.secure, !.metrics = g.metrics]

If(condition, link) == IF condition THEN <<link>> ELSE <<>>

\* Mutants of UnaryChain: the deadline is renewed by each attempt; the logger is
\* inside of the retries.
UnaryChainRetryFirst(o) ==
  If(o.user, "user") \o If(o.logger, "logger") \o If(o.retryTimes > 0, "retry")
  \o If(o.timeout > 0, "timeout") \o If(o.metrics, "metrics") \o <<"tracer", "wire">>

UnaryChainLogLast(o) ==
  If(o.user, "user") \o If(o.timeout > 0, "timeout") \o If(o.retryTimes > 0, "retry")
  \o If(o.logger, "logger") \o If(o.metrics, "metrics") \o <<"tracer", "wire">>

\* newClientConn: interceptors in the order of the dial options, those of the user first.
UnaryChain(o) ==
  If(o.user, "user") \o If(o.logger, "logger") \o If(o.timeout > 0, "timeout")
  \o If(o.retryTimes > 0, "retry") \o If(o.metrics, "metrics") \o <<"tracer", "wire">>

StreamChain(o) ==
  If(o.user, "user") \o If(o.logger, "logger") \o If(o.retryTimes > 0, "retry")
  \o If(o.metrics, "metrics") \o <<"tracer", "wire">>

\* A connection of the pool has none of it.
Chain(o, kind) ==
  IF o.pool THEN <<"wire">> ELSE IF kind = "unary" THEN UnaryChain(o) ELSE StreamChain(o)

\* Without secure=false the connection is made with insecure credentials, and a
\* dial without any credentials fails.
DialRefused(o) == ~o.secure /\ ~o.creds

NoOptions == [timeout |-> 0, retryTimes |-> 0, secure |-> FALSE, metrics |-> FALSE,
              logger |-> FALSE, creds |-> FALSE, user |-> FALSE, pool |-> FALSE]

\* left: what is left until the deadline; wait: of the backoff.  The number of
\* lines the logger wrote and the time a call took are history.
NoCall == [stage |-> "idle", kind |-> "unary", method |-> "api", at |-> 0, tries |-> 0, code |-> OK,
           left |-> NoDeadline, wait |-> 0, cancelled |-> FALSE, logged |-> 0,
           elapsed |-> 0]

ClientInit ==
  /\ conn = [c \in Caller |-> [state |-> "none", given |-> {}, opt |-> NoOptions]]
  /\ call = [c \in Caller |-> NoCall]

\* With a pool, the connection is taken by Get, which may fail, and never put back;
\* graceful closes only what NewClient dialled itself.
NewClient(c, g) ==
  LET o == evaluateOptions(g)
      states == IF o.pool THEN {"pooled", "refused"}
                ELSE IF DialRefused(o) THEN {"refused"} ELSE {"open"}
  IN  /\ conn[c].state = "none"
      /\ \E state \in states :
           conn' = [conn EXCEPT ![c] = [state |-> state, given |-> {g}, opt |-> o]]
      /\ UNCHANGED call

\* graceful runs the closers.
CloseConns ==
  /\ \E c \in Caller : conn[c].state = "open"
  /\ conn' = [c \in Caller |-> IF conn[c].state = "open"
                               THEN [conn[c] EXCEPT !.state = "closed"] ELSE conn[c]]
  /\ UNCHANGED call

-------------------------------------------------------------------------------
ChainOf(c) == Chain(conn[c].opt, call[c].kind)
At(c, stage, link) ==
  call[c].stage = stage /\ call[c].at > 0 /\ ChainOf(c)[call[c].at] = link

Becomes(c, r) == call' = [call EXCEPT ![c] = r] /\ UNCHANGED conn
Down(r) == [r EXCEPT !.stage = "down", !.at = @ + 1]
Up(r, code) == [r EXCEPT !.stage = "up", !.at = @ - 1, !.code = code]

ContextDone(r) == r.cancelled \/ r.left = 0
ContextCode(r) == IF r.left = 0 THEN DeadlineExceeded ELSE Canceled

Call(c, kind, method) ==
  /\ conn[c].state \in {"open", "pooled"}
  /\ call[c].stage = "idle"
  /\ Becomes(c, Down([call[c] EXCEPT !.kind = kind, !.method = method]))

\* The caller's context is done.
Cancel(c) ==
  /\ call[c].stage \in {"sent", "backoff"}
  /\ ~call[c].cancelled
  /\ Becomes(c, [call[c] EXCEPT !.cancelled = TRUE])

WalkDown(c) ==
  /\ \E link \in {"user", "logger", "metrics"} : At(c, "down", link)
  /\ Becomes(c, Down(call[c]))

Sooner(left, timeout) == IF left = NoDeadline \/ timeout < left THEN timeout ELSE left

StartTimer(c) ==
  /\ At(c, "down", "timeout")
  /\ Becomes(c, Down([call[c] EXCEPT !.left = Sooner(@, conn[c].opt.timeout)]))

\* Retries are refused for a stream the client sends on.
EnterRetry(c) ==
  /\ At(c, "down", "retry")
  /\ \/ call[c].kind = "unary" /\ Becomes(c, Down(call[c]))
     \/ call[c].kind # "unary" /\ Becomes(c, Up(call[c], Unimplemented))

\* A span that cannot be injected fails the attempt.
Trace(c) ==
  /\ At(c, "down", "tracer")
  /\ Becomes(c, Down(call[c])) \/ Becomes(c, Up(call[c], Unknown))

MaySend(c) == conn[c].state # "closed" /\ ~ContextDone(call[c])

Send(c) ==
  /\ At(c, "down", "wire")
  /\ \/ MaySend(c) /\ Becomes(c, [call[c] EXCEPT !.stage = "sent", !.tries = @ + 1])
     \/ ~MaySend(c) /\ Becomes(c, Up(call[c], IF ContextDone(call[c])
                                              THEN ContextCode(call[c]) ELSE Canceled))

\* An answer, or what grpc makes of a connection that broke.
AttemptEnds(c, code) ==
  /\ call[c].stage = "sent"
  /\ Becomes(c, Up(call[c], code))

AttemptExpires(c) ==
  /\ call[c].stage = "sent" /\ ContextDone(call[c])
  /\ Becomes(c, Up(call[c], ContextCode(call[c])))

-------------------------------------------------------------------------------
WalkUp(c) ==
  /\ \E link \in {"user", "metrics"} : At(c, "up", link)
  /\ Becomes(c, Up(call[c], call[c].code))

\* Mutant of Traced: the tracer drops the error after it has recorded it.
TracedNil(code) == OK

Traced(code) == code

TraceEnds(c) ==
  /\ At(c, "up", "tracer")
  /\ Becomes(c, Up(call[c], Traced(call[c].code)))

LogFinished(c) ==
  /\ At(c, "up", "logger")
  /\ Becomes(c, Up([call[c] EXCEPT !.logged = @ + 1], call[c].code))

StopTimer(c) ==
  /\ At(c, "up", "timeout")
  /\ Becomes(c, Up([call[c] EXCEPT !.left = NoDeadline], call[c].code))

\* Mutant of Retriable: a call whose handling failed is made again.
RetriableAny(code) == code \in {Unavailable, Internal, Aborted}

\* WithCodes(codes.Unavailable)
Retriable(code) == code = Unavailable

\* Mutant of MayRetry: the first attempt is not counted.
MayRetryLate(c) == call[c].tries <= conn[c].opt.retryTimes

\* WithMax(retryTimes) counts attempts.
MayRetry(c) == call[c].tries < conn[c].opt.retryTimes

Retry(c) ==
  /\ At(c, "up", "retry")
  /\ \/ /\ Retriable(call[c].code) /\ MayRetry(c)
        /\ Becomes(c, [call[c] EXCEPT !.stage = "backoff", !.wait = Backoff])
     \/ /\ ~(Retriable(call[c].code) /\ MayRetry(c))
        /\ Becomes(c, Up(call[c], call[c].code))

BackoffEnds(c) ==
  /\ call[c].stage = "backoff"
  /\ \/ call[c].wait = 0 /\ Becomes(c, Down(call[c]))
     \/ ContextDone(call[c]) /\ Becomes(c, Up([call[c] EXCEPT !.wait = 0],
                                              ContextCode(call[c])))

Return(c) ==
  /\ call[c].stage = "up" /\ call[c].at = 0
  /\ Becomes(c, [call[c] EXCEPT !.stage = "done"])

\* What a goroutine that makes a call does next.
CallerStep(c) ==
  \/ WalkDown(c) \/ StartTimer(c) \/ EnterRetry(c) \/ Trace(c) \/ Send(c)
  \/ AttemptExpires(c) \/ WalkUp(c) \/ TraceEnds(c) \/ LogFinished(c) \/ StopTimer(c) \/ Retry(c)
  \/ BackoffEnds(c) \/ Return(c)

-------------------------------------------------------------------------------
Waiting(r) == r.stage \in {"sent", "backoff"}

\* Something is due before time may pass.
Due(r) == \/ r.stage \in {"down", "up"}
          \/ Waiting(r) /\ ContextDone(r)
          \/ r.stage = "backoff" /\ r.wait = 0

RunDown(timer) == IF timer > 0 THEN timer - 1 ELSE timer

\* Time matters only while a timer runs.
Tick ==
  /\ \E c \in Caller : Waiting(call[c]) /\ (call[c].left > 0 \/ call[c].wait > 0)
  /\ \A c \in Caller : ~Due(call[c])
  /\ call' = [c \in Caller |->
       IF ~Waiting(call[c]) THEN call[c]
       ELSE [call[c] EXCEPT !.left = RunDown(@), !.wait = RunDown(@),
                            !.elapsed = IF @ < MaxElapsed THEN @ + 1 ELSE @]]
  /\ UNCHANGED conn

-------------------------------------------------------------------------------
CallRecords == [stage : {"idle", "down", "sent", "up", "backoff", "done"}, kind : Kind,
                method : Method, at : Nat, tries : Nat, code : Nat, left : Nat \cup {NoDeadline},
                wait : 0 .. Backoff, cancelled : BOOLEAN, logged : Nat,
                elapsed : 0 .. MaxElapsed]

\* A call stands at a link of its chain, and it has made no more attempts than the
\* retry link allows, one without it.
ClientTypeOK ==
  \A c \in Caller :
    /\ conn[c].state \in {"none", "refused", "open", "pooled", "closed"}
    /\ call[c] \in CallRecords
    /\ call[c].at <= Len(ChainOf(c))
    /\ call[c].tries <= (IF conn[c].opt.retryTimes > 1 /\ ~conn[c].opt.pool
                         THEN conn[c].opt.retryTimes ELSE 1)
===============================================================================
