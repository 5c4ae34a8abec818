------------------------------ MODULE LogReporter ------------------------------
(***************************************************************************)
(* The reporter of interceptor/logging: one per call that a server         *)
(* handles.  go-grpc-middleware calls it back when a message was received, *)
(* when one was sent, and when the call is over.  The journal has the      *)
(* lines of this reporter: for unary calls fullOptions gives the same      *)
(* logger to an interceptor of that library as well, whose lines are not   *)
(* this repository's and are left out.                                     *)
(*                                                                         *)
(* PostMsgReceive and PostMsgSend keep what they learn in c.ctx and        *)
(* c.startCallLogged, without a lock.  The handler of a stream may receive *)
(* in one goroutine and send in another, and leave one of them behind when *)
(* it returns.  Each callback is therefore two steps, its test of          *)
(* startCallLogged and its writes, and what a write starts from is either  *)
(* value that a racing read may have seen.                                 *)
(*                                                                         *)
(* Contents of messages, durations and the extractors' fields are left     *)
(* out: c.ctx is the set of the fields it has beyond the common ones.      *)
(***************************************************************************)
EXTENDS ErrorCodes, Sequences, FiniteSets

CONSTANTS Execution,  \* calls a server may handle
          Decider     \* deciders: records of the event and the contents they choose

Direction == {"receive", "send"}

\* The events in their order: the first is what an empty PayloadDecision holds.
Event == {"StartCall", "FinishCall"}

ASSUME ReporterAssumption ==
  Decider \subseteq [events : Event, onError : Event, request : BOOLEAN, response : BOOLEAN]

\* A callback's err is OK for none, a status, or an error that is none: io.EOF, or the
\* context.Canceled or context.DeadlineExceeded of a handler's context, as it is.
EOF == -1
RawCanceled == -2
RawDeadline == -3
ContextErrors == {RawCanceled, RawDeadline}
Error == Nat \cup {EOF} \cup ContextErrors

\* status.FromError: an error that is no status has the code Unknown.
CodeOf(err) == IF err < 0 THEN Unknown ELSE err

VARIABLES
  reporter,  \* each execution's reporter
  journal    \* the lines each execution's reporter wrote

reporterVars == <<reporter, journal>>

-------------------------------------------------------------------------------
\* DefaultLoggingDeciderMethod; PayloadDecision{}, whose event is the first one.
DefaultDecider == [events |-> "FinishCall", onError |-> "FinishCall",
                   request |-> FALSE, response |-> FALSE]
EmptyDecision == [event |-> "StartCall", request |-> FALSE, response |-> FALSE]

\* Mutant of shouldLog: a call of the health service is decided upon like any other.
shouldLogAll(r, err) ==
  [event |-> IF err = OK THEN r.decider.events ELSE r.decider.onError,
   request |-> r.decider.request, response |-> r.decider.response]

shouldLog(r, err) ==
  IF r.method = "health" THEN EmptyDecision
  ELSE [event |-> IF err = OK THEN r.decider.events ELSE r.decider.onError,
        request |-> r.decider.request, response |-> r.decider.response]

\* ctx: the contents and the status that were injected into c.ctx (OK: none).
\* saw and err: what a callback read and was given.  met is history: callbacks of
\* both directions ran at once.
NoContext == [contents |-> {}, status |-> OK]
Idle == [busy |-> FALSE, saw |-> NoContext, err |-> OK]

NewReporter(method, decider) ==
  [method |-> method, decider |-> decider, startCallLogged |-> FALSE, ctx |-> NoContext,
   callback |-> [d \in Direction |-> Idle], met |-> FALSE]

ReporterInit ==
  /\ reporter = [x \in Execution |-> NewReporter("api", DefaultDecider)]
  /\ journal = [x \in Execution |-> <<>>]

\* ServerReporter
Begin(x, method, decider) ==
  /\ reporter' = [reporter EXCEPT ![x] = NewReporter(method, decider)]
  /\ UNCHANGED journal

Busy(x, d) == reporter[x].callback[d].busy

\* PostMsgReceive or PostMsgSend is called: it returns at once when a line was
\* written already.
PostMsg(x, d, err) ==
  LET r == reporter[x]
  IN  /\ ~Busy(x, d)
      /\ reporter' = [reporter EXCEPT ![x] =
           IF r.startCallLogged THEN r
           ELSE [r EXCEPT !.callback[d] = [busy |-> TRUE, saw |-> r.ctx, err |-> err],
                          !.met = @ \/ \E other \in Direction : Busy(x, other)]]
      /\ UNCHANGED journal

\* logMessage
Line(by, err, ctx) ==
  [by |-> by, status |-> ctx.status, contents |-> ctx.contents,
   level |-> IF err = OK THEN "info" ELSE DefaultCodeToLevel(CodeOf(err))]
WithStatus(ctx, err) == IF err = OK THEN ctx ELSE [ctx EXCEPT !.status = CodeOf(err)]

Contents(d, err, decision) ==
  IF err = OK /\ (IF d = "receive" THEN decision.request ELSE decision.response)
  THEN {d} ELSE {}

\* Mutant of Started: the flag is not set.
StartedNot(r) == r.startCallLogged

Started(r) == TRUE

\* The rest of PostMsgReceive or PostMsgSend.
PostMsgEnds(x, d) ==
  LET r == reporter[x]
      err == r.callback[d].err
      decision == shouldLog(r, err)
      idle == [r EXCEPT !.callback[d] = Idle]
  IN  /\ Busy(x, d)
      /\ \E base \in {r.callback[d].saw, r.ctx} :
           LET ctx == [base EXCEPT !.contents = @ \cup Contents(d, err, decision)]
               logged == WithStatus(ctx, err)
           IN  IF decision.event = "StartCall"
               THEN /\ reporter' = [reporter EXCEPT ![x] =
                         [idle EXCEPT !.startCallLogged = Started(r),
                                      !.ctx = IF logged = base THEN r.ctx ELSE logged]]
                    /\ journal' = [journal EXCEPT ![x] = Append(@, Line(d, err, logged))]
               ELSE /\ reporter' = [reporter EXCEPT ![x] =
                         [idle EXCEPT !.ctx = IF ctx = base THEN r.ctx ELSE ctx]]
                    /\ UNCHANGED journal

\* Mutant of Final: the end of a stream is logged as an error.
FinalEOF(err) == err

\* errors.Is(err, io.EOF)
Final(err) == IF err = EOF THEN OK ELSE err

PostCall(x, err) ==
  LET r == reporter[x]
      logged == WithStatus(r.ctx, Final(err))
  IN  IF shouldLog(r, err).event = "FinishCall"
      THEN /\ reporter' = [reporter EXCEPT ![x].ctx = logged]
           /\ journal' = [journal EXCEPT ![x] = Append(@, Line("call", Final(err), logged))]
      ELSE UNCHANGED reporterVars

-------------------------------------------------------------------------------
Contexts == [contents : SUBSET Direction, status : Nat]

ReporterTypeOK ==
  \A x \in Execution :
    /\ reporter[x].method \in {"api", "health"}
    /\ reporter[x].startCallLogged \in BOOLEAN /\ reporter[x].met \in BOOLEAN
    /\ reporter[x].ctx \in Contexts
    /\ reporter[x].callback \in [Direction -> [busy : BOOLEAN, saw : Contexts,
                                               err : Error]]
    /\ \A i \in DOMAIN journal[x] :
         journal[x][i] \in [by : Direction \cup {"call"}, status : Nat, level : Level,
                            contents : SUBSET Direction]
===============================================================================
