------------------------------- MODULE CallPath -------------------------------
(***************************************************************************)
(* A gRPC call from end to end: a client of package client, the network,   *)
(* and a server's handling under the logging interceptor.                  *)
(*                                                                         *)
(* Each attempt may reach the server or not, at once or when the client    *)
(* has long given up on it, and its answer may be lost.  The server        *)
(* handles every attempt that reaches it, with a reporter of its own.  The *)
(* guards of the server's chain are in the outcome of the handling: they   *)
(* stand behind the logging interceptor.                                   *)
(***************************************************************************)
EXTENDS GrpcClient, LogReporter

CONSTANTS Outcome,      \* what a handler may return: a code, io.EOF, a context's error
          MaxMessages   \* bound: callbacks for messages, per direction of a stream

ASSUME PathAssumption ==
  /\ IsFiniteSet({x[2] : x \in Execution})
  /\ Execution = Caller \X (1 .. Cardinality({x[2] : x \in Execution}))
  /\ \A g \in Given : \A n \in g.retry \cup {1} : n <= Cardinality({x[2] : x \in Execution})
  /\ Outcome \subseteq Error /\ MaxMessages \in Nat

VARIABLES
  decider,   \* the decider the server's interceptor was given
  exec,      \* what the server does for each attempt
  broken     \* history: attempts that ended because the connection broke

vars == <<conn, call, reporter, journal, decider, exec, broken>>
serverVars == <<reporter, journal, decider, exec>>

-------------------------------------------------------------------------------
\* calls: how many callbacks of a direction there were.
NotArrived == [stage |-> "none", kind |-> "unary", outcome |-> OK,
               calls |-> [d \in Direction |-> 0]]

Init == /\ ClientInit /\ ReporterInit
        /\ decider \in Decider
        /\ exec = [x \in Execution |-> NotArrived]
        /\ broken = {}

Attempt(c) == <<c, call[c].tries>>

ClientStep(c) == CallerStep(c) /\ UNCHANGED <<serverVars, broken>>

\* A client makes its connection, calls, and may give up.
ClientBegins(c) ==
  /\ \/ \E g \in Given : NewClient(c, g)
     \/ \E kind \in Kind, method \in Method :
          /\ method = "health" => kind = "unary"
          /\ Call(c, kind, method)
     \/ Cancel(c)
  /\ UNCHANGED <<serverVars, broken>>

Exit == CloseConns /\ UNCHANGED <<serverVars, broken>>

TimePasses == Tick /\ UNCHANGED <<serverVars, broken>>

\* The connection breaks, or there is none: whatever the server does goes on.
Break(c) ==
  /\ AttemptEnds(c, Unavailable)
  /\ broken' = broken \cup {Attempt(c)}
  /\ UNCHANGED serverVars

\* What the server makes of a handler's error: status.FromError if it is a status, else
\* status.FromContextError, to which the errors of a context have codes of their own.
SentCode(err) == CASE err = RawCanceled -> Canceled
                   [] err = RawDeadline -> DeadlineExceeded
                   [] OTHER             -> CodeOf(err)

Answer(c) ==
  /\ call[c].tries > 0 /\ exec[Attempt(c)].stage = "over"
  /\ AttemptEnds(c, SentCode(exec[Attempt(c)].outcome))
  /\ UNCHANGED <<serverVars, broken>>

-------------------------------------------------------------------------------
Stage(x, stage) == exec' = [exec EXCEPT ![x].stage = stage]
ServerOnly == UNCHANGED <<conn, call, decider, broken>>

\* An attempt arrives, and the reporter is made for it.
Arrive(x) ==
  LET r == call[x[1]]
  IN  /\ x[2] <= r.tries
      /\ exec[x].stage = "none"
      /\ exec' = [exec EXCEPT ![x].stage = IF r.kind = "unary" THEN "arrived" ELSE "handling",
                              ![x].kind = r.kind]
      /\ Begin(x, r.method, decider)
      /\ ServerOnly

\* A unary call: PostMsgReceive, the handler, PostMsgSend, PostCall.
Receives(x) ==
  /\ exec[x].stage = "arrived" /\ Stage(x, "receiving")
  /\ PostMsg(x, "receive", OK)
  /\ ServerOnly

Received(x) ==
  /\ exec[x].stage = "receiving" /\ Stage(x, "handling")
  /\ PostMsgEnds(x, "receive")
  /\ ServerOnly

Sends(x) ==
  /\ exec[x].stage = "handling" /\ exec[x].kind = "unary"
  /\ \E out \in Outcome :
       /\ exec' = [exec EXCEPT ![x].stage = "sending", ![x].outcome = out]
       /\ PostMsg(x, "send", out)
  /\ ServerOnly

Sent(x) ==
  /\ exec[x].stage = "sending" /\ Stage(x, "closing")
  /\ IF Busy(x, "send") THEN PostMsgEnds(x, "send") ELSE UNCHANGED reporterVars
  /\ ServerOnly

\* A stream: its handler receives and sends in any order and at once, and may
\* return, or have returned, while one of both goes on.
StreamErrors(x, d) ==
  IF exec[x].stage = "over" THEN {Canceled}
  ELSE IF d = "receive" THEN {OK, EOF, Canceled} ELSE {OK, Unavailable}

StreamCallback(x, d) ==
  /\ exec[x].kind # "unary" /\ exec[x].stage \in {"handling", "over"}
  /\ exec[x].calls[d] < MaxMessages
  /\ \E err \in StreamErrors(x, d) : PostMsg(x, d, err)
  /\ exec' = [exec EXCEPT ![x].calls[d] = @ + 1]
  /\ ServerOnly

StreamCallbackEnds(x, d) ==
  /\ exec[x].kind # "unary"
  /\ PostMsgEnds(x, d)
  /\ UNCHANGED exec /\ ServerOnly

StreamReturns(x) ==
  /\ exec[x].kind # "unary" /\ exec[x].stage = "handling"
  /\ \E out \in Outcome :
       exec' = [exec EXCEPT ![x].stage = "closing", ![x].outcome = out]
  /\ UNCHANGED reporterVars /\ ServerOnly

Closes(x) ==
  /\ exec[x].stage = "closing" /\ Stage(x, "over")
  /\ PostCall(x, exec[x].outcome)
  /\ ServerOnly

ServerStep(x) ==
  \/ Receives(x) \/ Received(x) \/ Sent(x) \/ Closes(x)
  \/ \E d \in Direction : StreamCallbackEnds(x, d)

-------------------------------------------------------------------------------
Next ==
  \/ \E c \in Caller : ClientBegins(c) \/ ClientStep(c) \/ Break(c) \/ Answer(c)
  \/ Exit \/ TimePasses
  \/ \E x \in Execution :
       \/ Arrive(x) \/ Sends(x) \/ StreamReturns(x) \/ ServerStep(x)
       \/ \E d \in Direction : StreamCallback(x, d)

\* Goroutines run on and timers run out; no answer is promised.
Fairness ==
  /\ \A c \in Caller : WF_vars(ClientStep(c))
  /\ \A x \in Execution : WF_vars(ServerStep(x))
  /\ WF_vars(TimePasses)

Spec == Init /\ [][Next]_vars /\ Fairness

-------------------------------------------------------------------------------
\* Every variable has its type; a call is somewhere on its chain and never makes
\* more attempts than its options allow (client/grpc.go).
TypeOK ==
  /\ ClientTypeOK /\ ReporterTypeOK
  /\ decider \in Decider
  /\ exec \in [Execution -> [stage : {"none", "arrived", "receiving", "handling", "sending",
                                      "closing", "over"},
                             kind : Kind, outcome : Outcome \cup {OK},
                             calls : [Direction -> 0 .. MaxMessages]]]
  /\ broken \subseteq Execution

\* What the query of a URI promises a unary call; a connection of the pool ignores it.
PromisedTimeouts(c) ==
  {n \in UNION {g.timeout : g \in {h \in conn[c].given : ~h.pool}} :
     n > 0 /\ call[c].kind = "unary"}

\* The timeout covers a unary call with all its attempts and the waiting between
\* them (the order of the interceptors in newClientConn).
DeadlineHolds ==
  \A c \in Caller : \A n \in PromisedTimeouts(c) : call[c].elapsed <= n

\* However often it was tried, a call is one line in the log of a client that has a
\* logger and none of another's (grpc.go: the logger is outside of the retries).
ClientLoggedOnce ==
  \A c \in Caller : \A g \in conn[c].given :
    call[c].stage = "done" => call[c].logged = IF g.logger /\ ~g.pool THEN 1 ELSE 0

\* A call that succeeded was handled with success by its last attempt, and the
\* answer of that attempt was not lost (the links pass the error on as it is).
NilMeansHandled ==
  \A c \in Caller :
    call[c].stage = "done" /\ call[c].code = OK =>
      /\ call[c].tries > 0
      /\ exec[Attempt(c)].stage = "over" /\ exec[Attempt(c)].outcome = OK
      /\ Attempt(c) \notin broken

\* A call is tried again only if its attempt before was answered Unavailable, or
\* ended without an answer while nobody knows what the server made of it; and never
\* when its context is done or its connection closed (WithCodes, WithBackoff).
RetriedWhenUnavailable ==
  [][\A c \in Caller :
       call'[c].tries > call[c].tries =>
         /\ ~ContextDone(call[c]) /\ conn[c].state \in {"open", "pooled"}
         /\ call[c].tries > 0 =>
              \/ Attempt(c) \in broken
              \/ exec[Attempt(c)].stage = "over" /\ exec[Attempt(c)].outcome = Unavailable]_vars

\* What the decider asks to be logged at the end, and whether it can be: a handler's
\* own status, unless a line before recorded another or the handler returned io.EOF.
AsksFinish(x) ==
  /\ reporter[x].method # "health"
  /\ (IF exec[x].outcome = OK THEN decider.events ELSE decider.onError) = "FinishCall"

LinesBy(x, writers) == {i \in 1 .. Len(journal[x]) : journal[x][i].by \in writers}

\* A call the server handled is one finished line of this reporter, with the status
\* its client is sent, if the decider asks for it and it is none of the health
\* service's; else it is none (PostCall).  A context's error, which the client gets as
\* Canceled or DeadlineExceeded, is logged as Unknown; io.EOF, which the client gets as
\* Unknown, is logged as success, and then a status recorded by an earlier line stays.
\* The line has the contents of a unary call that were asked for and that there were.
LoggedAsAnswered ==
  \A x \in Execution :
    LET finished == LinesBy(x, {"call"})
        earlier == {journal[x][i].status : i \in LinesBy(x, Direction)} \ {OK}
        status == IF exec[x].outcome \in {OK, EOF} THEN {OK} \cup earlier
                  ELSE IF exec[x].outcome \in ContextErrors THEN {Unknown}
                  ELSE {SentCode(exec[x].outcome)}
        contents == {d \in Direction : \/ d = "receive" /\ decider.request
                                       \/ d = "send" /\ decider.response /\ exec[x].outcome = OK}
    IN  IF exec[x].stage = "over" /\ AsksFinish(x)
        THEN \E i \in finished :
               /\ finished = {i} /\ journal[x][i].status \in status
               /\ exec[x].kind = "unary" /\ earlier = {} => journal[x][i].contents = contents
        ELSE finished = {}

\* A call has one started line of this reporter at most, whatever the
\* number of its messages, unless its callbacks for both directions ran at once; and one
\* of the health service has exactly one as soon as its request is read (startCallLogged,
\* shouldLog).
StartedOnce ==
  \A x \in Execution :
    LET started == LinesBy(x, Direction)
    IN  /\ ~reporter[x].met => Cardinality(started) <= 1
        /\ reporter[x].method = "health" /\ exec[x].stage \in {"handling", "sending", "over"}
             => Cardinality(started) = 1

\* A unary call whose URI names a timeout returns, though no server need answer.
CallReturns ==
  \A c \in Caller :
    (PromisedTimeouts(c) # {} /\ call[c].stage # "idle") ~> call[c].stage = "done"
===============================================================================
