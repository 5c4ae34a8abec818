------------------------------- MODULE Pipeline -------------------------------
(***************************************************************************)
(* What a request passes between the transport and the service: the chain  *)
(* of HTTP middlewares around the gateway's mux (server/mux, middleware)   *)
(* and the chain of gRPC interceptors (server/options.go, interceptor).    *)
(*                                                                         *)
(* NewServer builds both chains of a server.  The gRPC chain comes from    *)
(* its own options; the mux chain starts from defaultMuxOption, which the  *)
(* server built before it has replaced by its own.                         *)
(*                                                                         *)
(* A chain is a sequence of links, a request walks along it, and what a    *)
(* link does after the next one returns is its unwinding: only the two     *)
(* that recover do anything there, and a middleware of the user's is       *)
(* modelled up to its call of the next one.  A body is the code in its     *)
(* envelope.                                                               *)
(* Tags, spans, metrics, log lines and headers other than the status are   *)
(* left out: a link that only produces them, or that does not look at a    *)
(* request of this kind, is passed in the step before it.                  *)
(***************************************************************************)
EXTENDS Integers, Sequences, FiniteSets

CONSTANTS Client,       \* each makes one request after another
          Options,      \* options a server is built with: [limiter, auth, user : BOOLEAN]
          Requests,     \* Requests[c]: what client c asks for: [via, path, method]
          MaxServers,   \* bound: servers in the process
          Quota,        \* tokens of each limiter, which are not refilled
          MaxWrites     \* bound: writes of user code for one request

ASSUME PipelineAssumption ==
  /\ Options \subseteq [limiter : BOOLEAN, auth : BOOLEAN, user : BOOLEAN]
  /\ Requests \in [Client -> SUBSET [via : {"mux", "unary", "stream"},
                                     path : {"api", "health"}, method : {"GET", "OPTIONS"}]]
  /\ MaxServers \in Nat \ {0} /\ Quota \in Nat /\ MaxWrites \in Nat \ {0}

Nobody == 0
Owner == 1 .. MaxServers
Refusal == {"Aborted", "ResourceExhausted", "PermissionDenied", "Unauthenticated",
            "InvalidArgument", "Unknown"}
Code == {"OK", "Internal", "NotFound"} \cup Refusal

VARIABLES
  default,      \* defaultMuxOption: its limiter, its authFunc, its middleWares
  servers,      \* the servers that were built: their options and chains
  recoverPanic, \* middleware.recoverPanic
  tokens,       \* what is left in each server's limiter
  req,          \* the request of each client
  fate          \* "alive", or what the process died of

vars == <<default, servers, recoverPanic, tokens, req, fate>>

-------------------------------------------------------------------------------
Link(kind, owner) == [kind |-> kind, owner |-> owner]
If(condition, link) == IF condition THEN <<link>> ELSE <<>>

\* Mutant of Chosen: options are applied before the defaults, not after.
ChosenFirst(set, inherited, self) ==
  IF inherited # Nobody THEN inherited ELSE IF set THEN self ELSE Nobody

\* evaluateOptions: a copy of the default, changed by the options that are given.
Chosen(set, inherited, self) == IF set THEN self ELSE inherited

\* fullOptions of package mux: what becomes the next default.
MuxOption(opts, self) ==
  LET limiter == Chosen(opts.limiter, default.limiter, self)
      auth == Chosen(opts.auth, default.auth, self)
  IN  [limiter |-> limiter,
       auth |-> auth,
       middleWares |-> default.middleWares
                       \o If(opts.user, Link("user", self))
                       \o <<Link("tracer", self)>>
                       \o If(limiter # Nobody, Link("limit", limiter))
                       \o If(auth # Nobody, Link("auth", auth))]

MuxChain(option, self) ==
  <<Link("recover", self), Link("health", self)>>
  \o option.middleWares
  \o <<Link("handler", self)>>

\* Mutant of Innermost: the recovery interceptor is not added.
InnermostBare(self) == <<Link("handler", self)>>

Innermost(self) == <<Link("recover", self), Link("handler", self)>>

GrpcChain(opts, self) ==
  <<Link("validate", self), Link("tracer", self)>>
  \o If(opts.limiter, Link("limit", self))
  \o If(opts.auth, Link("auth", self))
  \o If(opts.user, Link("user", self))
  \o Innermost(self)

-------------------------------------------------------------------------------
\* via: "mux", "unary" or "stream"; stage: what happens to it at link "at";
\* status: ResponseWriter.Status; body: the envelopes written, or the gRPC status.
\* judged (the guards that let it through), wrote (how often user code on the mux, a
\* middleware or the handler, wrote) and failed are history.
NoRequest == [via |-> "none", srv |-> Nobody, path |-> "api", method |-> "GET", at |-> 0,
              stage |-> "idle", status |-> "OK", body |-> <<>>, judged |-> {},
              wrote |-> 0, failed |-> FALSE]

Init == /\ default = [limiter |-> Nobody, auth |-> Nobody, middleWares |-> <<>>]
        /\ servers = <<>>
        /\ recoverPanic = TRUE
        /\ tokens = [o \in Owner |-> Quota]
        /\ req = [c \in Client |-> NoRequest]
        /\ fate = "alive"

NewServer(opts) ==
  LET self == Len(servers) + 1
      option == MuxOption(opts, self)
  IN  /\ fate = "alive"
      /\ self \in Owner
      /\ servers' = Append(servers, [opts |-> opts, mux |-> MuxChain(option, self),
                                     grpc |-> GrpcChain(opts, self)])
      /\ default' = option
      /\ UNCHANGED <<recoverPanic, tokens, req, fate>>

DisableRecover ==
  /\ fate = "alive"
  /\ recoverPanic' = FALSE
  /\ UNCHANGED <<default, servers, tokens, req, fate>>

Chain(r) == IF r.via = "mux" THEN servers[r.srv].mux ELSE servers[r.srv].grpc
Current(r) == Chain(r)[r.at]
At(c, kind) == fate = "alive" /\ req[c].stage = "walking" /\ Current(req[c]).kind = kind
Keep == UNCHANGED <<default, servers, recoverPanic, fate>>

Preflight(r) == r.via = "mux" /\ r.method = "OPTIONS"

\* The links that just call the next one: the guards of the mux for a preflight
\* request, authFunc for a service with AuthFuncOverride, which health is.
Transparent(link, r) ==
  \/ link.kind = "recover"
  \/ link.kind = "health" /\ r.path # "health"
  \/ link.kind = "validate" /\ r.via = "stream"
  \/ link.kind = "tracer" /\ r.via = "mux"
  \/ link.kind = "limit" /\ Preflight(r)
  \/ link.kind = "auth" /\ (Preflight(r) \/ (r.via # "mux" /\ r.path = "health"))

\* The next link from i on that looks at the request.
Following(r, i) ==
  CHOOSE j \in i .. Len(Chain(r)) : /\ ~Transparent(Chain(r)[j], r)
                                    /\ \A k \in i .. j - 1 : Transparent(Chain(r)[k], r)

\* Mutant of FirstStatus: the writer is created without a status.
FirstStatusNil == "none"

FirstStatus == "OK"

Arrive(c, q, s) ==
  LET r == [NoRequest EXCEPT !.via = q.via, !.srv = s, !.path = q.path, !.method = q.method,
                             !.stage = "walking", !.status = FirstStatus]
  IN  /\ fate = "alive"
      /\ req[c].stage = "idle"
      /\ req' = [req EXCEPT ![c] = [r EXCEPT !.at = Following(r, 1)]]
      /\ UNCHANGED tokens /\ Keep

-------------------------------------------------------------------------------
\* The link calls the next one.
Pass(c) == req' = [req EXCEPT ![c].at = Following(req[c], @ + 1),
                              ![c].judged = @ \cup {Current(req[c])}]

\* One envelope, or the status of a gRPC call, and the link returns.  A mux writer
\* whose write fails falls back to itself.
Answer(c, code, failed) ==
  \/ req' = [req EXCEPT ![c].status = code, ![c].body = Append(@, code), ![c].stage = "done",
                        ![c].failed = failed]
  \/ /\ req[c].via = "mux"
     /\ req' = [req EXCEPT ![c].status = code, ![c].stage = "recursing"]

\* Mutant of StatusOnError: the writer's status is not replaced.
StatusOnErrorKept(r, code) == r.status

StatusOnError(r, code) == code

\* WriteHTTPErrorResponse and return; on a gRPC chain, return with an error.
Refuse(c, code) == Answer(c, StatusOnError(req[c], code), TRUE)

\* User code returns: on the mux with or without having written, net/http sends what
\* there is; on a gRPC chain with a response.
Returns(c) == IF req[c].via = "mux" THEN req' = [req EXCEPT ![c].stage = "done"]
                                    ELSE Answer(c, "OK", FALSE)

\* HealthMiddleware answers on the bare writer: a failed write is ignored.
HealthAnswers(c) ==
  /\ At(c, "health")
  /\ req[c].path = "health"
  /\ req' = [req EXCEPT ![c].body = Append(@, "OK"), ![c].stage = "done"]
  /\ UNCHANGED tokens /\ Keep

\* A unary request is validated on its way, a stream's messages when received.
Validate(c) ==
  /\ At(c, "validate")
  /\ Pass(c) \/ Refuse(c, "InvalidArgument")
  /\ UNCHANGED tokens /\ Keep

\* A gRPC call whose span context cannot be read is refused; a request is not.
Trace(c) ==
  /\ At(c, "tracer")
  /\ Pass(c) \/ Refuse(c, "Unknown")
  /\ UNCHANGED tokens /\ Keep

\* Match finds that there is no limit, or a limit that blocks.
LimitDecides(c) ==
  /\ At(c, "limit")
  /\ Pass(c) \/ Refuse(c, "Aborted")
  /\ UNCHANGED tokens /\ Keep

\* Match finds a quota, and RateFn looks for a token.
LimitAsks(c) ==
  LET o == Current(req[c]).owner
  IN  /\ At(c, "limit")
      /\ IF tokens[o] > 0
           THEN Pass(c) /\ tokens' = [tokens EXCEPT ![o] = @ - 1]
           ELSE Refuse(c, "ResourceExhausted") /\ UNCHANGED tokens
      /\ Keep

\* The mux refuses with PermissionDenied, the interceptor with authFunc's error.
Denial(r) == IF r.via = "mux" THEN "PermissionDenied" ELSE "Unauthenticated"

Auth(c) ==
  /\ At(c, "auth")
  /\ Pass(c) \/ Refuse(c, Denial(req[c]))
  /\ UNCHANGED tokens /\ Keep

\* User code on the mux: a middleware of the user's, or behind the gateway's mux what
\* is registered there.
UserCode(c) == (At(c, "user") \/ At(c, "handler")) /\ req[c].via = "mux"

\* It writes a response or a piece of one, with the status the writer has by then, or
\* an error of its own, with WriteHTTPErrorResponse; it goes on after that.
UserWrites(c) ==
  /\ UserCode(c)
  /\ req[c].wrote < MaxWrites
  /\ \E code \in {req[c].status, "NotFound"} :
       \/ req' = [req EXCEPT ![c].status = code, ![c].body = Append(@, code),
                             ![c].wrote = @ + 1]
       \/ req' = [req EXCEPT ![c].status = code, ![c].stage = "recursing"]
  /\ UNCHANGED tokens /\ Keep

\* A middleware or an interceptor of the user's passes the request on, returns, or
\* refuses it.
User(c) ==
  /\ At(c, "user")
  /\ Pass(c) \/ Returns(c) \/ Refuse(c, "NotFound")
  /\ UNCHANGED tokens /\ Keep

-------------------------------------------------------------------------------
HandlerReturns(c) == At(c, "handler") /\ Returns(c) /\ UNCHANGED tokens /\ Keep

\* defaultErrorHandler, or the error of a call.
HandlerFails(c) == At(c, "handler") /\ Refuse(c, "NotFound") /\ UNCHANGED tokens /\ Keep

\* A deferred recover runs in the links that the panic unwinds.
Recovers(r) == /\ \E i \in 1 .. r.at - 1 : Chain(r)[i].kind = "recover"
               /\ r.via = "mux" => recoverPanic

\* RateFn, authFunc, what the user adds, the handler or, on a body that is empty
\* and not nil, the body writer.
MayPanic(c) == \E kind \in {"limit", "auth", "user", "handler"} : At(c, kind)

RecoveredPanic(c) ==
  /\ MayPanic(c)
  /\ Recovers(req[c])
  /\ Refuse(c, "Internal")
  /\ UNCHANGED tokens /\ Keep

\* net/http survives a panic and closes the connection; gRPC does not.
EscapedPanic(c) ==
  /\ MayPanic(c)
  /\ ~Recovers(req[c])
  /\ IF req[c].via = "mux" THEN UNCHANGED fate ELSE fate' = Current(req[c]).kind
  /\ req' = [req EXCEPT ![c].stage = "aborted"]
  /\ UNCHANGED <<default, servers, recoverPanic, tokens>>

\* ResponseWriter.Write and fallbackFunc call each other until the stack is full.
StackOverflow(c) ==
  /\ fate = "alive"
  /\ req[c].stage = "recursing"
  /\ fate' = "write"
  /\ UNCHANGED <<default, servers, recoverPanic, tokens, req>>

Leave(c) ==
  /\ fate = "alive"
  /\ req[c].stage \in {"done", "aborted"}
  /\ req' = [req EXCEPT ![c] = NoRequest]
  /\ UNCHANGED tokens /\ Keep

\* A request goes on.
Step(c) == \/ HealthAnswers(c) \/ Validate(c) \/ Trace(c)
           \/ LimitDecides(c) \/ LimitAsks(c) \/ Auth(c) \/ User(c)
           \/ UserWrites(c) \/ HandlerReturns(c) \/ HandlerFails(c)
           \/ RecoveredPanic(c) \/ EscapedPanic(c) \/ StackOverflow(c)

Next == \/ \E opts \in Options : NewServer(opts)
        \/ DisableRecover
        \/ \E c \in Client :
             \/ \E q \in Requests[c], s \in 1 .. Len(servers) : Arrive(c, q, s)
             \/ Step(c)
             \/ Leave(c)

Spec == Init /\ [][Next]_vars

\* A goroutine that serves a request goes on; handlers and guards return or panic.
FairSpec == Spec /\ \A c \in Client : WF_vars(Step(c))

-------------------------------------------------------------------------------
Finished == {c \in Client : req[c].stage \in {"done", "aborted"}}

\* The values the code's types allow; a writer has a status (recover.go:33-40).
TypeOK == /\ default.limiter \in Owner \cup {Nobody} /\ default.auth \in Owner \cup {Nobody}
          /\ Len(servers) <= MaxServers
          /\ recoverPanic \in BOOLEAN
          /\ tokens \in [Owner -> 0 .. Quota]
          /\ \A c \in Client :
               /\ req[c].stage \in {"idle", "walking", "recursing", "done", "aborted"}
               /\ req[c].stage = "walking" => req[c].at \in 1 .. Len(Chain(req[c]))
               /\ req[c].status \in Code /\ \A i \in 1 .. Len(req[c].body) : req[c].body[i] \in Code
               /\ req[c].wrote \in 0 .. MaxWrites /\ req[c].failed \in BOOLEAN
          /\ fate \in {"alive", "limit", "auth", "user", "handler", "write"}

\* A handler runs only for a request that this server's own limiter and its own
\* authFunc let through, whatever servers were built before it; those that are
\* exempt are preflight requests and, for authFunc, the health service.  Where
\* both judge, the limiter comes first (server/options.go:327-345,
\* mux/options.go:166-179).
Guarded == \A c \in Client :
  LET r == req[c]
      opts == servers[r.srv].opts
      limited == Link("limit", r.srv) \in r.judged
      authorized == Link("auth", r.srv) \in r.judged
  IN  r.stage # "idle" /\ ~Preflight(r) =>
        /\ r.at = Len(Chain(r)) =>
             /\ opts.limiter => limited
             /\ opts.auth => authorized \/ (r.via # "mux" /\ r.path = "health")
        /\ authorized /\ opts.limiter => limited

\* A request gets one answer of the chain's at most, besides what user code on the mux
\* writes: an error, exactly if a link refused it, the handler failed or something
\* panicked, also after user code has written, and as the last thing; otherwise only the
\* health check and a gRPC call get one.  A handler given to Server.Handle may write
\* nothing and fail nowhere: then there is none (server.go:181, mux/server.go:51,
\* rewriter.go:118-140, recover.go:43-53, server/options.go:347-356).
OneAnswer == \A c \in Client :
  LET r == req[c]
      own == IF r.via # "mux" \/ Current(r).kind = "health" THEN 1 ELSE 0
  IN  /\ r.stage = "done" /\ r.failed => Len(r.body) = r.wrote + 1 /\ r.body[Len(r.body)] # "OK"
      /\ r.stage = "done" /\ ~r.failed => Len(r.body) = r.wrote + own

\* Every request ends, and a handler that panics does not take the process with
\* it; a guard that panics on a gRPC chain does, and so does a write that fails
\* (server/options.go:347-360, rewriter.go:44-46).
Answered == \A c \in Client :
  (req[c].stage # "idle") ~> (c \in Finished \/ fate \in {"limit", "auth", "user", "write"})
===============================================================================
