--------------------------- MODULE ServerLifecycle ---------------------------
(***************************************************************************)
(* Starting and stopping a server: server/server.go, server/health/        *)
(* health.go and app.go.                                                   *)
(*                                                                         *)
(* Start hands three or four functions to graceful.Start, which runs them  *)
(* concurrently: startGRPC, startHTTP, startMetrics and, with a discovery, *)
(* register.  The HTTP and the metrics address have defaults that no       *)
(* option can clear, so those two servers are always there.  Close         *)
(* is called by graceful and by Application.Stop, at any time and perhaps  *)
(* by both at once; nothing orders it with the functions of Start.         *)
(*                                                                         *)
(* External: graceful, grpc.Server, http.Server and the service discovery. *)
(* Serve after GracefulStop and ListenAndServe after Shutdown or Close     *)
(* return at once, the first with an error; GracefulStop waits for the     *)
(* calls in progress, however long; Shutdown waits for requests until its  *)
(* context is done, which is the context that the caller of Close gave and *)
(* may be one that never ends; Serve returns when GracefulStop has         *)
(* finished.                                                               *)
(*                                                                         *)
(* Left out: the length of the pre-stop sleep, keep-alives, and a listener *)
(* that fails while it is serving.                                         *)
(***************************************************************************)
EXTENDS Naturals, Sequences, FiniteSets, SequencesExt

CONSTANTS Setups,       \* [discover, closers, limited]: with a discovery, who calls Close,
                        \* and whose contexts for it end
          Service,      \* gRPC services that RegistrarFunc registers
          HealthName,   \* "grpc.health.v1.Health"
          Closer,       \* who calls Close: graceful, Application.Stop
          Call,         \* gRPC calls that may be in progress
          Watch,        \* those that are streams, ended by the client alone
          Request       \* HTTP requests that may be in progress

ASSUME LifecycleAssumption == /\ Setups \subseteq [discover : BOOLEAN, closers : SUBSET Closer,
                                                   limited : SUBSET Closer]
                              /\ IsFiniteSet(Service) /\ HealthName \notin Service
                              /\ Watch \subseteq Call

Fn == {"grpc", "http", "metrics", "register"}
Returned == {"nil", "error"}

VARIABLES
  setup,      \* how the server was made, and who calls Close
  app,        \* Application.Start: "new", "refused" or "started"
  services,   \* grpcServer.GetServiceInfo
  health,     \* the status of AllServices
  grpc,       \* grpcServer: "new", "serving", "stopping", "stopped"
  http,       \* httpServer: "new", "serving", "closed"
  metrics,    \* metricsServer, likewise
  fn,         \* fn[f]: a function of Start: "off", where it is, or what it returned
  registering,\* register: the entries left
  registry,   \* service discovery: the names it knows
  cpc,        \* cpc[c]: where c is in Close
  removing,   \* removing[c]: deRegister: the entries left
  calls,      \* gRPC calls in progress
  requests,   \* HTTP requests in progress
  lateStart,  \* health.Start ran after a health.Close (history)
  gaveUp      \* a Shutdown ended with its context (history)

closes == <<cpc, removing>>
traffic == <<calls, requests>>
history == <<lateStart, gaveUp>>
starts == <<fn, registering>>
vars == <<setup, app, services, health, grpc, http, metrics, starts, registry, closes,
          traffic, history>>

\* The names register makes of a service and a protocol, and those deRegister makes.
RegisteredName(entry) == <<entry[1], ".", entry[2]>>
RemovedName(entry) == <<entry[1], "[]", entry[2]>>

\* Mutant of Protocols: the metrics server is announced too.
ProtocolsAll == <<"grpc", "http", "metrics">>

Protocols == <<"grpc", "http">>

\* A map is walked in any order; the entries of one service follow one another.
Walks ==
  {[i \in 1 .. Len(order) * Len(Protocols) |->
      <<order[(i - 1) \div Len(Protocols) + 1], Protocols[((i - 1) % Len(Protocols)) + 1]>>]
     : order \in SetToSeqs(services)}

-------------------------------------------------------------------------------
\* NewApp, NewServer.
Init == /\ setup \in Setups
        /\ app = "new"
        /\ services = {}
        /\ health = "unknown"
        /\ grpc = "new" /\ http = "new" /\ metrics = "new"
        /\ fn = [f \in Fn |-> "off"]
        /\ registering = <<>>
        /\ registry = {}
        /\ cpc = [c \in Closer |-> "idle"]
        /\ removing = [c \in Closer |-> <<>>]
        /\ calls = {} /\ requests = {}
        /\ lateStart = FALSE /\ gaveUp = FALSE

\* Application.Start: regFunc fails.
AppRefused ==
  /\ app = "new"
  /\ app' = "refused"
  /\ UNCHANGED <<setup, services, health, grpc, http, metrics, starts, registry, closes,
                 traffic, history>>

Configured(f) == f = "register" => setup.discover

\* Application.Start: regFunc registers the services, Server.Start.
AppStart ==
  /\ app = "new"
  /\ app' = "started"
  /\ services' = Service
  /\ fn' = [f \in Fn |-> IF Configured(f) THEN "begin" ELSE "off"]
  /\ UNCHANGED <<setup, health, grpc, http, metrics, registering, registry, closes,
                 traffic, history>>

\* startGRPC: net.Listen fails.
ListenError ==
  /\ fn["grpc"] = "begin"
  /\ fn' = [fn EXCEPT !["grpc"] = "error"]
  /\ UNCHANGED <<setup, app, services, health, grpc, http, metrics, registering, registry,
                 closes, traffic, history>>

\* startGRPC: net.Listen, healthServer.Start.
HealthStart ==
  /\ fn["grpc"] = "begin"
  /\ services' = services \cup {HealthName}
  /\ health' = "SERVING"
  /\ fn' = [fn EXCEPT !["grpc"] = "healthy"]
  /\ lateStart' = (lateStart \/ \E c \in Closer : cpc[c] # "idle")
  /\ UNCHANGED <<setup, app, grpc, http, metrics, registering, registry, closes, traffic,
                 gaveUp>>

\* startGRPC: Serve begins, or finds the server stopped.
Serve ==
  /\ fn["grpc"] = "healthy"
  /\ IF grpc = "new"
       THEN grpc' = "serving" /\ fn' = [fn EXCEPT !["grpc"] = "serving"]
       ELSE fn' = [fn EXCEPT !["grpc"] = "error"] /\ UNCHANGED grpc
  /\ UNCHANGED <<setup, app, services, health, http, metrics, registering, registry, closes,
                 traffic, history>>

\* startGRPC: Serve ends.
ServeReturn ==
  /\ fn["grpc"] = "serving"
  /\ grpc = "stopped"
  /\ fn' = [fn EXCEPT !["grpc"] = "nil"]
  /\ UNCHANGED <<setup, app, services, health, grpc, http, metrics, registering, registry,
                 closes, traffic, history>>

\* startHTTP: ListenAndServe begins, finds the server closed, or cannot listen.
ListenHTTP ==
  /\ fn["http"] = "begin"
  /\ \/ /\ http = "new"
        /\ http' = "serving"
        /\ fn' = [fn EXCEPT !["http"] = "serving"]
     \/ /\ http = "closed"
        /\ fn' = [fn EXCEPT !["http"] = "nil"]
        /\ UNCHANGED http
     \/ /\ http = "new"
        /\ fn' = [fn EXCEPT !["http"] = "error"]
        /\ UNCHANGED http
  /\ UNCHANGED <<setup, app, services, health, grpc, metrics, registering, registry, closes,
                 traffic, history>>

\* startMetrics.
ListenMetrics ==
  /\ fn["metrics"] = "begin"
  /\ \/ /\ metrics = "new"
        /\ metrics' = "serving"
        /\ fn' = [fn EXCEPT !["metrics"] = "serving"]
     \/ /\ metrics = "closed"
        /\ fn' = [fn EXCEPT !["metrics"] = "nil"]
        /\ UNCHANGED metrics
     \/ /\ metrics = "new"
        /\ fn' = [fn EXCEPT !["metrics"] = "error"]
        /\ UNCHANGED metrics
  /\ UNCHANGED <<setup, app, services, health, grpc, http, registering, registry, closes,
                 traffic, history>>

\* ListenAndServe ends with ErrServerClosed, which both functions turn into nil.
ListenReturn(f) ==
  /\ fn[f] = "serving"
  /\ (f = "http" /\ http = "closed") \/ (f = "metrics" /\ metrics = "closed")
  /\ fn' = [fn EXCEPT ![f] = "nil"]
  /\ UNCHANGED <<setup, app, services, health, grpc, http, metrics, registering, registry,
                 closes, traffic, history>>

RegisterState(walk) == IF walk = <<>> THEN "nil" ELSE "walking"

\* register: the services there are by now.
RegisterBegin ==
  /\ fn["register"] = "begin"
  /\ registering' \in Walks
  /\ fn' = [fn EXCEPT !["register"] = RegisterState(registering')]
  /\ UNCHANGED <<setup, app, services, health, grpc, http, metrics, registry, closes,
                 traffic, history>>

\* register: the next name, and after the last one nil.
RegisterNext ==
  /\ fn["register"] = "walking"
  /\ registry' = registry \cup {RegisteredName(Head(registering))}
  /\ registering' = Tail(registering)
  /\ fn' = [fn EXCEPT !["register"] = RegisterState(registering')]
  /\ UNCHANGED <<setup, app, services, health, grpc, http, metrics, closes, traffic, history>>

\* register: an error, which may come after the name was recorded; it ends the walk
\* and leaves the names before it registered.
RegisterError ==
  /\ fn["register"] = "walking"
  /\ registry' \in {registry, registry \cup {RegisteredName(Head(registering))}}
  /\ registering' = <<>>
  /\ fn' = [fn EXCEPT !["register"] = "error"]
  /\ UNCHANGED <<setup, app, services, health, grpc, http, metrics, closes, traffic, history>>

-------------------------------------------------------------------------------
Goes(c, from, to) == cpc[c] = from /\ cpc' = [cpc EXCEPT ![c] = to]

\* Close: healthServer.Close.
CloseHealth(c) ==
  /\ c \in setup.closers
  /\ Goes(c, "idle", "unhealthy")
  /\ health' = "NOT_SERVING"
  /\ UNCHANGED <<setup, app, services, grpc, http, metrics, starts, registry, removing,
                 traffic, history>>

\* Mutant of MetricsAtClose: Close forgets the metrics server.
MetricsAtCloseKept == metrics

MetricsAtClose == "closed"

\* Close: metricsServer.Close, and deRegister reads the services there are.
CloseMetrics(c) ==
  /\ Goes(c, "unhealthy", "deregistering")
  /\ metrics' = MetricsAtClose
  /\ IF setup.discover
       THEN \E walk \in Walks : removing' = [removing EXCEPT ![c] = walk]
       ELSE UNCHANGED removing
  /\ UNCHANGED <<setup, app, services, health, grpc, http, starts, registry, traffic, history>>

\* deRegister: the next name is taken out.
Deregister(c) ==
  /\ cpc[c] = "deregistering"
  /\ removing[c] # <<>>
  /\ registry' = registry \ {RemovedName(Head(removing[c]))}
  /\ removing' = [removing EXCEPT ![c] = Tail(@)]
  /\ UNCHANGED <<setup, app, services, health, grpc, http, metrics, starts, cpc, traffic,
                 history>>

\* deRegister: an error, which may come after the name was taken out.  It gives up
\* at the first one, and Close goes on.
DeregisterError(c) ==
  /\ cpc[c] = "deregistering"
  /\ removing[c] # <<>>
  /\ registry' \in {registry, registry \ {RemovedName(Head(removing[c]))}}
  /\ removing' = [removing EXCEPT ![c] = <<>>]
  /\ UNCHANGED <<setup, app, services, health, grpc, http, metrics, starts, cpc, traffic,
                 history>>

\* deRegister returns, the pre-stop sleep, httpServer.Shutdown begins.
ShutdownHTTP(c) ==
  /\ Goes(c, "deregistering", "shutting")
  /\ removing[c] = <<>>
  /\ http' = "closed"
  /\ UNCHANGED <<setup, app, services, health, grpc, metrics, starts, registry, removing,
                 traffic, history>>

\* Mutant of MayStopGRPC: GracefulStop before the HTTP requests are finished.
MayStopGRPCEarly == TRUE

MayStopGRPC == requests = {}

\* Close: Shutdown returns because it has drained the HTTP server; GracefulStop begins.
StopGRPC(c) ==
  /\ Goes(c, "shutting", "stopping")
  /\ MayStopGRPC
  /\ grpc' = IF grpc = "stopped" THEN grpc ELSE "stopping"
  /\ UNCHANGED <<setup, app, services, health, http, metrics, starts, registry, removing,
                 traffic, history>>

\* Close: Shutdown gives up because its context has ended; GracefulStop begins.
GiveUp(c) ==
  /\ c \in setup.limited
  /\ requests # {}
  /\ Goes(c, "shutting", "stopping")
  /\ gaveUp' = TRUE
  /\ grpc' = IF grpc = "stopped" THEN grpc ELSE "stopping"
  /\ UNCHANGED <<setup, app, services, health, http, metrics, starts, registry, removing,
                 traffic, lateStart>>

Drained == calls = {}

\* Close: GracefulStop and Close return.
CloseReturn(c) ==
  /\ Goes(c, "stopping", "returned")
  /\ Drained
  /\ grpc' = "stopped"
  /\ UNCHANGED <<setup, app, services, health, http, metrics, starts, registry, removing,
                 traffic, history>>

-------------------------------------------------------------------------------
CallBegin(k) ==
  /\ grpc = "serving"
  /\ k \notin calls
  /\ calls' = calls \cup {k}
  /\ UNCHANGED <<setup, app, services, health, grpc, http, metrics, starts, registry, closes,
                 requests, history>>

CallEnd(k) ==
  /\ k \in calls
  /\ calls' = calls \ {k}
  /\ UNCHANGED <<setup, app, services, health, grpc, http, metrics, starts, registry, closes,
                 requests, history>>

RequestBegin(r) ==
  /\ http = "serving"
  /\ r \notin requests
  /\ requests' = requests \cup {r}
  /\ UNCHANGED <<setup, app, services, health, grpc, http, metrics, starts, registry, closes,
                 calls, history>>

RequestEnd(r) ==
  /\ r \in requests
  /\ requests' = requests \ {r}
  /\ UNCHANGED <<setup, app, services, health, grpc, http, metrics, starts, registry, closes,
                 calls, history>>

Next == \/ AppRefused \/ AppStart
        \/ ListenError \/ HealthStart \/ Serve \/ ServeReturn
        \/ ListenHTTP \/ ListenMetrics \/ \E f \in {"http", "metrics"} : ListenReturn(f)
        \/ RegisterBegin \/ RegisterNext \/ RegisterError
        \/ \E c \in Closer : \/ CloseHealth(c) \/ CloseMetrics(c) \/ Deregister(c)
                            \/ DeregisterError(c) \/ ShutdownHTTP(c)
                            \/ StopGRPC(c) \/ GiveUp(c) \/ CloseReturn(c)
        \/ \E k \in Call : CallBegin(k) \/ CallEnd(k)
        \/ \E r \in Request : RequestBegin(r) \/ RequestEnd(r)

Spec == Init /\ [][Next]_vars

\* The functions of Start and a Close that has begun go on, calls of the service
\* discovery return, a call that is not a stream ends, and so does a context that is
\* limited.  Nothing makes anybody call Start or Close, nothing ends a stream but its
\* client, and nothing ends an HTTP request.
FairSpec ==
  /\ Spec
  /\ WF_vars(ListenError \/ HealthStart) /\ WF_vars(Serve) /\ WF_vars(ServeReturn)
  /\ WF_vars(ListenHTTP) /\ WF_vars(ListenMetrics)
  /\ WF_vars(ListenReturn("http")) /\ WF_vars(ListenReturn("metrics"))
  /\ WF_vars(RegisterBegin) /\ WF_vars(RegisterNext \/ RegisterError)
  /\ \A c \in Closer : /\ WF_vars(CloseMetrics(c))
                       /\ WF_vars(Deregister(c) \/ DeregisterError(c))
                       /\ WF_vars(ShutdownHTTP(c)) /\ WF_vars(StopGRPC(c) \/ GiveUp(c))
                       /\ WF_vars(CloseReturn(c))
  /\ \A k \in Call \ Watch : WF_vars(CallEnd(k))

-------------------------------------------------------------------------------
\* Every variable holds a value of its kind, and what the discovery knows are names
\* of services there are, by the two protocols, and none without a discovery
\* (server.go:191-217).
TypeOK ==
  /\ setup \in Setups
  /\ app \in {"new", "refused", "started"}
  /\ services \subseteq Service \cup {HealthName}
  /\ health \in {"unknown", "SERVING", "NOT_SERVING"}
  /\ grpc \in {"new", "serving", "stopping", "stopped"}
  /\ http \in {"new", "serving", "closed"} /\ metrics \in {"new", "serving", "closed"}
  /\ \A f \in Fn : fn[f] \in {"off", "begin", "healthy", "serving", "walking"}
                             \cup Returned
  /\ registry \subseteq {RegisteredName(<<s, p>>) : s \in services, p \in {"grpc", "http"}}
  /\ ~setup.discover => registry = {}
  /\ \A c \in Closer : cpc[c] \in {"idle", "unhealthy", "deregistering", "shutting", "stopping", "returned"}
  /\ calls \subseteq Call /\ requests \subseteq Request
  /\ lateStart \in BOOLEAN /\ gaveUp \in BOOLEAN

Closing == \E c \in Closer : cpc[c] # "idle"
Closed == \E c \in Closer : cpc[c] = "returned"

\* Once a Close has begun the health check says NOT_SERVING for good, whatever
\* order the other steps take, unless startGRPC came to healthServer.Start only
\* after that (server.go:94, 148-150; health.go:26-34).
NotServingOnceClosing == Closing /\ ~lateStart => health = "NOT_SERVING"

\* A Close returns only when no gRPC call is in progress and none can begin, with
\* another Close at any point and startGRPC not yet at Serve (server.go:97, 175).
DrainedOnReturn == Closed => grpc = "stopped" /\ calls = {}

\* The gRPC server behind the gateway is stopped only when the HTTP requests are
\* finished, unless a Shutdown ran out of time (server.go:169-175).
GatewayDrainedFirst == grpc \in {"stopping", "stopped"} /\ ~gaveUp => requests = {}

\* When register returns nil, every service of the program is known, under each
\* protocol, until a Close begins (server.go:196-216).
AllAnnounced ==
  fn["register"] = "nil" /\ ~Closing =>
    \A s \in Service : \A i \in 1 .. Len(Protocols) : RegisteredName(<<s, Protocols[i]>>) \in registry

\* A server starts and stops in order: announced before register returns, not serving
\* before it closes, the gateway's requests before the calls behind it.
Orderly == NotServingOnceClosing /\ DrainedOnReturn /\ GatewayDrainedFirst /\ AllAnnounced

\* After a Close every function Start had started returns, also one that had not
\* come to listen when Close was called (server.go:97-99, 109-113, 121-125).
StartsReturn ==
  (Closed /\ app = "started") ~> (\A f \in Fn : fn[f] \in {"off"} \cup Returned)

\* A Close returns, even if the discovery fails at every call, or it waits for what is
\* never going to end: a stream that its client keeps for ever, or, when the context it
\* was given does not end, an HTTP request that is in progress for ever.  Application.Stop
\* hands on its caller's context (app.go:116), and Shutdown takes that one
\* (server.go:144-178).
CloseReturns ==
  \A c \in Closer :
    (cpc[c] # "idle") ~> (\/ cpc[c] = "returned"
                          \/ [](calls \cap Watch # {})
                          \/ (c \notin setup.limited /\ [](requests # {})))

\* Close brings everything to its end, itself included.
Ends == StartsReturn /\ CloseReturns

-------------------------------------------------------------------------------
\* A claim of a comment that the code does not keep.

\* server.go:219 says that deRegister takes the services out of the discovery.  It
\* asks for names that register never used, so they stay there.
Deregistered ==
  [][\A c \in Closer :
       Deregister(c) => RegisteredName(Head(removing[c])) \notin registry']_vars
===============================================================================
