------------------------------ MODULE MCPipeline ------------------------------
\* Model checking of Pipeline: a server with guards and one that has only a
\* middleware of the user's, in any order; one client speaks HTTP and one gRPC.
EXTENDS Pipeline, TLC

CONSTANTS http, grpc

GuardedOrNot == {[limiter |-> TRUE, auth |-> TRUE, user |-> FALSE],
                 [limiter |-> FALSE, auth |-> FALSE, user |-> TRUE]}

Ask(via, path, method) == [via |-> via, path |-> path, method |-> method]

MCRequests == http :> {Ask("mux", "api", "GET"), Ask("mux", "api", "OPTIONS"),
                       Ask("mux", "health", "GET")}
              @@ grpc :> {Ask("unary", "api", "GET"), Ask("stream", "health", "GET")}
===============================================================================
