CONSTANTS
  graceful = graceful
  stop = stop
  Setups <- MCSetups
  Service = {svc}
  HealthName = health
  Closer <- MCCloser
  Call = {call, watch}
  Watch = {watch}
  Request = {r}
SPECIFICATION FairSpec
INVARIANTS TypeOK Orderly
PROPERTY Ends
CHECK_DEADLOCK FALSE
