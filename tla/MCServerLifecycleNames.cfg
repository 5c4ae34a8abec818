CONSTANTS
  graceful = graceful
  stop = stop
  Setups <- MCSetups
  Service = {svc}
  HealthName = health
  Closer <- MCCloser
  Call = {call, watch}
  Watch = {watch}
  Request = {r}
SPECIFICATION Spec
PROPERTY Deregistered
CHECK_DEADLOCK FALSE
