CONSTANTS
  Proc = {p, q}
  Status = {200, 201, 500}
  Timeouts <- MCShort
  Second = 15
  Wrap = 4096
  RetryTimes = 2
SPECIFICATION FairSpec
INVARIANTS TypeOK NilMeansAnswered BodiesClosed
PROPERTY RequestReturns
CHECK_DEADLOCK FALSE
