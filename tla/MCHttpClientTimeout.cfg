CONSTANTS
  Proc = {p}
  Status = {200, 201, 500}
  Timeouts <- MCDefaultTimeout
  Second = 15
  Wrap = 4096
  RetryTimes = 2
SPECIFICATION FairSpec
PROPERTY RequestReturns
CHECK_DEADLOCK FALSE
