CONSTANTS
  http = http
  grpc = grpc
  Client = {http, grpc}
  Options <- GuardedOrNot
  Requests <- MCRequests
  MaxServers = 2
  Quota = 1
  MaxWrites = 2
SPECIFICATION FairSpec
INVARIANTS TypeOK Guarded OneAnswer
PROPERTY Answered
CHECK_DEADLOCK FALSE
