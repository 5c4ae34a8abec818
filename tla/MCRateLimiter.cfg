CONSTANTS
  Proc = {p, q}
  Path = {api, admin}
  HeaderKey = {users}
  HeaderValue = {alice, blocked}
  users = users
  api = api
  admin = admin
  alice = alice
  blocked = blocked
  Absent = absent
  Limits <- MCLimits
  Blacklist <- MCBlacklist
  Default <- MCDefault
  Disabled = FALSE
  Transport = {"http", "grpc"}
  Hour = 1
  MaxTime = 3
  MaxBuckets = 2
  MaxGrants = 3
SPECIFICATION FairSpec
INVARIANTS TypeOK KeyHoldsRate OneBucketPerKey
PROPERTY OldEntriesReclaimed
CHECK_DEADLOCK FALSE
