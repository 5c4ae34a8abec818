CONSTANTS
  Proc = {a, b}
  Key = {k1, k2, empty}
  EmptyKey = empty
  Size = {64, 131}
  TTLs = {0, 1}
  CfgMaxSize = 130
  MaxTime = 3
  MaxGets = 2
SPECIFICATION FairSpec
INVARIANTS TypeOK Accounting
PROPERTY Progress
CHECK_DEADLOCK FALSE
