CONSTANTS
  Holder = {h1, h2, h3}
  CfgMaxSize = 2
  CfgMinSize = 3
  MaxDials = 4
SPECIFICATION FairSpec
INVARIANTS TypeOK ExclusiveLease CurrentAccounting StatsBalance
PROPERTIES LeasedNotClosed UnhealthyIdleReaped ImplementsLeasePool
CHECK_DEADLOCK FALSE
