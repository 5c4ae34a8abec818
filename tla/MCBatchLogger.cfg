CONSTANTS
  Producer = {p1, p2}
  Processor = processor0
  Configs <- MCConfigs
  MaxLogs = 2
SPECIFICATION FairSpec
INVARIANTS TypeOK NothingLost
PROPERTIES Completes ImplementsLogSink
CHECK_DEADLOCK FALSE
