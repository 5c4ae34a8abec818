CONSTANTS
  Holder = {h1, h2}
  CfgMaxSize = 1
  CfgMinSize = 1
  MaxDials = 3
SPECIFICATION Spec
INVARIANT NeverStarved
CHECK_DEADLOCK FALSE
