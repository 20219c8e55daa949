SPECIFICATION Spec
CONSTANTS
  UniqueKeys = {1, 2, 3, 4}
  DupKeys = {1, 2}
  W = 4
  max_slots_ = 10
  MaxKeys = 9
  Keys = {0, 4, 5, 8}
  TMax = 100
  Scale = 4
  MaxNodes = 14
  MaxSize = 3
  MaxLeafKeys = 2
  max_fanout = 4
  SplitDepth = 2
INVARIANT LeftmostClaim
CHECK_DEADLOCK FALSE
