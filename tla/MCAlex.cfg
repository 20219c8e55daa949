SPECIFICATION Spec
CONSTANTS
  UniqueKeys = {1, 2, 3, 4}
  DupKeys = {1, 2}
  W = 4
  max_slots_ = 10
  MaxKeys = 9
  Keys = {20, 22, 24, 27}
  TMax = 100
  Scale = 4
  MaxNodes = 9
  MaxSize = 3
  MaxLeafKeys = 2
  max_fanout = 4
  SplitDepth = 2
INVARIANTS
  NodeValid
  NodeLookupsAgree
  TreeValid
  TreeLookupsAgree
PROPERTY ImplementBags
CHECK_DEADLOCK FALSE
