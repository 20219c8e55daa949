SPECIFICATION Spec
CONSTANTS
  kNodeValues = 3
  MaxNodes = 15
  UniqueKeys = {1, 2, 3, 4, 5, 6, 7}
  MultiKeys = {1, 2}
  MaxSize = 13
INVARIANTS Verified LookupsAgree MutatorsAgree
