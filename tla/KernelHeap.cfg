SPECIFICATION HeapSpec
CONSTANTS
  PageSize = 4
  PageCount = 2
  HeapPages = 8
  MajorHeader = 2
  MinorHeader = 1
  NodeSize = 1
  Sizes <- MCSizes
  StackPages <- MCStackPages
  MaxInUse = 3
  NULL = NULL
INVARIANTS MemoryShared RefusedHonestly
PROPERTY OthersStay
CHECK_DEADLOCK FALSE
