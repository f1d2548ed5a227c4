CONSTANTS
  Files = {f, g}
  Handles = {x}
  NoFile = NoFile
  SectorSize = 2
  EOC = 4080
  Disks <- SmallDisks
  Slips = {}
  MaxSize = 9
  Requests = {0, 1, 2, 3, 5}
SPECIFICATION Spec
SYMMETRY Interchangeable
CHECK_DEADLOCK FALSE
INVARIANTS ChainsSound CacheFresh CallsRight OthersKept
