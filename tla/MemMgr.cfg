CONSTANTS
  Align = 2
  HeaderSize = 6
  WordLimit = 128
  LastAddr = 80
  Buffers <- TouchingBuffers
  Requests = {5, 14, 119, 127}
  Ids = {1, 2}
  Owners = {3}
SPECIFICATION Spec
INVARIANTS HeapInv NeverCrashes Tiling RoomEnough CursorValid RefusedHonestly StatsAgree
PROPERTIES HoldersUndisturbed
