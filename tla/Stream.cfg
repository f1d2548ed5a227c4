CONSTANTS
  BUFSIZ = 3
  Chunk = 2
  CR = 900
  LF = 901
  Other = 100
  Disks <- SmallDisks
  Requests = {1, 2, 5}
  Rooms = {3, 9}
  Writings <- SomeWritings
  MaxSize <- Sizes
  Offsets <- SomeOffsets
  Slips = {}
SPECIFICATION StreamSpec
VIEW watched
INVARIANT BufferInStep
 
