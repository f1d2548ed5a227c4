SPECIFICATION Spec
CONSTANTS
  Procs = {p1, p2}
  Kernel = Kernel
  Absent = Absent
  Frames <- MCFrames
  PtEntries = 2
  ProcTables = 2
  KernelTables = 2
  Sizes <- MCSizes
VIEW FrameView
INVARIANTS FramesOnce NodesExact TablesNeeded
PROPERTY KeepsPages
CHECK_DEADLOCK FALSE
