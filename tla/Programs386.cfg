SPECIFICATION Spec32
CONSTANTS
  Procs = {p1, p2, p3, p4}
  NULL = NULL
  Kinds = {"cmdline", "env", "pcb", "vmm", "prog", "mem"}
  LeastId = 0
  MaxDepth32 = 4
SYMMETRY Addresses
INVARIANTS FamilyTree MemoryAccounted32
CHECK_DEADLOCK FALSE
