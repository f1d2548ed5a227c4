SPECIFICATION Spec
CONSTANTS
  Procs = {p1, p2, p3, p4}
  NULL = NULL
  Kinds = {"pcb", "env", "header", "mem"}
  PcbUnits = 1
  ProgUnits = 2
  MaxDepth = 4
SYMMETRY Addresses
INVARIANTS FamilyTree MemoryAccounted
CHECK_DEADLOCK FALSE
