SPECIFICATION Spec
CONSTANTS
  Procs = {p1, p2}
  NULL = NULL
  Kinds = {"pcb", "env", "header", "mem"}
  PcbUnits = 1
  ProgUnits = 2
  MaxDepth = 2
INVARIANT FreesAreValid
CHECK_DEADLOCK FALSE
