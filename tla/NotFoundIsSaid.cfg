CONSTANTS
  One = One
  Two = Two
  Names <- MCNames
  Stem <- MCStem
  Pieces <- MCPieces
  MaxTail = 9
  Checksum <- MCChecksum
  NoText <- MCNoText
  PerSector = 2
  RootSizes <- MCRootSizes
  Clusters = {c1, c2, c3, c4}
  NoCluster = NoCluster
  Slips = {}
SPECIFICATION Spec
VIEW watched
SYMMETRY Interchangeable
CHECK_DEADLOCK FALSE
INVARIANT NotFoundIsSaid
