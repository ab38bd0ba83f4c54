SPECIFICATION Spec

CONSTANTS
  MaxCluster = 5
  NumFats = 2
  PerFatSector = 2
  SlotsPerCluster = 3
  ClusterSize = 2
  MaxDepth = 1
  Writes <- LongWrites
  TruncSizes = {0}
  Name = {n1, n2}
  NoName = NoName
  Faults = {}
  Ops = {"create", "write", "truncate"}
  n1 = n1
  n2 = n2

SYMMETRY Symmetry

INVARIANTS
  HeadsAllocated
