SPECIFICATION Spec

CONSTANTS
  MaxCluster = 4
  NumFats = 2
  PerFatSector = 2
  SlotsPerCluster = 3
  ClusterSize = 2
  MaxDepth = 1
  Writes <- OneClusterWrites
  TruncSizes = {1}
  Name = {n1, n2}
  NoName = NoName
  Faults = {"crash", "io"}
  Ops = {"create", "write", "remove", "truncate"}
  n1 = n1
  n2 = n2

SYMMETRY Symmetry

INVARIANTS
  IInv

PROPERTIES
  BystandersKept
