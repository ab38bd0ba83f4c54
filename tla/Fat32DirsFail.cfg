SPECIFICATION Spec

CONSTANTS
  MaxCluster = 4
  NumFats = 1
  PerFatSector = 2
  SlotsPerCluster = 4
  ClusterSize = 2
  MaxDepth = 1
  Writes <- LongWrites
  TruncSizes = {1, 2}
  Name = {n1, n2}
  NoName = NoName
  Faults = {"crash", "io"}
  Ops = {"create", "mkdir", "remove", "rmdir", "rename"}
  n1 = n1
  n2 = n2

SYMMETRY Symmetry

PROPERTIES
  RenameKeepsFile

CHECK_DEADLOCK FALSE
