SPECIFICATION FairSpec

CONSTANTS
  MaxCluster = 4
  NumFats = 2
  PerFatSector = 2
  SlotsPerCluster = 2
  ClusterSize = 2
  MaxDepth = 1
  Writes <- LongWrites
  TruncSizes = {0, 1, 2}
  Name = {n1, n2}
  NoName = NoName
  Faults = {"crash", "io"}
  Ops = {"create", "write", "remove", "truncate"}
  n1 = n1
  n2 = n2

INVARIANTS
  TablesSound

PROPERTIES
  OperationEnds
