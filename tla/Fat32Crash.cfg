SPECIFICATION Spec

CONSTANTS
  MaxCluster = 4
  NumFats = 2
  PerFatSector = 2
  SlotsPerCluster = 4
  ClusterSize = 2
  MaxDepth = 1
  Writes <- LongWrites
  TruncSizes = {1, 2}
  Name = {n1, n2}
  NoName = NoName
  Faults = {"crash"}
  Ops = {"create", "write", "mkdir", "remove", "rmdir", "truncate"}
  n1 = n1
  n2 = n2

SYMMETRY Symmetry

INVARIANTS
  SoundVolume
  DirectoriesSound
  TablesSound

PROPERTIES
  BystandersKept
  ImplementsFileStore
