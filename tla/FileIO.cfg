SPECIFICATION Spec

CONSTANTS
  Clusters = 4
  SectorSize = 2
  SectorsPerCluster = 2
  Lengths = {1, 3, 4, 6}
  MaxCalls = 4
  Faults = {"read", "write"}

INVARIANTS
  TypeOK
  WriteKeepsRest
  DoneIsOnDisk
  ReadsBack
  OtherFileKept
