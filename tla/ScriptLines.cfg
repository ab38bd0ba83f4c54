SPECIFICATION ShellSpec

CONSTANTS
  Name = {"OPT", "USERNAME", "d", "v"}
  MaxPath = 2
  Data <- Texts
  Empty <- NoText
  Change <- NoChange
  Cell <- Cells
  PathText <- Climbs
  PathSize = 12
  BufferSize = 12
  TextSize = 2
  MaxArgs = 4
  MaxNest = 2
  MaxResets = 0
  Disk <- Flat
  Typed <- RunV
  Faults = {}
  StrayPaths = {}
  StrayData = {}

INVARIANT EveryLineRuns

CHECK_DEADLOCK FALSE
