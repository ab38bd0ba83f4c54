SPECIFICATION ShellSpec

CONSTANTS
  Name = {"OPT", "USERNAME", "d", "s", "t", "u"}
  MaxPath = 2
  Data <- Texts
  Empty <- NoText
  Change <- NoChange
  Cell <- Cells
  PathText <- Climbs
  PathSize = 12
  BufferSize = 8
  TextSize = 2
  MaxArgs = 4
  MaxNest = 2
  MaxResets = 1
  Disk <- Nesting
  Typed <- SomeCommands
  Faults = {"reset", "io"}
  StrayPaths <- Hit
  StrayData <- Left

INVARIANTS
  TypeOK
  TreeHangsTogether
  NothingElseRuns

PROPERTIES
  OnlyNamedPathsChange
  ExitEndsAll
  ScriptsEnd
  BootReachesPrompt

CHECK_DEADLOCK FALSE
