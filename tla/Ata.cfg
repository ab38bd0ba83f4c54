SPECIFICATION Spec

CONSTANTS
  Lows = 2
  MaxLba = 3
  Polls = 2
  Counts = {0, 1, 2}
  MaxCalls = 3

INVARIANTS
  TypeOK
  CallsKeepWord

PROPERTIES
  CallsReturn

\* A bounded number of calls; the kernel stops when it finds no disk.
CHECK_DEADLOCK FALSE
