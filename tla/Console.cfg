SPECIFICATION Spec

CONSTANTS
  Width = 2
  Height = 3
  Length = 3
  SleepTicks = 1
  Outputs <- MCOutputs
  QueueMax = 2
  MaxEvents = 4

INVARIANTS
  TypeOK
  LineShown
  KeysAsMeant

PROPERTIES
  KeysGetThrough
