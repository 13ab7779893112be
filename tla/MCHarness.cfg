CONSTANTS
  HiBase = 2
  LoBase = 6
  ByteBits = 1
  IncArg = 0
  Incs = {0, 1, 2}
  DefaultInc = 3
  Ms = {0, 1}
  MaxTime = 1
  Draws <- SomeStarts
  SourceFails = FALSE
  MaxCalls = 0
  Batch = 4
  Every = 2
  Rounds = 4
  Budget = 2
SPECIFICATION HarnessSpec
INVARIANTS
  AlarmsAreOverflows
  AlarmsNearTheTop
PROPERTIES
  Finishes
