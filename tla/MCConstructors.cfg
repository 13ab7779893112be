CONSTANTS
  HiBase = 2
  LoBase = 6
  ByteBits = 1
  IncArg = 3
  Incs = {0, 2}
  DefaultInc = 4
  Ms = {0, 1, 2}
  MaxTime = 1
  Draws <- SomeDraws
  SourceFails = TRUE
  MaxCalls = 3
SPECIFICATION BoundedSpec
INVARIANTS
  TypeOK
  SameMsIncreases
  OverflowIsReal
  UlidsIncrease
PROPERTIES
  ImplementsReader
