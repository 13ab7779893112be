CONSTANTS
  Threads = {"t1", "t2"}
  NoThread = "none"
  HiBase = 2
  LoBase = 4
  ByteBits = 1
  IncArg = 0
  Incs = {}
  DefaultInc = 3
  Ms = {0, 1, 2}
  MaxMs = 2
  MaxTime = 1
  DirectMs = {1}
  ClockGoesBack = TRUE
  Draws <- TwoDraws
  SourceFails = FALSE
  SourcePanics = FALSE
  MaxCalls = 3
SPECIFICATION MakeSpec
INVARIANTS
  MakeTypeOK
  MakeIncreases
  MakeIncreasesInRun
PROPERTIES
  PanicsAreOwn
  EveryMakeEnds
CHECK_DEADLOCK FALSE
