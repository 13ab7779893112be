CONSTANTS
  Threads = {"t1", "t2"}
  NoThread = "none"
  HiBase = 4
  LoBase = 4
  ByteBits = 1
  IncArg = 0
  Incs = {}
  DefaultInc = 3
  Ms = {0, 1}
  MaxMs = 1
  MaxTime = 1
  DirectMs = {}
  ClockGoesBack = FALSE
  Draws <- TwoDraws
  SourceFails = FALSE
  SourcePanics = FALSE
  MaxCalls = 3
SPECIFICATION MakeSpec
INVARIANTS
  SameMsMakeIncreases
CHECK_DEADLOCK FALSE
