CONSTANTS
  HiBase = 2
  LoBase = 6
  ByteBits = 1
  IncArg = 0
  Incs = {}
  DefaultInc = 4
  Ms = {0}
  MaxTime = 0
  Draws <- LargestOnly
  SourceFails = FALSE
  MaxCalls = 3
SPECIFICATION BoundedSpec
INVARIANTS
  TraitPromise
