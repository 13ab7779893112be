CONSTANTS
  Threads = {"t1", "t2", "t3"}
  NoThread = "none"
  HiBase = 2
  LoBase = 4
  ByteBits = 1
  IncArg = 3
  Incs = {}
  DefaultInc = 3
  Ms = {0, 1}
  Draws <- SomeDraws
  SourceFails = TRUE
  SourcePanics = TRUE
  MaxCalls = 3
SPECIFICATION Spec
INVARIANTS
  TypeOK
  HolderInSection
  BranchStillRight
PROPERTIES
  PoisonedIsFrozen
  ImplementsMonotonicEntropy
  EveryCallEnds
CHECK_DEADLOCK FALSE
