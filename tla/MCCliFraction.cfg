CONSTANTS
  Tokens <- SomeTokens
  MaxArgs = 1
  Times <- FewTimes
  RngFails = FALSE
  ClockTooBig = FALSE
SPECIFICATION Spec
INVARIANTS
  DocFraction
CHECK_DEADLOCK FALSE
