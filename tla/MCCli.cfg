CONSTANTS
  Tokens <- SomeTokens
  MaxArgs = 3
  Times <- SomeTimes
  RngFails = TRUE
  ClockTooBig = TRUE
SPECIFICATION Spec
INVARIANTS
  ExitIsCalledFor
  PrintedTimeIsGiven
PROPERTIES
  Terminates
CHECK_DEADLOCK FALSE
