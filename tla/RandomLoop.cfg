CONSTANTS
  ByteBits = 2
  Bounds = {0, 1, 2, 3, 4, 5, 8, 9, 16, 17, 18, 33, 63}
  BufLen = 3
  SourceFails = TRUE
SPECIFICATION Spec
INVARIANTS
  TypeOK
  ReturnInRange
  NoStaleBytes
PROPERTIES
  Terminates
CHECK_DEADLOCK FALSE
