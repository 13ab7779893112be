CONSTANTS
  ByteSize = 4
  Times <- BoundaryTimes
  Entropies <- SomeEntropies
  Buffer <- ShortBuffer
SPECIFICATION Spec
INVARIANTS
  TypeOK
  ReadsBack
  ReaderIsConsumedInOrder
PROPERTIES
  OrderIsTimeFirst
