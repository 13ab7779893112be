CONSTANTS
  Texts <- SomeTexts
  Raws <- SomeRaws
  Rooms = {16, 25, 26}
SPECIFICATION Spec
INVARIANTS
  TypeOK
  TextIsBits
  TextParsesBack
  AcceptedIsCanonical
PROPERTIES
  TextOrder
