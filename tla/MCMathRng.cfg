CONSTANTS
  g1 = g1
  g2 = g2
  Gens <- MCGens
  Seeds <- MCSeeds
  Clocks <- MCClocks
  MsSize = 4500
  Sizes = {3, 10}
  MaxWords = 3
SYMMETRY Symmetry
SPECIFICATION Spec
INVARIANTS TypeOK BytesNotAllZero OriginDecidesStream ClockRoundTrips
