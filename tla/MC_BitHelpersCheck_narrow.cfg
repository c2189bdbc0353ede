CONSTANTS
  ScalarSizes <- MCNarrowScalarSizes
  MinChunkBits = 2
  MaxChunkBits = 16
  MaxPow = 0
SPECIFICATION Spec
INVARIANT
  LoadWithinScalar
