CONSTANTS
  ScalarSizes <- MCScalarSizes
  MinChunkBits = 2
  MaxChunkBits = 16
  MaxPow = 10
SPECIFICATION Spec
INVARIANTS
  GetChunkMatchesWindow
  CodeBRIsReversal

