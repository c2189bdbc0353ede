CONSTANTS
  NThreads = 2
  Q = 10007
  ScalarSize = 8
  FrSize = 32
  PackFactor = 2
  MinChunkBits = 2
  MaxChunkBits = 16
  GpuPresent = FALSE
  Inputs <- MCInputs
SPECIFICATION Spec
INVARIANTS
  TypeOK
  NoDataRace
  ChunkResultsCorrect
  MultiexpCorrect
PROPERTIES
  MsmRefinement
