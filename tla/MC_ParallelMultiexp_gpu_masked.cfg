CONSTANTS
  NThreads = 2
  Q = 10007
  ScalarSize = 32
  FrSize = 32
  PackFactor = 2
  MinChunkBits = 2
  MaxChunkBits = 16
  GpuPresent = TRUE
  Inputs <- MCMaskedFrInputs
SPECIFICATION Spec
INVARIANT
  MultiexpCorrect
