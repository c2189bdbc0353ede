CONSTANTS
  P = 17
  MaxDomainSize = 16
  NThreads = 2
  GpuPresent = TRUE
  Vectors <- MCVectors
SPECIFICATION Spec
INVARIANTS
  TypeOK
  NoDataRace
  NttCorrect
PROPERTIES
  TransformRefinement
