CONSTANTS
  P = 17
  MaxDomainSize = 16
  NThreads = 2
  GpuPresent = TRUE
  Vectors <- MCEmptyVectors
SPECIFICATION Spec
CHECK_DEADLOCK FALSE
PROPERTY
  TransformRefinement
