CONSTANTS
  P = 17
  MaxDomainSize = 16
  NThreads = 2
  GpuPresent = FALSE
  Vectors <- MCNonPowerOfTwoVectors
SPECIFICATION Spec
INVARIANT
  DomainChecked
