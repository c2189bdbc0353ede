CONSTANTS
  c1 = c1
  c2 = c2
  c3 = c3
  None = None
  Callers <- MCCallers
  MsmSizes = {0, 1}
  ScalarSizes = {32}
  NttSizes = {1, 2, 3}
  MaxCalls = 1
SPECIFICATION Spec
INVARIANTS
  TypeOK
  KernelAfterSetup
  DomainInitOnce
PROPERTIES
  CallsReturn
