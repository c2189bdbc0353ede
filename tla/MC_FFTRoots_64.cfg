CONSTANTS
  P = 193
  MaxDomainSize = 64
  ThreadCounts = {2, 7}
SPECIFICATION Spec
INVARIANTS
  TypeOK
  NoDataRace
  TablesCorrect
PROPERTIES
  ConstructorTerminates
