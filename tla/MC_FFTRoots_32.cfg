CONSTANTS
  P = 193
  MaxDomainSize = 32
  ThreadCounts = {2}
SPECIFICATION Spec
INVARIANT
  NoDataRace
