SPECIFICATION FairSpec
CONSTANTS
  u = u
  v = v
  w = w
  x = x
  Fulls <- MCFulls
  Candidates <- MCCandidates
  Foreign <- MCForeign
  None = None
  MaxItems = 3
  Crashes = TRUE
  StoreMayFail = TRUE
  MaxChanges = 4
  MaxEdits = 1
  MaxFaults = 3
INVARIANTS
  OpenPostIsFenced
  NoDuplicates
PROPERTIES
  CoverageResolves
