SPECIFICATION Spec
CONSTANTS
  u = u
  v = v
  w = w
  x = x
  Fulls <- MCFulls
  Candidates <- MCCandidates
  Foreign <- MCForeign
  None = None
  MaxItems = 3
  Crashes = FALSE
  StoreMayFail = FALSE
  MaxChanges = 3
  MaxEdits = 0
  MaxFaults = 1
INVARIANTS
  DoubtIsResolved
