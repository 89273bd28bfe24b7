SPECIFICATION Spec
CONSTANTS
  a = a
  b = b
  c = c
  d = d
  Desireds <- MCDesireds
  Foreign <- MCForeign
  None = None
  Hidden = Hidden
  Unread = Unread
  Environments <- AllEnvironments
  MaxVersions = 4
  MaxChanges = 2
INVARIANTS
  PendingTruthful
  ExactLeaseTruthful
  DegradedLeaseTruthful
  DoubtIsResolvedAlive
  NoRepeatedWrite
