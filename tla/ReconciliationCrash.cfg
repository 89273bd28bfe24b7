SPECIFICATION Spec
CONSTANTS
  a = a
  b = b
  c = c
  d = d
  Desireds <- MCDesireds
  Foreign <- MCForeign
  None = None
  Hidden = Hidden
  Unread = Unread
  Environments <- CrashOnly
  MaxVersions = 4
  MaxChanges = 2
INVARIANTS
  DoubtIsResolved
