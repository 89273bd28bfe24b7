SPECIFICATION FairSpec
CONSTANTS
  a = a
  b = b
  c = c
  d = d
  Desireds <- MCDesireds
  Foreign <- MCForeign
  None = None
  Hidden = Hidden
  Unread = Unread
  Environments <- Hostile
  MaxVersions = 7
  MaxChanges = 1
PROPERTIES
  Converges
