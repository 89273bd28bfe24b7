SPECIFICATION FairSpec
CONSTANTS
  t1 = t1
  t2 = t2
  s1 = s1
  s2 = s2
  d1 = d1
  d2 = d2
  None = None
  Templates <- MCTemplates
  Sources <- MCSources
  Destinations <- MCDestinations
  Environments <- MCEnvironments
  MaxFaults = 2
  MaxEdits = 5
INVARIANTS
  EveryCreationAccounted
  LetGoStaysLetGo
  SourcesRemain
  OneWriterPerDestination
PROPERTIES
  KnownResolves
