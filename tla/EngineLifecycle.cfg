SPECIFICATION FairSpec
CONSTANTS
  p = p
  q = q
  k1 = k1
  k2 = k2
  Main = Main
  None = None
  Playlists <- MCPlaylists
  Workers <- MCWorkers
  MaxEdits = 4
INVARIANTS
  OneScheduler
  WritesMatchConfiguration
  DeletionExcludesCycle
  ShutdownTruthful
PROPERTIES
  ChangesAreSeen
  ComesToRest
