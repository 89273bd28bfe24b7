SPECIFICATION Spec
CONSTANTS
    MaxGrants = 2
    MaxGen = 1
    MaxStarts = 2
    MaxRequests = 1
    MaxCrashes = 0
    Playlists = 1
    SaveFaults = {"lost", "late"}
INVARIANT SessionTruthful
