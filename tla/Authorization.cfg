SPECIFICATION FairSpec
CONSTANTS
    MaxGrants = 2
    MaxGen = 2
    MaxStarts = 2
    MaxRequests = 1
    MaxCrashes = 1
    Playlists = 1
    SaveFaults = {"lost", "late"}
INVARIANTS
    SessionBinding
    CacheDurable
    GuardedWrite
    DeadCredentialDropped
PROPERTIES
    ConnectedWorks
    EveryCycleEnds
