SPECIFICATION Spec
CONSTANTS
    N = 3
    PageSize = 1
    Filters = {{}, {1}}
    MaxPages = 2
    Order <- MCOrder
    Retention <- MCRetention
    Inactivity = 2
    Degraded = 1
    Horizon = 3
    Watched = 2
    Patient = "long"
    MaxOwner = 1
INVARIANTS
    ReadyTruthful
    NoEpisodeOverlooked
    AdditionsAreCurrent
    CoverageReturns
