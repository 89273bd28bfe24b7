SPECIFICATION Spec
CONSTANTS
    Features <- MCFeatures
    Browsers = {b1, b2}
    Slots = {s1, s2}
    MaxPreviews = 1
    MaxFaults = 1
    MaxLosses = 1
    MaxWrites = 2
    MaxCrashes = 1
    MaxElsewhere = 1
    Audited = 1
INVARIANTS
    CancelHonoured
PROPERTIES
    AppliedAsShown
    DamageContained
    EffectOnce
    NoLostUpdate
    ReplyTruthful
    NoFallback
SYMMETRY Interchangeable
CHECK_DEADLOCK FALSE
