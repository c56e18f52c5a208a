CONSTANTS
    w1 = w1
    w2 = w2
    none = none
    Workers <- TwoWorkers
    Tokens <- TwoWorkers
    Contents <- AnyContent
    Receipts <- MCEvidence
    Locators <- MCEvidence
    None <- none
    Lease = 1
    RetryDelay = 1
    MaxClock = 1
    S3Attempts = 1
    MaxCrashes = 0
    MaxFaults = 1
    MaxReviews = 1
SPECIFICATION Spec
SYMMETRY Symmetry
INVARIANTS
    IntentsComeFirst
    MilestonesBackedByWorld
    EffectsHappenOnce

    
CHECK_DEADLOCK FALSE
