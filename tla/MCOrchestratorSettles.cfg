CONSTANTS
    w1 = w1
    w2 = w2
    none = none
    Workers <- OneWorker
    Tokens <- OneWorker
    Contents <- AnyContent
    Receipts <- MCEvidence
    Locators <- MCEvidence
    None <- none
    Lease = 1
    RetryDelay = 1
    MaxClock = 3
    S3Attempts = 2
    MaxCrashes = 1
    MaxFaults = 2
    MaxReviews = 0
SPECIFICATION RecoveringSpec
INVARIANTS
    OutageIsNotQuarantine
PROPERTIES
    Settles
    ExecuteReturns
    UsesStoreAsDesigned
CHECK_DEADLOCK FALSE
