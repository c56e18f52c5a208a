CONSTANTS
    w1 = w1
    w2 = w2
    none = none
    Workers <- TwoWorkers
    Tokens <- TwoWorkers
    Contents <- CleanContent
    Receipts <- MCEvidence
    Locators <- MCEvidence
    None <- none
    Lease = 1
    RetryDelay = 1
    MaxClock = 1
    S3Attempts = 1
    MaxCrashes = 0
    MaxFaults = 0
    MaxReviews = 0
SPECIFICATION Spec
PROPERTIES
    ClaimConflictKeepsLease
CHECK_DEADLOCK FALSE
