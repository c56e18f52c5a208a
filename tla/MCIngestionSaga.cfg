CONSTANTS
    t1 = t1
    t2 = t2
    r1 = r1
    r2 = r2
    l1 = l1
    none = none
    Tokens <- MCTokens
    Receipts <- MCReceipts
    Locators <- MCLocators
    None <- none
    Lease = 1
    RetryDelay = 1
    MaxClock = 2
SPECIFICATION SagaSpec
SYMMETRY Symmetry
INVARIANTS
    StoreConsistent
PROPERTIES
    SettledIsFrozen
    
    ImplementsContract
CHECK_DEADLOCK FALSE
