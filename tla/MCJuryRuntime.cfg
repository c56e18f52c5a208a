CONSTANTS
    p1 = p1
    p2 = p2
    s1 = s1
    o1 = o1
    k1 = k1
    none = none
    Owners = {o1}
    Sessions = {s1}
    OwnerOf <- MCOwnerOf
    MaxRuns = 2
    MaxAttempt = 4
    RequestLimits <- MCRequestLimits
    CallLimits <- MCCallLimits
    Runtimes = {p1, p2}
    Keys = {k1}
    NoRun = none
    Capacity = 1
    MaxTries = 2
    MaxFaults = 1
    MaxStops = 1
SPECIFICATION FairSpec
INVARIANTS
    CoordinatorIsConsistent
    LedgerIsTrue
    AnswersAreAccounted
PROPERTIES
    ImplementsBudget
    RunsEnd
CHECK_DEADLOCK FALSE
