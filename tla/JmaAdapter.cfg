SPECIFICATION Spec
CONSTANTS
    a = a
    b = b
    Items = {a, b}
    Listed = {}
    NoItem = NoItem
    Rejected = {b}
    Rank <- MCRank
    PendingLimit = 1
    MaxRetryAttempts = 2
    Faults = {"persist"}
    MaxFaults = 1
    MaxCrashes = 1
INVARIANTS
    TypeOK
    NothingLost
    ValidatorCovers
    NoRefetch
    LatchStopsRequests
PROPERTIES
    FinalIsStable
