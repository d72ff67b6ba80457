SPECIFICATION ReplaySpec
CONSTANTS
    a = a
    b = b
    Items = {a, b}
    Listed = {}
    NoItem = NoItem
    Rejected = {a}
    Rank <- MCRank
    PendingLimit = 1
    MaxRetryAttempts = 1
    Faults = {}
    MaxFaults = 0
    MaxCrashes = 0
PROPERTIES
    SpoolDelivered
