SPECIFICATION LiveSpec
CONSTANTS
    a = a
    b = b
    Items = {a, b}
    Listed = {a, b}
    NoItem = NoItem
    Rejected = {a}
    Rank <- MCRank
    PendingLimit = 1
    MaxRetryAttempts = 1
    Faults = {"corrupt"}
    MaxFaults = 1
    MaxCrashes = 0
PROPERTY ListedResolved
