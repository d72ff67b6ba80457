SPECIFICATION LiveSpec
CONSTANTS
    a = a
    b = b
    Items = {a}
    Listed = {}
    NoItem = NoItem
    Rejected = {}
    Rank <- MCRank
    PendingLimit = 1
    MaxRetryAttempts = 1
    Faults = {"persist", "torn", "corrupt"}
    MaxFaults = 2
    MaxCrashes = 0
PROPERTY ListedResolved
