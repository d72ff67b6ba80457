CONSTANTS
    e1 = e1
    e2 = e2
    t1 = t1
    NoEvent = NoEvent
    Events <- MCEvents
    QueryOf <- MCQueryOf
    Rank <- MCRank
    PollInterval = 1
    PageSize = 2
    MaxAttempts = 2
    PendingLimit = 2
    BatchSize = 2
    MayStall = {t1}
    Refused <- MCRefused
    MaxChanges = 1
    MaxFaults = 2
SPECIFICATION LiveSpec
PROPERTIES KeepsWindow KeepsPolling GeometryComplete
