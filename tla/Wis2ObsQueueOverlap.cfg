SPECIFICATION QueueSpec
CONSTANTS
    w1 = w1
    w2 = w2
    PoolWorkers = {w1, w2}
    Ticker = ticker
    MaxObs = 5
    ObsBatchLimit = 2
    ObsQueueCap = 3
    MaxFailures = 3
SYMMETRY Symmetry
INVARIANT NoSilentLoss
