SPECIFICATION Spec
CONSTANTS
    Alerts = {a1, a2}
    Handlers = {h1, h2}
    ChunkSize = 1
    MaxRev = 2
    MaxVersions = 5
    MaxFaults = 2
SYMMETRY Symmetry
CHECK_DEADLOCK FALSE
INVARIANTS TypeOK SeenStored MirrorsList SubscribersTold
