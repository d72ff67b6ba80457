SPECIFICATION Spec
CONSTANTS
    Alerts = {a1}
    Posters = {p1, p2}
    Others = {}
    MaxPosts = 2
    MaxConns = 1
    MaxFaults = 1
CHECK_DEADLOCK FALSE
INVARIANTS CacheFresh InSync BufferDrains
