SPECIFICATION Spec
CONSTANTS
    Alerts = {a1}
    Posters = {p1}
    Others = {}
    MaxPosts = 2
    MaxConns = 2
    MaxFaults = 1
CHECK_DEADLOCK FALSE
INVARIANTS CacheFresh InSync BufferDrains
