SPECIFICATION LiveSpec
CONSTANTS
    MaxTime = 3
    Skew = 1
    GapFillLookback = 2
    FdsnPageLimit = 2
    LiveChannelSize = 1
    LiveBatchSize = 2
    Garbled = TRUE
    MaxDrops = 2
    MaxRestarts = 1
INVARIANTS LiveInOrder GapFillSound
PROPERTY Delivered
\* The clock stops at MaxTime, and the adapter waits for the next message.
CHECK_DEADLOCK FALSE
