CONSTANTS
    n1 = n1
    n2 = n2
    n3 = n3
    NoId = NoId
    Notifications <- MCNotifications
    NotificationId <- MCNotificationId
    DataId <- MCDataId
    KindsOf <- MCKindsOf
    Malformed = {n3}
    Inline = {n3}
    Brokers = 2
    Alive = {1}
    BackoffCeiling = 2
    w1 = w1
    w2 = w2
    Workers <- MCWorkers
    InboundCap = 1
    DownloadConcurrency = 1
    BatchLimit = 2
    MaxReports = 1
    MaxFaults = 1
SPECIFICATION Spec
SYMMETRY WorkerSymmetry
INVARIANTS Conserved OncePerData DuplicateOfWorked CountersAddUp LastFlushCovers
