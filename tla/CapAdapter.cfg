SPECIFICATION LiveSpec
CONSTANTS
  f1 = f1
  f2 = f2
  i1 = i1
  i2 = i2
  m1 = m1
  Feeds = {f1, f2}
  Items = {i1, i2}
  MessageOf <- MCMessageOf
  FirstRegistry = {f1}
  FirstList <- MCFirstList
  OldItems = {i1}
  Gone = {i2}
  MaxAttempts = 2
  Slots = {0, 1}
  MaxCoreRetries = 2
  AlertBatchSize = 2
  PendingFetchLimit = 2
  MaxChanges = 1
  MaxFaults = 1
INVARIANTS FetchedIsStored ValidatorsCovered AttemptsAreDownloads
PROPERTIES ListedIsSettled
