CONSTANTS
  Ids = {i1, i2}
  Fetches <- MCFetches
  NoRequest = NoRequest
  PendingTimeout = 1
  CompletedRetention = 0
  FailedRetention = 1
  SupersededRetention = 0
  EmptyTtl = 1
  BackoffSteps = 1
  Backoff <- MCBackoff
  AgeCap = 2
  MaxAttempts = 1
  MaxGeneration = 1
  LastPoint = 3
  ChunkLength = 2
  LiveTail = 1
  Workers = {w1, w2}
  NoWorker = NoWorker
  MaxInbox = 2
SPECIFICATION FairSpec
INVARIANTS ChartTypeOK OneWorker OnlyTraversedIsCovered GapsAreExact CoveredIsLoaded
PROPERTIES FetchingEnds PendingEnds
CHECK_DEADLOCK FALSE
