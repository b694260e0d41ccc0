CONSTANTS
  i1 = i1
  i2 = i2
  i3 = i3
  Ids <- MCIds
  Fetches <- MCFetches
  NoRequest = NoRequest
  PendingTimeout = 2
  CompletedRetention = 1
  FailedRetention = 2
  SupersededRetention = 0
  EmptyTtl = 1
  BackoffSteps = 2
  Backoff <- MCBackoff
  AgeCap = 3
  MaxAttempts = 2
  MaxGeneration = 1
SPECIFICATION HandlerSpec
SYMMETRY MCIdSymmetry
INVARIANTS TypeOK StaleExactlyWhenSuperseded NoDuplicateDownload
PROPERTIES BackoffHolds SettledIsFinal
CHECK_DEADLOCK FALSE
