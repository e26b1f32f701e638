SPECIFICATION Spec
CONSTANTS
  Histories <- EmptiedHistories
  MinParallel = 2
  MaxWindow = 2
  MaxRetries = 1
  MaxRuns = 2
PROPERTIES
  DownloadsEnd
CHECK_DEADLOCK FALSE
