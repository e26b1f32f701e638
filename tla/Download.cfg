SPECIFICATION Spec
CONSTANTS
  Histories <- MCHistories
  MinParallel = 2
  MaxWindow = 2
  MaxRetries = 1
  MaxRuns = 3
INVARIANTS
  FinishedIsWhole
  TargetIsOneVersion
  StateIsTrue
PROPERTIES
  DownloadsEnd
CHECK_DEADLOCK FALSE
