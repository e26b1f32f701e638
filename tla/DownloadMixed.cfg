SPECIFICATION Spec
CONSTANTS
  Histories <- LongHistories
  MinParallel = 2
  MaxWindow = 2
  MaxRetries = 1
  MaxRuns = 3
INVARIANT ResumedIsOneVersion
CHECK_DEADLOCK FALSE
