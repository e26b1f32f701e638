SPECIFICATION Spec
CONSTANTS
  Histories <- LongHistories
  MinParallel = 2
  MaxWindow = 2
  MaxRetries = 0
  MaxRuns = 1
INVARIANT NeverMixed
CHECK_DEADLOCK FALSE
