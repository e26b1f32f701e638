CONSTANTS
  Requests = {k1, k2, k3}
  Budgets = {1, 2, 3}
  MaxRetries = 1
SPECIFICATION FairSpec
PROPERTY PauseCanEnd
