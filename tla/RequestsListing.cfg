SPECIFICATION Spec
CONSTANTS
  Codecs <- MCMount
  Tokens <- MCAll
  Trees <- MCTrees
  RawPaths <- MCRawPaths
  Ranges <- MCNoRange
  UMax = 7
  Budget = 2
  MaxSize = 3
  MaxVersion = 2
  MaxRequests = 2
INVARIANTS
  EveryListedLeadsBack
CHECK_DEADLOCK FALSE
