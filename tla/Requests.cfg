SPECIFICATION Spec
CONSTANTS
  Codecs <- MCCodecs
  Tokens <- MCTokens
  Trees <- MCTrees
  RawPaths <- MCRawPaths
  Ranges <- MCRanges
  UMax = 7
  Budget = 2
  MaxSize = 3
  MaxVersion = 2
  MaxRequests = 2
INVARIANTS
  OnlyGranted
  AnswerIsTheRange
  ListedLeadsBack
CHECK_DEADLOCK FALSE
