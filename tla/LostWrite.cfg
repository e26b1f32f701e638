CONSTANTS
  Requests = {r1}
  Inodes = {i1, i2}
  NBlocks = 2
  Bodies <- NoBodies
  Modes = {"Overwrite"}
  Faults = {"full"}
  PoolLimit = 1
  None = None
  ChunkSizes = {1}
  MaxRetries = 1
  CommitRetries = 0
SPECIFICATION UploadSpec
INVARIANT PublishedComplete
