CONSTANTS
  Requests = {r1, r2}
  Inodes = {i1, i2, i3}
  NBlocks = 2
  Bodies <- NoBodies
  Modes = {"Overwrite"}
  Faults = {"reject"}
  PoolLimit = 1
  None = None
  ChunkSizes = {1}
  MaxRetries = 1
  CommitRetries = 0
SPECIFICATION UploadSpec
INVARIANT PublishedComplete
