CONSTANTS
  Requests = {r1}
  Inodes = {i1, i2}
  NBlocks = 2
  Bodies <- NoBodies
  Modes = {"Overwrite"}
  Faults = {"cancel", "crash", "sweep", "timeout", "full"}
  PoolLimit = 1
  None = None
  ChunkSizes = {1}
  MaxRetries = 0
  CommitRetries = 0
SPECIFICATION FairUploadSpec
INVARIANTS
  PublishedFull
  NoLeftovers
PROPERTY Terminates
