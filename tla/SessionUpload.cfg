CONSTANTS
  Requests = {r1, r2}
  Inodes = {i1, i2}
  NBlocks = 3
  Bodies <- NoBodies
  Modes = {"Overwrite"}
  Faults = {"disconnect", "lost"}
  PoolLimit = 1
  None = None
  ChunkSizes = {2, 3}
  MaxRetries = 1
  CommitRetries = 1
SPECIFICATION FairUploadSpec
INVARIANTS
  UploadTypeOK
  SidecarSound
  PublishedComplete
  AckedKept
  DoneMeansPublished
PROPERTIES
  UploadIsAtomic
  Terminates
