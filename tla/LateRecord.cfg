CONSTANTS
  Requests = {r1, r2}
  Inodes = {i1, i2, i3}
  NBlocks = 2
  Bodies <- MCBodies
  Modes = {"Create"}
  Faults = {"cancel", "detach"}
  PoolLimit = 1
  None = None
SYMMETRY Symmetry
VIEW View
SPECIFICATION Spec
INVARIANT NoLostUpdate
