SPECIFICATION Spec
CONSTANTS
  Loaders = {l1}
  Keys = {k1, k2, k3}
  Bodies = {b1, b2, b3}
  SizeOf <- SharedSizes
  Limits = {1, 2}
  MemoryLimit = 2
  MaxDiskEntry = 2
  MaxNow = 0
  MaxFetches = 3
  MayRestart = TRUE
  None = none
  Mixed = mixed
  b1 = b1
  b2 = b2
  b3 = b3
INVARIANTS
  ServedBodyIsComplete
SYMMETRY SharedSymmetry
PROPERTIES
  EvictionIsLeastRecent
