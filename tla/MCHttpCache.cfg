SPECIFICATION Spec
CONSTANTS
  Loaders = {l1, l2}
  Keys = {k1, k2}
  Bodies = {b1, b2}
  SizeOf <- DifferentSizes
  Limits = {1, 2}
  MemoryLimit = 2
  MaxDiskEntry = 2
  MaxNow = 1
  MaxFetches = 2
  MayRestart = FALSE
  None = none
  Mixed = mixed
  b1 = b1
  b2 = b2
  b3 = b3
INVARIANTS
  MemoryIsAccounted
  HitsAreUsable
SYMMETRY Symmetry
