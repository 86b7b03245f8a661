SPECIFICATION TransferSpec
CONSTANTS
  MaxBuffers = 3
  MaxHosts = 3
  MaxViews = 1
  Numbers = {1, 4}
  ElementSizes = {4}
PROPERTY TransferDetachesOriginal
\* Scripts stop when the tables are full.
CHECK_DEADLOCK FALSE
