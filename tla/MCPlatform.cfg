SPECIFICATION Spec
CONSTANTS
  MaxWorkers = 2
  MaxListeners = 2
  MaxMessages = 1
  MaxReplies = 1
  MaxBuffers = 3
  MaxHosts = 2
  MaxViews = 2
  Numbers = {1, 4}
  ElementSizes = {4}
  MaxScripts = 3
  MaxElements = 2
  MaxSources = 1
  MaxSourceBuffers = 2
  MaxSegments = 2
  SegmentLengths = {2}
  PlainLength = 240
  CacheNames = {c1}
  Urls <- PathUrls
  Scopes <- NestedScopes
  MaxEntries = 2
  MaxRevision = 3
  MaxAdded = 2
  MaxPrecache = 1
  MaxRegistered = 2
  MaxNodes = 4
  MaxTargets = 1
  MaxInputs = 3
  DirtyNodes = {n1, n2}
  UnknownScopeIsDocument = TRUE
  CoalesceDocumentScope = TRUE
INVARIANTS
  ScriptsRunOnceInOrder
  ElementsMirrorTheirSource
  TreeIsMirrored
  SearchFindsFirst
  PlanCoversInputs
PROPERTIES
  WorkersKeepTheirMessages
  BuffersKeepTheirBytes
  PutIsKept
  RegistrationsAreSeparate
  NewNodesHaveNoListeners
\* A script, or the pipeline, may come to its end.
CHECK_DEADLOCK FALSE
