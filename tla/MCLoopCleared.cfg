SPECIFICATION Spec
CONSTANTS
  MaxTimers = 2
  Delays = {0, 1}
  MaxTasks = 0
  MaxMicrotasks = 0
  MaxFrames = 0
  MaxJobs = 3
  MaxAdvances = 3
  AutoAdvances = {TRUE}
  MayThrow = FALSE
PROPERTIES
  ClearedTimersDoNotFire
