SPECIFICATION Spec
CONSTANTS
  MaxTimers = 2
  Delays = {0, 1, 2}
  MaxTasks = 0
  MaxMicrotasks = 0
  MaxFrames = 1
  MaxJobs = 2
  MaxAdvances = 1
  AutoAdvances = {TRUE}
  MayThrow = TRUE
PROPERTIES
  WaitingTimersFire
