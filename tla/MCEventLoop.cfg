SPECIFICATION Spec
CONSTANTS
  MaxTimers = 2
  Delays = {0, 1, 2}
  MaxTasks = 1
  MaxMicrotasks = 1
  MaxFrames = 1
  MaxJobs = 3
  MaxAdvances = 3
  AutoAdvances = {TRUE, FALSE}
  MayThrow = FALSE
INVARIANTS
  TimersAreKept
PROPERTIES
  ReadyWorkComesFirst
  TimeStopsAtEveryDeadline
