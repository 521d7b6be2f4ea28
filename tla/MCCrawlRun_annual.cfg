\* Two runs of an annual job: stalls, adaptations, resets, promotion, one kill.
SPECIFICATION Spec
CONSTANTS
  Options <- AnnualOptions
  InitialWorkers = 2
  MinWorkers = 1
  MaxReductions = 1
  MaxRestarts = 1
  MaxRotations = 0
  MaxFreshFailures = 2
  MaxTempDirs = 1
  MaxStages = 2
  None = None
  DirBound = 2
  QueueBound = 1
  RunBound = 2
  CrashBound = 1
  LookBound = 0
CHECK_DEADLOCK FALSE
INVARIANTS ContainersBounded 
