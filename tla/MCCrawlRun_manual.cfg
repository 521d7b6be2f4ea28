\* Two runs by hand: adaptations, ZIM builds, cleanup, and a look at the state in between.
SPECIFICATION FairSpec
CONSTANTS
  Options <- ManualOptions
  InitialWorkers = 2
  MinWorkers = 1
  MaxReductions = 1
  MaxRestarts = 0
  MaxRotations = 1
  MaxFreshFailures = 2
  MaxTempDirs = 1
  MaxStages = 1
  None = None
  DirBound = 2
  QueueBound = 1
  RunBound = 2
  CrashBound = 0
  LookBound = 1
CHECK_DEADLOCK FALSE
INVARIANTS TypeOK 
PROPERTIES EveryRunEnds
