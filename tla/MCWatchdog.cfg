\* Both watchdogs, the worker, units and an operator's shell on two jobs of one source.
SPECIFICATION FairSpec
CONSTANTS
    Jobs = {1, 2}
    Fresh = {1}
    SourceOf <- OneSource
    Degraded = TRUE
    Apply = TRUE
    MinStreak = 1
    MaxRecoveries = 1
    MaxStarts = 1
    MinRunning = 1
    Window = 1
    LaunchBound = 1
    FaultBound = 1
    DayBound = 1
INVARIANTS TypeOK RecoveriesCapped
CHECK_DEADLOCK FALSE
PROPERTIES WorkerComesBack
