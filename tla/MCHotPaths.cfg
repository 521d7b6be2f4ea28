SPECIFICATION FairSpec
CONSTANTS
    Jobs = {1, 2}
    ConfirmRuns = 2
    MaxRecoveries = 2
    MaxPerJob = 1
    LaunchBound = 2
    FaultBound = 2
    TagBound = 1
INVARIANTS TypeOK RecoveriesCapped
PROPERTIES StaleGoes WorkerComesBack
CHECK_DEADLOCK FALSE
