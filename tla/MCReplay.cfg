\* Two WARCs, one of them damaged perhaps; four commands and three kills or failing calls.
SPECIFICATION Spec
CONSTANTS
    N = 2
    Damageable = {1}
    Limits = {}
    IndexVerifies = TRUE
    TimerStopped = TRUE
    CommandBound = 4
    FaultBound = 3
CHECK_DEADLOCK FALSE
INVARIANTS TypeOK 
PROPERTIES ReplayCatchesUp
