\* One operator, no worker: commands one after the other, on a queued and an adopted job.
\* The system stops when the operator has no more commands.
SPECIFICATION Spec
CONSTANTS
    Jobs = {1, 2}
    FreshJobs = {}
    AcceptedJobs = {}
    Registered = {2}
    Workers = {}
    Clis = {c}
    Free = free
    NewCounts = {0}
    Versions = {1, 2, 3, 4, 5}
    c = c
    MaxCrawlRetries = 1
    MaxInfraRetries = 1
    MaxFreshFailures = 1
    MaxFaults = 1
    MaxInfraFaults = 2
    MaxAsks = 4
INVARIANTS ServedOnce
PROPERTIES CapturesAreKept
CHECK_DEADLOCK FALSE
