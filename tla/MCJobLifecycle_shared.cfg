\* A worker and two command processes (run-db-job, index-job, recover-stale-jobs) on one job.
SPECIFICATION Spec
CONSTANTS
    Jobs = {1}
    FreshJobs = {1}
    AcceptedJobs = {}
    Registered = {}
    Workers = {w}
    Clis = {c, d}
    Free = free
    NewCounts = {0}
    Versions = {1, 2, 3, 4, 5}
    w = w
    c = c
    d = d
    MaxCrawlRetries = 1
    MaxInfraRetries = 1
    MaxFreshFailures = 1
    MaxFaults = 1
    MaxInfraFaults = 1
    MaxAsks = 2
SYMMETRY CliSymmetry
INVARIANTS TypeOK OneRunnerPerJob 
