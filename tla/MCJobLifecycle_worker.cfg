\* One worker alone: retries, promotion, crashes, indexing; nobody else acts.
SPECIFICATION FairSpec
CONSTANTS
    Jobs = {1, 2}
    FreshJobs = {2}
    AcceptedJobs = {1}
    Registered = {}
    Workers = {w}
    Clis = {}
    Free = free
    NewCounts = {0}
    Versions = {1, 2, 3, 4, 5}
    w = w
    MaxCrawlRetries = 2
    MaxInfraRetries = 1
    MaxFreshFailures = 1
    MaxFaults = 1
    MaxInfraFaults = 2
    MaxAsks = 0
PROPERTIES FollowsLifecycle EveryJobSettles
