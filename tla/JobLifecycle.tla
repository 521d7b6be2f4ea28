--------------------------- MODULE JobLifecycle ---------------------------
(***************************************************************************)
(* The life of an archive job: the archive_jobs row, the per-job flock, the *)
(* worker loop (ha_backend/worker/main.py), the runner that both the worker *)
(* and `run-db-job` call (ha_backend/jobs.py), the index transaction        *)
(* (ha_backend/indexing/pipeline.py) and the operator commands of cli.py.   *)
(*                                                                         *)
(* Granularity.  A session is a transaction: what it reads, it reads when   *)
(* it opens, and what it writes appears when it commits.  A session that    *)
(* does slow work in between (the stale scan, indexing) is split at its     *)
(* read and its commit, so that other processes act in between; a session   *)
(* that only reads and writes one row is one step.                          *)
(***************************************************************************)
EXTENDS Integers, FiniteSets

CONSTANTS
    Jobs,              \* the jobs, numbered in queued_at order
    FreshJobs,         \* jobs with resume_policy fresh_only and a fallback backend
    AcceptedJobs,      \* jobs whose acceptance_state was set by an operator
    Registered,        \* jobs adopted by register-job-dir: born 'completed'
    Workers,           \* run_worker_loop processes
    Clis,              \* processes that run one CLI command at a time
    Free,              \* nobody holds the lock
    NewCounts,         \* the --new-count values given to reset-retry-count
    Versions,          \* tells apart the rows of different index transactions
    MaxCrawlRetries,   \* worker/main.py MAX_CRAWL_RETRIES
    MaxInfraRetries,   \* jobs.py MAX_INFRA_ERROR_RETRIES
    MaxFreshFailures,  \* max_fresh_failures_before_fallback
    MaxFaults,         \* bound: process crashes and database errors
    MaxInfraFaults,    \* bound: crawls of a job that end in a storage error
    MaxAsks            \* bound: commands operators and watchdogs issue

Procs == Workers \cup Clis

ASSUME JobsAssumption ==
    /\ Jobs \subseteq Nat \ {0}
    /\ FreshJobs \subseteq Jobs
    /\ AcceptedJobs \subseteq Jobs
    /\ Registered \subseteq Jobs
ASSUME ProcsAssumption == Workers \cap Clis = {} /\ Free \notin Procs
ASSUME BoundsAssumption ==
    /\ {MaxCrawlRetries, MaxInfraRetries, MaxFreshFailures,
        MaxFaults, MaxInfraFaults, MaxAsks} \subseteq Nat
    /\ NewCounts \subseteq Nat

NoJob == 0

VARIABLES
    row,       \* committed archive_jobs columns that control reads
    started,   \* started_at: unset, within the stale window, or before it
    hot,       \* jobs in crawler_status infra_error updated within the cooldown
    progress,  \* jobs whose crawl log shows progress in the last 300 s
    lock,      \* who holds the flock of each job
    copies,    \* per job, the index transactions that have rows in snapshots
    pc,        \* where each process is
    cur,       \* job_id of each process
    todo,      \* loaded stale rows a scan has yet to probe
    found,     \* loaded stale rows a scan will mark
    target,    \* retry_count that reset-retry-count will write
    crawlOk,   \* run_persistent_job returned 0
    seen,      \* job.status as loaded by the open index transaction
    gone,      \* the copies that the open index transaction has deleted
    faults, infraRuns, asks   \* counters of the bounds

dbVars == <<row, started, hot, copies>>
procVars == <<cur, todo, found, target, crawlOk, seen, gone>>
boundVars == <<faults, infraRuns, asks>>
vars == <<dbVars, progress, lock, pc, procVars, boundVars>>

Status == {"queued", "running", "retryable", "failed",
           "completed", "indexed", "index_failed"}
Runnable == {"queued", "retryable"}
Indexable == {"completed", "index_failed", "indexed"}
CrawlerStatus == {"none", "success", "failed", "infra_error", "infra_error_config"}
Outcomes == {"ok", "failed", "infra_error", "infra_error_config"}

Row == [status : Status, crawler : CrawlerStatus, retries : Nat,
        backend : {"browsertrix", "fallback"},
        review : {"none", "accepted", "needs_review"}]

Labels == {"idle", "probe", "probing", "reconcile", "select", "lock", "sync",
           "begin", "crawl", "unlock", "post", "index", "indexing", "insert",
           "resetlock", "resetprobe", "reset"}

Init ==
    /\ row = [j \in Jobs |->
                [status  |-> IF j \in Registered THEN "completed" ELSE "queued",
                 crawler |-> "none", retries |-> 0, backend |-> "browsertrix",
                 review  |-> IF j \in AcceptedJobs THEN "accepted" ELSE "none"]]
    /\ started = [j \in Jobs |-> "unset"]
    /\ hot = {}
    /\ progress = {}
    /\ lock = [j \in Jobs |-> Free]
    /\ copies = [j \in Jobs |-> {}]
    /\ pc = [p \in Procs |-> "idle"]
    /\ cur = [p \in Procs |-> NoJob]
    /\ todo = [p \in Procs |-> {}]
    /\ found = [p \in Procs |-> {}]
    /\ target = [p \in Procs |-> 0]
    /\ crawlOk = [p \in Procs |-> FALSE]
    /\ seen = [p \in Procs |-> "completed"]
    /\ gone = [p \in Procs |-> {}]
    /\ faults = 0
    /\ infraRuns = [j \in Jobs |-> 0]
    /\ asks = 0

-----------------------------------------------------------------------------
Goto(p, label) == pc' = [pc EXCEPT ![p] = label]

\* An iteration or a command is over: its locals go with its stack frame.
Return(p) ==
    /\ Goto(p, "idle")
    /\ cur' = [cur EXCEPT ![p] = NoJob]
    /\ todo' = [todo EXCEPT ![p] = {}]
    /\ found' = [found EXCEPT ![p] = {}]
    /\ target' = [target EXCEPT ![p] = 0]
    /\ crawlOk' = [crawlOk EXCEPT ![p] = FALSE]
    /\ seen' = [seen EXCEPT ![p] = "completed"]
    /\ gone' = [gone EXCEPT ![p] = {}]

\* UPDATE of a row: onupdate=now() moves updated_at as well.
Write(j, new) ==
    /\ row' = [row EXCEPT ![j] = new]
    /\ hot' = IF new.crawler = "infra_error" THEN hot \cup {j} ELSE hot \ {j}

\* Mutant: the stale scan only looks at rows that never started.
StaleOnlyUnset == {j \in Jobs : row[j].status = "running" /\ started[j] = "unset"}

StaleRunning == {j \in Jobs : row[j].status = "running" /\ started[j] # "recent"}

\* Mutant: reconciliation also takes captures whose indexing failed.
CompletedOrFailed == {j \in Jobs : row[j].status \in {"completed", "index_failed"}}

Completed == {j \in Jobs : row[j].status = "completed"}
Eligible == {j \in Jobs : row[j].status \in Runnable /\ j \notin hot}
Oldest(S) == CHOOSE j \in S : \A k \in S : j <= k
Ask == asks < MaxAsks /\ asks' = asks + 1

-----------------------------------------------------------------------------
(* Stale rows: the worker's self-heal and recover-stale-jobs.              *)

ScanStale(p, rows) ==
    /\ pc[p] = "idle"
    /\ todo' = [todo EXCEPT ![p] = rows]
    /\ Goto(p, "probe")
    /\ UNCHANGED <<dbVars, progress, lock, cur, found, target, crawlOk, seen, gone,
                   faults, infraRuns>>

WorkerWakes(w) == ScanStale(w, StaleRunning) /\ UNCHANGED asks

\* --include-missing-started-at and --require-no-progress-seconds
CliRecovers(c) ==
    /\ Ask
    /\ \E includeMissing, requireNoProgress \in BOOLEAN :
        ScanStale(c, {j \in StaleRunning :
                        /\ started[j] = "unset" => includeMissing
                        /\ requireNoProgress => j \notin progress})

\* with _job_lock(job.id): pass -- for a moment the probe holds the lock.
Probe(p) ==
    /\ pc[p] = "probe"
    /\ \E j \in todo[p] :
        /\ lock[j] = Free
        /\ lock' = [lock EXCEPT ![j] = p]
        /\ cur' = [cur EXCEPT ![p] = j]
        /\ todo' = [todo EXCEPT ![p] = @ \ {j}]
    /\ Goto(p, "probing")
    /\ UNCHANGED <<dbVars, progress, found, target, crawlOk, seen, gone, boundVars>>

ProbeFindsLocked(p) ==
    /\ pc[p] = "probe"
    /\ \E j \in todo[p] :
        /\ lock[j] # Free
        /\ todo' = [todo EXCEPT ![p] = @ \ {j}]
    /\ UNCHANGED <<dbVars, progress, lock, pc, cur, found, target, crawlOk, seen, gone,
                   boundVars>>

\* The worker looks at the progress of a job after it has probed its lock.
ProbeEnds(p) ==
    LET j == cur[p]
    IN /\ pc[p] = "probing"
       /\ lock' = [lock EXCEPT ![j] = Free]
       /\ found' = IF p \in Workers /\ j \in progress THEN found
                   ELSE [found EXCEPT ![p] = @ \cup {j}]
       /\ cur' = [cur EXCEPT ![p] = NoJob]
       /\ Goto(p, "probe")
       /\ UNCHANGED <<dbVars, progress, todo, target, crawlOk, seen, gone, boundVars>>

RecoverCommits(p) ==
    /\ pc[p] = "probe"
    /\ todo[p] = {}
    /\ row' = [j \in Jobs |-> IF j \in found[p] THEN [row[j] EXCEPT !.status = "retryable"]
                              ELSE row[j]]
    /\ hot' = hot \cup {j \in found[p] : row[j].crawler = "infra_error"}
    /\ found' = [found EXCEPT ![p] = {}]
    /\ Goto(p, IF p \in Workers THEN "reconcile" ELSE "idle")
    /\ UNCHANGED <<started, copies, progress, lock, cur, todo, target, crawlOk, seen, gone,
                   boundVars>>

-----------------------------------------------------------------------------
(* The worker picks what to do.                                            *)

\* Mutant: the worker goes to index without the id of the job.
ReconcileForgetsJob(w) ==
    /\ pc[w] = "reconcile"
    /\ Goto(w, IF Completed = {} THEN "select" ELSE "index")
    /\ UNCHANGED <<dbVars, progress, lock, procVars, boundVars>>

Reconcile(w) ==
    /\ pc[w] = "reconcile"
    /\ \/ /\ Completed = {}
          /\ Goto(w, "select")
          /\ UNCHANGED cur
       \/ \E j \in Completed :
            /\ cur' = [cur EXCEPT ![w] = j]
            /\ Goto(w, "index")
    /\ UNCHANGED <<dbVars, progress, lock, todo, found, target, crawlOk, seen, gone, boundVars>>

Select(w) ==
    /\ pc[w] = "select"
    /\ Eligible # {}
    /\ cur' = [cur EXCEPT ![w] = Oldest(Eligible)]
    /\ Goto(w, "lock")
    /\ UNCHANGED <<dbVars, progress, lock, todo, found, target, crawlOk, seen, gone, boundVars>>

\* No disk headroom, no eligible job, or tiering the oldest one raised: the
\* iteration ends and the next one starts over with the same oldest job.
SkipCrawl(w) ==
    /\ pc[w] = "select"
    /\ Return(w)
    /\ UNCHANGED <<dbVars, progress, lock, boundVars>>

-----------------------------------------------------------------------------
(* run_persistent_job                                                      *)

CliRuns(c) ==
    /\ pc[c] = "idle"
    /\ Ask
    /\ \E j \in Jobs : cur' = [cur EXCEPT ![c] = j]
    /\ Goto(c, "lock")
    /\ UNCHANGED <<dbVars, progress, lock, todo, found, target, crawlOk, seen, gone,
                   faults, infraRuns>>

\* Mutant: the lock file is opened but LOCK_EX is not taken exclusively.
AcquireBlind(p, from, to) ==
    /\ pc[p] = from
    /\ lock' = [lock EXCEPT ![cur[p]] = p]
    /\ Goto(p, to)
    /\ UNCHANGED <<dbVars, progress, procVars, boundVars>>

Acquire(p, from, to) ==
    /\ pc[p] = from
    /\ lock[cur[p]] = Free
    /\ lock' = [lock EXCEPT ![cur[p]] = p]
    /\ Goto(p, to)
    /\ UNCHANGED <<dbVars, progress, procVars, boundVars>>

TakeLock(p) == Acquire(p, "lock", "begin")

WorkerFindsLocked(w) ==
    /\ pc[w] = "lock"
    /\ lock[cur[w]] # Free
    /\ Goto(w, "sync")
    /\ UNCHANGED <<dbVars, progress, lock, procVars, boundVars>>

CliFindsLocked(c) ==
    /\ pc[c] = "lock"
    /\ lock[cur[c]] # Free
    /\ Return(c)
    /\ UNCHANGED <<dbVars, progress, lock, boundVars>>

\* JobAlreadyRunningError: the worker syncs the row to 'running'.
Sync(w) ==
    LET j == cur[w]
    IN /\ pc[w] = "sync"
       /\ IF row[j].status = "running"
          THEN UNCHANGED <<row, hot, started>>
          ELSE /\ Write(j, [row[j] EXCEPT !.status = "running"])
               /\ started' = [started EXCEPT ![j] = IF @ = "unset" THEN "recent" ELSE @]
       /\ Return(w)
       /\ UNCHANGED <<copies, progress, lock, boundVars>>

\* Mutant: the first session of the runner does not check that the row is runnable.
BeginUnchecked(p) ==
    /\ pc[p] = "begin"
    /\ Write(cur[p], [row[cur[p]] EXCEPT !.status = "running", !.crawler = "none"])
    /\ started' = [started EXCEPT ![cur[p]] = "recent"]
    /\ Goto(p, "crawl")
    /\ UNCHANGED <<copies, progress, lock, procVars, boundVars>>

Begin(p) ==
    LET j == cur[p]
    IN /\ pc[p] = "begin"
       /\ row[j].status \in Runnable
       /\ Write(j, [row[j] EXCEPT !.status = "running", !.crawler = "none"])
       /\ started' = [started EXCEPT ![j] = "recent"]
       /\ Goto(p, "crawl")
       /\ UNCHANGED <<copies, progress, lock, procVars, boundVars>>

\* ValueError: the row is not runnable (any more).
RefuseBegin(p) ==
    /\ pc[p] = "begin"
    /\ row[cur[p]].status \notin Runnable
    /\ lock' = [lock EXCEPT ![cur[p]] = Free]
    /\ Return(p)
    /\ UNCHANGED <<dbVars, progress, boundVars>>

\* The crawl logs progress.
Crawl(p) ==
    /\ pc[p] = "crawl"
    /\ cur[p] \notin progress
    /\ progress' = progress \cup {cur[p]}
    /\ UNCHANGED <<dbVars, lock, pc, procVars, boundVars>>

\* What the second session makes of a row, by how the crawl ended.
Recorded(r, outcome) ==
    CASE outcome = "ok" -> [r EXCEPT !.status = "completed", !.crawler = "success"]
      [] outcome = "infra_error" ->
            [r EXCEPT !.status = IF r.retries < MaxInfraRetries THEN "retryable" ELSE "failed",
                      !.crawler = "infra_error"]
      [] OTHER -> [r EXCEPT !.status = "failed", !.crawler = outcome]

Record(p, outcome) ==
    LET j == cur[p]
    IN /\ pc[p] = "crawl"
       /\ outcome = "infra_error" => infraRuns[j] < MaxInfraFaults
       /\ infraRuns' = [infraRuns EXCEPT ![j] = IF outcome = "infra_error" THEN @ + 1 ELSE @]
       /\ Write(j, Recorded(row[j], outcome))
       /\ crawlOk' = [crawlOk EXCEPT ![p] = outcome = "ok"]
       /\ Goto(p, "unlock")
       /\ UNCHANGED <<started, copies, progress, lock, cur, todo, found, target, seen, gone,
                      faults, asks>>

Release(p, from, to) ==
    /\ pc[p] = from
    /\ lock' = [lock EXCEPT ![cur[p]] = Free]
    /\ Goto(p, to)
    /\ UNCHANGED <<dbVars, progress, procVars, boundVars>>

WorkerUnlocks(w) == Release(w, "unlock", "post")
CliUnlocks(c) == crawlOk[c] /\ Release(c, "unlock", "index")

\* The crawl failed, or --no-index: the command ends.
CliExits(c) ==
    /\ pc[c] = "unlock"
    /\ lock' = [lock EXCEPT ![cur[c]] = Free]
    /\ Return(c)
    /\ UNCHANGED <<dbVars, progress, boundVars>>

-----------------------------------------------------------------------------
(* The worker's post-crawl session.                                        *)

FlagForReview(r) ==
    [r EXCEPT !.review = IF @ = "accepted" THEN @ ELSE "needs_review"]

\* Mutant: the fallback is promoted one failure too late.
FailurePolicyLate(j, r) ==
    LET failures == r.retries + 1
    IN CASE r.backend = "browsertrix" /\ j \in FreshJobs /\ MaxFreshFailures > 0 ->
                IF failures > MaxFreshFailures
                THEN [r EXCEPT !.status = "retryable", !.retries = 0, !.backend = "fallback"]
                ELSE [r EXCEPT !.status = "retryable", !.retries = failures]
         [] OTHER ->
                IF failures < MaxCrawlRetries
                THEN [r EXCEPT !.status = "retryable", !.retries = failures]
                ELSE FlagForReview(r)

FailurePolicy(j, r) ==
    LET failures == r.retries + 1
    IN CASE r.backend = "browsertrix" /\ j \in FreshJobs /\ MaxFreshFailures > 0 ->
                IF failures >= MaxFreshFailures
                THEN [r EXCEPT !.status = "retryable", !.retries = 0, !.backend = "fallback"]
                ELSE [r EXCEPT !.status = "retryable", !.retries = failures]
         [] r.backend = "fallback" ->
                IF failures < MaxCrawlRetries
                THEN [r EXCEPT !.status = "retryable", !.retries = failures]
                ELSE FlagForReview([r EXCEPT !.status = "failed", !.retries = failures])
         [] OTHER ->
                IF r.retries < MaxCrawlRetries
                THEN [r EXCEPT !.status = "retryable", !.retries = failures]
                ELSE FlagForReview(r)

PostInfra(w) ==
    LET j == cur[w]
    IN /\ pc[w] = "post"
       /\ row[j].crawler = "infra_error"
       /\ IF row[j].status = "retryable" THEN UNCHANGED <<row, hot>>
          ELSE Write(j, [row[j] EXCEPT !.status = "retryable"])
       /\ Return(w)
       /\ UNCHANGED <<started, copies, progress, lock, boundVars>>

PostConfigError(w) ==
    /\ pc[w] = "post"
    /\ row[cur[w]].crawler = "infra_error_config"
    /\ Return(w)
    /\ UNCHANGED <<dbVars, progress, lock, boundVars>>

PostFailed(w) ==
    LET j == cur[w]
    IN /\ pc[w] = "post"
       /\ row[j].crawler \notin {"infra_error", "infra_error_config"}
       /\ ~crawlOk[w] \/ row[j].status = "failed"
       /\ Write(j, FailurePolicy(j, row[j]))
       /\ Return(w)
       /\ UNCHANGED <<started, copies, progress, lock, boundVars>>

PostSucceeded(w) ==
    LET r == row[cur[w]]
    IN /\ pc[w] = "post"
       /\ r.crawler \notin {"infra_error", "infra_error_config"}
       /\ crawlOk[w] /\ r.status # "failed"
       /\ Goto(w, "index")
       /\ UNCHANGED <<dbVars, progress, lock, procVars, boundVars>>

-----------------------------------------------------------------------------
(* index_job: one long transaction that takes no job lock.                 *)

CliIndexes(c) ==
    /\ pc[c] = "idle"
    /\ Ask
    /\ \E j \in Jobs : cur' = [cur EXCEPT ![c] = j]
    /\ Goto(c, "index")
    /\ UNCHANGED <<dbVars, progress, lock, todo, found, target, crawlOk, seen, gone,
                   faults, infraRuns>>

OpenIndex(p) ==
    /\ pc[p] = "index"
    /\ row[cur[p]].status \in Indexable
    /\ seen' = [seen EXCEPT ![p] = row[cur[p]].status]
    /\ Goto(p, "indexing")
    /\ UNCHANGED <<dbVars, progress, lock, cur, todo, found, target, crawlOk, gone, boundVars>>

RefuseIndex(p) ==
    /\ pc[p] = "index"
    /\ row[cur[p]].status \notin Indexable
    /\ Return(p)
    /\ UNCHANGED <<dbVars, progress, lock, boundVars>>

\* Mutant: indexing adds to what an earlier run of it left behind.
DeleteNothing(p) ==
    /\ pc[p] = "indexing"
    /\ Goto(p, "insert")
    /\ UNCHANGED <<dbVars, progress, lock, procVars, boundVars>>

\* DELETE FROM snapshots: it sees the rows committed so far.
DeleteSnapshots(p) ==
    /\ pc[p] = "indexing"
    /\ gone' = [gone EXCEPT ![p] = copies[cur[p]]]
    /\ Goto(p, "insert")
    /\ UNCHANGED <<dbVars, progress, lock, cur, todo, found, target, crawlOk, seen, boundVars>>

\* The ORM emits an UPDATE of status only if it differs from what it loaded,
\* or if a flush wrote the intermediate value 'indexing'.
WriteIndexStatus(p, status) ==
    \/ Write(cur[p], [row[cur[p]] EXCEPT !.status = status])
    \/ status = seen[p] /\ UNCHANGED <<row, hot>>

\* Unreadable output dir, no WARC, or a WARC fails verification: nothing deleted.
IndexGivesUp(p) ==
    /\ pc[p] = "indexing"
    /\ WriteIndexStatus(p, "index_failed")
    /\ Return(p)
    /\ UNCHANGED <<started, copies, progress, lock, boundVars>>

\* Rows inserted now are none of those that an open transaction has deleted.
Unused(j) == Versions \ (copies[j] \cup UNION {gone[q] : q \in Procs})

\* Success, or an exception after the delete: both commit what was inserted.
IndexCommits(p, status) ==
    LET j == cur[p]
    IN /\ pc[p] = "insert"
       /\ WriteIndexStatus(p, status)
       /\ \/ /\ Unused(j) # {}
             /\ copies' = [copies EXCEPT ![j] =
                             (@ \ gone[p]) \cup {CHOOSE v \in Unused(j) : TRUE}]
          \/ /\ status = "index_failed"
             /\ copies' = [copies EXCEPT ![j] = @ \ gone[p]]
       /\ Return(p)
       /\ UNCHANGED <<started, progress, lock, boundVars>>

\* A database error rolls the transaction back and is raised.
IndexRollsBack(p) ==
    /\ pc[p] \in {"indexing", "insert"}
    /\ faults < MaxFaults
    /\ faults' = faults + 1
    /\ Return(p)
    /\ UNCHANGED <<dbVars, progress, lock, infraRuns, asks>>

-----------------------------------------------------------------------------
(* retry-job is one short session; reset-retry-count loads, probes, writes. *)

RetryJob(j) ==
    /\ Ask
    /\ row[j].status \in {"failed", "index_failed"}
    /\ Write(j, [row[j] EXCEPT !.status = IF @ = "failed" THEN "retryable" ELSE "completed"])
    /\ UNCHANGED <<started, copies, progress, lock, pc, procVars, faults, infraRuns>>

CliResets(c) ==
    /\ pc[c] = "idle"
    /\ Ask
    /\ \E j \in Jobs :
        /\ row[j].status \in {"queued", "retryable", "failed"}
        /\ cur' = [cur EXCEPT ![c] = j]
        /\ \E n \in NewCounts \ {row[j].retries} : target' = [target EXCEPT ![c] = n]
    /\ Goto(c, "resetlock")
    /\ UNCHANGED <<dbVars, progress, lock, todo, found, crawlOk, seen, gone,
                   faults, infraRuns>>

ResetProbes(c) == Acquire(c, "resetlock", "resetprobe")

ResetRefused(c) ==
    /\ pc[c] = "resetlock"
    /\ lock[cur[c]] # Free
    /\ Return(c)
    /\ UNCHANGED <<dbVars, progress, lock, boundVars>>

ResetReleases(c) == Release(c, "resetprobe", "reset")

ResetCommits(c) ==
    LET j == cur[c]
    IN /\ pc[c] = "reset"
       /\ Write(j, [row[j] EXCEPT !.retries = target[c]])
       /\ Return(c)
       /\ UNCHANGED <<started, copies, progress, lock, boundVars>>

-----------------------------------------------------------------------------
(* Crashes and time.                                                       *)

\* Mutant: the lock is a file that outlives the process.
CrashKeepsLock(p) ==
    /\ pc[p] # "idle"
    /\ faults < MaxFaults
    /\ faults' = faults + 1
    /\ Return(p)
    /\ UNCHANGED <<dbVars, progress, lock, infraRuns, asks>>

\* The kernel drops the flocks of a dead process; its open session is lost.
Crash(p) ==
    /\ pc[p] # "idle"
    /\ faults < MaxFaults
    /\ faults' = faults + 1
    /\ lock' = [j \in Jobs |-> IF lock[j] = p THEN Free ELSE lock[j]]
    /\ Return(p)
    /\ UNCHANGED <<dbVars, progress, infraRuns, asks>>

\* STALE_RUNNING_RECOVERY_OLDER_THAN_MINUTES since started_at.
Age(j) ==
    /\ started[j] = "recent"
    /\ started' = [started EXCEPT ![j] = "old"]
    /\ UNCHANGED <<row, hot, copies, progress, lock, pc, procVars, boundVars>>

\* INFRA_ERROR_RETRY_COOLDOWN_MINUTES since updated_at.
Cool(j) ==
    /\ j \in hot
    /\ hot' = hot \ {j}
    /\ UNCHANGED <<row, started, copies, progress, lock, pc, procVars, boundVars>>

\* STALE_RUNNING_REQUIRE_NO_PROGRESS_SECONDS since the last progress line.
FallSilent(j) ==
    /\ j \in progress
    /\ progress' = progress \ {j}
    /\ UNCHANGED <<dbVars, lock, pc, procVars, boundVars>>

-----------------------------------------------------------------------------
RunnerStep(p) ==
    \/ Probe(p) \/ ProbeFindsLocked(p) \/ ProbeEnds(p) \/ RecoverCommits(p)
    \/ TakeLock(p) \/ Begin(p) \/ RefuseBegin(p)
    \/ \E outcome \in Outcomes : Record(p, outcome)
    \/ OpenIndex(p) \/ RefuseIndex(p) \/ DeleteSnapshots(p) \/ IndexGivesUp(p)
    \/ \E status \in {"indexed", "index_failed"} : IndexCommits(p, status)

WorkerStep(w) ==
    \/ RunnerStep(w)
    \/ WorkerWakes(w) \/ Reconcile(w) \/ Select(w) \/ SkipCrawl(w)
    \/ WorkerFindsLocked(w) \/ Sync(w) \/ WorkerUnlocks(w)
    \/ PostInfra(w) \/ PostConfigError(w) \/ PostFailed(w) \/ PostSucceeded(w)

CliStep(c) ==
    \/ RunnerStep(c)
    \/ CliFindsLocked(c) \/ CliUnlocks(c) \/ CliExits(c)
    \/ ResetProbes(c) \/ ResetRefused(c) \/ ResetReleases(c) \/ ResetCommits(c)
CliStart(c) == CliRecovers(c) \/ CliRuns(c) \/ CliIndexes(c) \/ CliResets(c)

Clock(j) == Age(j) \/ Cool(j) \/ FallSilent(j)

Next ==
    \/ \E w \in Workers : WorkerStep(w)
    \/ \E c \in Clis : CliStep(c) \/ CliStart(c)
    \/ \E p \in Procs : Crawl(p) \/ IndexRollsBack(p) \/ Crash(p)
    \/ \E j \in Jobs : RetryJob(j) \/ Clock(j)

Spec == Init /\ [][Next]_vars

\* The worker is a service that a watchdog starts again: it keeps taking steps.
\* A command that was started runs to its end, and time passes.  The oldest
\* eligible job is eventually taken: the disk has room again at some point and
\* tiering does not fail forever.
Fairness ==
    /\ \A w \in Workers : WF_vars(WorkerStep(w)) /\ SF_vars(Select(w))
    /\ \A c \in Clis : WF_vars(CliStep(c))
    /\ \A j \in Jobs : WF_vars(Age(j)) /\ WF_vars(Cool(j)) /\ WF_vars(FallSilent(j))

FairSpec == Spec /\ Fairness
-----------------------------------------------------------------------------
(* Properties.                                                             *)

DbTyped ==
    /\ row \in [Jobs -> Row]
    /\ started \in [Jobs -> {"unset", "recent", "old"}]
    /\ hot \subseteq Jobs
    /\ copies \in [Jobs -> SUBSET Versions]

\* A process has a job wherever its code has a job_id.
Unassigned == {"idle", "probe", "reconcile", "select"}

ProcsTyped ==
    /\ pc \in [Procs -> Labels]
    /\ cur \in [Procs -> Jobs \cup {NoJob}]
    /\ \A p \in Procs : pc[p] \notin Unassigned => cur[p] \in Jobs
    /\ todo \in [Procs -> SUBSET Jobs]
    /\ found \in [Procs -> SUBSET Jobs]
    /\ target \in [Procs -> NewCounts \cup {0}]
    /\ crawlOk \in [Procs -> BOOLEAN]
    /\ seen \in [Procs -> Indexable]
    /\ gone \in [Procs -> SUBSET Versions]

CountersTyped ==
    /\ faults \in Nat
    /\ infraRuns \in [Jobs -> Nat]
    /\ asks \in Nat

TypeOK ==
    /\ DbTyped
    /\ ProcsTyped
    /\ CountersTyped
    /\ lock \in [Jobs -> Procs \cup {Free}]
    /\ progress \subseteq Jobs

Holding == {"begin", "crawl", "unlock", "probing", "resetprobe"}

\* Whatever workers, commands, crashes and stale scans do, two runners never
\* run archive_tool on one job's output directory at the same time
\* (run_persistent_job under _job_lock).
OneRunnerPerJob ==
    \A p, q \in Procs :
        pc[p] = "crawl" /\ pc[q] = "crawl" /\ cur[p] = cur[q] => p = q

Budget(j) == IF j \in FreshJobs /\ MaxFreshFailures > 0
             THEN MaxFreshFailures - 1 ELSE MaxCrawlRetries

\* The retry budget of a job on its first backend holds however crawls,
\* recoveries, retry-job and reset-retry-count interleave: no sequence of
\* failures takes retry_count past it.
RetryBudget ==
    \A j \in Jobs : row[j].backend = "browsertrix" => row[j].retries <= Budget(j)

\* Re-indexing is idempotent: a job's capture is in snapshots at most once,
\* and an indexed job's capture is there.
ServedOnce ==
    \A j \in Jobs :
        /\ Cardinality(copies[j]) <= 1
        /\ row[j].status = "indexed" => copies[j] # {}

\* "Maximum number of retries for infra errors before giving up" (jobs.py).
InfraRetriesCapped == \A j \in Jobs : infraRuns[j] <= MaxInfraRetries + 1

\* A capture that was completed or indexed is never crawled again.
CapturesAreKept ==
    [][\A j \in Jobs : row[j].status \in {"completed", "indexed"}
                          => row'[j].status \notin {"running", "retryable"}]_row

\* A worker that is the only process to act on the jobs moves their status
\* along the documented lifecycle and nowhere else.
Lifecycle == INSTANCE JobStatus WITH status <- [j \in Jobs |-> row[j].status]
FollowsLifecycle == Lifecycle!Spec

Settled == {"indexed", "index_failed", "failed"}

\* Every job comes to rest: stale rows heal, retries run out, completed
\* captures are indexed, and no job starves another.
EveryJobSettles == \A j \in Jobs : <>[](row[j].status \in Settled)
=============================================================================
