------------------------------ MODULE HotPaths ------------------------------
(***************************************************************************)
(* Where an annual job writes.  Its output_dir is a bind mount of a directory *)
(* on the cold archive, an sshfs mount that may die: every bind mount of it    *)
(* then answers Errno 107 until it is unmounted.  vps-storage-hotpath-auto-    *)
(* recover finds such paths, stops the worker, unmounts, restarts the base    *)
(* mount and has vps-annual-output-tiering bind the directories again; the    *)
(* worker runs the same script before it crawls.                             *)
(*                                                                         *)
(* Each command of the watchdog is a step, and so is each mount command of    *)
(* the script: the two instances of the script, the worker and the starter    *)
(* interleave with all of them.  The crawl is JobLifecycle's; here it has a    *)
(* place where it writes.                                                    *)
(***************************************************************************)
EXTENDS Integers, Sequences, FiniteSets

CONSTANTS
    Jobs,           \* annual jobs, in the order in which the worker takes them
    ConfirmRuns,    \* --confirm-runs
    MaxRecoveries,  \* --max-recoveries-per-day (per hour: the same with a smaller number)
    MaxPerJob,      \* --max-recoveries-per-job-per-day
    LaunchBound, FaultBound, TagBound   \* bounds: crawls; deaths of a part; metadata restored

ASSUME JobsAssumption == Jobs \subseteq Nat \ {0} /\ IsFiniteSet(Jobs)
ASSUME LimitsAssumption ==
    /\ ConfirmRuns \in Nat \ {0}
    /\ {MaxRecoveries, MaxPerJob, LaunchBound, FaultBound, TagBound} \subseteq Nat

VARIABLES
    status,     \* archive_jobs.status; "done" stands for every settled one
    tagged,     \* jobs whose config has campaign_kind = "annual"
    started,    \* jobs that have been started: their config has a primary backend
    cooling,    \* jobs within the cool-down after an infra error
    made,       \* jobs whose output_dir exists
    cold,       \* the base mount of the cold archive answers
    mounts,     \* what is mounted on each output_dir, the top last
    crawl,      \* where the crawl of a job writes
    worker,     \* the worker: up, and what it is about to do
    wd,         \* the run of the watchdog
    tier,       \* the runs of the tiering script, by who called it
    obs,        \* the watchdog's state file: observations
    ledger,     \* and the recoveries of the last 24 hours
    bounds,     \* counters of the bounds
    applied     \* history: the recoveries of the last 24 hours, and those lost with their watchdog

rows == <<status, tagged, started, cooling>>
state == <<obs, ledger>>
disks == <<made, cold, mounts>>
vars == <<rows, disks, crawl, worker, wd, tier, state, bounds, applied>>

Pending == {"queued", "retryable"}
Callers == {"worker", "watchdog"}
NoJob == 0

WIdle == [pc |-> "idle", running |-> {}, hit |-> {}, bad |-> {}, todo |-> {}, stopped |-> FALSE, ok |-> TRUE, obs |-> <<>>]
TIdle == [pc |-> "idle", repair |-> {}, bind |-> {}, ok |-> TRUE]

\* The operator may have run the tiering script after schedule-annual, or not yet.
Init ==
    /\ status = [j \in Jobs |-> "queued"]
    /\ tagged = Jobs /\ started = {} /\ cooling = {}
    /\ cold = TRUE
    /\ mounts \in {[j \in Jobs |-> <<>>], [j \in Jobs |-> <<"good">>]}
    /\ made = {j \in Jobs : mounts[j] # <<>>}
    /\ crawl = [j \in Jobs |-> "none"]
    /\ worker = [up |-> TRUE, pc |-> "idle", job |-> NoJob]
    /\ wd = WIdle
    /\ tier = [c \in Callers |-> TIdle]
    /\ obs = [j \in Jobs |-> [key |-> "none", runs |-> 0]]
    /\ ledger = [all |-> 0, of |-> [j \in Jobs |-> 0], recent |-> FALSE]
    /\ bounds = [launches |-> 0, faults |-> 0, tags |-> 0]
    /\ applied = [all |-> 0, of |-> [j \in Jobs |-> 0], lost |-> 0]

Mounted(j) == mounts[j] # <<>>
Top(j) == IF Mounted(j) THEN mounts[j][Len(mounts[j])] ELSE "none"
Stale(j) == Top(j) = "stale"
Unmounted(j) == [mounts EXCEPT ![j] = SubSeq(mounts[j], 1, Len(mounts[j]) - 1)]
Bound(j) == [mounts EXCEPT ![j] = Append(mounts[j], "good")]
Lowest(S) == CHOOSE j \in S : \A k \in S : j <= k
Running == {j \in Jobs : status[j] = "running"}
Waiting == {j \in Jobs : status[j] \in Pending}
Orphans == {j \in Running : crawl[j] = "none"}
Fault == bounds.faults < FaultBound /\ bounds' = [bounds EXCEPT !.faults = bounds.faults + 1]

-----------------------------------------------------------------------------
(* The cold archive, and time.                                             *)

BaseFails ==
    /\ cold /\ Fault
    /\ cold' = FALSE
    /\ mounts' = [j \in Jobs |-> [i \in DOMAIN mounts[j] |-> "stale"]]
    /\ UNCHANGED <<rows, made, crawl, worker, wd, tier, state, applied>>

CoolsDown(j) ==
    /\ j \in cooling
    /\ cooling' = cooling \ {j}
    /\ UNCHANGED <<status, tagged, started, disks, crawl, worker, wd, tier, state, bounds, applied>>

\* The timestamps in the state file become older than the cool-down, and than a day.
CooldownPasses ==
    /\ ledger.recent /\ wd.pc = "idle"
    /\ ledger' = [ledger EXCEPT !.recent = FALSE]
    /\ UNCHANGED <<rows, disks, crawl, worker, wd, tier, obs, bounds, applied>>

DayPasses ==
    /\ wd.pc = "idle" /\ applied.all > 0
    /\ ledger' = [all |-> 0, of |-> [j \in Jobs |-> 0], recent |-> FALSE]
    /\ applied' = [all |-> 0, of |-> [j \in Jobs |-> 0], lost |-> 0]
    /\ UNCHANGED <<rows, disks, crawl, worker, wd, tier, obs, bounds>>

\* Another watchdog or a command writes the campaign's metadata again (AnnualCampaign).
Retags(j) ==
    /\ j \notin tagged /\ bounds.tags < TagBound
    /\ tagged' = tagged \cup {j}
    /\ bounds' = [bounds EXCEPT !.tags = bounds.tags + 1]
    /\ UNCHANGED <<status, started, cooling, disks, crawl, worker, wd, tier, state, applied>>

-----------------------------------------------------------------------------
(* vps-annual-output-tiering --apply --repair-stale-mounts.  It knows the jobs *)
(* of the campaign by their config, and acts on what it saw of their mounts.   *)

\* A running job's mount is only repaired with --allow-repair-running-jobs.
Repairable(allow) == {j \in tagged : Stale(j) /\ (allow \/ j \notin Running)}

\* A readable mount is left alone; if it is not the one expected, that is an error.
Plans(c, allow) ==
    tier' = [tier EXCEPT ![c] =
        IF cold
        THEN [pc |-> "run", repair |-> Repairable(allow), bind |-> {j \in tagged : ~Mounted(j)},
              ok |-> \A j \in tagged : /\ Stale(j) => j \in Repairable(allow)
                                       /\ Len(mounts[j]) <= 1]
        ELSE [TIdle EXCEPT !.pc = "run", !.ok = FALSE]]

\* One job after the other: a stale mount is taken down, and the directory bound again.
Item(c) == Lowest(tier[c].repair \cup tier[c].bind)
Handles(c) == tier[c].pc = "run" /\ tier[c].repair \cup tier[c].bind # {}

TierUnmounts(c) ==
    /\ Handles(c) /\ Item(c) \in tier[c].repair
    /\ LET j == Item(c) IN
         IF Mounted(j)
         THEN /\ mounts' = Unmounted(j)
              /\ tier' = [tier EXCEPT ![c].repair = tier[c].repair \ {j}, ![c].bind = tier[c].bind \cup {j}]
         ELSE /\ tier' = [tier EXCEPT ![c].repair = tier[c].repair \ {j}, ![c].ok = FALSE]
              /\ UNCHANGED mounts
    /\ UNCHANGED <<rows, made, cold, crawl, worker, wd, state, bounds, applied>>

TierBinds(c) ==
    /\ Handles(c) /\ Item(c) \in tier[c].bind
    /\ LET j == Item(c)
           able == cold /\ ~Stale(j)
       IN /\ tier' = [tier EXCEPT ![c].bind = tier[c].bind \ {j}, ![c].ok = tier[c].ok /\ able]
          /\ mounts' = IF able THEN Bound(j) ELSE mounts
          /\ made' = made \cup {j}
    /\ UNCHANGED <<rows, cold, crawl, worker, wd, state, bounds, applied>>

Returned(c) == tier[c].pc = "run" /\ tier[c].repair \cup tier[c].bind = {}

-----------------------------------------------------------------------------
(* The worker.                                                             *)

Eligible == Waiting \ cooling
Free == worker.up /\ worker.pc = "idle" /\ \A j \in Jobs : crawl[j] = "none"

\* _tier_annual_job_if_needed looks at the jobs that say they are annual: a dead mount makes
\* it fail, with nothing recorded, and a directory that is not there yet is not tiered.
WorkerTakes ==
    /\ Free /\ Eligible # {} /\ bounds.launches < LaunchBound
    /\ LET j == Lowest(Eligible)
           needed == j \in tagged /\ j \in made /\ ~Mounted(j)
       IN /\ ~(j \in tagged /\ Stale(j))
          /\ worker' = [worker EXCEPT !.pc = IF needed THEN "tier" ELSE "launch", !.job = j]
          /\ IF needed THEN Plans("worker", FALSE) ELSE UNCHANGED tier
    /\ UNCHANGED <<rows, disks, crawl, wd, state, bounds, applied>>

\* If the script failed, or the directory is still on the root device, nothing is crawled.
WorkerTiered ==
    /\ worker.pc = "tier" /\ Returned("worker")
    /\ worker' = [worker EXCEPT !.pc = IF tier["worker"].ok /\ Top(worker.job) = "good"
                                       THEN "launch" ELSE "idle"]
    /\ tier' = [tier EXCEPT !["worker"] = TIdle]
    /\ UNCHANGED <<rows, disks, crawl, wd, state, bounds, applied>>

\* The first start rewrites the config, without the campaign's keys.
WorkerLaunches ==
    /\ worker.pc = "launch"
    /\ LET j == worker.job IN
         /\ tagged' = IF j \in started THEN tagged ELSE tagged \ {j}
         /\ started' = started \cup {j}
         /\ IF Stale(j)
            THEN status' = [status EXCEPT ![j] = "retryable"] /\ cooling' = cooling \cup {j} /\ UNCHANGED crawl
            ELSE /\ status' = [status EXCEPT ![j] = "running"] /\ UNCHANGED cooling
                 /\ crawl' = [crawl EXCEPT ![j] = IF Mounted(j) THEN "cold" ELSE "root"]
    /\ worker' = [worker EXCEPT !.pc = "idle"]
    /\ made' = made \cup {worker.job}
    /\ bounds' = [bounds EXCEPT !.launches = bounds.launches + 1]
    /\ UNCHANGED <<cold, mounts, wd, tier, state, applied>>

\* A crawl on a dead mount ends with an infra error and no other way.
CrawlEnds(j, result) ==
    /\ crawl[j] # "none"
    /\ result = "infra" \/ crawl[j] = "root" \/ cold
    /\ status' = [status EXCEPT ![j] = IF result = "infra" THEN "retryable" ELSE result]
    /\ cooling' = IF result = "infra" THEN cooling \cup {j} ELSE cooling
    /\ crawl' = [crawl EXCEPT ![j] = "none"]
    /\ UNCHANGED <<tagged, started, disks, worker, wd, tier, state, bounds, applied>>

WorkerHeals ==
    /\ Free /\ Orphans # {}
    /\ status' = [j \in Jobs |-> IF j \in Orphans THEN "retryable" ELSE status[j]]
    /\ UNCHANGED <<tagged, started, cooling, disks, crawl, worker, wd, tier, state, bounds, applied>>

Stopped == [up |-> FALSE, pc |-> "idle", job |-> NoJob]

\* Mutant: the crawl outlives the worker that is stopped.
WorkerGoneAlone == worker' = Stopped /\ UNCHANGED crawl /\ tier' = [tier EXCEPT !["worker"] = TIdle]

WorkerGone ==
    /\ worker' = Stopped
    /\ crawl' = [j \in Jobs |-> "none"]
    /\ tier' = [tier EXCEPT !["worker"] = TIdle]

WorkerDies ==
    /\ worker.up /\ Fault
    /\ WorkerGone
    /\ UNCHANGED <<rows, disks, wd, state, applied>>

\* Mutant: a row that is still marked as running is left alone.
StarterStartsWaiting ==
    /\ ~worker.up /\ Waiting # {}
    /\ worker' = [worker EXCEPT !.up = TRUE]
    /\ UNCHANGED <<rows, disks, crawl, wd, tier, state, bounds, applied>>

\* vps-worker-auto-start: rows without a process are reconciled first (Watchdog).
StarterStarts ==
    /\ ~worker.up /\ Waiting \cup Orphans # {}
    /\ status' = [j \in Jobs |-> IF j \in Orphans THEN "retryable" ELSE status[j]]
    /\ worker' = [worker EXCEPT !.up = TRUE]
    /\ UNCHANGED <<tagged, started, cooling, disks, crawl, wd, tier, state, bounds, applied>>

-----------------------------------------------------------------------------
(* vps-storage-hotpath-auto-recover.                                       *)

\* The running jobs and the next ones are probed; an observation is kept by kind and job, and
\* forgotten when it does not reproduce.
Key(j) == IF j \in Running THEN "job" ELSE "next_job"

\* Mutant: every sighting is the first one.
ObservedAnew ==
    [j \in Jobs |->
        IF j \in Running \cup Waiting /\ Stale(j) THEN [key |-> Key(j), runs |-> 1] ELSE [key |-> "none", runs |-> 0]]

Observed ==
    [j \in Jobs |->
        IF j \in Running \cup Waiting /\ Stale(j)
        THEN [key  |-> Key(j),
              runs |-> IF obs[j].key # Key(j) THEN 1
                       ELSE IF obs[j].runs < ConfirmRuns THEN obs[j].runs + 1 ELSE ConfirmRuns]
        ELSE [key |-> "none", runs |-> 0]]

Confirmed == {j \in Jobs : Observed[j].runs >= ConfirmRuns}

\* Mutant: the cap of a job is left to the global one.
AllowedGlobally(bad) == ~ledger.recent /\ ledger.all < MaxRecoveries

\* One job at its cap keeps the others from being recovered too.
Allowed(bad) ==
    /\ ~ledger.recent /\ ledger.all < MaxRecoveries
    /\ \A j \in bad : ledger.of[j] < MaxPerJob

\* A run that finds nothing to do, or may not do it, only saves its observations.
WdLooks ==
    /\ wd.pc = "idle"
    /\ Confirmed = {} \/ ~Allowed(Confirmed)
    /\ obs' = Observed
    /\ UNCHANGED <<rows, disks, crawl, worker, wd, tier, ledger, bounds, applied>>

Counted(counts, bad) ==
    [counts EXCEPT !.all = counts.all + 1,
                   !.of = [j \in Jobs |-> IF j \in bad THEN counts.of[j] + 1 ELSE counts.of[j]]]

WdDecides ==
    /\ wd.pc = "idle"
    /\ Confirmed # {} /\ Allowed(Confirmed)
    /\ wd' = [pc |-> "stop", running |-> Running, hit |-> {j \in Running : Stale(j)}, bad |-> Confirmed, todo |-> Confirmed,
              stopped |-> FALSE, ok |-> TRUE, obs |-> Observed]
    /\ applied' = Counted(applied, Confirmed)
    /\ UNCHANGED <<rows, disks, crawl, worker, tier, state, bounds>>

\* The worker keeps running if the stale paths are not those of the running jobs.
WdStops ==
    /\ wd.pc = "stop"
    /\ IF worker.up /\ (wd.hit # {} \/ wd.running = {})
       THEN WorkerGone /\ wd' = [wd EXCEPT !.pc = "unmount", !.stopped = TRUE]
       ELSE wd' = [wd EXCEPT !.pc = "unmount"] /\ UNCHANGED <<worker, crawl, tier>>
    /\ UNCHANGED <<rows, disks, state, bounds, applied>>

\* A stop that fails ends the run; it is counted all the same.
WdCannotStop ==
    /\ wd.pc = "stop" /\ worker.up /\ (wd.hit # {} \/ wd.running = {}) /\ Fault
    /\ wd' = [wd EXCEPT !.pc = "check", !.ok = FALSE]
    /\ UNCHANGED <<rows, disks, crawl, worker, tier, state, applied>>

WdUnmounts(j) ==
    /\ wd.pc = "unmount" /\ j \in wd.todo
    /\ mounts' = IF Mounted(j) THEN Unmounted(j) ELSE mounts
    /\ wd' = [wd EXCEPT !.todo = wd.todo \ {j}, !.ok = wd.ok /\ Mounted(j)]
    /\ UNCHANGED <<rows, made, cold, crawl, worker, tier, state, bounds, applied>>

\* The base mount is restarted if it does not answer; the scripts follow if it does.
WdBase ==
    /\ wd.pc = "unmount" /\ wd.todo = {}
    /\ \/ cold' = TRUE /\ wd' = [wd EXCEPT !.pc = "tier"] /\ UNCHANGED bounds
       \/ ~cold /\ Fault /\ wd' = [wd EXCEPT !.pc = "recover", !.ok = FALSE] /\ UNCHANGED cold
    /\ UNCHANGED <<rows, made, mounts, crawl, worker, tier, state, applied>>

WdTiers ==
    /\ wd.pc = "tier"
    /\ Plans("watchdog", wd.stopped)
    /\ wd' = [wd EXCEPT !.pc = "tiering"]
    /\ UNCHANGED <<rows, disks, crawl, worker, state, bounds, applied>>

\* A failure of the script is a warning: "the post-check below is the source of truth".
WdTiered ==
    /\ wd.pc = "tiering" /\ Returned("watchdog")
    /\ tier' = [tier EXCEPT !["watchdog"] = TIdle]
    /\ wd' = [wd EXCEPT !.pc = "recover"]
    /\ UNCHANGED <<rows, disks, crawl, worker, state, bounds, applied>>

\* recover-stale-jobs for the sources of the running jobs that were stale.
WdRecovers ==
    /\ wd.pc = "recover"
    /\ status' = [j \in Jobs |-> IF j \in Orphans \cap wd.hit THEN "retryable" ELSE status[j]]
    /\ wd' = [wd EXCEPT !.pc = "check"]
    /\ UNCHANGED <<tagged, started, cooling, disks, crawl, worker, tier, state, bounds, applied>>

\* "Primary success indicator is readability": a directory without its mount is readable.
\* The state file is written last.
WdEnds ==
    /\ wd.pc = "check"
    /\ LET ok == wd.ok /\ \A j \in wd.bad : ~Stale(j)
       IN worker' = IF ok /\ wd.stopped THEN [worker EXCEPT !.up = TRUE] ELSE worker
    /\ obs' = wd.obs
    /\ ledger' = [Counted(ledger, wd.bad) EXCEPT !.recent = TRUE]
    /\ wd' = WIdle
    /\ UNCHANGED <<rows, disks, crawl, tier, bounds, applied>>

WdDies ==
    /\ wd.pc # "idle" /\ Fault
    /\ wd' = WIdle
    /\ tier' = [tier EXCEPT !["watchdog"] = TIdle]
    /\ applied' = [applied EXCEPT !.lost = applied.lost + 1]
    /\ UNCHANGED <<rows, disks, crawl, worker, state>>

-----------------------------------------------------------------------------
TierStep(c) == TierUnmounts(c) \/ TierBinds(c)

WorkerStep == WorkerTakes \/ WorkerTiered \/ WorkerLaunches \/ WorkerHeals

WatchdogStep ==
    \/ WdLooks \/ WdDecides \/ WdStops \/ WdBase \/ WdTiers \/ WdTiered \/ WdRecovers \/ WdEnds
    \/ \E j \in Jobs : WdUnmounts(j)

Crawling(j) == \E result \in {"done", "retryable", "infra"} : CrawlEnds(j, result)

Next ==
    \/ BaseFails \/ CooldownPasses \/ DayPasses
    \/ \E j \in Jobs : CoolsDown(j) \/ Retags(j) \/ Crawling(j)
    \/ \E c \in Callers : TierStep(c)
    \/ WorkerStep \/ WorkerDies \/ StarterStarts
    \/ WatchdogStep \/ WdCannotStop \/ WdDies

Spec == Init /\ [][Next]_vars

\* systemd's timers run the watchdog and the starter; commands return; time passes.
Fairness ==
    /\ WF_vars(WatchdogStep) /\ WF_vars(StarterStarts) /\ WF_vars(WorkerStep)
    /\ \A c \in Callers : WF_vars(TierStep(c))
    /\ \A j \in Jobs : WF_vars(Crawling(j)) /\ WF_vars(CoolsDown(j))
    /\ SF_vars(DayPasses)

FairSpec == Spec /\ Fairness

-----------------------------------------------------------------------------
\* Every part is well formed; a job that is crawled is running.
TypeOK ==
    /\ status \in [Jobs -> Pending \cup {"running", "done"}]
    /\ {tagged, started, cooling, made} \subseteq SUBSET Jobs
    /\ cold \in BOOLEAN
    /\ mounts \in [Jobs -> Seq({"good", "stale"})]
    /\ crawl \in [Jobs -> {"none", "cold", "root"}]
    /\ worker \in [up : BOOLEAN, pc : {"idle", "tier", "launch"}, job : Jobs \cup {NoJob}]
    /\ wd.pc \in {"idle", "stop", "unmount", "tier", "tiering", "recover", "check"}
    /\ wd.todo \subseteq wd.bad /\ wd.bad \subseteq Jobs
    /\ \A c \in Callers : tier[c].pc \in {"idle", "run"}
    /\ \A j \in Jobs : obs[j].runs \in 0 .. ConfirmRuns
    /\ \A j \in Jobs : crawl[j] # "none" => worker.up

\* "Global safety cap", "per-job safety cap": in a day no more recoveries are applied than the
\* caps allow, but for those of a watchdog that died before it had saved its state.
RecoveriesCapped ==
    /\ applied.all <= MaxRecoveries + applied.lost
    /\ \A j \in Jobs : applied.of[j] <= MaxPerJob + applied.lost

\* A path of a job that is crawled or about to be does not stay stale.
StaleGoes ==
    \A j \in Jobs : (Stale(j) /\ status[j] # "done") ~> (~Stale(j) \/ status[j] = "done")

\* Whatever stopped the worker, and although the watchdog leaves it stopped when its post-check
\* fails, it comes back while there is work.
WorkerComesBack == (~worker.up /\ Waiting \cup Orphans # {}) ~> worker.up

\* Two instances of the script never mount on top of each other: a stacked mount is never
\* proven to be the expected one again.
NoStackedMounts == \A j \in Jobs : Len(mounts[j]) <= 1

\* No repair takes the mount from under a crawl that still writes to it.
HealthyMountStays ==
    [][\A j \in Jobs : Top(j) = "good" /\ crawl[j] = "cold" /\ crawl'[j] = "cold" /\ cold'
          => Len(mounts'[j]) >= Len(mounts[j])]_vars

\* A job that says it is annual, and has a directory, is never crawled on the root disk.
TieredFirst ==
    [][\A j \in Jobs : crawl[j] = "none" /\ crawl'[j] = "root" /\ j \in tagged => j \notin made]_vars

\* "Prevents disk pressure from large annual jobs consuming local disk."
AnnualJobsOffRoot == \A j \in Jobs : crawl[j] # "root"
=============================================================================
