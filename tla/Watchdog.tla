------------------------------ MODULE Watchdog ------------------------------
(***************************************************************************)
(* The two watchdogs that keep crawls going on the single VPS, and the      *)
(* systemd services they act on: scripts/vps-crawl-auto-recover.py stops    *)
(* stalled crawls, marks their rows retryable and fills an idle campaign;    *)
(* scripts/vps-worker-auto-start.py starts a worker that is down.           *)
(*                                                                         *)
(* A timer runs each of them over and over, under a lock file of its own, so *)
(* there is one run of each at a time and the two overlap.  A run is a list *)
(* of short sessions, probes and systemctl commands: each is one step, and  *)
(* what one read is used by the next ones.  The runner and the worker loop   *)
(* are the environment here, and are modelled in JobLifecycle.              *)
(***************************************************************************)
EXTENDS Integers, FiniteSets

CONSTANTS
    Jobs,            \* archive_jobs.id of the annual jobs of this year
    SourceOf,        \* the source code of each job
    Fresh,           \* jobs that have never been recovered; the others were, days ago
    Degraded,        \* the jobs' sources are in --degraded-sources, action recover
    Apply,           \* the worker watchdog is given --apply
    MinStreak,       \* --degraded-min-consecutive-runs
    MaxRecoveries,   \* --max-recoveries-per-job-per-day
    MaxStarts,       \* --max-starts-per-job-per-day
    MinRunning,      \* --ensure-min-running-jobs
    Window,          \* --progress-circuit-window
    LaunchBound,     \* bound: crawls
    FaultBound,      \* bound: processes that die, and probes taken for runners
    DayBound         \* bound: days that pass

ASSUME JobsAssumption == Jobs \subseteq Nat \ {0} /\ IsFiniteSet(Jobs) /\ Fresh \subseteq Jobs
ASSUME LimitsAssumption ==
    /\ Degraded \in BOOLEAN /\ Apply \in BOOLEAN
    /\ {MinStreak, Window} \subseteq Nat \ {0}
    /\ {MaxRecoveries, MaxStarts, MinRunning, LaunchBound, FaultBound, DayBound}
           \subseteq Nat

VARIABLES
    status,    \* archive_jobs.status; "done" stands for every settled one
    age,       \* started_at: unset, or within or before the stale cutoff
    open,      \* rows with started_at set and finished_at null
    host,      \* where the runner that holds the job's lock lives
    crawling,  \* jobs with an archive-tool process that ps shows
    pace,      \* what the newest combined log says of the crawl
    gained,    \* jobs with enough new pages since their last recorded recovery
    workerUp,  \* healtharchive-worker.service is active
    r,         \* the run of vps-crawl-auto-recover
    s,         \* the run of vps-worker-auto-start
    ledger,    \* vps-crawl-auto-recover's state file, per job
    launches, faults, days,   \* counters of the bounds
    acted, lost, useless      \* history: see the properties

rows == <<status, age, open>>
crawls == <<host, crawling, pace, gained, workerUp>>
bounds == <<launches, faults, days>>
history == <<acted, lost, useless>>
vars == <<rows, crawls, r, s, ledger, bounds, history>>

Pending == {"queued", "retryable"}
Hosts == {"worker", "unit", "shell"}
NoJob == 0

RIdle == [pc |-> "idle", held |-> {}, seen |-> {}, fresh |-> {}, job |-> NoJob, kind |-> "none", pages |-> "unknown",
          worse |-> FALSE]
SIdle == [pc |-> "idle", running |-> 0, pending |-> 0, seen |-> {},
          todo |-> {}]

\* A job that was recovered before has crawled no page since.
Init ==
    /\ status = [j \in Jobs |-> "queued"]
    /\ age = [j \in Jobs |-> "unset"]
    /\ open = {}
    /\ host = [j \in Jobs |-> "none"]
    /\ crawling = {}
    /\ pace = [j \in Jobs |-> "unknown"]
    /\ gained = Fresh
    /\ workerUp = TRUE
    /\ r = RIdle
    /\ s = SIdle
    /\ ledger = [j \in Jobs |-> [recoveries |-> 0, starts |-> 0, chain |-> IF j \in gained THEN 0 ELSE 1, streak |-> 0]]
    /\ launches = 0
    /\ faults = 0
    /\ days = 0
    /\ acted = [j \in Jobs |-> 0]
    /\ lost = [j \in Jobs |-> 0]
    /\ useless = [j \in Jobs |-> ledger[j].chain]

Held(j) == host[j] # "none"
Running == {j \in Jobs : status[j] = "running"}
Waiting == {j \in Jobs : status[j] \in Pending}
Lowest(S) == CHOOSE j \in S : \A k \in S : j <= k
Fault == faults < FaultBound /\ faults' = faults + 1

-----------------------------------------------------------------------------
(* The runner and the worker loop, as the watchdogs see them.              *)

CanLaunch(j) == status[j] \in Pending /\ ~Held(j) /\ launches < LaunchBound

\* The runner takes the lock and marks the row; the newest log is still the old one.
Launch(j, where) ==
    /\ CanLaunch(j)
    /\ status' = [status EXCEPT ![j] = "running"]
    /\ age' = [age EXCEPT ![j] = "recent"]
    /\ open' = open \cup {j}
    /\ host' = [host EXCEPT ![j] = where]
    /\ crawling' = crawling \cup {j}
    /\ launches' = launches + 1
    /\ UNCHANGED <<pace, gained>>

Unlaunched == UNCHANGED <<rows, host, crawling, pace, gained, launches>>

WorkerIdle == workerUp /\ \A j \in Jobs : host[j] # "worker"

WorkerTakes ==
    /\ WorkerIdle /\ Waiting # {}
    /\ Launch(Lowest(Waiting), "worker")
    /\ UNCHANGED <<workerUp, r, s, ledger, faults, days, history>>

\* The lock is held: the worker only corrects the row.
WorkerSyncs ==
    /\ WorkerIdle /\ Waiting # {}
    /\ Held(Lowest(Waiting))
    /\ LET j == Lowest(Waiting) IN
         /\ status' = [status EXCEPT ![j] = "running"]
         /\ age' = [age EXCEPT ![j] = IF @ = "unset" THEN "recent" ELSE @]
         /\ open' = open \cup {j}
    /\ UNCHANGED <<crawls, r, s, ledger, bounds, history>>

\* The worker's own recovery of stale rows, which also wants the lock free.
WorkerHeals(j) ==
    /\ WorkerIdle
    /\ j \in Running /\ age[j] # "recent" /\ pace[j] \in {"silent", "unknown"}
    /\ ~Held(j)
    /\ status' = [status EXCEPT ![j] = "retryable"]
    /\ UNCHANGED <<age, open, crawls, r, s, ledger, bounds, history>>

OperatorRuns(j) ==
    /\ Launch(j, "shell")
    /\ UNCHANGED <<workerUp, r, s, ledger, faults, days, history>>

\* The crawl process is gone; its runner still holds the lock.
CrawlExits(j) ==
    /\ j \in crawling
    /\ crawling' = crawling \ {j}
    /\ UNCHANGED <<rows, host, pace, gained, workerUp, r, s, ledger, bounds, history>>

RunnerEnds(j, result) ==
    /\ Held(j) /\ j \notin crawling
    /\ status' = [status EXCEPT ![j] = result]
    /\ open' = open \ {j}
    /\ host' = [host EXCEPT ![j] = "none"]
    /\ UNCHANGED <<age, crawling, pace, gained, workerUp, r, s, ledger, bounds, history>>

\* What the log shows next: pages at a good or a poor rate, or none for an hour.
LogShows(j, p) ==
    /\ j \in crawling /\ pace[j] # p
    /\ pace' = [pace EXCEPT ![j] = p]
    /\ UNCHANGED <<rows, host, crawling, gained, workerUp, r, s, ledger, bounds, history>>

Gains(j) ==
    /\ j \in crawling /\ pace[j] \in {"good", "slow"} /\ j \notin gained
    /\ gained' = gained \cup {j}
    /\ useless' = [useless EXCEPT ![j] = 0]
    /\ UNCHANGED <<rows, host, crawling, pace, workerUp, r, s, ledger, bounds, acted, lost>>

\* A log that nobody writes to any more grows old.
FallsSilent(j) ==
    /\ j \notin crawling /\ pace[j] \in {"good", "slow"}
    /\ pace' = [pace EXCEPT ![j] = "silent"]
    /\ UNCHANGED <<rows, host, crawling, gained, workerUp, r, s, ledger, bounds, history>>

Ages(j) ==
    /\ age[j] = "recent"
    /\ age' = [age EXCEPT ![j] = "old"]
    /\ UNCHANGED <<status, open, crawls, r, s, ledger, bounds, history>>

\* Mutant: the runner is stopped and its crawl goes on.
KilledAlone(js) ==
    /\ host' = [j \in Jobs |-> IF j \in js THEN "none" ELSE host[j]]
    /\ UNCHANGED crawling

\* A runner dies with its crawl; the row stays as it was.
Killed(js) ==
    /\ host' = [j \in Jobs |-> IF j \in js THEN "none" ELSE host[j]]
    /\ crawling' = crawling \ js

OnWorker == {j \in Jobs : host[j] = "worker"}

RunnerDies(j) ==
    /\ host[j] \in {"unit", "shell"} /\ Fault
    /\ Killed({j})
    /\ UNCHANGED <<rows, pace, gained, workerUp, r, s, ledger, launches, days, history>>

WorkerDies ==
    /\ workerUp /\ Fault
    /\ workerUp' = FALSE
    /\ Killed(OnWorker)
    /\ UNCHANGED <<rows, pace, gained, r, s, ledger, launches, days, history>>

\* The timestamps of the state file fall out of the last 24 hours.
DayPasses ==
    /\ days < DayBound
    /\ days' = days + 1
    /\ ledger' = [j \in Jobs |-> [ledger[j] EXCEPT !.recoveries = 0, !.starts = 0]]
    /\ acted' = [j \in Jobs |-> 0]
    /\ UNCHANGED <<rows, crawls, r, s, launches, faults, lost, useless>>

-----------------------------------------------------------------------------
(* vps-crawl-auto-recover.                                                 *)
RStep(from, new) == r.pc = from /\ r' = new

\* The jobs whose flock is taken: by a runner, or for a moment by another probe.
RProbesLocks(probed) ==
    /\ \/ probed = {} /\ UNCHANGED faults
       \/ probed # {} /\ (\A j \in probed : age[j] # "unset") /\ Fault
    /\ RStep("idle", [r EXCEPT !.pc = "sync",
                                !.held = probed \cup {j \in Jobs : Held(j)}])
    /\ UNCHANGED <<rows, crawls, s, ledger, launches, days, history>>

\* "If a job is clearly running (job lock held) ... sync it back to running."
RSyncsHeld ==
    /\ RStep("sync", [r EXCEPT !.pc = "visible", !.seen = crawling])
    /\ LET drifted == r.held \ Running IN
         /\ status' = [j \in Jobs |-> IF j \in drifted THEN "running" ELSE status[j]]
         /\ age' = [j \in Jobs |-> IF j \in drifted /\ age[j] = "unset"
                                   THEN "recent" ELSE age[j]]
         /\ open' = open \cup drifted
    /\ UNCHANGED <<crawls, s, ledger, bounds, history>>

\* A runner without a lock is found by its process; the row has no finished_at.
RSyncsVisible ==
    /\ RStep("visible", [r EXCEPT !.pc = "survey"])
    /\ LET drifted == ((r.seen \cap open) \ Running) \ r.held IN
         status' = [j \in Jobs |-> IF j \in drifted THEN "running" ELSE status[j]]
    /\ UNCHANGED <<age, open, crawls, s, ledger, bounds, history>>

LogsThat(shows) == {j \in Running : pace[j] \in shows}

\* Runs in a row that saw the job degraded; only MinStreak of them matter.
Streak(j) ==
    IF j \in LogsThat({"slow"})
    THEN IF ledger[j].streak < MinStreak THEN ledger[j].streak + 1 ELSE MinStreak
    ELSE 0

\* The running rows and what their logs show.  A streak that is not continued is
\* forgotten; the state file is saved before anything is done.
Surveyed(new) ==
    /\ RStep("survey", [new EXCEPT !.held = {}, !.seen = {}])
    /\ ledger' = [j \in Jobs |->
                    [ledger[j] EXCEPT !.streak = Streak(j)]]
    /\ UNCHANGED <<rows, crawls, s, bounds, history>>

LongSlow == {j \in Jobs : Streak(j) >= MinStreak}
Candidates == IF Degraded THEN LongSlow ELSE {}

\* One job a run: the stalled row with the lowest id, else a long degraded one.
RFindsStalled ==
    /\ LogsThat({"silent"}) # {}
    /\ Surveyed([r EXCEPT !.pc = "decide", !.job = Lowest(LogsThat({"silent"}))])

RFindsDegraded ==
    /\ LogsThat({"silent"}) = {} /\ Candidates # {}
    /\ Surveyed([r EXCEPT !.pc = "decide", !.job = Lowest(Candidates),
                          !.fresh = LogsThat({"good", "slow"}), !.worse = TRUE])

RFindsRoom ==
    /\ LogsThat({"silent"}) = {} /\ Candidates = {}
    /\ Cardinality(Running) < MinRunning
    /\ Surveyed([r EXCEPT !.pc = "fill"])

RFindsNothing ==
    /\ LogsThat({"silent"}) = {} /\ Candidates = {}
    /\ Cardinality(Running) >= MinRunning
    /\ Surveyed(RIdle)

\* Where the job runs: a unit whose command is run-db-job for it; a crawl process under
\* the worker; a process of someone else; no process, but a lock that is held.
Detected(j) ==
    CASE host[j] = "unit" -> "unit"
      [] host[j] = "worker" -> "worker"
      [] host[j] = "shell" /\ j \notin crawling /\ workerUp -> "worker"
      [] host[j] = "shell" /\ (j \in crawling \/ ~workerUp) -> "unknown"
      [] host[j] = "none" -> "none"

\* Mutant: one recovery too many before the circuit opens.
CircuitLate(j) == ledger[j].chain > Window /\ j \notin gained

\* The last Window recoveries were each followed by too few new pages.
CircuitOpen(j) == ledger[j].chain >= Window /\ j \notin gained

\* A degraded crawl is not worth a restart of a worker that may serve another one.
Guarded(kind) == r.worse /\ kind = "worker" /\ r.fresh \ {r.job} # {}

Refused(j, kind) ==
    \/ Guarded(kind)
    \/ pace[j] # "unknown" /\ CircuitOpen(j)
    \/ ledger[j].recoveries >= MaxRecoveries
    \/ kind = "unknown"

RDeclines ==
    /\ RStep("decide", RIdle)
    /\ Refused(r.job, Detected(r.job))
    /\ UNCHANGED <<rows, crawls, s, ledger, bounds, history>>

\* The runner and the pages crawled so far are read once, and used from here on.
RDecides ==
    /\ RStep("decide", [r EXCEPT !.pc = "stop", !.fresh = {}, !.kind = Detected(r.job),
                                 !.pages = CASE pace[r.job] = "unknown" -> "unknown"
                                             [] pace[r.job] # "unknown" /\ r.job \in gained -> "enough"
                                             [] pace[r.job] # "unknown" /\ r.job \notin gained -> "few"])
    /\ ~Refused(r.job, Detected(r.job))
    /\ UNCHANGED <<rows, crawls, s, ledger, bounds, history>>

\* The run knows the number of pages, and the job has gained none since it was read.
Looked == r.pages = "enough" \/ (r.pages = "few" /\ r.job \notin gained)

\* systemctl stop; a soft recovery (no runner) stops nothing.
RStops ==
    /\ RStep("stop", [r EXCEPT !.pc = "mark"])
    /\ workerUp' = (workerUp /\ r.kind # "worker")
    /\ Killed(CASE r.kind = "worker" -> OnWorker
                [] r.kind = "unit" -> {r.job} \cap {j \in Jobs : host[j] = "unit"}
                [] r.kind = "none" -> {})
    /\ acted' = [acted EXCEPT ![r.job] = @ + 1]
    /\ useless' = [useless EXCEPT ![r.job] = IF Looked THEN @ + 1 ELSE @]
    /\ UNCHANGED <<rows, pace, gained, s, ledger, bounds, lost>>

\* healtharchive recover-stale-jobs --source: every stale row of that source that has
\* no recent progress and whose lock is free (JobLifecycle has its steps).
RHeals ==
    /\ RStep("mark", [r EXCEPT !.pc = "restart"]) /\ ~r.worse
    /\ status' = [j \in Jobs |->
                    IF /\ status[j] = "running" /\ age[j] = "old" /\ ~Held(j)
                       /\ SourceOf[j] = SourceOf[r.job]
                       /\ pace[j] \in {"silent", "unknown"}
                    THEN "retryable" ELSE status[j]]
    /\ UNCHANGED <<age, open, crawls, s, ledger, bounds, history>>

\* _mark_job_retryable writes whatever the row now says.
RMarks ==
    /\ RStep("mark", [r EXCEPT !.pc = "restart"]) /\ r.worse
    /\ status' = [status EXCEPT ![r.job] = "retryable"]
    /\ UNCHANGED <<age, open, crawls, s, ledger, bounds, history>>

RRestarts ==
    /\ r.kind # "unit"
    /\ RStep("restart", [r EXCEPT !.pc = "record"])
    /\ workerUp' = (workerUp \/ r.kind = "worker")
    /\ UNCHANGED <<rows, host, crawling, pace, gained, s, ledger, bounds, history>>

\* systemctl start of the unit: it runs run-db-job again, which may find nothing to run.
RRestartsUnit ==
    /\ r.kind = "unit"
    /\ RStep("restart", [r EXCEPT !.pc = "record"])
    /\ IF CanLaunch(r.job) THEN Launch(r.job, "unit") ELSE Unlaunched
    /\ UNCHANGED <<workerUp, s, ledger, faults, days, history>>

Aborted(j) == lost' = [lost EXCEPT ![j] = @ + 1]

\* A unit that systemd-run made is gone once it is stopped: the start fails, and with it
\* the run, before anything is recorded.
RUnitGone ==
    /\ r.kind = "unit"
    /\ RStep("restart", RIdle)
    /\ Aborted(r.job)
    /\ UNCHANGED <<rows, crawls, s, ledger, bounds, acted, useless>>

\* A number of pages is an entry of its own: a chain of entries too close together.
Chained(j) ==
    CASE r.pages = "unknown" -> ledger[j].chain
      [] r.pages = "enough" -> 1
      [] r.pages = "few" /\ ledger[j].chain < Window -> ledger[j].chain + 1
      [] r.pages = "few" /\ ledger[j].chain >= Window -> Window

RRecords ==
    /\ RStep("record", RIdle)
    /\ ledger' = [ledger EXCEPT ![r.job].recoveries = @ + 1, ![r.job].chain = Chained(r.job)]
    /\ gained' = IF r.pages = "enough" THEN gained \ {r.job} ELSE gained
    /\ UNCHANGED <<rows, host, crawling, pace, workerUp, s, bounds, history>>

\* The oldest waiting annual job, unless it was started too often: no other is tried.
Startable == {j \in Waiting : j = Lowest(Waiting) /\ ledger[j].starts < MaxStarts}

\* Too few crawls run: start that job in a unit of its own.
RFills(j) ==
    /\ j \in Startable
    /\ RStep("fill", [r EXCEPT !.pc = "spawn", !.job = j])
    /\ UNCHANGED <<rows, crawls, s, ledger, bounds, history>>

RFillsNothing ==
    /\ Startable = {}
    /\ RStep("fill", RIdle)
    /\ UNCHANGED <<rows, crawls, s, ledger, bounds, history>>

RSpawns ==
    /\ RStep("spawn", [r EXCEPT !.pc = "started"])
    /\ IF CanLaunch(r.job) THEN Launch(r.job, "unit") ELSE Unlaunched
    /\ UNCHANGED <<workerUp, s, ledger, faults, days, history>>

RRecordsStart ==
    /\ RStep("started", RIdle)
    /\ ledger' = [ledger EXCEPT ![r.job].starts = @ + 1]
    /\ UNCHANGED <<rows, crawls, s, bounds, history>>

\* The run dies, or a command it checks fails: its file lock goes with it.
RDies ==
    /\ r.pc # "idle" /\ Fault
    /\ r' = RIdle
    /\ IF r.pc \in {"mark", "restart", "record"} THEN Aborted(r.job) ELSE UNCHANGED lost
    /\ UNCHANGED <<rows, crawls, s, ledger, launches, days, acted, useless>>

-----------------------------------------------------------------------------
(* vps-worker-auto-start.                                                  *)
SStep(from, new) == s.pc = from /\ s' = new

\* A run that finds the worker active changes nothing, and is left out.
SWakes ==
    /\ ~workerUp
    /\ SStep("idle", [s EXCEPT !.pc = "count"])
    /\ UNCHANGED <<rows, crawls, r, ledger, bounds, history>>

\* The rows are counted; ps is asked only if rows run and the worker does not.
SCounts ==
    /\ SStep("count", [s EXCEPT !.pc = IF Running # {} THEN "load" ELSE "start",
                                !.running = Cardinality(Running),
                                !.pending = Cardinality(Waiting),
                                !.seen = IF Running # {} THEN crawling ELSE {}])
    /\ UNCHANGED <<rows, crawls, r, ledger, bounds, history>>

SLoads ==
    /\ SStep("load", [s EXCEPT !.pc = "drift",
                               !.seen = {},
                               !.todo = {j \in Running : age[j] = "old"} \ s.seen])
    /\ UNCHANGED <<rows, crawls, r, ledger, bounds, history>>

\* Mutant: rows whose crawl is gone are left to an operator.
SReconcilesNone ==
    /\ SStep("drift", [s EXCEPT !.pc = "start", !.todo = {}])
    /\ UNCHANGED <<rows, crawls, r, ledger, bounds, history>>

\* The loaded rows are written back, with or without --apply.
SReconciles ==
    /\ SStep("drift", [s EXCEPT !.pc = "start", !.todo = {},
                                !.running = IF s.running > Cardinality(s.todo)
                                            THEN s.running - Cardinality(s.todo) ELSE 0,
                                !.pending = s.pending + Cardinality(s.todo)])
    /\ status' = [j \in Jobs |-> IF j \in s.todo THEN "retryable" ELSE status[j]]
    /\ UNCHANGED <<age, open, crawls, r, ledger, bounds, history>>

SStarts ==
    /\ s.running = 0 /\ s.pending > 0 /\ Apply
    /\ SStep("start", SIdle)
    /\ workerUp' = TRUE
    /\ UNCHANGED <<rows, host, crawling, pace, gained, r, ledger, bounds, history>>

SLeaves ==
    /\ s.running > 0 \/ s.pending = 0 \/ ~Apply
    /\ SStep("start", SIdle)
    /\ UNCHANGED <<rows, crawls, r, ledger, bounds, history>>

SDies ==
    /\ s.pc # "idle" /\ Fault
    /\ s' = SIdle
    /\ UNCHANGED <<rows, crawls, r, ledger, launches, days, history>>

-----------------------------------------------------------------------------
RecoverStep ==
    \/ RProbesLocks({}) \/ RSyncsHeld \/ RSyncsVisible
    \/ RFindsStalled \/ RFindsDegraded \/ RFindsRoom \/ RFindsNothing
    \/ RDeclines \/ RDecides \/ RStops \/ RHeals \/ RMarks
    \/ RRestarts \/ RRestartsUnit \/ RUnitGone \/ RRecords
    \/ RFillsNothing \/ RSpawns \/ RRecordsStart
    \/ \E j \in Jobs : RFills(j)

StarterStep ==
    SWakes \/ SCounts \/ SLoads \/ SReconciles \/ SStarts \/ SLeaves

WorkerStep == WorkerTakes \/ WorkerSyncs \/ \E j \in Jobs : WorkerHeals(j)

RunnerStep(j) == CrawlExits(j) \/ \E result \in {"retryable", "done"} : RunnerEnds(j, result)

LogStep(j) == (\E p \in {"unknown", "good", "slow", "silent"} : LogShows(j, p)) \/ Gains(j)

Mishap ==
    \/ WorkerDies \/ RDies \/ SDies \/ DayPasses
    \/ \E probed \in SUBSET Jobs : RProbesLocks(probed)
    \/ \E j \in Jobs : RunnerDies(j) \/ OperatorRuns(j)

Next ==
    \/ RecoverStep \/ StarterStep \/ WorkerStep \/ Mishap
    \/ \E j \in Jobs : RunnerStep(j) \/ LogStep(j) \/ FallsSilent(j) \/ Ages(j)

Spec == Init /\ [][Next]_vars

\* The timers fire, the worker polls, a crawl comes to its end (CrawlRun) and time passes;
\* nobody is obliged to run a job by hand, to die, or to make progress.
Fairness ==
    /\ WF_vars(RecoverStep) /\ WF_vars(StarterStep) /\ WF_vars(WorkerStep)
    /\ \A j \in Jobs : /\ WF_vars(RunnerStep(j))
                       /\ WF_vars(FallsSilent(j)) /\ WF_vars(Ages(j))

FairSpec == Spec /\ Fairness

-----------------------------------------------------------------------------
RPcs == {"idle", "sync", "visible", "survey", "decide", "stop", "mark", "restart", "record",
         "fill", "spawn", "started"}

RTyped ==
    /\ r \in [pc : RPcs, held : SUBSET Jobs, seen : SUBSET Jobs, fresh : SUBSET Jobs,
              job : Jobs \cup {NoJob}, kind : {"none", "worker", "unit", "unknown"},
              pages : {"unknown", "few", "enough"}, worse : BOOLEAN]
    /\ r.pc \in {"decide", "stop", "mark", "restart", "record", "spawn", "started"}
           => r.job \in Jobs

STyped ==
    s \in [pc : {"idle", "count", "load", "drift", "start"}, running : Nat, pending : Nat,
           seen : SUBSET Jobs, todo : SUBSET Jobs]

Entry == [recoveries : Nat, starts : Nat, chain : 0 .. Window, streak : 0 .. MinStreak]

\* Every variable has its type; a crawl process has a runner; the recovery watchdog acts on jobs.
TypeOK ==
    /\ status \in [Jobs -> Pending \cup {"running", "done"}]
    /\ age \in [Jobs -> {"unset", "recent", "old"}]
    /\ host \in [Jobs -> Hosts \cup {"none"}]
    /\ pace \in [Jobs -> {"unknown", "good", "slow", "silent"}]
    /\ crawling \subseteq {j \in Jobs : Held(j)} /\ open \subseteq Jobs /\ gained \subseteq Jobs
    /\ workerUp \in BOOLEAN
    /\ RTyped /\ STyped
    /\ ledger \in [Jobs -> Entry]
    /\ {launches, faults, days} \subseteq Nat
    /\ {acted, lost, useless} \subseteq [Jobs -> Nat]

\* "Maximum recoveries per job per 24h": the times the recovery watchdog interferes with a job
\* in a day stay within the cap, and however many days pass, the progress circuit leaves a job
\* that gains nothing to an operator after Window times.  Runs that were cut short before they
\* recorded their action do not count, nor does one that stops a crawl which gained pages after
\* the run had read their number: the circuit takes these for pages of the next crawl (main,
\* _progress_circuit_state).
RecoveriesCapped ==
    \A j \in Jobs : acted[j] <= MaxRecoveries + lost[j] /\ useless[j] <= Window + lost[j]

\* Whoever stopped the worker (the recovery watchdog may die before it starts it again),
\* it comes back, or nothing is left for it to do.
WorkerComesBack == ~workerUp /\ Waiting # {} ~> workerUp \/ Waiting = {}
=============================================================================
