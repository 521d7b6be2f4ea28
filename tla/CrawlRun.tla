------------------------------ MODULE CrawlRun ------------------------------
(***************************************************************************)
(* One job's output directory and the archive_tool runs on it              *)
(* (archive_tool/main.py): the choice between a fresh, a resumed and a      *)
(* consolidating crawl, the stage loop, the monitor thread and its queue,   *)
(* the adaptive strategies, the persisted CrawlState and the final build.   *)
(* The container, the docker daemon and the logs are the environment.       *)
(*                                                                         *)
(* Temp directories are numbered in the order they are created; a WARC is   *)
(* told apart by the directory it was captured in.                          *)
(***************************************************************************)
EXTENDS Integers, Sequences, FiniteSets

CONSTANTS
    Options,          \* the command lines the tool is run with
    InitialWorkers,   \* --initial-workers
    MinWorkers,       \* --min-workers
    MaxReductions,    \* --max-worker-reductions; 0: adaptive workers are off
    MaxRestarts,      \* --max-container-restarts; 0: adaptive restart is off
    MaxRotations,     \* --max-vpn-rotations; 0: VPN rotation is off
    MaxFreshFailures, \* --max-fresh-failures-before-fallback
    MaxTempDirs,      \* --max-temp-dirs-before-reset
    MaxStages,        \* max_crawl_stages
    None,             \* there is no state file, or an unreadable one
    DirBound,         \* bound: temp directories and fallback captures
    QueueBound,       \* bound: unread messages of the monitor
    RunBound,         \* bound: times the tool is started
    CrashBound,       \* bound: times it is killed
    LookBound         \* bound: times show-job and the like look at the directory

Flags == {"managed", "freshOnly", "autoReset", "fallback", "monitoring", "backoff",
          "skipBuild", "overwrite", "cleanup"}

ASSUME OptionsAssumption == Options \subseteq SUBSET Flags
ASSUME LimitsAssumption ==
    {InitialWorkers, MinWorkers, MaxReductions, MaxRestarts, MaxRotations, MaxFreshFailures,
     MaxTempDirs, MaxStages, DirBound, QueueBound, RunBound, CrashBound, LookBound}
        \subseteq Nat
ASSUME WorkersAssumption == InitialWorkers >= 1 /\ MaxStages >= 1

NoDir == 0

VARIABLES
    opt,       \* the flags of the command line, the same for every run of a job
    \* the output directory
    dirs, warc, yaml,  \* the temp directories; those with WARCs, with a queue YAML
    stable,    \* captures in the stable warcs/ directory
    resume,    \* the directory .zimit_resume.yaml was copied from
    zim,       \* <name>.zim exists
    saved,     \* .archive_state.json
    badTail,   \* the newest combined log ends in the empty-WARC error
    made,      \* captures and directories made so far
    captured,  \* history: every capture that was ever on disk
    \* the process
    pc, mem,   \* where main() is, and its CrawlState
    stage, attempt, skip, failures, status, final,
    adapts, started,   \* history: adaptations and containers of this run
    got,       \* the message of the monitor being handled
    \* the threads and the container
    stop,      \* the module's stop_event
    mon, msgs, \* the monitor thread and its queue
    box, dir, rc, config, crawled,   \* the container of the stage
    runs, crashes, looks             \* counters of the bounds

disk == <<dirs, warc, yaml, stable, resume, zim, badTail, made, captured>>
loop == <<stage, attempt, skip, failures, status, final, adapts, started, got>>
threads == <<stop, mon, msgs>>
container == <<box, dir, rc, config, crawled>>
bounds == <<runs, crashes, looks>>
vars == <<opt, disk, saved, pc, mem, loop, threads, container, bounds>>

CrawlState == [workers : Int, reductions : Nat, restarts : Nat, rotations : Nat,
               dirs : SUBSET (1..DirBound)]

\* _reset_persistent_state_values
Fresh(workers) == [workers |-> workers, reductions |-> 0, restarts |-> 0, rotations |-> 0,
                   dirs |-> {}]

\* reset_adaptation_counts
FreshBudget(m) == [m EXCEPT !.reductions = 0, !.restarts = 0, !.rotations = 0]

Lower(a, b) == IF a < b THEN a ELSE b
Newest(S) == LET newest == {d \in S : \A e \in S : e <= d}
             IN IF newest = {} THEN NoDir ELSE CHOOSE d \in newest : TRUE

\* load_persistent_state of a CrawlState made with the given initial_workers
Loaded(workers) ==
    IF saved = None THEN Fresh(workers)
    ELSE [saved EXCEPT !.workers = Lower(@, workers), !.dirs = @ \cap dirs]

\* save_persistent_state
Save(m) == mem' = m /\ saved' = m

Managed == "managed" \in opt
FreshOnly == "freshOnly" \in opt
CanResume == resume # NoDir
Poisoned == Managed /\ badTail
MonitorAlive == mon \in {"alive", "failing"}

Init ==
    /\ opt \in Options
    /\ dirs = {} /\ warc = {} /\ yaml = {} /\ stable = {} /\ captured = {}
    /\ resume = NoDir /\ zim = FALSE /\ badTail = FALSE /\ made = 0
    /\ saved = None /\ pc = "off" /\ mem = Fresh(InitialWorkers)
    /\ stage = "initial" /\ attempt = 1 /\ skip = FALSE /\ failures = 0
    /\ status = "none" /\ final = "failed" /\ adapts = 0 /\ started = 0 /\ got = "none"
    /\ stop = FALSE /\ mon = "none" /\ msgs = <<>>
    /\ box = "none" /\ dir = NoDir /\ rc = 0 /\ config = "none" /\ crawled = FALSE
    /\ runs = 0 /\ crashes = 0 /\ looks = 0

\* sys.exit, or the death of the process: only the exit code is left.
ProcessEnds(result) ==
    /\ final' = result
    /\ pc' = "off" /\ mem' = Fresh(InitialWorkers)
    /\ stage' = "initial" /\ attempt' = 1 /\ skip' = FALSE /\ failures' = 0
    /\ status' = "none" /\ adapts' = 0 /\ started' = 0 /\ got' = "none"
    /\ stop' = FALSE /\ mon' = "none" /\ msgs' = <<>>
    /\ box' = "none" /\ dir' = NoDir /\ rc' = 0 /\ config' = "none" /\ crawled' = FALSE

-----------------------------------------------------------------------------
(* Steps 1 to 3 of main(): load the state and choose the run mode.         *)

\* CrawlState() and the temp directories it does not know of.
Load ==
    /\ pc = "off"
    /\ runs < RunBound
    /\ runs' = runs + 1
    /\ Save([Loaded(InitialWorkers) EXCEPT !.dirs = dirs])
    /\ pc' = "find"
    /\ final' = "failed"
    /\ UNCHANGED <<opt, disk, stage, attempt, skip, failures, status, adapts, started, got,
                   threads, container, crashes, looks>>

\* Why --auto-reset-poisoned-state discards the temp directories of earlier runs.
MustReset ==
    /\ "autoReset" \in opt
    /\ \/ resume' # NoDir /\ Poisoned
       \/ Cardinality(mem.dirs) > MaxTempDirs
       \/ FreshOnly /\ (resume' # NoDir \/ mem.dirs # {})

\* find_latest_config_yaml
NewestQueue == Newest(yaml \cap mem.dirs)

\* The stable resume config, or else the newest queue YAML, copied there.
FindResume ==
    /\ pc = "find"
    /\ resume' = IF CanResume THEN resume ELSE NewestQueue
    /\ pc' = IF MustReset THEN "consolidate" ELSE "mode"
    /\ UNCHANGED <<opt, dirs, warc, yaml, stable, zim, badTail, made, captured, saved, mem,
                   loop, threads, container, bounds>>

\* The output directory, the managed config merge or the consolidation failed.
Abort ==
    /\ pc \in {"find", "consolidate"}
    /\ ProcessEnds("failed")
    /\ UNCHANGED <<opt, disk, saved, bounds>>

\* Mutant: nothing is linked before the temp directories are deleted.
LinkNothing == UNCHANGED stable

\* consolidate_warcs: hard-link the WARCs into warcs/.
LinkWarcs == stable' = stable \cup (warc \cap mem.dirs)

\* _reset_stale_crawl_state: preserve the WARCs ...
Consolidate ==
    /\ pc = "consolidate"
    /\ LinkWarcs
    /\ pc' = "discard"
    /\ UNCHANGED <<opt, dirs, warc, yaml, resume, zim, badTail, made, captured, saved, mem,
                   loop, threads, container, bounds>>

\* ... then delete the temp directories one by one ...
Discard(d) ==
    /\ pc = "discard"
    /\ d \in mem.dirs \cap dirs
    /\ dirs' = dirs \ {d} /\ warc' = warc \ {d} /\ yaml' = yaml \ {d}
    /\ UNCHANGED <<opt, stable, resume, zim, badTail, made, captured, saved, pc, mem, loop,
                   threads, container, bounds>>

\* ... the state file, the resume config, and start over from a fresh state; a
\* directory that cannot be deleted is only logged.
Forget ==
    /\ pc = "discard"
    /\ resume' = NoDir
    /\ Save(Fresh(InitialWorkers))
    /\ skip' = TRUE
    /\ pc' = "mode"
    /\ UNCHANGED <<opt, dirs, warc, yaml, stable, zim, badTail, made, captured, stage, attempt,
                   failures, status, final, adapts, started, got, threads, container, bounds>>

ZimInTheWay == zim /\ "skipBuild" \notin opt

RefuseZim ==
    /\ pc = "mode"
    /\ ZimInTheWay /\ "overwrite" \notin opt
    /\ ProcessEnds("failed")
    /\ UNCHANGED <<opt, disk, saved, bounds>>

ChooseMode ==
    LET mayResume == CanResume /\ ~Poisoned /\ ~FreshOnly
    IN /\ pc = "mode"
       /\ ZimInTheWay => "overwrite" \in opt
       /\ skip' = (skip \/ FreshOnly \/ (CanResume /\ Poisoned))
       /\ \/ /\ ZimInTheWay
             /\ stage' = "initial" /\ Save(Fresh(InitialWorkers))
          \/ /\ ~ZimInTheWay /\ mayResume
             /\ stage' = "resume" /\ UNCHANGED <<mem, saved>>
          \/ /\ ~ZimInTheWay /\ ~mayResume
             /\ stage' = IF warc \cap mem.dirs # {} THEN "new" ELSE "initial"
             /\ Save(FreshBudget(mem))
       /\ pc' = "stage"
       /\ UNCHANGED <<opt, disk, attempt, failures, status, final, adapts, started, got,
                      threads, container, bounds>>

-----------------------------------------------------------------------------
(* The stage loop.                                                         *)

\* What a stage asked to resume finds: the stable config, else the newest YAML.
ResumeFrom == IF CanResume THEN resume ELSE NewestQueue

\* The config of a crawl: the managed one is merged into the queue it resumes.
ConfigOf(asked, from) ==
    CASE from # NoDir -> "resume"
      [] from = NoDir /\ asked # "resume" /\ Managed -> "managed"
      [] OTHER -> "none"

\* start_docker_container, which may not learn the container's ID.
StartContainer ==
    /\ box' = "up" /\ dir' = NoDir /\ rc' = 0 /\ crawled' = FALSE /\ badTail' = FALSE
    /\ \E identified \in BOOLEAN :
         mon' = IF identified /\ "monitoring" \in opt THEN "alive" ELSE "none"

\* A resume that is to be skipped is a new crawl phase, and one that finds no
\* queue becomes a new crawl phase -- after the arguments were prepared.
StartStage ==
    LET asked == IF stage = "resume" /\ skip THEN "new" ELSE stage
        from == IF asked = "resume" THEN ResumeFrom ELSE NoDir
    IN /\ pc = "stage"
       /\ attempt <= MaxStages /\ ~stop
       /\ stage' = IF asked = "resume" /\ from = NoDir THEN "new" ELSE asked
       /\ resume' = IF asked = "resume" THEN from ELSE resume
       /\ config' = ConfigOf(asked, from)
       /\ StartContainer
       /\ status' = "running" /\ started' = started + 1
       /\ pc' = "crawl"
       /\ UNCHANGED <<opt, dirs, warc, yaml, stable, zim, made, captured, saved, mem, attempt,
                      skip, failures, final, adapts, got, stop, msgs, bounds>>

\* docker run failed, or the config could not be merged or mapped.
StartFails ==
    /\ pc = "stage"
    /\ attempt <= MaxStages /\ ~stop
    /\ final' = "failed"
    /\ pc' = "build"
    /\ UNCHANGED <<opt, disk, saved, mem, stage, attempt, skip, failures, status, adapts,
                   started, got, threads, container, bounds>>

\* The condition of the while loop is false.
LoopEnds ==
    /\ pc = "stage"
    /\ attempt > MaxStages \/ stop
    /\ pc' = "build"
    /\ UNCHANGED <<opt, disk, saved, mem, loop, threads, container, bounds>>

-----------------------------------------------------------------------------
(* The container.                                                          *)

MakeDir ==
    /\ box = "up"
    /\ dir = NoDir
    /\ made < DirBound
    /\ made' = made + 1
    /\ dir' = made'
    /\ dirs' = dirs \cup {made'}
    /\ UNCHANGED <<opt, warc, yaml, stable, resume, zim, badTail, captured, saved, pc, mem,
                   loop, threads, box, rc, config, crawled, bounds>>

\* A monitor that reads the log sees the statistics (_parse_log_line).
Noticed == crawled' = (crawled \/ MonitorAlive)

\* Pages are captured, and a WARC grows.
Capture ==
    /\ box = "up"
    /\ dir # NoDir
    /\ warc' = warc \cup {dir} /\ captured' = captured \cup {dir}
    /\ Noticed
    /\ UNCHANGED <<opt, dirs, yaml, stable, resume, zim, badTail, made, saved, pc, mem, loop,
                   threads, box, dir, rc, config, bounds>>

WriteQueue ==
    /\ box = "up"
    /\ dir # NoDir /\ dir \notin yaml
    /\ yaml' = yaml \cup {dir}
    /\ UNCHANGED <<opt, dirs, warc, stable, resume, zim, badTail, made, captured, saved, pc,
                   mem, loop, threads, container, bounds>>

\* Exit code 0, a limit (16, 32, 33), or a failure, with what the log ends in.
Exit(code) ==
    /\ box = "up"
    /\ box' = "down" /\ rc' = code
    /\ badTail' \in (IF code = 1 THEN BOOLEAN ELSE {FALSE})
    /\ UNCHANGED <<opt, dirs, warc, yaml, stable, resume, zim, made, captured, saved, pc, mem,
                   loop, threads, dir, config, crawled, bounds>>

-----------------------------------------------------------------------------
(* The monitor thread.                                                     *)

\* A stall or an error threshold; or the thread fails, and says so.
Post(m) ==
    /\ mon = "alive"
    /\ ~stop
    /\ Len(msgs) < QueueBound
    /\ msgs' = Append(msgs, m)
    /\ mon' = IF m = "fatal" THEN "failing" ELSE "alive"
    /\ UNCHANGED <<opt, disk, saved, pc, mem, loop, stop, container, bounds>>

\* The container is gone, the log stream ended, or the thread failed.
MonitorEnds ==
    /\ MonitorAlive
    /\ mon' = "gone"
    /\ UNCHANGED <<opt, disk, saved, pc, mem, loop, stop, msgs, container, bounds>>

-----------------------------------------------------------------------------
(* The inner loop of main() and the strategies.                            *)

\* --relax-perms: temp directories are also discovered while the crawl runs.
Discover ==
    /\ pc = "crawl"
    /\ mem.dirs # dirs
    /\ Save([mem EXCEPT !.dirs = dirs])
    /\ UNCHANGED <<opt, disk, pc, loop, threads, container, bounds>>

Read ==
    /\ pc = "crawl"
    /\ box = "up"
    /\ MonitorAlive /\ msgs # <<>>
    /\ got' = Head(msgs)
    /\ msgs' = Tail(msgs)
    /\ pc' = "handle"
    /\ UNCHANGED <<opt, disk, saved, mem, stage, attempt, skip, failures, status, final, adapts,
                   started, stop, mon, container, bounds>>

CanReduce == mem.reductions < MaxReductions /\ mem.workers > MinWorkers
CanRestart == mem.restarts < MaxRestarts /\ got \in {"stalled", "threshold"}

\* stop_docker_container; the container may have ended before.
StopContainer == box' = "down" /\ badTail' = (badTail /\ box = "down")

\* A strategy that goes on in another container.
StopToAdapt(m) ==
    /\ Save(m)
    /\ StopContainer
    /\ status' = "adapting"
    /\ adapts' = adapts + 1
    /\ got' = "none"
    /\ pc' = "ended"
    /\ UNCHANGED <<opt, dirs, warc, yaml, stable, resume, zim, made, captured, stage, attempt,
                   skip, failures, final, started, threads, dir, rc, config, crawled, bounds>>

Reduce ==
    /\ pc = "handle" /\ CanReduce
    /\ StopToAdapt([mem EXCEPT !.workers = @ - 1, !.reductions = @ + 1])

Restart ==
    /\ pc = "handle" /\ ~CanReduce /\ CanRestart
    /\ StopToAdapt([mem EXCEPT !.restarts = @ + 1])

\* The VPN is rotated while the container goes on.
Rotate ==
    /\ pc = "handle" /\ ~CanReduce /\ mem.rotations < MaxRotations
    /\ Save([mem EXCEPT !.rotations = @ + 1])
    /\ got' = "none"
    /\ pc' = "crawl"
    /\ UNCHANGED <<opt, disk, stage, attempt, skip, failures, status, final, adapts, started,
                   threads, container, bounds>>

\* Mutant: the strategies are tried until one applies.
KeepTrying ==
    /\ pc = "handle" /\ ~CanReduce /\ ~CanRestart
    /\ UNCHANGED vars

\* No strategy applies; a rotation may be too early or fail.
GoOn ==
    /\ pc = "handle" /\ ~CanReduce /\ ~CanRestart
    /\ got' = "none"
    /\ pc' = "crawl"
    /\ UNCHANGED <<opt, disk, saved, mem, stage, attempt, skip, failures, status, final, adapts,
                   started, threads, container, bounds>>

ContainerIsGone ==
    /\ pc = "crawl"
    /\ box = "down"
    /\ status' = "ran"
    /\ pc' = "ended"
    /\ UNCHANGED <<opt, disk, saved, mem, stage, attempt, skip, failures, final, adapts, started,
                   got, threads, container, bounds>>

-----------------------------------------------------------------------------
(* The end of a stage.                                                     *)

\* Mutants: add_temp_dir does not look whether there is a directory; or does nothing.
AddAnything(d) == Save([mem EXCEPT !.dirs = @ \cup {d}])
AddNothing(d) == UNCHANGED <<mem, saved>>

AddTempDir(d) == IF d \in dirs \ mem.dirs THEN Save([mem EXCEPT !.dirs = @ \cup {d}])
                 ELSE UNCHANGED <<mem, saved>>

\* What the log names, or else the newest there is (parse_temp_dir_from_log_file).
DirOfStage == IF dir # NoDir THEN dir ELSE Newest(dirs)

\* A monitor that is alive is stopped through stop_event, which is the module's.
EndStage ==
    /\ pc = "ended"
    /\ stop' = (stop \/ MonitorAlive)
    /\ mon' = "none"
    /\ AddTempDir(DirOfStage)
    /\ skip' = IF stage = "resume" THEN skip \/ Poisoned ELSE skip /\ ~crawled
    /\ pc' = "decide"
    /\ UNCHANGED <<opt, disk, stage, attempt, failures, status, final, adapts, started, got,
                   msgs, container, bounds>>

\* The backoff wait returns at once, and ends the run, if stop_event is set.
BackOff == IF "backoff" \in opt /\ stop THEN final' = "stopped" /\ pc' = "build"
           ELSE pc' = "stage" /\ UNCHANGED final

Crawled == status = "ran" /\ rc # 1
NextStage == IF skip THEN "new" ELSE "resume"

Succeed ==
    /\ pc = "decide" /\ Crawled
    /\ final' = "pending"
    /\ pc' = "build"
    /\ UNCHANGED <<opt, disk, saved, mem, stage, attempt, skip, failures, status, adapts, started,
                   got, threads, container, bounds>>

TryAdapted ==
    /\ pc = "decide" /\ status = "adapting"
    /\ stage' = NextStage
    /\ BackOff
    /\ UNCHANGED <<opt, disk, saved, mem, attempt, skip, failures, status, adapts, started, got,
                   threads, container, bounds>>

CountsAsFresh == FreshOnly /\ stage # "resume"
FallsBack == /\ CountsAsFresh
             /\ "fallback" \in opt
             /\ MaxFreshFailures > 0 /\ failures + 1 >= MaxFreshFailures

\* Mutant: a failed stage is tried again without being counted.
CountNothing == UNCHANGED <<failures, attempt>>

CountAttempt ==
    /\ failures' = IF CountsAsFresh THEN failures + 1 ELSE failures
    /\ attempt' = attempt + 1

TryAgain ==
    /\ pc = "decide" /\ status = "ran" /\ rc = 1 /\ ~FallsBack
    /\ attempt < MaxStages
    /\ CountAttempt
    /\ stage' = NextStage
    /\ BackOff
    /\ UNCHANGED <<opt, disk, saved, mem, skip, status, adapts, started, got, threads, container,
                   bounds>>

GiveUp ==
    /\ pc = "decide" /\ status = "ran" /\ rc = 1 /\ ~FallsBack
    /\ attempt >= MaxStages
    /\ final' = "failed"
    /\ pc' = "build"
    /\ UNCHANGED <<opt, disk, saved, mem, stage, attempt, skip, failures, status, adapts, started,
                   got, threads, container, bounds>>

\* The run is promoted to the fallback backend, which writes to warcs/.
FallBack ==
    /\ pc = "decide" /\ status = "ran" /\ rc = 1 /\ FallsBack
    /\ \/ /\ made < DirBound
          /\ made' = made + 1
          /\ stable' = stable \cup {made'} /\ captured' = captured \cup {made'}
          /\ failures' = failures + 1
          /\ final' = "success"
          /\ pc' = "build"
          /\ UNCHANGED <<mem, stage, attempt, skip, status, adapts, started, got, threads,
                         container>>
       \/ /\ UNCHANGED <<made, stable, captured>>
          /\ ProcessEnds("failed")
    /\ UNCHANGED <<opt, dirs, warc, yaml, resume, zim, badTail, saved, bounds>>

-----------------------------------------------------------------------------
(* Steps 5 and 6 of main(): the final build, cleanup and the exit code.    *)

\* Mutant: the final build does not look for WARCs.
WarcsAssumed == TRUE

WarcsFound == warc \cap mem.dirs # {}

\* run_final_build_stage_sync, which may fail, or nothing to be built.
BuildZim ==
    \E result \in {"success", "failed"} :
        /\ result = "success" => WarcsFound
        /\ "skipBuild" \in opt => (WarcsFound => result = "success")
        /\ final' = result
        /\ zim' = (zim \/ (result = "success" /\ "skipBuild" \notin opt))

Build ==
    /\ pc = "build"
    /\ final = "pending" /\ ~stop
    /\ BuildZim
    /\ pc' = "finish"
    /\ UNCHANGED <<opt, dirs, warc, yaml, stable, resume, badTail, made, captured, saved, mem,
                   stage, attempt, skip, failures, status, adapts, started, got, threads,
                   container, bounds>>

SkipBuild ==
    /\ pc = "build"
    /\ final # "pending" \/ stop
    /\ final' = IF final = "pending" THEN "stopped" ELSE final
    /\ pc' = "finish"
    /\ UNCHANGED <<opt, disk, saved, mem, stage, attempt, skip, failures, status, adapts, started,
                   got, threads, container, bounds>>

\* --cleanup deletes the temp directories and the state file.
CleanUp ==
    /\ pc = "finish"
    /\ final = "success" /\ "cleanup" \in opt
    /\ dirs' = dirs \ mem.dirs /\ warc' = warc \ mem.dirs /\ yaml' = yaml \ mem.dirs
    /\ saved' = None
    /\ ProcessEnds(final)
    /\ UNCHANGED <<opt, stable, resume, zim, badTail, made, captured, bounds>>

Finish ==
    /\ pc = "finish"
    /\ final # "success" \/ "cleanup" \notin opt
    /\ ProcessEnds(final)
    /\ UNCHANGED <<opt, disk, saved, bounds>>

-----------------------------------------------------------------------------
(* What happens to the process and beside it.                              *)

\* SIGTERM stops the container and exits; SIGKILL of the service's control
\* group ends both, and truncates the state file if it was being written.
Kill ==
    /\ pc # "off"
    /\ crashes < CrashBound
    /\ crashes' = crashes + 1
    /\ saved' \in {saved, None}
    /\ ProcessEnds("failed")
    /\ UNCHANGED <<opt, disk, runs, looks>>

\* show-job, list-warcs and the indexer make a CrawlState with one worker; one
\* that reads while the tool writes finds an unreadable file.
LookAt ==
    /\ looks < LookBound
    /\ looks' = looks + 1
    /\ saved' \in {Loaded(1)} \cup (IF pc = "off" THEN {} ELSE {Fresh(1)})
    /\ UNCHANGED <<opt, disk, pc, mem, loop, threads, container, runs, crashes>>

-----------------------------------------------------------------------------
Main ==
    \/ FindResume \/ Consolidate \/ (\E d \in dirs : Discard(d)) \/ Forget
    \/ RefuseZim \/ ChooseMode
    \/ StartStage \/ LoopEnds
    \/ Read \/ Reduce \/ Restart \/ Rotate \/ GoOn \/ ContainerIsGone
    \/ EndStage \/ Succeed \/ TryAdapted \/ TryAgain \/ GiveUp \/ FallBack
    \/ Build \/ SkipBuild \/ CleanUp \/ Finish

Exits == \E code \in {0, 1, 32} : Exit(code)

Container == MakeDir \/ Capture \/ WriteQueue \/ Exits

Monitor == MonitorEnds \/ (\E m \in {"stalled", "threshold", "fatal"} : Post(m))

Fail == Abort \/ StartFails

Next == Load \/ Main \/ Fail \/ Discover \/ Container \/ Monitor \/ Kill \/ LookAt

Spec == Init /\ [][Next]_vars

\* main() takes its next step, and a crawl that is left alone ends one day.
FairSpec == Spec /\ WF_vars(Main) /\ WF_vars(Exits)
-----------------------------------------------------------------------------
(* Properties.                                                             *)

DiskTyped ==
    /\ dirs \in SUBSET (1..DirBound)
    /\ warc \in SUBSET (1..DirBound) /\ yaml \in SUBSET (1..DirBound)
    /\ stable \in SUBSET (1..DirBound) /\ captured \in SUBSET (1..DirBound)
    /\ resume \in 0..DirBound
    /\ made \in 0..DirBound
    /\ zim \in BOOLEAN /\ badTail \in BOOLEAN
    /\ saved \in CrawlState \cup {None}

ProcessTyped ==
    /\ opt \in Options
    /\ pc \in {"off", "find", "consolidate", "discard", "mode", "stage", "crawl", "handle",
               "ended", "decide", "build", "finish"}
    /\ mem \in CrawlState
    /\ stage \in {"initial", "resume", "new"}
    /\ attempt \in Nat /\ failures \in Nat /\ adapts \in Nat /\ started \in Nat
    /\ skip \in BOOLEAN /\ stop \in BOOLEAN
    /\ status \in {"none", "running", "adapting", "ran"}
    /\ final \in {"failed", "pending", "stopped", "success"}

Messages == {"stalled", "threshold", "fatal"}

ThreadsTyped ==
    /\ got \in Messages \cup {"none"}
    /\ mon \in {"none", "alive", "failing", "gone"}
    /\ msgs \in Seq(Messages)
    /\ box \in {"none", "up", "down"}
    /\ dir \in 0..DirBound
    /\ rc \in {0, 1, 32}
    /\ config \in {"none", "managed", "resume"}
    /\ crawled \in BOOLEAN
    /\ runs \in Nat /\ crashes \in Nat /\ looks \in Nat

TypeOK == DiskTyped /\ ProcessTyped /\ ThreadsTyped

\* A run starts a bounded number of containers although an adaptation starts one
\* without counting as an attempt (the while loop over stage_attempt in main).
ContainersBounded == started <= MaxStages + MaxReductions + MaxRestarts

\* Whatever is killed and whenever, and however often stale state is reset, no
\* capture leaves the disk before --cleanup deletes it (_reset_stale_crawl_state).
CapturesSurvive == "cleanup" \notin opt => captured \subseteq warc \cup stable

\* When the final build gathers its WARCs, every capture is in a temp directory
\* it knows of or in warcs/, also those of runs that were killed before they
\* recorded the directory (discover_temp_dirs), unless --overwrite or --cleanup
\* dropped them.
BuildSeesEveryCapture ==
    pc = "build" /\ opt \cap {"overwrite", "cleanup"} = {} => captured \subseteq mem.dirs \cup stable

\* A stage whose crawl succeeded "proceeds to final build" (exit conditions of
\* the main loop): nobody asked this run to stop.
SuccessIsBuilt == Crawled /\ pc = "finish" => final # "stopped"

\* Every run of the tool ends, if every container does.
EveryRunEnds == pc # "off" ~> pc = "off"
=============================================================================
