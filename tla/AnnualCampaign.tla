--------------------------- MODULE AnnualCampaign ---------------------------
(***************************************************************************)
(* The annual campaign of one source and one year: the jobs that            *)
(* schedule-annual and plan-annual-shards create, the annual_editions row    *)
(* that gathers them, its coverage report with the ledger of missing seeds,  *)
(* and the config JSON of the jobs, which the worker, the runner, the         *)
(* recovery watchdog and the operator's commands each rewrite as a whole.     *)
(*                                                                         *)
(* A session that does nothing but read and write rows is one step.  A       *)
(* report reads the jobs and their snapshots, writes its files and then       *)
(* commits: it is three steps, and the last one writes the columns that its   *)
(* session changed.  What a crawl does is JobLifecycle's and CrawlRun's.      *)
(***************************************************************************)
EXTENDS Integers, FiniteSets

CONSTANTS
    Jobs,           \* archive_jobs.id, in the order in which rows are created
    Seeds,          \* default_seeds of the source; each has its own shard key
    Reporters,      \* who may generate a report: the command line, the admin API
    FreshOnly,      \* the profile retries afresh and promotes to a fallback (hc, phac)
    MaxFresh,       \* max_fresh_failures_before_fallback
    MaxRetries,     \* MAX_CRAWL_RETRIES
    EditBound       \* bound: uses of retry-job and patch-job-config

ASSUME JobsAssumption == Jobs \subseteq Nat \ {0} /\ IsFiniteSet(Jobs)
ASSUME SeedsAssumption == IsFiniteSet(Seeds) /\ Seeds # {} /\ Seeds \cap {"none", "full"} = {}
ASSUME BudgetAssumption ==
    FreshOnly \in BOOLEAN /\ {MaxFresh, MaxRetries, EditBound} \subseteq Nat

VARIABLES
    jobs,       \* archive_jobs, the columns that the campaign uses
    captured,   \* the seeds of which a job has snapshots
    edition,    \* the annual_editions row
    ledger,     \* target-ledger.jsonl: the seeds it lists as missing
    reports,    \* the session of each reporter
    edits       \* counter of the bound

vars == <<jobs, captured, edition, ledger, reports, edits>>

None == "none"
Blocking == {"queued", "retryable", "running", "completed", "index_failed"}
Review == {"failed", "index_failed"}
Accepted == {"accepted_gap"}   \* "accepted" and "excluded" are written nowhere

\* Mutant: a config without the execution policy.
ConfigBare(annual) ==
    [annual |-> annual, primary |-> FALSE, backend |-> None, stall |-> "profile"]

\* The config JSON: campaign_kind and campaign_year, execution_policy, and one of the tuned
\* tool options.
Config(annual) ==
    [annual |-> annual, primary |-> FALSE, backend |-> "browsertrix", stall |-> "profile"]

\* A new row.  kind is shard_kind, key is shard_key, of is the set of seeds to crawl.
NewJob(name, of, key, kind, attached, accept) ==
    [status |-> "queued", name |-> name, seeds |-> of, key |-> key, kind |-> kind, edition |-> attached,
     accept |-> accept, retries |-> 0, config |-> Config(TRUE)]

NoRow == [NewJob(None, {}, None, None, FALSE, None) EXCEPT !.status = None, !.config = Config(FALSE)]

\* What the session of a report will write: the acceptance of a gap (the job that the operator
\* named, if any) with the config that was read for it; the jobs that a salvage attached before, and
\* whether it made the edition; the jobs to review; the ledger and the edition.
NoReport == [pc |-> "idle", gap |-> {}, config |-> Config(FALSE), attach |-> {}, creates |-> FALSE,
             review |-> {}, missing |-> {}, research |-> FALSE, gaps |-> FALSE]

\* A row of annual_editions: whether it exists, was reported on (generated_at), is research_ready,
\* and has missing or failed URLs or shards to review.
EditionRows == [exists : BOOLEAN, generated : BOOLEAN, research : BOOLEAN, gaps : BOOLEAN]

NoEdition == [exists |-> FALSE, generated |-> FALSE, research |-> FALSE, gaps |-> FALSE]

Init ==
    /\ jobs = [j \in Jobs |-> NoRow]
    /\ captured = [j \in Jobs |-> {}]
    /\ edition = NoEdition
    /\ ledger = {}
    /\ reports = [p \in Reporters |-> NoReport]
    /\ edits = 0

Rows == {j \in Jobs : jobs[j].status # None}
Free == Jobs \ Rows
Lowest(S) == CHOOSE j \in S : \A k \in S : j <= k
Edit == edits < EditBound /\ edits' = edits + 1
SetJob(j, row) == jobs' = [jobs EXCEPT ![j] = row]

-----------------------------------------------------------------------------
(* schedule-annual and plan-annual-shards.                                 *)

Annual(j) == j \in Rows /\ jobs[j].config.annual

\* It "refuses to create a new annual job" if one is known by its config, or by its name,
\* or if the source has any unfinished job.
Schedulable ==
    /\ \A j \in Rows : ~Annual(j) /\ jobs[j].name # "full" /\ jobs[j].status \notin Blocking
    /\ Free # {}

ScheduleAnnual ==
    /\ Schedulable
    /\ SetJob(Lowest(Free), NewJob("full", Seeds, None, "full_site", FALSE, "pending"))
    /\ UNCHANGED <<captured, edition, ledger, reports, edits>>

InEdition == {j \in Rows : jobs[j].edition}
Keys == {jobs[j].key : j \in InEdition} \ {None}
Legacy == \E j \in InEdition : jobs[j].kind = "legacy" /\ jobs[j].key # None

\* No shard is planned before the salvage has been reported on, or if the report has no gaps.
FillsGaps ==
    Legacy => edition.generated /\ edition.gaps

\* One shard for each seed without one; beside a salvaged job only for those it is missing.
Planned == {s \in Seeds : s \notin Keys /\ (Legacy => s \in ledger)}

\* The rows are added in the order of the seeds.
CreateShards ==
    /\ Cardinality(Planned) <= Cardinality(Free)
    /\ \E id \in [Planned -> Free] :
         /\ \A s, t \in Planned : s # t => id[s] # id[t]
         /\ \A s \in Planned, f \in Free \ {id[t] : t \in Planned} : id[s] < f
         /\ jobs' = [j \in Jobs |->
               IF \E s \in Planned : id[s] = j
               THEN LET s == CHOOSE s \in Planned : id[s] = j
                    IN NewJob(s, {s}, s, "seed_group", TRUE, "pending")
               ELSE jobs[j]]

\* A session that inserted the edition keeps others from doing so until it ends.
MayCreate == \A p \in Reporters : reports[p].creates => edition.exists

\* A dry run adds the edition all the same.
PlanShards(apply) ==
    /\ MayCreate
    /\ edition' = [edition EXCEPT !.exists = TRUE]
    /\ IF apply /\ FillsGaps THEN CreateShards ELSE UNCHANGED jobs
    /\ UNCHANGED <<captured, ledger, reports, edits>>

-----------------------------------------------------------------------------
(* salvage-annual-edition.                                                 *)

\* Mutant: what is attached is named anew.
AttachedAs(row, key) ==
    [row EXCEPT !.edition = TRUE, !.key = key, !.kind = "legacy",
                !.accept = IF row.accept = None THEN "pending" ELSE row.accept]

\* attach_job_to_edition.  A job keeps its key and its state of acceptance.
Attached(row, key) ==
    [row EXCEPT !.edition = TRUE,
                !.key = IF row.key = None THEN key ELSE row.key,
                !.kind = IF row.kind = "full_site" THEN "legacy" ELSE row.kind,
                !.accept = IF row.accept = None THEN "pending" ELSE row.accept]

\* salvage_existing_annual_jobs
Salvaged == [j \in Jobs |-> IF Annual(j) THEN Attached(jobs[j], "full") ELSE jobs[j]]

\* Rows that an open session has flushed: an UPDATE of another session waits for it.
Locked == UNION {reports[p].attach : p \in Reporters}

Salvage ==
    /\ MayCreate
    /\ edition' = [edition EXCEPT !.exists = TRUE]
    /\ jobs' = Salvaged
    /\ UNCHANGED <<captured, ledger, reports, edits>>

-----------------------------------------------------------------------------
(* generate_coverage_report, as a session of annual-edition-report, of       *)
(* accept-annual-shard-gap or of salvage-annual-edition --report; the admin   *)
(* API has the first two.                                                    *)

Unaccepted(rows, statuses) ==
    {j \in Jobs : rows[j].edition /\ rows[j].status \in statuses /\ rows[j].accept \notin Accepted}

\* Mutant: only the seeds of indexed jobs are intended.
MissingIndexed(rows) ==
    (UNION {rows[j].seeds : j \in {k \in Jobs : rows[k].edition /\ rows[k].status = "indexed"}})
        \ (UNION {captured[j] : j \in {k \in Jobs : rows[k].edition}})

\* Every seed of a job of the edition is intended, and missing if no job captured it.
Missing(rows) ==
    (UNION {rows[j].seeds : j \in {k \in Jobs : rows[k].edition}})
        \ (UNION {captured[j] : j \in {k \in Jobs : rows[k].edition}})

SearchReady(rows) ==
    /\ \E j \in Jobs : rows[j].edition /\ rows[j].status = "indexed"
    /\ \E j \in Jobs : rows[j].edition /\ captured[j] # {}

ResearchReady(rows) == SearchReady(rows) /\ Unaccepted(rows, Blocking \cup Review) = {}

\* The acceptances that a review overrides with needs_review.
Reviewed(rows) == Unaccepted(rows, Review)

\* pages_failed is what the crawls counted: it may be positive whatever is missing.
ReadReport(p, rows, gap) ==
    /\ reports[p].pc = "idle"
    /\ \E failed \in BOOLEAN :
         reports' = [reports EXCEPT ![p] =
            [pc |-> "open", gap |-> gap, creates |-> ~edition.exists,
             attach |-> {j \in Jobs : rows[j].edition # jobs[j].edition},
             config |-> IF gap = {} THEN Config(FALSE) ELSE jobs[CHOOSE j \in gap : TRUE].config,
             review |-> Reviewed(rows), missing |-> Missing(rows), research |-> ResearchReady(rows),
             gaps |-> failed \/ Missing(rows) # {} \/ Unaccepted(rows, Review) # {}]]
    /\ UNCHANGED <<jobs, captured, edition, ledger, edits>>

StartReport(p) == edition.exists /\ ReadReport(p, jobs, {})

\* The jobs are attached and flushed, and not committed before the report is.
SalvageReport(p) ==
    /\ MayCreate
    /\ edition.exists => Salvaged # jobs   \* otherwise it is a report like any other
    /\ ReadReport(p, Salvaged, {})

\* accept-annual-shard-gap takes any job of the edition, whatever its status.
AcceptGap(p, j) == j \in InEdition /\ ReadReport(p, [jobs EXCEPT ![j].accept = "accepted_gap"], {j})

\* The files are replaced in place, before the rows are.
WriteArtifacts(p) ==
    /\ reports[p].pc = "open"
    /\ ledger' = reports[p].missing
    /\ reports' = [reports EXCEPT ![p].pc = "written"]
    /\ UNCHANGED <<jobs, captured, edition, edits>>

\* An UPDATE has the columns that the session changed, and config is one column: with the
\* reason for the acceptance goes all that was read with it.
WriteReport(p) ==
    LET r == reports[p]
    IN /\ r.pc = "written"
       /\ (r.review \cup r.gap) \cap Locked \subseteq r.attach
       /\ jobs' = [j \in Jobs |->
             [(IF j \in r.attach THEN Attached(jobs[j], "full") ELSE jobs[j]) EXCEPT
                !.accept = IF j \in r.review THEN "needs_review" ELSE IF j \in r.gap THEN "accepted_gap" ELSE @,
                !.config = IF j \in r.gap THEN r.config ELSE @]]
       /\ edition' = [exists |-> TRUE, generated |-> TRUE, research |-> r.research, gaps |-> r.gaps]
       /\ reports' = [reports EXCEPT ![p] = NoReport]
       /\ UNCHANGED <<captured, ledger, edits>>

ReportFails(p) ==
    /\ reports[p].pc # "idle"
    /\ reports' = [reports EXCEPT ![p] = NoReport]
    /\ UNCHANGED <<jobs, captured, edition, ledger, edits>>

-----------------------------------------------------------------------------
(* The runner and the worker.  ArchiveJobConfig.to_dict() has the seeds, the  *)
(* arguments, the tool options and the policy: what else was in the JSON is   *)
(* gone once it is assigned to job.config.                                   *)

ToDict(config) == [config EXCEPT !.annual = FALSE]

\* run_persistent_job records the primary backend when a job has none.
Started(config) ==
    IF config.primary THEN config ELSE [ToDict(config) EXCEPT !.primary = TRUE]

RunJob(j) ==
    /\ jobs[j].status \in {"queued", "retryable"}
    /\ SetJob(j, [jobs[j] EXCEPT !.status = "running", !.config = Started(jobs[j].config)])
    /\ UNCHANGED <<captured, edition, ledger, reports, edits>>

CrawlSucceeds(j) ==
    /\ jobs[j].status = "running"
    /\ SetJob(j, [jobs[j] EXCEPT !.status = "completed"])
    /\ UNCHANGED <<captured, edition, ledger, reports, edits>>

\* The worker or reconcile-completed-indexing; the old snapshots are replaced.
IndexJob(j) ==
    /\ jobs[j].status = "completed"
    /\ \/ /\ SetJob(j, [jobs[j] EXCEPT !.status = "indexed"])
          /\ \E got \in SUBSET jobs[j].seeds : captured' = [captured EXCEPT ![j] = got]
       \/ /\ SetJob(j, [jobs[j] EXCEPT !.status = "index_failed"])
          /\ UNCHANGED captured
    /\ UNCHANGED <<edition, ledger, reports, edits>>

ForReview(row) == IF row.accept \in Accepted THEN row ELSE [row EXCEPT !.accept = "needs_review"]

Retryable(row, count) == [row EXCEPT !.status = "retryable", !.retries = count]

\* The failure policy, after the runner has written "failed" (JobLifecycle has both steps): the
\* budget of fresh attempts, that of a fallback, and that of a crawl which resumes.
Failed(row) ==
    LET next     == row.retries + 1
        fallback == row.config.backend # "browsertrix"
        fresh    == ~fallback /\ FreshOnly /\ MaxFresh > 0
    IN CASE fresh /\ next >= MaxFresh ->
              [Retryable(row, 0) EXCEPT !.config = [ToDict(row.config) EXCEPT !.backend = "playwright_warc"]]
         [] fresh /\ next < MaxFresh ->
              [Retryable(row, next) EXCEPT !.config = ToDict(row.config)]
         [] fallback /\ next < MaxRetries -> Retryable(row, next)
         [] fallback /\ next >= MaxRetries ->
              ForReview([row EXCEPT !.status = "failed", !.retries = next])
         [] ~fallback /\ ~fresh /\ row.retries < MaxRetries -> Retryable(row, next)
         [] OTHER -> ForReview([row EXCEPT !.status = "failed"])

CrawlFails(j) ==
    /\ jobs[j].status = "running"
    /\ SetJob(j, Failed(jobs[j]))
    /\ UNCHANGED <<captured, edition, ledger, reports, edits>>

-----------------------------------------------------------------------------
(* The other writers of config.                                            *)

\* Mutant: every value is replaced.
TunedAll(stall) == "profile"

\* Values of older campaigns are replaced by the profile's; others are left alone.
Tuned(stall) == IF stall \in {"unset", "legacy"} THEN "profile" ELSE stall

Ensured(config) == [config EXCEPT !.annual = TRUE, !.stall = Tuned(config.stall)]

\* _ensure_recovery_tool_options and _ensure_annual_campaign_metadata, before a start.
WatchdogStarts(j) ==
    /\ jobs[j].status \in {"queued", "retryable"}
    /\ SetJob(j, [jobs[j] EXCEPT !.config = Ensured(jobs[j].config)])
    /\ UNCHANGED <<captured, edition, ledger, reports, edits>>

\* reconcile-annual-tool-options knows the jobs of the campaign by their output_dir; it
\* sets the policy of the profile, the capture backend too.
ReconcileOptions ==
    /\ jobs' = [j \in Jobs |->
          IF j \in Rows
          THEN [jobs[j] EXCEPT !.config = [Ensured(jobs[j].config) EXCEPT !.backend = "browsertrix"]]
          ELSE jobs[j]]
    /\ UNCHANGED <<captured, edition, ledger, reports, edits>>

PatchConfig(j, stall) ==
    /\ j \in Rows /\ jobs[j].status \in {"queued", "retryable", "failed"}
    /\ Edit
    /\ SetJob(j, [jobs[j] EXCEPT !.config = [ToDict(jobs[j].config) EXCEPT !.stall = stall]])
    /\ UNCHANGED <<captured, edition, ledger, reports>>

RetryJob(j) ==
    /\ j \in Rows /\ jobs[j].status \in Review
    /\ Edit
    /\ SetJob(j, [jobs[j] EXCEPT !.status = IF @ = "failed" THEN "retryable" ELSE "completed"])
    /\ UNCHANGED <<captured, edition, ledger, reports>>

-----------------------------------------------------------------------------
Work(j) == RunJob(j) \/ CrawlSucceeds(j) \/ CrawlFails(j) \/ IndexJob(j)

Command ==
    \/ ScheduleAnnual
    \/ Locked = {} /\ (Salvage \/ ReconcileOptions)
    \/ \E apply \in BOOLEAN : PlanShards(apply)
    \/ \E j \in Jobs \ Locked : RetryJob(j) \/ \E stall \in {"legacy", "own"} : PatchConfig(j, stall)

Next ==
    \/ Command
    \/ \E j \in Jobs \ Locked : Work(j) \/ WatchdogStarts(j)
    \/ \E p \in Reporters :
         \/ StartReport(p) \/ WriteArtifacts(p) \/ WriteReport(p) \/ ReportFails(p)
         \/ Locked = {} /\ SalvageReport(p)
         \/ \E j \in Jobs : AcceptGap(p, j)

Spec == Init /\ [][Next]_vars

-----------------------------------------------------------------------------
Configs == [annual : BOOLEAN, primary : BOOLEAN, backend : {"browsertrix", "playwright_warc"},
            stall : {"unset", "legacy", "own", "profile"}]

JobRows == [status : Blocking \cup Review \cup {None, "indexed"}, name : Seeds \cup {None, "full"},
            seeds : SUBSET Seeds, key : Seeds \cup {None, "full"},
            kind : {None, "full_site", "legacy", "seed_group"}, edition : BOOLEAN,
            accept : {None, "pending", "needs_review"} \cup Accepted, retries : Nat, config : Configs]

\* Every row is well formed, and only a row of an existing edition is attached to it.
TypeOK ==
    /\ jobs \in [Jobs -> JobRows]
    /\ captured \in [Jobs -> SUBSET Seeds]
    /\ edition \in EditionRows
    /\ ledger \subseteq Seeds
    /\ edits \in 0 .. EditBound
    /\ InEdition # {} => edition.exists

\* Planning, salvaging and planning again, in any order, with rows that lose and regain their
\* campaign metadata: the jobs of an edition have keys of their own.
ShardKeysUnique ==
    \A j, k \in InEdition : j # k => jobs[j].key # jobs[k].key /\ jobs[j].key # None

\* An edition that is declared research ready has an account of every seed of its source: the
\* ledger lists it as missing, or a job captured it that belongs to the edition or is tagged for
\* a salvage to attach.
NoSilentGap ==
    edition.research =>
        \A s \in Seeds :
            s \in ledger \/ \E j \in InEdition \cup {k \in Jobs : Annual(k)} : s \in captured[j]

\* What an operator decided stays: a gap that was accepted, whatever the worker, a later report
\* or a salvage writes; and, as "explicit non-baseline overrides are preserved", a value chosen
\* for the job, whatever the watchdog, reconcile-annual-tool-options and the worker write.  Only
\* another patch replaces that, or an accepted gap that read the config before the patch and
\* writes all of it after (cli.cmd_reconcile_annual_tool_options, annual_editions).
DecisionsStay ==
    [][\A j \in Jobs :
        /\ jobs[j].accept \in Accepted => jobs'[j].accept \in Accepted
        /\ jobs[j].config.stall = "own" /\ jobs'[j].config.stall # "own"
              => PatchConfig(j, "legacy") \/ \E p \in Reporters : WriteReport(p)]_vars

\* "Job creation is idempotent using config metadata + name collision checks": schedule-annual
\* adds a job only to a campaign that has none.
ScheduledOnce ==
    [][(\E j \in Free : jobs'[j].name = "full") => Rows = {}]_vars
=============================================================================
