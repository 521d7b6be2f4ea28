# HealthArchive: models and proofs

HealthArchive crawls public-health sites once a year, keeps the captures as WARC
files, indexes them into a database, serves them through a read-only API and
replays them with pywb. This directory models the parts of it where things happen
in an order nobody controls: the life of a crawl job (a row, a file lock, a worker,
operator commands, an index transaction), the runs of `archive_tool` on a job's
directory, the WARC files that crawls, consolidation, indexing and cleanup create,
link and delete, the watchdogs that stop and start all this, the mounts it is written to,
the annual campaign it belongs to, and the tables, endpoints and replay index made
from it. TLC checks small instances; TLAPS proves the main safety properties of the job,
of the tool's run, of the WARC store, replay, the campaign, the watchdogs and the derived tables for
all instances.

Paths below are relative to the repository; `ha_backend/` and `archive_tool/`
are in `src/`.

## 1. Inventory

### Parts of the system

| Part | State it keeps | Operations | Talks to |
|---|---|---|---|
| Worker (`ha_backend/worker/main.py`) | none between iterations; `job_id` and the crawl's return code within one | self-heal of stale rows, reconciliation of completed jobs, selection, tiering, crawl, post-crawl session, indexing | database sessions, the job lock (through the runner), the index transaction |
| Job runner (`jobs.py`, `infra_errors.py`) | `flock` on a lock file per job | `run_persistent_job`: lock, session 1 (`running`), subprocess, session 2 (outcome) | `archive_jobs`, `archive_tool` subprocess, its combined log |
| Operator commands (`cli.py`) | none | some fifty commands on jobs, WARCs, derived tables, campaigns, the replay collection | the same rows, locks and directories |
| Index transaction (`indexing/`) | `snapshots`, `archive_jobs.status`, link and page tables | delete the job's snapshots, insert new ones, mark `indexed` or `index_failed` | WARC discovery (which loads `CrawlState`), the database |
| Database (`models.py`, `db.py`, alembic) | `sources`, `annual_editions`, `archive_jobs`, `snapshots`, `pages`, `page_signals`, `snapshot_changes`, ... | sessions | everything |
| `archive_tool` controller (`main.py`) | stage, attempt, the flags of a run | choose a mode, stage loop, adaptations, back-off, promotion, final build, cleanup | container, monitor queue, state file, directories |
| `CrawlState` (`state.py`) | `.archive_state.json`: worker count, adaptation counts, temp directories | load, save, add directory, reset | every reader of a job's directory |
| Monitor (`monitor.py`) | counters over a log window | post a stall, an error threshold, or its own failure | queue, `CrawlState` |
| Strategies (`strategies.py`) | the adaptation counts of `CrawlState` | reduce workers, restart the container, rotate the VPN | container, state file |
| Fallback backends (`http_warc_backend.py`, `playwright_warc_backend.py`) | queue, seen set, counters, numbered stable WARCs | breadth-first capture with retries and limits | sites, a container, `warcs/` |
| WARC store (`archive_storage.py`, `warc_compaction.py`) | `warcs/`, its manifest, staging and rollback directories | consolidate, map source to stable paths, verify, quarantine, compact, promote | directories, manifests |
| Replay collection (`cli.py`, pywb) | links, CDX, marker of a job | reindex, reconcile | `warcs/`, the API's replay links |
| Annual campaign (`annual_editions.py`, `job_registry.py`) | `annual_editions`, planned jobs, coverage report and ledger | plan editions and shards, salvage, report, accept gaps | `archive_jobs` and their config JSON |
| Watchdogs (`vps-crawl-auto-recover`, `vps-worker-auto-start`) | state files of their own | stop crawls, mark jobs retryable, start units and the worker | systemd, locks, rows |
| Storage hot paths (`vps-storage-hotpath-auto-recover`, `vps-annual-output-tiering`) | mounts, a state file | unmount stale paths, restart the base mount, bind again | systemd, the kernel, the worker |
| Derived tables (`pages.py`, `indexing/deduplication.py`, `changes.py`, `authority.py`) | `pages`, marks and audits, `snapshot_changes`, links and signals | rebuild, deduplicate, restore, compute | `snapshots`, WARC files |
| Public API (`api/routes_public.py`) | none | browse, timeline, detail, feed, export, statistics, sources | the tables above |
| Search, metrics, reports, frontend | usage counters | read and format | the tables above |

### What is hard, and what makes each part correct

- **Worker, runner, commands.** Several processes act on one row in sessions of
  their own, and what one of them decides in a session it read before. The lock
  only covers the crawl: the scan for stale rows probes locks and commits later,
  the worker's failure policy runs after the unlock, indexing takes no lock.
  Processes may die anywhere. Correct means: one runner per job; failures are charged once
  and never past the budget; captures that were completed are not crawled again; every
  job comes to rest.
- **Index transaction.** Long, started by three different callers, and it
  commits even when it fails half-way. Correct means: a job's capture is in
  `snapshots` exactly once when the job is `indexed`.
- **`archive_tool`.** A thread, a container and `main()` race; each stage may be
  restarted by adaptations that do not count as attempts; a state file outlives
  the run, and a kill may hit between any two writes. Correct means: no capture
  is lost or overlooked, the number of containers is bounded, each run ends.
- **Fallback capture.** Two transports with their own retries and redirects, pages that
  answer under another URL, a browser that dies. Correct means: it ends, asks in bounds, and
  what it calls a success has followed every link.
- **WARC store.** Links, manifest and deletion are separate steps of separate
  processes. Correct means: every WARC a snapshot refers to can be found under
  its own or its stable name, whatever order consolidation, cleanup and indexing
  run in; a crash never makes the mapping wrong.
- **Verification, compaction, promotion, replay.** Hours pass between what is read and what
  is moved, and a broken-off rename leaves two directories. Correct means: snapshots stay
  readable, and a collection that says it is ready replays them.
- **Watchdogs and hot paths.** They judge from locks, processes, log age and mounts, and act
  minutes later on rows and services. Correct means: they interfere within their caps, stale
  mounts go, and the worker they stopped comes back.
- **Annual campaign.** Planning is repeated and partial; six writers replace a job's config
  as a whole. Correct means: one job per shard, no seed without an account, decisions stay.
- **Derived tables and reads.** Incremental updates run beside repairs, at read committed.
  Correct means: they agree with a rebuild, marking duplicates hides no content, and the
  endpoints agree with each other.

The list of hazards in `PROJECT.json` names the line where each of these bites
and the properties that cover it.

## 2. Modules

| Module | Models | Extended by |
|---|---|---|
| `JobStatus` | what a job's status promises: the documented life cycle | - |
| `JobLifecycle` | rows, locks, worker, runner, index transaction, commands | `MCJobLifecycle`, `JobLifecycleProofs` |
| `CrawlRun` | runs of `archive_tool` on one output directory | `MCCrawlRun`, `CrawlProofs` |
| `Frontier` | one run of a fallback backend, request by request | `MCFrontier`, `CrawlProofs` |
| `WarcStore` | the WARC files of one job, `warcs/`, its manifest, the rows that refer to them | `MCWarcStore`, `WarcStoreProofs` |
| `Replay` | verification, compaction, promotion, the replay collection, serving of captures | `MCReplay`, `ReplayProofs` |
| `Catalogue` | the snapshot rows of a source and every table derived from them | `PublicReads`, `CatalogueProofs` |
| `PublicReads` | what the public endpoints answer from those tables | `MCCatalogue` |
| `AnnualCampaign` | the jobs, edition, report and configs of one source and year | `MCAnnualCampaign`, `AnnualCampaignProofs` |
| `Watchdog` | the crawl watchdog and the worker starter beside worker, runners and units | `MCWatchdog`, `WatchdogProofs` |
| `HotPaths` | mounts of output directories, the storage watchdog, the tiering script | `MCHotPaths`, `HotPathsProofs` |

A module models its neighbours as coarsely as its own code can tell: the crawl is three
steps in `JobLifecycle`, hundreds in `CrawlRun`, and a place where it writes in `HotPaths`.
`PublicReads` is composed with `Catalogue`: it adds no variables, and its operators are
evaluated in every state that `Catalogue`'s writers reach.
Definitions marked `Mutant` are faulty variants of the definition that follows them, which the
specifications do not use; with one in its place TLC finds the property violated, as
`PROJECT.json` lists.

### `JobLifecycle`

State and code: `row` holds the columns that control reads (status, crawler
status, retry count, backend, acceptance); `started` is `started_at` against the
stale window; `hot` is the infra cooldown (`updated_at` moves with every write);
`progress` stands for a fresh progress line in the combined log; `lock` is the
`flock`; `copies` are the index transactions whose rows are in `snapshots`. Each
process has a program counter and the locals that survive from one session to the
next: the stale rows it loaded, those it will mark, the retry count it will write,
the crawl's return code, the status and rows its open index transaction has seen.

A session that reads and writes one row at once is one action. Sessions that do
slow work between their read and their commit are split there: the stale scan
(load, probe each lock, commit), indexing (open, delete, insert and commit),
`reset-retry-count` (load, probe, write). A read sees what was committed when it
was made, an update changes the columns the ORM saw change.

The worker's iteration is `WorkerWakes` (self-heal), `Reconcile`, `Select` or
`SkipCrawl`, the runner's actions, the post-crawl session (`PostInfra`,
`PostConfigError`, `PostFailed`, `PostSucceeded`) and indexing. A command runs the
same runner and index actions. A crash drops the process's locks, its locals and
its open session, and changes no row. A command process that ended may run any
other command, and a worker starts its next iteration.

### `JobStatus`

The abstract specification: the status of each job and the transitions that
`docs/architecture.md` (section 1.4) and the data model document, with the ones
the code needs for recovery. `one_worker` checks that `JobLifecycle` implements it
(`FollowsLifecycle`) under the mapping `status <- [j |-> row[j].status]`, for a worker with
no command beside it.

### `CrawlRun`

The output directory (temp directories numbered in the order they appear; a WARC
and a queue YAML are told apart by the directory they are in; `warcs/`;
`.zimit_resume.yaml`; the ZIM; the state file), then the process: where `main()`
is, its `CrawlState`, the variables of the stage loop, the monitor thread, its
queue, the container. `made` and `captured` are histories.

A run is `Load` (arguments, state file, directories found on disk), `FindResume`,
the reset of stale state (`Consolidate`, `Discard`, `Forget`), `ChooseMode`, a stage
(`StartStage`, the container's `MakeDir`, `Capture`, `WriteQueue`, `Exit`, the
monitor's `Post` and `MonitorEnds`, `main()`'s `Discover`, `Read`, the strategies,
`ContainerIsGone`, `EndStage`), the decision after it (`Succeed`, `TryAdapted`,
`FallBack`, `TryAgain`, `GiveUp`), then `Build` or `SkipBuild`, `CleanUp`, `Finish`. `Kill` may
come before any step, `LookAt` is another process that constructs a `CrawlState`.

### `Frontier`

What `CrawlRun` treats as one step (a fallback) and what a job with such a backend does from
the start. URLs are numbers after normalisation; `Links` are those on a page, read before the scope
filter. `queue` and `seen` are the variables of `run_http_warc_capture` and of the browser
script, `at` the URL whose fetch is under way (attempt, redirects, transport, where it has got to),
`found` the manifest of the browser, `records` the WARC.

For `http_warc` a URL is `Take`, then `Respond`, `FetchAgain`, `SwitchToCurl`, `GiveUpUrl`,
`FollowRedirect`, `RefuseRedirect`, and `AbortCapture` for what no handler catches. For
`playwright_warc` it is `Visit` or `VisitFails`; the container may die (`ContainerDies`) and the
host reads what it left (`WriteManifest`, `WriteRecord`, `WriteFails`, `Written`).

### `WarcStore`

What `CrawlRun` treats as one step (consolidation) and `JobLifecycle` leaves out (files)
is the subject here. `node` gives each path the file it leads to (a hard link is a second path
with the same file), `file` the captures in it; `manifest` is `warcs/manifest.json`, `listed`
the state file's temp directories, `born` the order in which directories were made, `rows` the
snapshots with their `warc_path`. A temp directory stands for the WARC in it, and paths
are numbered as `sorted()` lists them: temp directories, then names in `warcs/`. The list that
`archive_tool` keeps in memory while it crawls is the worker's `todo`; it is written to the state
file as a whole, and only when it changes (`Record`). `ran` is a history of what was done, for the
conditions of the properties: commands, fallbacks, and crawls that started while an operator was
resetting the job's state.

`consolidate_warcs` is `Reuse`, `Link` or `LinkFails` for each source and `Dump` at the end,
with the manifest that was loaded at the start and the number the names start from as locals. Its
callers differ in what follows a failure (`Abandon`) and a success: the indexer goes on to
`Discover` and `Insert`; `cleanup-job` and `consolidate-warcs` `Rewrite` rows; `cleanup-job`,
`reset-crawl-state` and the tool's reset of stale state `Delete` directories. The crawl is
`CrawlStarts`, `NewDir`, `Capture`, `CrawlEnds`, or a fallback that first chooses a name
(`FallbackPicks`) and writes it later (`FallbackWrites`). `Crash` ends any process anywhere.
`VerifyWarcManifest` is `verify-warc-manifest --level presence`, whose verdict a property uses.

### `Replay`

A job's WARCs after the crawl. A WARC has an HTML capture and a video and up to two paths
(`temp`, `live`); `bad` are the damaged ones; `staging`, `promoted` and `rollback` the directories
of compaction and promotion; `links`, `cdx`, `indexed` and `marker` the pywb collection of the
job; `due` says that an operator owes a reindex after a promotion, as the command's output tells him.

`verify-warcs` is `VerifyReads`, `VerifyEnds` (hours later), `QuarantineMoves`, `QuarantineEnds`;
`compact-warcs` is `CompactReads`, `CompactOne`, `CompactManifest`, `CompactReport`;
`promote-compacted-warcs` is `PromoteBegins`, `PromoteStages`, `PromoteManifest` and the two renames
`Retire` and `Land`; `replay-index-job`, by hand or from `replay-reconcile`, is `Unlink`, `Link`,
`Reindex`, `Mark`. `Raw` is `/api/snapshots/raw`, `Replays` what the browse URL leads to.

### `Catalogue` and `PublicReads`

`rows` are the snapshots (an id, and the capture whose columns the constants give), `hidden` the
marked ones, `audits` their audit rows, `linked` the snapshots whose outlinks are stored, `events`
the change events, `pages` and `signals` the derived tables. `index`, `dedupe`, `rebuild` and
`changes` are the open sessions of the four writers that read and write in separate statements:
PostgreSQL at read committed shows a statement what was committed when it starts, row locks are
guards on `Locked`, foreign keys refuse, clear or cascade. `owed` records the groups that the code itself
leaves for a repair (after `index_failed`, or a rebuild of some groups only), of which the
properties say nothing.

`PublicReads` has an operator for each endpoint: `FastItems` and `SlowItems` for the two
ways to browse, `LatestOf`, `Timeline`, `Detail`, `Compares`, `Feed`, `RssLinks`, `ExportedPairs`,
`Stats`, `Source`, `Editions`. `ReadsAgree` compares them.

### `AnnualCampaign`

`jobs` (the columns and config keys that the campaign reads), `edition`, `ledger` (missing seeds
in `target-ledger.jsonl`), `captured` (seeds with snapshots). A report is `StartReport`
(read), `WriteArtifacts`, `WriteReport` (commit of what it read), or `ReportFails`; `AcceptGap` is a
report that was asked to accept. The writers of a config are `ScheduleAnnual`, `PlanShards`,
`Salvage` and `SalvageReport`, `RunJob` (the contract's `to_dict()` drops keys), `CrawlFails`, `WatchdogStarts`,
`ReconcileOptions`, `PatchConfig`.

### `Watchdog`

Rows (`status`, `age`, `open`), the `host` of the runner that holds a job's lock (the worker, a
unit of `vps-run-db-job-detached`, a shell), the processes `ps` shows, what the log says
(`pace`), and the watchdog's `ledger`. A run of `vps-crawl-auto-recover` is `RProbesLocks`, the two
syncs, a survey, one of `RFindsStalled`, `RFindsDegraded`, `RFindsRoom`, `RFindsNothing`,
`RDecides` or `RDeclines` (caps, progress circuit), `RStops`, `RHeals`, `RMarks`, `RRestarts`, `RRecords`; or, for an
idle campaign, `RFills`, `RSpawns`, `RRecordsStart`. `vps-worker-auto-start` is `SWakes`, `SCounts`, `SLoads`,
`SReconciles`, `SStarts`. `RDies`, `SDies`, `RunnerDies` and `WorkerDies` come anywhere.

### `HotPaths`

`mounts` is the stack of mounts on each `output_dir`, `cold` the base mount, `crawl` where a
crawl writes; `obs` and `ledger` are the storage watchdog's state file. Its run is `WdLooks`, `WdDecides`,
`WdStops`, `WdUnmounts`, `WdBase`, `WdTiers`, `WdRecovers`, `WdEnds`; the tiering script is a `TierStep` for each mount
command and each of its callers (watchdog, worker). `WorkerTakes`, `WorkerTiered`, `WorkerLaunches`
are the pre-crawl part of the worker.

## 3. Runs

| Run | Question | Instance |
|---|---|---|
| `one_worker` | Does a lone worker follow the documented life cycle and bring every job to rest? | two jobs, one of them fresh-only with a fallback, budget 2, one fault, two storage errors per job |
| `shared_job` | Do the lock and the budget hold with commands beside the worker? | one job, one worker, two command processes (symmetric), two commands, one fault |
| `one_operator` | Can one operator, command after command, duplicate or re-crawl a capture? | no worker, a queued and an adopted job, four commands, one fault |
| `annual_crawl` | Are captures safe and containers bounded for an annual job? | two runs, one kill, two temp directories, two stages, one reduction, one restart, promotion, two option sets |
| `manual_crawl` | Does a run that builds, overwrites, refuses or cleans up see every capture, and does it end? | two runs, three option sets, one reduction, one rotation, one look from outside |
| `fallback_capture` | Does a fallback capture follow every link, within its limits, and end? | five URLs, four in scope, link and redirect cycles, three seed lists (one with a duplicate, one with a seed out of scope), attempts 3, 2 and 2, two redirects |
| `warcs_kept` | Can consolidation, cleanup, reset, indexing and crawling, side by side and failing, lose a capture, leave one out of the index or spoil `warcs/`? | a worker and an operator, two temp directories, three names, two captures, two commands of five, two faults, fallbacks |
| `replay` | Do snapshots stay readable, and is what the API offers for replay replayed? | two WARCs, one of which may be damaged, four commands, three faults |
| `catalogue` | Do the derived tables follow the rows, and do the endpoints agree? | two jobs, two pages, four captures, five ids, one change of the WARCs or refused run, two commands (one with change tracking), `AutoDedupe` off, `RebuildAlone` |
| `annual_campaign` | Do keys, accounts and decisions survive planning, salvage, reports and rewrites in any order? | two rows, two seeds (symmetric), one reporter, one fresh failure, one retry, one edit |
| `watchdogs` | Are recoveries capped, and does a stopped worker come back? | two jobs of one source, one of them never recovered, caps of one, one crawl, one fault, one day beyond the first |
| `hot_paths` | Does a stale mount go, within the caps, and does the worker come back? | two jobs, two confirmations, two recoveries a day, one per job, two crawls, two faults, one retag |

What they show, property by property:

- `OneRunnerPerJob` (shared_job): two runners never crawl one job at a time. The
  threats are the stale scan, which also takes locks, and crashes.
- `RetryBudget` (shared_job): no interleaving of failures,
  recoveries, `retry-job` and resets takes `retry_count` past the budget while the
  job is on its first backend. After the promotion the budget starts again.
- `FollowsLifecycle` (one_worker): refinement of `JobStatus`.
- `EveryJobSettles` (one_worker): each job ends in `indexed`, `index_failed` or
  `failed` and stays there.
- `ServedOnce` (one_operator): a job's capture is in `snapshots` at most once, and
  it is there when the job is `indexed`; partial commits and roll-backs included.
- `CapturesAreKept` (one_operator): a completed or indexed job is not crawled again.
- `ContainersBounded` (annual_crawl): a run starts at most as many containers as it
  has stages, reductions and restarts, although adaptations do not count as attempts
  and their counts come from a file.
- `CapturesSurvive` (annual_crawl): no capture leaves the disk unless `--cleanup`
  is given, with a kill at any point of the reset of stale state.
- `BuildSeesEveryCapture` (manual_crawl): at the final build each
  capture is in a listed temp directory or in `warcs/`.
- `EveryRunEnds` (manual_crawl): a run ends although the monitor may report stalls
  for ever.
- `CaptureComplete` (fallback_capture): a capture that exits with 0 has an HTML page and has tried every
  seed in scope and every link in scope of every HTML page in its WARC, whatever
  redirects, retries and half-failed pages came in between.
- `RequestsBounded` (fallback_capture): requests stay in scope, and attempts, transports and
  redirects add up instead of multiplying.
- `EveryCaptureEnds` (fallback_capture): cycles and duplicates keep no capture going.
- `NothingLost` (warcs_kept): until a crawl falls back or someone runs `cleanup-job`, each
  capture ever made is in a file that some path leads to. It
  rests on the order of links and deletions in three callers, each of which may fail or
  die anywhere while another one works on the same names.
- `RecordsMatchFiles` (warcs_kept): an `indexed` job has a row for every capture on the disk, also when
  the consolidation before it failed half-way and was swallowed, unless a crawl started while
  its state was being reset; each row leads to a
  file with its capture through rewriting and refused or failed cleanups, unless someone
  resets, retries or indexes; a capture reachable under several names is indexed once;
  `verify-warc-manifest` finds nothing until a crawl falls back; and a worker alone leaves no file in
  `warcs/` that the manifest does not know.
- `ManifestSound` (warcs_kept): although consolidations overwrite each other's manifest, what it
  says is true: an existing file, the source's own, and of no other source.
- `StableIsAppendOnly` (warcs_kept): until a crawl falls back, a name in `warcs/` keeps its
  file, and the file its captures.
- `RowsServed` (replay): the API serves every snapshot from the WARC it names, while
  verifications that take hours, index runs and promotions overlap and break off; and when the
  collection's marker matches and nobody is at work, every snapshot can be replayed.
- `ReplayCatchesUp` (replay): the timer always gets the collection back to a marker that names
  the job's WARCs.
- `ContentStaysListed` (catalogue): marking duplicates hides rows, never content.
- `PagesFollowRows` (catalogue): page table and inlink counts equal what a rebuild would write, also
  after a page lost its captures.
- `ReadsAgree` (catalogue): browsing answers the same from the page table and from the snapshots; each
  comparison that a timeline offers can be shown; links of feed and export resolve; totals,
  newest capture and entry points are consistent.
- `RecentGetsEvent` (catalogue): a recent capture gets its change event, however many have
  theirs and whatever fails in between.
- `ShardKeysUnique` (annual_campaign): the jobs of an edition have keys of their own.
- `NoSilentGap` (annual_campaign): an edition that is research ready lists each seed as missing, or
  a job captured it that is attached or tagged for the next salvage to attach, although its
  report commits minutes after it read.
- `DecisionsStay` (annual_campaign): an accepted gap stays accepted, and a value an operator set in a
  job's config stays, whichever of the six writers rewrites it.
- `RecoveriesCapped` (watchdogs): in a day the watchdog interferes with a crawl at most as often as the cap
  allows, and after `Window` recoveries without progress it leaves the job alone; but for
  runs that died before they had recorded what they did, and for one that stops a crawl which
  gained pages since the run looked (section 4).
- `RecoveriesCapped` (hot_paths): the same for the caps of the storage watchdog.
- `WorkerComesBack` (watchdogs, hot_paths): whoever stopped the worker and died, it comes back while there is work.
- `StaleGoes` (hot_paths): a stale path of a job that is crawled or waits does not stay stale.
- `TypeOK` in each module is the ground the other properties stand on.

**Bounds.** A run stays below five minutes, which sets the sizes; within that,
each bound is the smallest at which the hazard it is for occurs.
In `JobLifecycle`, `MaxFaults`, `MaxInfraFaults` and `MaxAsks` bound crashes and rolled-back
transactions, crawls of a job that meet a storage error, and commands. Each hazard
of section 1 needs one fault and at most two commands beside the worker; the
bounds on retries are the smallest that still have a retry before the last failure.
`Versions` only has to be larger than the number of index transactions whose rows
can exist or be deleted at once. `NewCounts = {0}` is what the operator's guide
does. In `CrawlRun` a second run is needed to meet what the first left behind, one
kill to leave something unrecorded, a second directory to tell the newest from the
others, one queued message to be late. `QueueBound` is one for the same reason:
`main()` reads one message at a time and forgets the rest when a stage ends in an adaptation.
`DirBound`, `RunBound`, `CrashBound` and `LookBound` bound directories, runs,
kills and outside looks. In
`WarcStore`, two directories are what a partial consolidation and the choice of
the newest need, a third name is for a file that gets a second name after its manifest entry
was lost, two faults are a failure and a kill (or two failures) in one history. In
`Frontier` the five URLs have a cycle of links, a page that is only reached through a redirect,
one out of scope, and a seed that is also a link. In `Replay` two WARCs are needed for one to be
quarantined or compacted and the other not; four commands are verify or compact, promote,
reindex, retry. In `Catalogue` the four captures are two of one job and one of the other with
the same content on one day (two of them in the same second), and the only capture of a second page, which the first links to; `MaxId`
leaves one index run after the other and `WarcBound` one change in between; the one
command beside change tracking keeps the run short, two are what two scopes of deduplication
need. In `AnnualCampaign` two rows are the two shards, or a full-site job and its salvage; a third row only repeats
them. In `Watchdog` and `HotPaths`, one fault is the death of the watchdog between two commands, the second (in
`HotPaths`) the mount that dies again; the extra day is when the caps begin anew.
`CHECK_DEADLOCK FALSE` is used where the system may stop: an
operator out of commands, a tool that has run `RunBound` times, a job that is settled.

**Settings.** Some constants choose between ways the system is operated. `NewCounts` is what the
operator's guide does, `Limits = {}` follows the command reference (`--limit-warcs` is for sampling), `AutoDedupe`
is off by default, and a worker watchdog without `--apply` would start nothing (`Apply`). The others are care that nothing in the
code enforces: `IndexVerifies` (an index run verifies as thoroughly as `verify-warcs` does; its
default is not to), `TimerStopped` (the timer is off while someone runs `replay-index-job`
by hand) and `RebuildAlone` (`rebuild-pages` does not run beside an index run). Section 4 says what
happens without. The captures of `MCCatalogue` that have the same page, day and content all have a good status
(`StatusOfContent` of `CatalogueProofs`), as a page that is served unchanged does.

**Fairness.** `one_worker`: the worker is a service that systemd starts again, so it
takes its next step (weak fairness); a command that was started runs to its end;
time passes; and the oldest eligible job is eventually taken (strong fairness on
`Select`), because the disk check and the tiering of the oldest job that may skip an
iteration read conditions an operator is alerted to and repairs. `manual_crawl`:
`main()` takes its next step, and a container that is left alone exits. Nothing is
assumed about the monitor, kills, aborts or other processes. `fallback_capture`: requests have
timeouts, and the container and the host go on (`docker run` with its `npm install` has no overall
timeout, so for the browser this is an assumption). `watchdogs`: the timers of the two scripts fire, the
worker polls, a crawl comes to its end, time passes; nobody is obliged to run a job by hand, to
die or to make progress. `hot_paths`: the same, mount and systemd commands return, a cool-down ends,
and days pass (strong fairness: the caps start anew although runs come in between). `replay`: the timer
fires again and again and commands that run come to an end. `catalogue`: transactions end,
the change-tracking timer fires, and a run of it that waits for row locks gets them in turn (strong
fairness on `ChangesWritten`: PostgreSQL queues lock waiters).

## 4. Where code and documents disagree, and what to know of

All runs pass. What follows was met while modelling; where a model shows it, the way
to see it is given: a `.cfg` that no run uses and in which TLC finds a violation, or
a constant or property to change.

**Jobs.**

- `MCJobLifecycle_recrawl.cfg` (`CapturesAreKept`): the worker finds the lock held, the holder completes
  the job, the worker's sync turns `completed` into `running`, and the stale scan later makes it
  retryable: the job is crawled again.
- `MCJobLifecycle_infra.cfg` (`InfraRetriesCapped`): the cap on infra retries compares `retry_count`, which
  infra errors do not raise, and the worker overrides it when it is reached.
- Two index transactions of one job that overlap both insert: `index_job` takes no
  lock, and each deletes only what was committed before (`ServedOnce` with a worker beside the command).
- The worker's post-crawl session may find the row of a job that another process has
  restarted, and makes a running crawl `retryable`; with a command beside the worker the row may
  therefore drift from what runs.
- `reset-retry-count` may raise the count if the row changed after it was loaded.
- A worker that dies between the runner's second session and its own leaves a job `failed` with
  retries left, which nothing retries.

**`archive_tool`.**

- `MCCrawlRun_built.cfg` (`SuccessIsBuilt`): ending the monitor of a stage sets the event that tells the
  run to stop, so a stage whose container exits first succeeds, skips the final build
  and the run ends as `stopped`.
- A `fresh_only` run resumes after a stage that made progress.
- A monitor that fails posts what a stalled crawl posts, and costs the crawl a worker.
- `--skip-final-build --cleanup` deletes the WARCs it leaves to the indexer.
- A resume that finds no queue becomes a new crawl phase after the place where a new phase
  gets its managed config, and runs without it.
- Whoever looks at a job's state caps the worker count of its next run at one.
- If `docker stop` and `docker kill` both fail, a container may run on beside the next stage.
- Fallback capture: a link that `urljoin` or httpx cannot parse (`ValueError`, `httpx.InvalidURL`, which is no
  `HTTPError`) ends the whole `http_warc` capture with exit 1 and leaves a partial WARC in `warcs/`
  (`Abort`); a capture whose only HTML is an error page, returned after the last
  attempt, exits with 0; what the browser is redirected to is recorded without a
  scope check; duplicate seeds and redirect targets are recorded twice; retries of curl go on at the target of
  the redirect, those of httpx at the URL.

**WARC store.** Dropping the conditions on `ran` from `NothingLost`, `RecordsMatchFiles` or
`StableIsAppendOnly` shows the first five, the fifth with `DirBound` = `CaptureBound` = 3.

- `cleanup-job --mode temp-nonwarc` takes any file in `warcs/` for a sign that
  all WARCs were consolidated, and deletes temp directories whose WARC was never linked.
- The browser fallback chooses its name in `warcs/` minutes before it opens it
  for writing (`open("wb")`); a WARC that `consolidate-warcs` linked there meanwhile is emptied.
- `reset-crawl-state` keeps the WARCs but not the `warc_path` of rows that point below `.tmp*`, which a
  failed consolidation leaves.
- An index run that overlaps with `cleanup-job` (after `retry-job`, or a second `index-job`) can insert
  rows that lead into directories `cleanup-job` then deletes.
- `reset-crawl-state` asks for the lock and the status when it starts, and removes the state file
  last. A crawl that the worker starts in between loses its state file: an index run
  that failed to consolidate finds only the newest of the crawl's directories, and the job is `indexed`
  without the captures in the others.
- A fallback that is killed before its first record leaves an empty file whose name numbering
  considers free and linking considers taken: later consolidations of the job all fail.
- `index-job` of an adopted directory whose state file is unreadable indexes the newest of its
  temp directories and says `indexed` (`Adopted` = 2; `RecordsMatchFiles` asks for `Adopted` <= 1).
- `consolidate-warcs` of a crawl that runs records a size that the file outgrows:
  `verify-warc-manifest --level size` then reports a mismatch.

**Verification, compaction, replay.**

- `verify-warcs --apply-quarantine` "Refuses if the job is running or already has Snapshot rows"
  (`cli.py:7206`), but by what it read hours before; then it writes the status
  unconditionally. With `IndexVerifies = FALSE` (an index run checks nothing by default) `RowsServed` is violated.
  A kill between move and status leaves a job that is not crawled again; a quarantined hard link stays under its temp
  path and is linked again.
- A manual `replay-index-job` and the timer have no common lock: with `TimerStopped = FALSE` a
  partial index gets a full marker (`RowsServed`).
- `compact-warcs --limit-warcs`, "for sampling" (`docs/reference/cli-commands.md:610`), followed by a
  promotion removes every other WARC from `warcs/`; so do WARCs that arrive after staging (`Limits = {1}`).
- A kill between the two renames of a promotion leaves no `warcs/`, and the command cannot be run again.
- `--verify-warc-hash` ("Verify ... WARC hash/count ... and reindex when mismatched", `cli.py:7521`)
  hashes names only: after a promotion the collection is "ready" with the offsets of the old files
  until someone reindexes. A collection without a marker is ready for ever; a killed manual run with half the
  links is "ready (marker verified)".
- One job that always fails uses up `--max-jobs` of the reconciler at each run.

**Derived tables and reads.**

- `deduplicate_snapshots` rechecks that the duplicate is unmarked, not that the row it keeps is.
  With `HEALTHARCHIVE_AUTO_DEDUPE`, or two commands of different scopes, all copies of a content are hidden
  (`AutoDedupe = {FALSE, TRUE}`, `ContentStaysListed`). The key ignores the status, so a
  2xx row may be hidden behind another. "The canonical snapshot is the one with the lowest ID
  (earliest indexed)" (docstring in `deduplication.py`) is not so within a job.
- Audit rows have no `ondelete`: on PostgreSQL a job with marked or kept rows cannot be indexed again
  ("make the operation idempotent", `pipeline.py:281`) until they are restored. `models.py:482` says that
  `restore-deduped-snapshots` reads this table; it only deletes from it.
- "so PageSignal counts can be kept in sync after re-indexing" (`pipeline.py:293`): the outlink count of
  a page that lost its capture is not recomputed (`OutlinksFollowRows` as an invariant).
- "change events between adjacent captures" (`docs/architecture.md:176`): an event is not computed again
  when an older capture is indexed later (`EventsAdjacent` as an invariant).
- "search excludes deduped by default" (`docs/planning/implemented/2026-02-06-roadmap-backlog-items.md:21`):
  browsing pages shows marked rows (`PagesShowUnmarked` as an invariant).
- "Guard the fast path with snapshot coverage so an absent, stale, or partially rebuilt rollup never
  produces plausible-but-incomplete public totals" (`get_archive_stats` in `routes_public.py`): when an
  index run fails half-way after committing as many rows as it deleted, but of other pages, the guard's sum agrees
  and page count and latest date are wrong (`StatsGuarded` as an invariant with `MCCatalogue.cfg`).
- With `RebuildAlone = FALSE`, `rebuild-pages` overwrites the pages of an index run that committed after
  its aggregate was read (`PagesFollowRows`).
- After `index_failed`, pages lose their pointers and drop from browsing until the next run;
  `rebuild-pages --job --truncate` leaves the pages of other jobs out; two change runs of one row hit the unique constraint.

**Campaign.**

- `MCAnnualCampaign_schedule.cfg` (`ScheduledOnce`): `to_dict()` drops the campaign's keys
  (`jobs.py:603`), so that after the first crawl `schedule-annual` creates a second full-site job, though
  "job creation is idempotent using config metadata + name collision checks" (`cli.py:1077`). For the same reason
  salvage misses started jobs, tiering skips them, `annual-status` calls them missing, or says "Ready for
  search: YES" of a campaign whose other shard lost its tags.
- `reconcile-annual-tool-options` resets a promoted `capture_backend`, against its comment "Explicit
  non-baseline overrides are preserved".
- `accept-gap` holds a config for the minutes of a report, and then writes it whole (the exception in
  `DecisionsStay`). Two reporters can write `needs_review` over `accepted_gap`.
- A dry run of `plan-annual-shards` creates the edition's row; report files are replaced before
  the rows commit; `research_ready` is not taken back by later retries.
- `salvage-annual-edition --report` replaces the ledger file by one that counts the jobs it is about to attach, and
  commits the rows afterwards. In between, and for ever if the session then fails, the ledger does not list a seed that
  only a job outside the edition has captured; hence the second half of `NoSilentGap`.

**Watchdogs.**

- `vps-worker-auto-start` reconciles rows without `--apply` ("default: dry-run").
- "Never flip DB status ... while a crawl process is still running" (docstring in
  `vps-crawl-auto-recover.py`) and "if a job is clearly running (job lock held)": a lock that another process is
  only probing counts as a runner.
- `_ensure_recovery_tool_options` "preserves any existing explicit operator overrides", but overwrites the keys of
  the execution policy.
- The first stalled job, once capped, keeps the others from being recovered; a stop whose start fails is
  not recorded and escapes the cap.
- The progress circuit compares page counts that a run read before it stopped the crawl: pages gained in between
  count as progress of the next crawl, and the circuit may open one stop later.

**Hot paths.** `HotPaths` defines the properties named here; each, in place of those of
`MCHotPaths.cfg`, is violated.

- `AnnualJobsOffRoot`: "prevents disk pressure from large annual jobs consuming local disk" and "Cannot proceed with
  crawl on root disk" (`worker/main.py`, from line 313). A directory that does not exist yet skips the check, and after the
  first start the config has lost `campaign_kind`, so that neither the worker nor the script binds it again.
- `NoStackedMounts`, `HealthyMountStays`: two instances of the script, or a worker that is started during a
  recovery, mount on top of each other, and take a good mount from under a crawl.
- `TieredFirst`: the check and the start of the crawl are separate.
- One capped job blocks the recovery of all; a failing tiering of the first job blocks the other
  jobs; the worker stays stopped when the post-check fails, and only `vps-worker-auto-start` brings it back;
  if the base mount's restart fails after the unmount, nothing is detected any more.
- `vps-warc-tiering-bind-mounts.sh` reads `$?` after `if ... fi`, where it is always 0, so that
  `--repair-stale-mounts` repairs no stale hot mount.
- On Python 3.11 `exists()` raises on a stale mount and ends the worker's iteration for all jobs.

## 5. Proofs

### `JobLifecycleProofs`

For any number of jobs, workers and commands, and any bounds:

- `TypeCorrect`: `Spec => []TypeOK`. `TypeOK` is inductive because it also says
  that a process has a job wherever its code has a `job_id`.
- `RunnersExclude`: `Spec => []OneRunnerPerJob`. The invariant is that a process in
  `Holding` (runner, probe of the stale scan, probe of the reset) holds the lock of its
  job (`RunnersHoldLock`). `LockSteps` says of every action that it keeps the locks,
  takes one that is free, or gives back its own.
- `BudgetHolds`: `Spec => []RetryBudget`, if the counts operators write do not exceed
  the budget themselves. Rows change in few ways (`RowSteps`), of which only the
  failure policy (`PolicyBudget`) and the reset touch the count.
- `IndexedOnce` and `CapturesStay`: `ServedOnce` and `CapturesAreKept`, if there is one process (`Alone`: a
  worker or an operator, any number of jobs). They rest on `Lone`: held locks name their holder, and
  `Knows` says for each place of the code what the process knows of its job's row and of the snapshots
  it deleted, which nobody has changed since. `Served` adds that the rows left of a job are of one version. Both
  properties are false for two processes (section 4), so the hypothesis is needed.
- `LoneWorkerFollows`: `Spec => FollowsLifecycle`, the refinement of `JobStatus`, for a worker without
  operators (`Clis = {}`, `MaxAsks = 0`). Initial states map to initial states, and each step to an edge of the life cycle or
  a stutter. `MaxAsks = 0` is needed as well: `retry-job`, a step that belongs to no process, makes a job
  `retryable` while the worker's post-crawl session is about to make it `failed`, and an operator's
  `index-job` leads from `indexed` to `index_failed`.

### `CrawlProofs`

Of `CrawlRun`, for any options, limits and bounds:

- `TypeCorrect`.
- `ContainersHeld`: `Spec => []ContainersBounded`. A bound on `started` is not
  inductive; the invariant `Counted` adds that no run exceeds its adaptation limits
  (`WithinBudget`), that `started <= attempt + adapts`, strictly where a container is
  still owed (`Owed`), and that nothing is counted before the loop (`Preparing`).
- `CapturesKept` and `BuildIsComplete`: `CapturesSurvive` and `BuildSeesEveryCapture`
  from one invariant, `Kept`: a container is up only while `main()` watches it; WARCs
  are in temp directories; once consolidated, what is about to be discarded is in
  `warcs/`; every capture is in a temp directory or in `warcs/`; and from the choice of a
  mode on, `main()` knows of every directory with WARCs except the one the current
  container is writing to. The last part needs `Load`, which lists the directories on
  disk whatever the state file says.

Of `Frontier`, for any URLs, graph of links with finitely many on a page, scope, seeds and limits:

- `FallbackTypeCorrect`: `FrontierSpec => []FrontierTypeOK`.
- `FallbackComplete`: `CaptureComplete`. It speaks of the end only; the invariant `NothingForgotten` says at every
  step of a capture that has not failed that what was seen was tried, is in hand or is in the queue, and that the links
  in scope of every HTML page, in the WARC or still in the manifest, were seen (`PagesSeen`). At the end the queue
  and the hand are empty. The lemmas on the queue (`InOrderHas`, `ConcatHas`, `TailHas`, `AppendHas`) relate a sequence to
  the set of what it holds; `InOrder` is written by ranks, not as a recursive sort, so that they can be proved.
- `FallbackBounded`: `RequestsBounded`. The counter alone does not bound itself; `RequestsCounted` says that the
  requests of a URL are at most the attempts before this one, its redirects, and all that the first transport may have used if
  curl has taken over, which only happens to a seed.

### `WarcStoreProofs`

For any number of operators and any bounds:

- `TypeCorrect`. Numbering and `sorted()` choose a greatest and a least element, whose
  existence is proved first (`NextIsNumber`, `FirstInSet`).
- `ManifestAlwaysSound`: `Spec => []ManifestSound`, with or without fallbacks. The manifest
  on disk may be replaced at any time by what some process loaded long ago, so the invariant
  `Shape` says the same of every process's locals: a source's entry names a path to the
  source's own file. It survives because no step gives a name in `warcs/` that has a file
  another one (`NamesStay`), not even `open("wb")`, which empties the file it finds.
- `StableAppendOnly`: `Spec => StableIsAppendOnly`. Its condition, that no crawl has fallen
  back, is part of the property: a fallback may empty a stable file (section 4).
- `NothingIsLost`: `Spec => []NothingLost`, which again holds until a crawl falls back or someone runs
  `cleanup-job`. The invariant is conditional in the same way: `Calm` relates processes to the status: only the worker crawls, while the
  job is `running`, and indexing takes place in a settled status, which nothing but indexing
  leaves; so a reset, which asks for a status other than `running`, finds no crawl.
  `Careful` says what a process that is going to delete knows of each of its directories: it
  was made before (no later crawl is given it), no crawl writes to it, and it has a
  stable name, no data, or is still to be linked. `Undisturbed` says that a step of one
  process takes none of this from the others.
- `RowsMatchFiles`: `Spec => []RecordsMatchFiles`. Each of the five parts of the property has an
  invariant under its own condition on what was done (`Kinds`), so that it is lost only by a step
  that makes the condition false; `Apart` has none.
  `Apart`: a capture is in one file, and what an index run found has one path for each file, so
  a capture has one row. `Filled`: only WARCs with data are linked, and stay so, for the manifest.
  `Alone`: without commands and failures, the manifest or the running consolidation knows
  every name in `warcs/`, and the next number is above them. `Led`: with consolidations and
  cleanups only, rows exist only for a job at rest, and whoever deletes has seen that no row
  points below `.tmp*`. The first part needs the most. `Duty`: those who delete are resets, and they
  find no crawl. `Tracing`: each directory with data has a stable name, is in the state file, or is
  the newest, because a crawl's own list and its current directory cover what it made, and a reset
  deletes the state file only when everything has a name. From it, and from the captures that
  `NothingIsLost` keeps, follows that `Discovered` finds every file with a capture (`AllDiscovered`), and
  from `Inserts` and `Indexed` that a job becomes and stays indexed with all of them.

### `ReplayProofs`

For any number of WARCs, commands and failures:

- `TypeCorrect`: `Spec => []TypeOK`, without assumptions.
- `SnapshotsServed`: `Spec => []RowsServed`, if `IndexVerifies`, `TimerStopped` and `Limits = {}`; without any one of the three
  TLC finds `RowsServed` violated (section 4). The invariant has four parts. `Ground` is the type, and
  what is about to be promoted is staged. `Safe`: temp directories keep the good WARCs, no file loses its HTML capture, and damaged
  files are gone while anything that comes of them is about (`CleanWhenUsed`), because compaction and promotion freeze
  the job's status (`StatusHeld`). `Held`: compaction has done, and a promotion has moved, all but what is still on its list, and
  that list is of every good WARC, so the directory that takes the place of `warcs/` has every file the rows name. `Collected` is about
  the collection: one run at a time rebuilds it and the links follow its list (`RunsApart`, `LinksRight`); the marker
  either is a list that discovery cannot return any more (`Gone`, which no step undoes: WARCs do not
  leave `temp`, and a WARC that was once in `warcs/` stays there) or has its links and offsets right, and no timer run is changing them
  (`MarkerRight`). A promotion changes offsets without changing any list: it makes `due` true, and nothing is claimed until an
  operator's run has reached its end.

### `CatalogueProofs`

For any captures, groups, jobs, scopes and bounds:

- `TypeCorrect`: `Spec => []TypeOK`, without assumptions. Its invariant says of every reference between
  tables that it leads to a row: marks, audit rows, page pointers, links, change events, and what the open sessions hold.
  A row may be deleted between the statement that read it and the one that refers to it; what makes it true is that each statement
  checks again, and that a deletion clears every pointer in its own transaction.
- `PagesHold`: `Spec => []PagesFollowRows`, if `RebuildAlone`. `PagesFollowRows` needs `Apart` (the two sessions
  are not open together) and `RebuildRight` (the pages a rebuild is going to write are those of the rows now). The work is in the
  lemmas on the operators: the page of a group depends only on the rows of the group, the inlinks only on the edges between them,
  and clearing pointers to rows of other groups changes neither.
- `ContentListed`: `Spec => []ContentStaysListed`, if index runs do not deduplicate themselves. That no row is both
  hidden and kept is not invariant: an earlier run's canonical row may be hidden by a later run of another scope, and
  restored copies come back in any order. The invariant orders audit rows by the run that wrote them (`AuditsChained`) and says what the open
  session has in hand (`FoundRight`, `ListRight`); of the hidden rows of a key the one marked last has a canonical row that is
  listed (`ShownOfKey`).
- `LinksHold`: `Spec => []LinksResolve`, a part of `ReadsAgree`, without assumptions. An event goes with its later capture and
  forgets an earlier one that goes, so what the invariant of `TypeCorrect` says of references is enough.
- `ReadsHold`: `Spec => []ReadsAgree`, if `RebuildAlone`, if index runs do not deduplicate themselves, and if captures of one page, day
  and content hash are all of good status or none is (`StatusOfContent`). It rests on `PagesFollowRows` and on what keeps
  `ContentStaysListed`. Each part of the property is a lemma: the page table lists the pages that the rows
  give (`FastPages`, `ListingsAgree`); an event's captures are of one page and in order of capture, whatever is
  indexed or deleted later (`EventsEarlier`, the one new invariant, with `TimelinesRight`); the page table's totals are those
  of the rows (`StatsExact`), and the listing of snapshots has one row for each page, day and content
  (`OneEach`, by a bijection). `StatusOfContent` is needed: `find_same_day_duplicates` (`deduplication.py:87`) does not look at
  the status, so a good row may be hidden behind one of the same hash that is not; the listing by snapshots then loses
  the page, which the page table keeps. With such statuses TLC finds `ReadsAgree` violated.

### `AnnualCampaignProofs`

For any seeds, jobs and bounds:

- `TypeCorrect` and `KeysUnique`: `ShardKeysUnique`, with any number of sessions. A row has a name of its own, it is the full
  site's or a seed's shard, and its key, once it has one, is its name (`RowsNamed`). What a session has read is about rows that stay
  (`SessionRows`).
- `DecisionsHold`: `Spec => DecisionsStay`, with one reporter. The invariant `Unsettled`: a session reviews no job whose gap was
  accepted before it commits. With two sessions it is false, and so is the property.
- `GapsAccounted`: `Spec => []NoSilentGap`, with one reporter. `Gaps` says that only indexed jobs have snapshots, that the jobs of an
  edition cover its seeds, and that what a session has read still accounts for every seed when it is written (`Honest`); jobs
  keep what they captured (`Inherits`), because `indexed` is left by nobody and a salvage only adds tags.

### `WatchdogProofs` and `HotPathsProofs`

For any jobs, hosts, scripts, caps and bounds, without assumptions on how they run:

- `TypeCorrect` (both).
- `WatchdogProofs!CapsHold`: `Spec => []RecoveriesCapped`. A run decides from a ledger that it writes three steps later,
  so the invariant relates three counts: interferences of the day are recorded, lost with a run, or owed by the current one
  (`ActsCounted`), the same since the job last gained pages (`ChainCounted`), and while a run acts, what allowed it to still holds
  (`Decided`): days only remove entries, and nobody else adds any.
- `HotPathsProofs!CapsHold`: the same argument (`Counts`) for the caps on all jobs and on each job: a run under way was below both when
  it decided, and its recoveries are applied but not yet in its state file.

The invariants were also checked by TLC on the instances above before they were
proved. What is proved assumes the named assumptions of the modules (limits are
naturals, at least one stage, commands are flags the parser knows) and the hypotheses named
here, which section 3 justifies (**Settings**) or a property needs, and nothing else.

Every invariant and every action property that a run checks is stated by a theorem, some of them under the hypotheses above.
Only model-checked are the eight liveness properties: the prover has no rule for fairness with ENABLED.

## 6. Abstractions

- A runner that dies takes its `archive_tool` with it. In the code the subprocess has
  its own process group and may survive; a second runner could then start beside it.
- A kill of `archive_tool` takes its container with it (its signal handler stops the
  container, and docker's control group does otherwise). `docker stop` works.
- The oldest job that can never be taken (no seeds) ends the worker's iteration; it is
  not told apart from a failed tiering. Bulk forms of commands act on one job at a time.
  The dry-run mode of the worker changes nothing and is left out.
- The monitor may post at any time while it lives: counters and thresholds are data.
- Failing to write `.zimit_resume.yaml`, and a state file read while it is being
  written by another process, are modelled by what the reader makes of them (no
  state). A state file truncated by a kill is no state file.
- In `CrawlRun` a promotion to a fallback is one step that captures or fails, and consolidation links all
  WARCs in one step or fails before it deletes anything; `Frontier` and `WarcStore` have the steps.
- `Frontier`: a page answers with success, a retryable or a final error, a redirect or not at all, as
  it likes at each request; headers, provenance, size limits and the probe before a promotion are left out.
- `WarcStore`: one WARC per temp directory; one file system, so the copy that replaces a link across
  devices does not occur; the manifest is replaced at once (two writers that share its
  temporary name are left out); an index transaction is one step (`JobLifecycle` has its parts);
  `cleanup-job --mode temp`, which is documented to delete WARCs, is left out. A crawl
  records its directory before it makes the next one or ends, which `CrawlRun` shows in detail.
- `Replay`: the two records of a WARC stand for what compaction keeps and what it may drop; CDX offsets are
  "of the file as it was when indexed".
- `Catalogue`: a capture's columns are constants; the normalisation of URLs, diffs and
  ranking are data. The index transaction is open from the deletion to the commit, and its inserts become visible
  with the commit. One source.
- `PublicReads`: formatting, paging and the texts of the search language are left out; sorting matters only where
  it decides which capture is shown.
- `AnnualCampaign`: one source and one year; a seed is captured or not. A config is the keys that someone
  decides by.
- `Watchdog`: time is the order of events and three ages (recent, old, silent); probes may take any process
  that holds a lock for a moment for a runner (`FaultBound`). A second year's jobs do not occur.
- `HotPaths`: an sshfs mount answers or does not; the manifest of other hot paths, drills, the
  deploy lock and the restart of the replay service are left out.

## 7. Plan

What comes next, in this order.

1. `StoreUnderLock`, composing `WarcStore` with the lock of `JobLifecycle`: the
   probe-then-delete commands against the worker.
2. `HotPaths` beside `Watchdog`: the two watchdogs stop the same worker with state files of their own.
3. The boolean query parser of search as a recursive function, against a reference definition.

## Not modelled

- Search: query parsing and ranking build strings and SQL.
- Usage metrics and rate limits: one upsert per event, and a library.
- Reports: crawl statistics, rescue status, integrity report, live comparison read files and rows and print.
- Housekeeping scripts: cleanup automation runs `cleanup-job`, which `WarcStore` has; the detached
  runner starts a unit, which `Watchdog` has as `RSpawns`; the others print metrics.
- The frontend: a client of the API without shared state. Migrations: they run once, offline.
