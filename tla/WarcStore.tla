----------------------------- MODULE WarcStore -----------------------------
(***************************************************************************)
(* The WARC files of one job: temp directories, the stable warcs/ directory *)
(* and its manifest (ha_backend/archive_storage.py), and the processes that *)
(* create, link, index, rewrite and delete them: the worker with its        *)
(* crawls, and operators with consolidate-warcs, cleanup-job,               *)
(* reset-crawl-state and index-job.                                         *)
(*                                                                         *)
(* A path is a number: a temp directory stands for the WARC in it, and      *)
(* numbers follow the order in which sorted() lists the paths.  A file is   *)
(* named after the path it was created at; a hard link is a second path     *)
(* with the same file.                                                      *)
(***************************************************************************)
EXTENDS Integers, Sequences, SequencesExt

CONSTANTS
    Worker,        \* the process that crawls and indexes
    Operators,     \* processes that run one command at a time
    Commands,      \* the commands they run
    Adopted,       \* the number of temp directories of a job that register-job-dir adopts
    DirBound,      \* bound: temp directories
    NameBound,     \* bound: names in warcs/
    CaptureBound,  \* bound: pages captured
    CommandBound,  \* bound: commands
    FaultBound     \* bound: crashes and failing system calls

Procs == {Worker} \cup Operators
Dirs == 1..DirBound
Names == DirBound + 1 .. DirBound + NameBound
Paths == Dirs \cup Names
Captures == 1..CaptureBound
Nowhere == 0

ASSUME BoundsAssumption ==
    {DirBound, NameBound, CaptureBound, CommandBound, FaultBound} \subseteq Nat
ASSUME ProcsAssumption ==
    /\ Worker \notin Operators
    /\ Commands \subseteq {"consolidate", "cleanup", "reset", "index", "retry"}
ASSUME AdoptedAssumption == Adopted \in Dirs \cup {0} /\ Adopted <= CaptureBound

VARIABLES
    node,      \* the file at each path
    file,      \* the captures in each file
    manifest,  \* warcs/manifest.json: the stable name of each source path
    listed,    \* the temp directories in .archive_state.json
    born,      \* temp directories made so far, the last modified one last
    status,    \* the job's status
    rows,      \* snapshots: captures with their warc_path
    made,      \* history: the number of captures made so far
    proc,      \* where each process is, and its locals
    ran,       \* history: the commands given so far, "fallback" once a crawl fell back,
               \* and "overlap" once one started while its state was being reset
    commands, faults   \* counters of the bounds

disk == <<node, file, manifest, listed, born>>
db == <<status, rows>>
asked == <<ran, commands>>
bounds == <<asked, faults>>
vars == <<disk, db, made, proc, bounds>>

Rest == [pc |-> "idle", task |-> "none", todo |-> {}, map |-> [d \in Dirs |-> Nowhere],
         next |-> Nowhere, at |-> Nowhere, aim |-> {}, rewrite |-> FALSE]

\* A new job, or one of register-job-dir: its state file may be of a killed run.
Init ==
    /\ node = [p \in Paths |-> IF p <= Adopted THEN p ELSE Nowhere]
    /\ file = [p \in Paths |-> IF p <= Adopted THEN {p} ELSE {}]
    /\ manifest = [d \in Dirs |-> Nowhere]
    /\ listed \in SUBSET (1..Adopted)
    /\ born \in SetToSeqs(1..Adopted)
    /\ status = IF Adopted = 0 THEN "queued" ELSE "completed"
    /\ rows = {}
    /\ made = Adopted
    /\ proc = [p \in Procs |-> Rest]
    /\ ran = {}
    /\ commands = 0 /\ faults = 0

-----------------------------------------------------------------------------
(* What the helpers see on the disk.                                       *)

Exists(p) == node[p] # Nowhere
HasData(p) == Exists(p) /\ file[node[p]] # {}
TempDirs == {d \in Dirs : Exists(d)}
TempWarcs == {d \in Dirs : HasData(d)}
First(S) == CHOOSE p \in S : \A q \in S : p <= q

\* find_latest_temp_dir_fallback
Latest == {d \in TempDirs : \A i \in DOMAIN born :
               d = born[i] => \A j \in i + 1 .. Len(born) : ~Exists(born[j])}

\* _next_warc_index: files without data do not count.
NextName ==
    LET used == {n \in Names : HasData(n)} \cup ({manifest[d] : d \in Dirs} \ {Nowhere})
    IN IF used = {} THEN DirBound + 1 ELSE 1 + CHOOSE n \in used : \A m \in used : m <= n

\* discover_temp_warcs_for_job: the listed directories, or else the newest one.
Tracked ==
    {d \in TempWarcs : d \in IF listed \cap TempDirs # {} THEN listed ELSE Latest}

\* Sources that the manifest says are consolidated, to a file that exists.
Consolidated == {d \in Dirs : manifest[d] # Nowhere /\ Exists(manifest[d])}

\* discover_all_warcs_for_output_dir: one path for each file, stable names first.
Discovered ==
    {n \in Names : HasData(n) /\ \A m \in Names : node[m] = node[n] => n <= m}
        \cup {d \in (TempWarcs \cap (listed \cup Latest)) \ Consolidated :
                \A n \in Names : node[n] # node[d]}

-----------------------------------------------------------------------------
(* verify-warc-manifest --level presence, which operators run at any time.  *)

Entries == {d \in Dirs : manifest[d] # Nowhere}

\* Entries whose stable file is missing, is empty or has been named before.
Unverified ==
    {d \in Entries : ~HasData(manifest[d]) \/ \E e \in Entries \ {d} : manifest[e] = manifest[d]}

\* Files in warcs/ that no entry names; they are only warned of.
Orphaned == {n \in Names : Exists(n) /\ \A d \in Entries : manifest[d] # n}

\* Its exit status; a manifest without entries is fine, none at all is not.
VerifyWarcManifest == Unverified = {}

-----------------------------------------------------------------------------
Is(p, label) == proc[p].pc = label
Goto(p, label) == proc' = [proc EXCEPT ![p].pc = label]
Return(p) == proc' = [proc EXCEPT ![p] = Rest]
Ask(c) ==
    /\ c \in Commands /\ commands < CommandBound
    /\ commands' = commands + 1
    /\ ran' = ran \cup {c}
Fault == faults < FaultBound /\ faults' = faults + 1

\* consolidate_warcs: it loads the manifest once, when it starts.
Consolidating(task, sources, aim, rewrite) ==
    [Rest EXCEPT !.pc = "link", !.task = task, !.todo = sources, !.map = manifest,
                 !.next = NextName, !.aim = aim, !.rewrite = rewrite]

Source(p) == First(proc[p].todo)
Dest(p) == IF proc[p].map[Source(p)] = Nowhere THEN proc[p].next ELSE proc[p].map[Source(p)]
Linking(p) == Is(p, "link") /\ proc[p].todo # {} /\ Dest(p) \in Names
Reusable(p) == proc[p].map[Source(p)] # Nowhere /\ Exists(Dest(p))

\* The manifest knows a stable file for this source.
Reuse(p) ==
    /\ Linking(p)
    /\ Exists(Source(p))
    /\ Reusable(p)
    /\ proc' = [proc EXCEPT ![p].todo = @ \ {Source(p)}]
    /\ UNCHANGED <<disk, db, made, bounds>>

\* Mutant: any file that has the name is taken for this one.
LinkExisting(p) ==
    LET d == Source(p)
    IN /\ Linking(p)
       /\ Exists(d)
       /\ ~Reusable(p)
       /\ node' = [node EXCEPT ![Dest(p)] = IF Exists(Dest(p)) THEN @ ELSE node[d]]
       /\ proc' = [proc EXCEPT ![p].todo = @ \ {d}, ![p].map[d] = Dest(p),
                               ![p].next = IF Dest(p) = @ THEN @ + 1 ELSE @]
       /\ UNCHANGED <<file, manifest, listed, born, db, made, bounds>>

\* Mutant: the link is renamed over whatever has the name.
LinkOver(p) ==
    LET d == Source(p)
    IN /\ Linking(p)
       /\ Exists(d)
       /\ ~Reusable(p)
       /\ node' = [node EXCEPT ![Dest(p)] = node[d]]
       /\ proc' = [proc EXCEPT ![p].todo = @ \ {d}, ![p].map[d] = Dest(p),
                               ![p].next = IF Dest(p) = @ THEN @ + 1 ELSE @]
       /\ UNCHANGED <<file, manifest, listed, born, db, made, bounds>>

\* os.link, which also accepts a name that is this file already.
Link(p) ==
    LET d == Source(p)
    IN /\ Linking(p)
       /\ Exists(d)
       /\ ~Reusable(p)
       /\ node[Dest(p)] \in {Nowhere, node[d]}
       /\ node' = [node EXCEPT ![Dest(p)] = node[d]]
       /\ proc' = [proc EXCEPT ![p].todo = @ \ {d}, ![p].map[d] = Dest(p),
                               ![p].next = IF Dest(p) = @ THEN @ + 1 ELSE @]
       /\ UNCHANGED <<file, manifest, listed, born, db, made, bounds>>

\* Mutant: consolidation is best effort, and deletion follows in any case.
AbandonAnyway(p) ==
    /\ proc' = [proc EXCEPT ![p] =
                    CASE @.task = "index" -> [Rest EXCEPT !.pc = "discover"]
                      [] @.task = "consolidate" -> Rest
                      [] OTHER -> [@ EXCEPT !.pc = "delete"]]
    /\ UNCHANGED status

\* An error after some links: the manifest is not written.  Indexing goes on
\* with the paths as they are, a stale reset fails its crawl, commands end.
Abandon(p) ==
    /\ proc' = [proc EXCEPT ![p] =
                    IF @.task = "index" THEN [Rest EXCEPT !.pc = "discover"] ELSE Rest]
    /\ status' = IF proc[p].task = "stale" THEN "retryable" ELSE status

LinkFails(p) ==
    /\ Linking(p)
    /\ \/ /\ ~Exists(Source(p)) \/ (~Reusable(p) /\ node[Dest(p)] \notin {Nowhere, node[Source(p)]})
          /\ UNCHANGED faults
       \/ Fault
    /\ Abandon(p)
    /\ UNCHANGED <<disk, rows, made, asked>>

\* _dump_manifest writes the whole manifest that was loaded, with the additions.
Dump(p) ==
    /\ Is(p, "link")
    /\ proc[p].todo = {}
    /\ manifest' = proc[p].map
    /\ proc' = [proc EXCEPT ![p] =
                    IF @.task = "index" THEN [Rest EXCEPT !.pc = "discover"]
                    ELSE IF @.rewrite THEN [@ EXCEPT !.pc = "rewrite"]
                    ELSE CASE @.task = "consolidate" -> Rest
                           [] @.task = "cleanup" -> [@ EXCEPT !.pc = "forget"]
                           [] OTHER -> [@ EXCEPT !.pc = "delete"]]
    /\ UNCHANGED <<node, file, listed, born, db, made, bounds>>

-----------------------------------------------------------------------------
(* Rewriting rows and deleting temp directories.                           *)

InTemp(rs) == {r \in rs : r[2] \in Dirs}
Mapped(rs) ==
    {<<r[1], IF r[2] \in Dirs /\ manifest[r[2]] # Nowhere THEN manifest[r[2]] ELSE r[2]>> : r \in rs}

\* One transaction.  Both commands refuse without a manifest, and cleanup-job
\* rolls back when a row would still point below .tmp*.
Rewrite(p) ==
    LET refused == \/ \A d \in Dirs : manifest[d] = Nowhere
                   \/ proc[p].task = "cleanup" /\ InTemp(Mapped(rows)) # {}
    IN /\ Is(p, "rewrite")
       /\ rows' = IF refused THEN rows ELSE Mapped(rows)
       /\ IF refused \/ proc[p].task = "consolidate" THEN Return(p) ELSE Goto(p, "forget")
       /\ UNCHANGED <<disk, status, made, bounds>>

\* cleanup-job removes the state file before the directories.
Forget(p) ==
    /\ Is(p, "forget")
    /\ listed' = {}
    /\ Goto(p, "delete")
    /\ UNCHANGED <<node, file, manifest, born, db, made, bounds>>

Delete(p) ==
    /\ Is(p, "delete")
    /\ \E d \in proc[p].aim :
         /\ node' = [node EXCEPT ![d] = Nowhere]
         /\ proc' = [proc EXCEPT ![p].aim = @ \ {d}]
    /\ UNCHANGED <<file, manifest, listed, born, db, made, bounds>>

\* rmtree raises: cleanup_temp_dirs goes on to the next one, cleanup-job ends.
DeleteFails(p) ==
    /\ Is(p, "delete")
    /\ Fault
    /\ \E d \in proc[p].aim :
         IF proc[p].task = "cleanup" THEN Return(p) ELSE proc' = [proc EXCEPT ![p].aim = @ \ {d}]
    /\ UNCHANGED <<disk, db, made, asked>>

\* The state file goes last in cleanup_temp_dirs; a stale reset goes on to crawl.
Deleted(p) ==
    /\ Is(p, "delete")
    /\ proc[p].aim = {}
    /\ listed' = IF proc[p].task = "cleanup" THEN listed ELSE {}
    /\ proc' = [proc EXCEPT ![p] = IF @.task = "stale" THEN [Rest EXCEPT !.pc = "crawl"] ELSE Rest]
    /\ UNCHANGED <<node, file, manifest, born, db, made, bounds>>

-----------------------------------------------------------------------------
(* The operators' commands.                                                *)

\* consolidate-warcs, with or without --rewrite-snapshot-paths, whatever the status.
ConsolidateWarcs(p) ==
    /\ Is(p, "idle")
    /\ Ask("consolidate")
    /\ TempWarcs # {}
    /\ \E rewrite \in BOOLEAN :
         proc' = [proc EXCEPT ![p] = Consolidating("consolidate", TempWarcs, {}, rewrite)]
    /\ UNCHANGED <<disk, db, made, faults>>

\* Mutant: cleanup-job does not look for rows that point below .tmp*.
CleanupBlind(p) ==
    /\ Is(p, "idle")
    /\ Ask("cleanup")
    /\ status \in {"indexed", "index_failed"}
    /\ TempDirs # {}
    /\ proc' = [proc EXCEPT ![p] = [Rest EXCEPT !.pc = "forget", !.task = "cleanup", !.aim = TempDirs]]
    /\ UNCHANGED <<disk, db, made, faults>>

\* cleanup-job --mode temp-nonwarc consolidates only while warcs/ has no file at all.
CleanupJob(p) ==
    /\ Is(p, "idle")
    /\ Ask("cleanup")
    /\ status \in {"indexed", "index_failed"}
    /\ TempDirs # {}
    /\ LET refs == InTemp(rows) # {}
       IN IF \E n \in Names : Exists(n)
          THEN proc' = [proc EXCEPT ![p] =
                   [Rest EXCEPT !.pc = IF refs THEN "rewrite" ELSE "forget",
                                !.task = "cleanup", !.aim = TempDirs]]
          ELSE /\ TempWarcs # {}
               /\ proc' = [proc EXCEPT ![p] = Consolidating("cleanup", TempWarcs, TempDirs, refs)]
    /\ UNCHANGED <<disk, db, made, faults>>

\* reset-crawl-state --apply.
ResetCrawlState(p) ==
    /\ Is(p, "idle")
    /\ Ask("reset")
    /\ status # "running"
    /\ TempDirs # {}
    /\ proc' = [proc EXCEPT ![p] =
                   IF TempWarcs = {} THEN [Rest EXCEPT !.pc = "delete", !.task = "reset", !.aim = TempDirs]
                   ELSE Consolidating("reset", TempWarcs, TempDirs, FALSE)]
    /\ UNCHANGED <<disk, db, made, faults>>

\* retry-job makes a job that could not be indexed ready for the indexer again.
RetryJob ==
    /\ Ask("retry")
    /\ status = "index_failed"
    /\ status' = "completed"
    /\ UNCHANGED <<disk, rows, made, proc, faults>>

-----------------------------------------------------------------------------
(* index_job, run by the worker after a crawl or by index-job.  Its deletes *)
(* and inserts are one transaction, and one step.                          *)

IndexJob(p) ==
    /\ Is(p, "idle")
    /\ IF p = Worker THEN status = "completed" /\ UNCHANGED asked
       ELSE status \in {"completed", "index_failed", "indexed"} /\ Ask("index")
    /\ proc' = [proc EXCEPT ![p] =
                   IF Tracked = {} THEN [Rest EXCEPT !.pc = "discover"]
                   ELSE Consolidating("index", Tracked, {}, FALSE)]
    /\ UNCHANGED <<disk, db, made, faults>>

Discover(p) ==
    /\ Is(p, "discover")
    /\ Discovered # {}
    /\ proc' = [proc EXCEPT ![p].pc = "insert", ![p].aim = Discovered]
    /\ UNCHANGED <<disk, db, made, bounds>>

\* No WARC, or one that verify_warcs cannot read: the rows stay as they were.
DiscoverFails(p) ==
    /\ Is(p, "discover")
    /\ \/ Discovered = {} /\ UNCHANGED faults
       \/ Fault
    /\ status' = "index_failed"
    /\ Return(p)
    /\ UNCHANGED <<disk, rows, made, asked>>

RowsOf(paths) == {r \in Captures \X paths : r[1] \in file[node[r[2]]]}

\* A path that has gone since ends the loop; what was read before it is committed.
Insert(p) ==
    LET gone == {q \in proc[p].aim : ~Exists(q)}
    IN /\ Is(p, "insert")
       /\ status' = IF gone = {} THEN "indexed" ELSE "index_failed"
       /\ rows' = RowsOf({q \in proc[p].aim : \A g \in gone : q < g})
       /\ Return(p)
       /\ UNCHANGED <<disk, made, bounds>>

-----------------------------------------------------------------------------
(* The crawl: archive_tool in the worker.                                  *)

\* It lists every directory it finds, and keeps that list while it crawls; resetting
\* stale state is its own choice.
CrawlStarts ==
    /\ Is(Worker, "idle")
    /\ status \in {"queued", "retryable"}
    /\ status' = "running"
    /\ listed' = TempDirs
    /\ \/ proc' = [proc EXCEPT ![Worker] = [Rest EXCEPT !.pc = "crawl", !.todo = TempDirs]]
       \/ /\ TempDirs # {}
          /\ proc' = [proc EXCEPT ![Worker] =
                 IF TempWarcs = {} THEN [Rest EXCEPT !.pc = "delete", !.task = "stale", !.aim = TempDirs]
                 ELSE Consolidating("stale", TempWarcs, TempDirs, FALSE)]
    /\ ran' = ran \cup {e \in {"overlap"} : \E p \in Operators : proc[p].task = "reset"}
    /\ UNCHANGED <<node, file, manifest, born, rows, made, commands, faults>>

\* Mutant: recording does not look at what it is given.
RecordedBlind == proc[Worker].todo \cup {proc[Worker].at}

\* The list of the running crawl, as far as the directories exist.
Recorded == (proc[Worker].todo \cup {proc[Worker].at}) \cap TempDirs

\* The whole list is written, and only when it has changed.
Record == listed' = IF Recorded = proc[Worker].todo THEN listed ELSE Recorded

\* The next container's directory; the last one has been recorded by then.
NewDir ==
    /\ Is(Worker, "crawl")
    /\ Record
    /\ \E d \in Dirs \ ToSet(born) :
         /\ node' = [node EXCEPT ![d] = d]
         /\ born' = Append(born, d)
         /\ proc' = [proc EXCEPT ![Worker] = [@ EXCEPT !.at = d, !.todo = Recorded]]
    /\ UNCHANGED <<file, manifest, db, made, bounds>>

Capture ==
    /\ Is(Worker, "crawl")
    /\ proc[Worker].at # Nowhere
    /\ made < CaptureBound
    /\ made' = made + 1
    /\ file' = [file EXCEPT ![proc[Worker].at] = @ \cup {made + 1}]
    /\ UNCHANGED <<node, manifest, listed, born, db, proc, bounds>>

CrawlEnds ==
    /\ Is(Worker, "crawl")
    /\ Record
    /\ status' \in {"completed", "retryable"}
    /\ Return(Worker)
    /\ UNCHANGED <<node, file, manifest, born, rows, made, bounds>>

\* get_next_stable_warc_path, minutes before the file is opened.
FallbackPicks ==
    /\ Is(Worker, "crawl")
    /\ NextName \in Names
    /\ Record
    /\ proc' = [proc EXCEPT ![Worker].pc = "render", ![Worker].at = NextName]
    /\ ran' = ran \cup {"fallback"}
    /\ UNCHANGED <<node, file, manifest, born, db, made, commands, faults>>

\* open("wb"): a file that has got this name meanwhile is emptied.
FallbackWrites ==
    LET n == proc[Worker].at
        f == IF Exists(n) THEN node[n] ELSE n
    IN /\ Is(Worker, "render")
       /\ node' = [node EXCEPT ![n] = f]
       /\ \/ /\ made < CaptureBound
             /\ made' = made + 1
             /\ file' = [file EXCEPT ![f] = {made + 1}]
             /\ status' \in {"completed", "retryable"}
          \/ /\ UNCHANGED made
             /\ file' = [file EXCEPT ![f] = {}]
             /\ status' = "retryable"
       /\ Return(Worker)
       /\ UNCHANGED <<manifest, listed, born, rows, bounds>>

\* A process dies; a crawl that it ran is found by the scan for stale jobs.
Crash(p) ==
    /\ ~Is(p, "idle")
    /\ Fault
    /\ status' = IF p = Worker /\ status = "running" THEN "retryable" ELSE status
    /\ Return(p)
    /\ UNCHANGED <<disk, rows, made, asked>>

Next ==
    \/ \E p \in Operators : ConsolidateWarcs(p) \/ CleanupJob(p) \/ ResetCrawlState(p)
    \/ RetryJob
    \/ \E p \in Procs :
         \/ Reuse(p) \/ Link(p) \/ LinkFails(p) \/ Dump(p)
         \/ Rewrite(p) \/ Forget(p) \/ Delete(p) \/ DeleteFails(p) \/ Deleted(p)
         \/ IndexJob(p) \/ Discover(p) \/ DiscoverFails(p) \/ Insert(p)
         \/ Crash(p)
    \/ CrawlStarts \/ NewDir \/ Capture \/ CrawlEnds \/ FallbackPicks \/ FallbackWrites

Spec == Init /\ [][Next]_vars

-----------------------------------------------------------------------------
(* Properties.                                                             *)

\* The type of the state; a state file lists temp directories only.
TypeOK ==
    /\ node \in [Paths -> Paths \cup {Nowhere}]
    /\ file \in [Paths -> SUBSET Captures]
    /\ manifest \in [Dirs -> Names \cup {Nowhere}]
    /\ listed \subseteq Dirs
    /\ born \in Seq(Dirs)
    /\ status \in {"queued", "running", "retryable", "completed", "indexed", "index_failed"}
    /\ rows \subseteq Captures \X Paths
    /\ made \in 0..CaptureBound
    /\ proc \in [Procs ->
         [pc : {"idle", "link", "rewrite", "forget", "delete", "discover", "insert", "crawl", "render"},
          task : {"none", "index", "consolidate", "cleanup", "reset", "stale"},
          todo : SUBSET Dirs, map : [Dirs -> Names \cup {Nowhere}], next : Int,
          at : Paths \cup {Nowhere}, aim : SUBSET Paths, rewrite : BOOLEAN]]
    /\ ran \subseteq Commands \cup {"fallback", "overlap"}
    /\ commands \in 0..CommandBound
    /\ faults \in 0..FaultBound

Kept(c) == \E p \in Paths : Exists(p) /\ c \in file[node[p]]

\* Every page ever captured is in a WARC that some path still leads to: no
\* order of links, failures, kills and deletions drops one
\* (archive_storage.consolidate_warcs, utils.cleanup_temp_dirs).
NothingLost == {"cleanup", "fallback"} \cap ran = {} =>
    \A c \in 1..made : Kept(c)

\* A job that says 'indexed' has a row for every capture on the disk, whichever
\* of its WARCs were consolidated; each row, also after paths were rewritten and
\* directories deleted, leads to a WARC that holds its capture; and a capture
\* that several paths reach has one row (warc_discovery.discover_all_warcs_for_output_dir,
\* cli.cmd_cleanup_job, pipeline._dedupe_warc_paths_by_file_identity).  Captures are missed
\* in adopted directories that no state file lists, and when a crawl starts
\* while a reset is still about to remove the state file.  As long as no
\* crawl fell back, verify-warc-manifest has nothing to report whenever it is run; and if
\* the worker was alone and nothing failed, warcs/ has no file it could not account for.
RecordsMatchFiles ==
    /\ status = "indexed" /\ {"cleanup", "fallback", "overlap"} \cap ran = {} /\ Adopted <= 1 =>
           \A c \in 1..made : Kept(c) => \E r \in rows : r[1] = c
    /\ ran \subseteq {"consolidate", "cleanup", "fallback"} => \A r \in rows : Exists(r[2]) /\ r[1] \in file[node[r[2]]]
    /\ \A r, s \in rows : r[1] = s[1] => r = s
    /\ "fallback" \notin ran => VerifyWarcManifest
    /\ ran = {} /\ faults = 0 /\ ~Is(Worker, "link") => Orphaned = {}

\* However consolidations overlap, fail and lose each other's entries, the
\* manifest names an existing file for each source, a file of its own, and it
\* is the source's own file while the source exists (archive_storage.consolidate_warcs).
ManifestSound ==
    \A d \in Dirs : manifest[d] # Nowhere =>
        /\ Exists(manifest[d])
        /\ Exists(d) => node[manifest[d]] = node[d]
        /\ \A e \in Dirs : manifest[e] = manifest[d] => e = d

\* A name in warcs/ keeps its file, and the file keeps its captures
\* (archive_storage.get_next_stable_warc_path, _safe_link_or_copy).
StableIsAppendOnly ==
    [][\A n \in Names : Exists(n) /\ "fallback" \notin ran =>
           node'[n] = node[n] /\ file[node[n]] \subseteq file'[node[n]]]_vars

=============================================================================
