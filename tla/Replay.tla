------------------------------- MODULE Replay -------------------------------
(***************************************************************************)
(* What happens to one job's WARC files after the crawl, and the pywb       *)
(* collection that replays them: verify-warcs with its quarantine,          *)
(* compact-warcs and promote-compacted-warcs, replay-index-job, the timer   *)
(* that runs replay-reconcile --verify-warc-hash (ha_backend/cli.py,        *)
(* warc_compaction.py, indexing/warc_verify.py), and the API that serves    *)
(* the captures (api/routes_public.py).                                     *)
(*                                                                         *)
(* A WARC holds an HTML capture and a video.  It can be found at two paths: *)
(* in a temp directory and, when consolidated, in warcs/.  Crawls and index *)
(* runs are as coarse as these commands can tell; WarcStore has the details *)
(***************************************************************************)
EXTENDS Integers, FiniteSets

CONSTANTS
    N,             \* bound: WARCs, numbered in the order their names sort
    Damageable,    \* WARCs that a crawl may leave damaged
    Limits,        \* the values of compact-warcs --limit-warcs that operators use
    IndexVerifies, \* whether index runs verify WARCs as thoroughly as verify-warcs
    TimerStopped,  \* whether operators stop the timer for a replay-index-job of their own
    CommandBound,  \* bound: commands
    FaultBound     \* bound: kills and failing calls

Warcs == 1..N
Path == [warc : Warcs, at : {"temp", "live"}]
Records == {"html", "video"}
Procs == {"worker", "operator", "timer"}
Nothing == [w \in Warcs |-> {}]
NoMarker == {[warc |-> 0, at |-> "none"]}

ASSUME BoundsAssumption == {N, CommandBound, FaultBound} \subseteq Nat
ASSUME SettingsAssumption ==
    /\ Damageable \subseteq Warcs
    /\ Limits \subseteq Warcs
    /\ {IndexVerifies, TimerStopped} \subseteq BOOLEAN

VARIABLES
    temp,      \* the WARCs that are in a temp directory
    live,      \* the records of each file in warcs/
    dir,       \* whether warcs/ exists
    bad,       \* the damaged WARCs
    made,      \* the number of WARCs crawled so far
    staging,   \* the staging directory: its files, manifest and report
    promoted,  \* .warcs_promote_*: the records of each file
    rollback,  \* warcs_original_precompact_*: the records of each file
    status,    \* the job's status
    rows,      \* the paths that the job's snapshots refer to
    links,     \* the links in the collection's archive/: their number and target
    cdx,       \* indexes/index.cdxj: the number, WARC and records of each file
    indexed,   \* whether indexes/index.cdxj exists
    marker,    \* replay-index.meta.json: the list of WARCs, or NoMarker
    due,       \* history: operators owe a replay-index-job
    proc,      \* where each process is, and its locals
    commands, faults   \* counters of the bounds

files == <<temp, live, dir, bad, made>>
stages == <<staging, promoted, rollback>>
db == <<status, rows>>
collection == <<links, cdx, indexed, marker>>
bounds == <<commands, faults>>
vars == <<files, stages, db, collection, due, proc, bounds>>

EmptyStaging == [files |-> {}, entries |-> {}, report |-> "none"]
Rest == [pc |-> "idle", todo |-> {}, all |-> {}, next |-> 1, refuse |-> FALSE]

Init ==
    /\ temp = {} /\ live = Nothing /\ dir = FALSE /\ bad = {} /\ made = 0
    /\ staging = EmptyStaging /\ promoted = Nothing /\ rollback = Nothing
    /\ status = "queued" /\ rows = {}
    /\ links = {} /\ cdx = {} /\ indexed = FALSE /\ marker = NoMarker
    /\ due = FALSE
    /\ proc = [p \in Procs |-> Rest]
    /\ commands = 0 /\ faults = 0

-----------------------------------------------------------------------------
(* What the disk and the API show.                                         *)

Content(p) ==
    CASE p.at = "live" -> live[p.warc]
      [] p.at = "temp" -> IF p.warc \in temp THEN Records ELSE {}

Exists(p) == Content(p) # {}

\* discover_warcs_for_job: one path for each WARC, warcs/ first.
Discovered == {p \in Path : Exists(p) /\ (p.at = "temp" => live[p.warc] = {})}

\* Temp directories sort before warcs/.
Before(p, q) == IF p.at = q.at THEN p.warc < q.warc ELSE p.at = "temp"
First(S) == CHOOSE p \in S : \A q \in S \ {p} : Before(p, q)
Rank(S, p) == 1 + Cardinality({q \in S : Before(q, p)})

\* _is_job_replay_ready: browse URLs are offered.
Ready == indexed /\ links # {}

\* get_snapshot_raw
Raw(p) ==
    CASE ~Exists(p) -> IF Ready THEN "replay" ELSE "missing"
      [] Exists(p) -> IF "html" \in Content(p) /\ p.warc \notin bad THEN "html" ELSE "not found"

\* resolve_replay_url, for the capture in a WARC.
Resolved(w) == status = "indexed" /\ Ready /\ \E p \in rows : p.warc = w

\* What pywb finds for the capture in a WARC, through an entry of the index
\* and the link it names: records at the offsets the entry gives.
Replays(w) ==
    \E e \in cdx, l \in links :
        /\ e.warc = w /\ l.number = e.number /\ l.target.warc = w
        /\ Content(l.target) = e.has /\ "html" \in e.has

\* Mutant: only the number of WARCs is compared.
NeedsReindexCounted ==
    /\ Discovered # {}
    /\ ~Ready \/ (marker # NoMarker /\ Cardinality(marker) # Cardinality(Discovered))

\* _job_replay_state with --verify-warc-hash.  A collection without a marker is
\* taken for ready when it has an index and links.
NeedsReindex ==
    /\ Discovered # {}
    /\ ~Ready \/ (marker # NoMarker /\ marker # Discovered)

-----------------------------------------------------------------------------
Is(p, label) == proc[p].pc = label
Goto(p, label) == proc' = [proc EXCEPT ![p].pc = label]
Return(p) == proc' = [proc EXCEPT ![p] = Rest]
Ask == Is("operator", "idle") /\ commands < CommandBound /\ commands' = commands + 1
                              /\ UNCHANGED faults
Fault == faults < FaultBound /\ faults' = faults + 1 /\ UNCHANGED commands
Start(p, label, todo) ==
    proc' = [proc EXCEPT ![p] = [Rest EXCEPT !.pc = label, !.todo = todo, !.all = todo]]
Done(p, path) == proc' = [proc EXCEPT ![p].todo = proc[p].todo \ {path}]

-----------------------------------------------------------------------------
(* Crawls and index runs.                                                  *)

CrawlBegins ==
    /\ Is("worker", "idle") /\ status \in {"queued", "retryable"}
    /\ status' = "running"
    /\ Goto("worker", "crawl")
    /\ UNCHANGED <<files, stages, rows, collection, due, bounds>>

\* The crawl leaves a WARC; its end is written without a look at the status.
CrawlEnds ==
    /\ Is("worker", "crawl")
    /\ made < N /\ made' = made + 1
    /\ temp' = temp \cup {made'}
    /\ bad' \in {bad, bad \cup ({made'} \cap Damageable)}
    /\ status' \in {"completed", "retryable"}
    /\ Return("worker")
    /\ UNCHANGED <<live, dir, stages, rows, collection, due, bounds>>

\* Mutant: the directory is not made.
ConsolidatesBare ==
    /\ live' = [w \in Warcs |-> IF w \in temp /\ live[w] = {} THEN Records ELSE live[w]]
    /\ UNCHANGED dir

\* Whether all WARCs are linked into warcs/ or, on an error, none.
Consolidates ==
    \/ UNCHANGED <<live, dir>>
    \/ /\ live' = [w \in Warcs |-> IF w \in temp /\ live[w] = {} THEN Records ELSE live[w]]
       /\ dir' = TRUE

\* Only the end of an index run shows in the database: it is one transaction.
IndexBegins(p) ==
    /\ Is(p, "idle")
    /\ \/ p = "worker" /\ status = "completed" /\ UNCHANGED bounds
       \/ p = "operator" /\ status \in {"completed", "index_failed", "indexed"} /\ Ask
    /\ Consolidates
    /\ Goto(p, "discover")
    /\ UNCHANGED <<temp, bad, made, stages, db, collection, due>>

Verified(S) == S # {} /\ (IndexVerifies => \A q \in S : q.warc \notin bad)

\* A run that gives up here has not deleted the snapshots of an earlier one.
IndexDiscovers(p) ==
    /\ Is(p, "discover")
    /\ \/ /\ Verified(Discovered)
          /\ Start(p, "insert", Discovered)
          /\ UNCHANGED db
       \/ /\ ~Verified(Discovered)
          /\ status' = "index_failed"
          /\ Return(p)
          /\ UNCHANGED rows
    /\ UNCHANGED <<files, stages, collection, due, bounds>>

\* A file that is gone by then ends the run with the snapshots read so far.
IndexCommits(p) ==
    /\ Is(p, "insert")
    /\ LET there == {q \in proc[p].todo : Exists(q)}
       IN IF there = proc[p].todo
          THEN status' = "indexed" /\ rows' = there
          ELSE status' = "index_failed" /\ rows' \in SUBSET there
    /\ Return(p)
    /\ UNCHANGED <<files, stages, collection, due, bounds>>

-----------------------------------------------------------------------------
(* verify-warcs --apply-quarantine                                         *)

VerifyReads ==
    /\ Ask /\ Discovered # {}
    /\ proc' = [proc EXCEPT !["operator"] =
           [Rest EXCEPT !.pc = "verify", !.todo = Discovered,
                        !.refuse = status = "running" \/ rows # {}]]
    /\ UNCHANGED <<files, stages, db, collection, due>>

Failures(S) == {q \in S : ~Exists(q) \/ q.warc \in bad}

VerifyEnds ==
    /\ Is("operator", "verify")
    /\ LET failures == Failures(proc["operator"].todo)
       IN IF failures = {} \/ proc["operator"].refuse
          THEN Return("operator")
          ELSE Start("operator", "quarantine", failures)
    /\ UNCHANGED <<files, stages, db, collection, due, bounds>>

\* quarantine_warcs: a file that is gone raises.
QuarantineMoves ==
    /\ Is("operator", "quarantine")
    /\ \E q \in proc["operator"].todo :
         IF Exists(q)
         THEN /\ Done("operator", q)
              /\ IF q.at = "live" THEN live' = [live EXCEPT ![q.warc] = {}] /\ UNCHANGED temp
                                  ELSE temp' = temp \ {q.warc} /\ UNCHANGED live
         ELSE Return("operator") /\ UNCHANGED <<temp, live>>
    /\ UNCHANGED <<dir, bad, made, stages, db, collection, due, bounds>>

QuarantineEnds ==
    /\ Is("operator", "quarantine") /\ proc["operator"].todo = {}
    /\ status' = "retryable"
    /\ Return("operator")
    /\ UNCHANGED <<files, stages, rows, collection, due, bounds>>

-----------------------------------------------------------------------------
(* compact-warcs                                                           *)

Selected(n) == {p \in Discovered : Rank(Discovered, p) <= n}

\* should_drop_record_for_profile
KeptOf(has) == has \ {"video"}

CompactReads ==
    /\ Ask /\ status = "indexed" /\ Discovered # {}
    /\ \E n \in Limits \cup {2 * N} : Start("operator", "compact", Selected(n))
    /\ staging' = EmptyStaging
    /\ UNCHANGED <<files, promoted, rollback, db, collection, due>>

CompactOne ==
    /\ Is("operator", "compact") /\ proc["operator"].todo # {}
    /\ LET p == First(proc["operator"].todo)
       IN IF Exists(p) /\ p.warc \notin bad
          THEN /\ staging' = [staging EXCEPT !.files = staging.files \cup
                                 {[path |-> p, has |-> KeptOf(Content(p))]}]
               /\ Done("operator", p)
          ELSE Return("operator") /\ UNCHANGED staging
    /\ UNCHANGED <<files, promoted, rollback, db, collection, due, bounds>>

CompactManifest ==
    /\ Is("operator", "compact") /\ proc["operator"].todo = {}
    /\ staging' = [staging EXCEPT !.entries = {f.path : f \in staging.files}]
    /\ Goto("operator", "report")
    /\ UNCHANGED <<files, promoted, rollback, db, collection, due, bounds>>

\* The snapshots' records among the files that were selected.
RequiredFound ==
    \A p \in rows \cap proc["operator"].all :
        \E f \in staging.files : f.path = p /\ "html" \in f.has

CompactReport ==
    /\ Is("operator", "report")
    /\ staging' = [staging EXCEPT !.report = IF RequiredFound THEN "complete" ELSE "missing"]
    /\ Return("operator")
    /\ UNCHANGED <<files, promoted, rollback, db, collection, due, bounds>>

-----------------------------------------------------------------------------
(* promote-compacted-warcs                                                 *)

Promotable ==
    /\ status = "indexed" /\ dir
    /\ staging.entries # {} /\ staging.report = "complete"
    /\ \A p \in staging.entries :
         /\ \E f \in staging.files : f.path = p
         /\ p.at = "live" /\ Exists(p)
    /\ rollback = Nothing /\ promoted = Nothing

PromoteBegins ==
    /\ Ask /\ Promotable
    /\ Start("operator", "promote", staging.entries)
    /\ UNCHANGED <<files, stages, db, collection, due>>

PromoteStages ==
    /\ Is("operator", "promote") /\ proc["operator"].todo # {}
    /\ LET f == CHOOSE f \in staging.files : f.path = First(proc["operator"].todo)
       IN /\ staging' = [staging EXCEPT !.files = staging.files \ {f}]
          /\ promoted' = [promoted EXCEPT ![f.path.warc] = f.has]
          /\ Done("operator", f.path)
    /\ UNCHANGED <<files, rollback, db, collection, due, bounds>>

PromoteManifest ==
    /\ Is("operator", "promote") /\ proc["operator"].todo = {}
    /\ staging' = [staging EXCEPT !.entries = {}]
    /\ Goto("operator", "retire")
    /\ UNCHANGED <<files, promoted, rollback, db, collection, due, bounds>>

Retire ==
    /\ Is("operator", "retire")
    /\ rollback' = live /\ live' = Nothing /\ dir' = FALSE
    /\ due' = TRUE
    /\ Goto("operator", "land")
    /\ UNCHANGED <<temp, bad, made, staging, promoted, db, collection, bounds>>

Land ==
    /\ Is("operator", "land") /\ ~dir
    /\ live' = promoted /\ promoted' = Nothing /\ dir' = TRUE
    /\ Return("operator")
    /\ UNCHANGED <<temp, bad, made, staging, rollback, db, collection, due, bounds>>

\* The old directory is put back.
LandFails ==
    /\ Is("operator", "land") /\ ~dir
    /\ Fault
    /\ live' = rollback /\ rollback' = Nothing /\ dir' = TRUE
    /\ Return("operator")
    /\ UNCHANGED <<temp, bad, made, staging, promoted, db, collection, due>>

-----------------------------------------------------------------------------
(* replay-index-job, by hand or from the timer                             *)

Runs(p) == proc[p].pc \in {"unlink", "link", "mark"}

ReplayByHand ==
    /\ Ask /\ Discovered # {}
    /\ TimerStopped => Is("timer", "idle")
    /\ Start("operator", "unlink", Discovered)
    /\ due' = TRUE
    /\ UNCHANGED <<files, stages, db, collection>>

ReconcileChecks ==
    /\ Is("timer", "idle") /\ status = "indexed" /\ NeedsReindex
    /\ TimerStopped => ~Runs("operator")
    /\ Start("timer", "unlink", Discovered)
    /\ UNCHANGED <<files, stages, db, collection, due, bounds>>

Unlink(p) ==
    /\ Is(p, "unlink")
    /\ IF links = {}
       THEN Goto(p, "link") /\ UNCHANGED links
       ELSE /\ links' = {l \in links : \E k \in links : k.number < l.number}
            /\ UNCHANGED proc
    /\ UNCHANGED <<files, stages, db, cdx, indexed, marker, due, bounds>>

\* A number that is taken raises FileExistsError.
Link(p) ==
    /\ Is(p, "link") /\ proc[p].todo # {}
    /\ LET q == First(proc[p].todo)
           n == proc[p].next
       IN IF \E l \in links : l.number = n
          THEN Return(p) /\ UNCHANGED links
          ELSE /\ links' = links \cup {[number |-> n, target |-> q]}
               /\ proc' = [proc EXCEPT ![p].todo = proc[p].todo \ {q}, ![p].next = n + 1]
    /\ UNCHANGED <<files, stages, db, cdx, indexed, marker, due, bounds>>

\* wb-manager reindex reads the files that the links lead to.
Reindex(p) ==
    /\ Is(p, "link") /\ proc[p].todo = {}
    /\ cdx' = {[number |-> l.number, warc |-> l.target.warc, has |-> Content(l.target)] :
                  l \in {k \in links : Exists(k.target)}}
    /\ indexed' = TRUE
    /\ Goto(p, "mark")
    /\ UNCHANGED <<files, stages, db, links, marker, due, bounds>>

\* Mutant: the marker takes the WARCs that are there by then.
MarkNow(p) ==
    /\ Is(p, "mark")
    /\ marker' = Discovered
    /\ due' = (due /\ p # "operator")
    /\ Return(p)
    /\ UNCHANGED <<files, stages, db, links, cdx, indexed, bounds>>

Mark(p) ==
    /\ Is(p, "mark")
    /\ \/ marker' = proc[p].all /\ UNCHANGED bounds
       \/ Fault /\ UNCHANGED marker
    /\ due' = (due /\ p # "operator")
    /\ Return(p)
    /\ UNCHANGED <<files, stages, db, links, cdx, indexed>>

-----------------------------------------------------------------------------
\* A command or the timer's run is killed, or one of its calls fails.  (Index
\* runs that are killed are JobLifecycle's.)
Kill(p) ==
    /\ proc[p].pc \notin {"idle", "discover", "insert"}
    /\ Fault
    /\ Return(p)
    /\ UNCHANGED <<files, stages, db, collection, due>>

Indexing(p) == IndexBegins(p) \/ IndexDiscovers(p) \/ IndexCommits(p)
Replaying(p) == Unlink(p) \/ Link(p) \/ Reindex(p) \/ Mark(p)
Verifying == VerifyEnds \/ QuarantineMoves \/ QuarantineEnds
Compacting == CompactOne \/ CompactManifest \/ CompactReport
Promoting == PromoteStages \/ PromoteManifest \/ Retire \/ Land

Next ==
    \/ CrawlBegins \/ CrawlEnds
    \/ \E p \in {"worker", "operator"} : Indexing(p)
    \/ VerifyReads \/ Verifying
    \/ CompactReads \/ Compacting
    \/ PromoteBegins \/ Promoting \/ LandFails
    \/ ReplayByHand \/ ReconcileChecks
    \/ \E p \in {"operator", "timer"} : Replaying(p) \/ Kill(p)

\* The timer fires again and again, and commands that run come to an end.
Fairness ==
    /\ WF_vars(ReconcileChecks \/ Replaying("timer"))
    /\ WF_vars(Verifying \/ Compacting \/ Promoting \/ Replaying("operator")
                 \/ IndexDiscovers("operator") \/ IndexCommits("operator"))

Spec == Init /\ [][Next]_vars /\ Fairness

-----------------------------------------------------------------------------
(* Properties.                                                             *)

\* The type of the state; a WARC that is not crawled yet is nowhere, and no file
\* is in a directory that is not there.
TypeOK ==
    /\ temp \subseteq 1..made /\ bad \subseteq 1..made /\ made \in 0..N
    /\ {live, promoted, rollback} \subseteq [Warcs -> SUBSET Records]
    /\ dir \in BOOLEAN /\ (dir \/ live = Nothing)
    /\ staging \in [files : SUBSET [path : Path, has : SUBSET Records],
                    entries : SUBSET Path, report : {"none", "complete", "missing"}]
    /\ status \in {"queued", "running", "retryable", "completed", "indexed",
                   "index_failed"}
    /\ rows \subseteq Path
    /\ links \subseteq [number : Nat, target : Path]
    /\ cdx \subseteq [number : Nat, warc : 1..made, has : SUBSET Records]
    /\ indexed \in BOOLEAN /\ due \in BOOLEAN
    /\ marker = NoMarker \/ marker \subseteq Path
    /\ proc \in [Procs ->
         [pc : {"idle", "crawl", "discover", "insert", "verify", "quarantine", "compact",
                "report", "promote", "retire", "land", "unlink", "link", "mark"},
          todo : SUBSET Path, all : SUBSET Path, next : Nat, refuse : BOOLEAN]]
    /\ commands \in 0..CommandBound /\ faults \in 0..FaultBound

\* However verifications that take hours, index runs and promotions overlap and
\* break off, the API serves every snapshot from the WARC it names; only a
\* promotion that stops between its two renames leaves the file out of place,
\* and then both the old and the new one hold the capture
\* (cli.cmd_verify_warcs, cmd_promote_compacted_warcs, routes_public.get_snapshot_raw).
\* When the collection's marker names the job's WARCs, no run is under way, no
\* operator owes one and no promotion was broken off, every snapshot can be
\* replayed too: there is a link to its WARC and the index has the offsets of
\* the file as it is now
\* (cli.cmd_replay_index_job, cmd_replay_reconcile, routes_public._build_browse_url).
RowsServed ==
    /\ \A p \in rows :
           \/ Raw(p) = "html"
           \/ ~dir /\ p.at = "live" /\ "html" \in promoted[p.warc] \cap rollback[p.warc]
    /\ (/\ status = "indexed" /\ marker = Discovered /\ promoted = Nothing
        /\ ~due /\ ~Runs("operator") /\ ~Runs("timer"))
           => \A p \in rows : Resolved(p.warc) /\ Replays(p.warc)

\* Whatever operators do to the files of an indexed job, and whichever runs are
\* killed, the timer goes on until the collection is there and its marker, if
\* one was ever written, names the job's WARCs (cli.cmd_replay_reconcile).
ReplayCatchesUp ==
    []<>(status = "indexed" /\ Discovered # {} =>
             Ready /\ (marker # NoMarker => marker = Discovered))

=============================================================================
