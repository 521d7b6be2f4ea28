------------------------------ MODULE Catalogue ------------------------------
(***************************************************************************)
(* What the public archive serves: the snapshot rows of the database and   *)
(* the tables derived from them, of one source.                            *)
(*                                                                         *)
(* `index_job` replaces the rows of a job by one row per record of its     *)
(* WARC files, and in the same transaction brings the page rollup and the  *)
(* link signals of the groups it touched up to date. Operators run the     *)
(* other writers beside it: same-day deduplication and its reversal, the   *)
(* rebuild of the page table, the backfill of links, the recomputation of  *)
(* the signals; a timer computes change events. Every writer is a session  *)
(* of PostgreSQL at READ COMMITTED: a statement sees what is committed     *)
(* when it starts, row locks make a writer wait, and foreign keys refuse,  *)
(* clear or cascade.                                                       *)
(***************************************************************************)
EXTENDS Integers, FiniteSets

CONSTANTS
    Jobs,            \* archive jobs of the source
    Groups,          \* normalised URL groups, as numbers in their sorting order
    Captures,        \* records the WARC files may hold, in the order they are read
    JobOf, GroupOf,  \* of a capture: its job, its URL group,
    TimeOf, DayOf,   \* the time of capture and its calendar day,
    HashOf,          \* the hash of its body,
    QualityOf,       \* its status: 2 for 2xx, 1 for a redirect, 0 for none, -1 for others,
    LinksOf,         \* and the groups its body links to
    Since,           \* oldest capture time the change-tracking timer looks at
    MaxEvents,       \* --max-events of compute-changes
    AutoDedupe,      \* values HEALTHARCHIVE_AUTO_DEDUPE may have
    RebuildAlone,    \* rebuild-pages is not run while a job is being indexed
    MaxId,           \* bound: snapshot ids handed out
    Crawled,         \* captures in the WARC files at the start
    WarcBound,       \* bound: changes of what the WARC files hold
    CommandBound     \* bound: commands of operators, without and with change tracking

ASSUME CatalogueAssumption ==
    /\ Captures \subseteq Nat /\ IsFiniteSet(Captures)
    /\ Groups \subseteq Nat /\ IsFiniteSet(Groups)
    /\ JobOf \in [Captures -> Jobs] /\ GroupOf \in [Captures -> Groups]
    /\ TimeOf \in [Captures -> Nat] /\ DayOf \in [Captures -> Nat]
    /\ QualityOf \in [Captures -> -1..2]
    /\ LinksOf \in [Captures -> SUBSET Groups]
    /\ Since \in Nat /\ MaxEvents \in Nat \ {0} /\ MaxId \in Nat
    /\ AutoDedupe \subseteq BOOLEAN /\ RebuildAlone \in BOOLEAN
    /\ Crawled \subseteq Captures /\ WarcBound \in Nat
    /\ CommandBound \in [BOOLEAN -> Nat]
    /\ Jobs \subseteq Nat \ {0}

VARIABLES
    tracking,   \* HEALTHARCHIVE_CHANGE_TRACKING_ENABLED
    warcs,      \* the captures that can be read from the WARC files of a job
    rows,       \* snapshot rows: records of an id and a capture
    lastId,     \* the last id of the sequence
    indexed,    \* jobs whose status is `indexed`
    hidden,     \* ids of rows with `deduplicated` set
    audits,     \* rows of snapshot_deduplications: duplicate, canonical, when
    pages,      \* rows of pages, by group
    linked,     \* ids of rows whose links are in snapshot_outlinks
    signals,    \* rows of page_signals, by group
    events,     \* rows of snapshot_changes
    index,      \* the transaction of `index_job`
    dedupe,     \* the session of dedupe-snapshots
    rebuild,    \* the session of rebuild-pages
    changes,    \* the session of compute-changes
    bound,      \* how often the bounded things happened
    owed        \* ghost: groups whose page or signal a failed or partial step left behind

store == <<tracking, warcs, rows, lastId, indexed>>
derived == <<hidden, audits, pages, linked, signals, events>>
sessions == <<index, dedupe, rebuild, changes>>
vars == <<store, derived, sessions, bound, owed>>

Ids == 1..MaxId
None == 0
NoPage == [count |-> 0]
IdsOf(R) == {r.id : r \in R}
RowsOf(R, j) == {r \in R : JobOf[r.cap] = j}
InGroup(R, g) == {r \in R : GroupOf[r.cap] = g}
GroupsIn(R) == {GroupOf[r.cap] : r \in R}

------------------------------------------------------------------------------
(* The page rollup: `rebuild_pages` *)

\* Order of the row_number() windows: capture time, then id.
Newer(r, s) ==
    \/ TimeOf[r.cap] > TimeOf[s.cap]
    \/ TimeOf[r.cap] = TimeOf[s.cap] /\ r.id >= s.id

LatestId(R) == IF R = {} THEN None ELSE (CHOOSE r \in R : \A s \in R : Newer(r, s)).id

OkRows(R) == {r \in R : QualityOf[r.cap] \in {0, 2}}

\* The aggregate of a group: duplicates count like any other row.
PageOf(R, g) ==
    LET S == InGroup(R, g)
        Times == {TimeOf[r.cap] : r \in S}
    IN IF S = {} THEN NoPage
       ELSE [count |-> Cardinality(S),
             first |-> CHOOSE t \in Times : \A u \in Times : t <= u,
             last |-> CHOOSE t \in Times : \A u \in Times : t >= u,
             latest |-> LatestId(S),
             ok |-> LatestId(OkRows(S))]

\* Upsert of the given groups; those without rows are deleted (delete_missing).
Rebuilt(P, R, G) == [g \in Groups |-> IF g \in G THEN PageOf(R, g) ELSE P[g]]

\* Mutant: the pointers stay.
ClearedNever(P, gone) == P

\* Deleting a snapshot clears the pointers to it (ON DELETE SET NULL).
Cleared(P, gone) ==
    LET Keep(i) == IF i \in gone THEN None ELSE i
    IN [g \in Groups |-> IF P[g] = NoPage THEN NoPage
                         ELSE [P[g] EXCEPT !.latest = Keep(P[g].latest), !.ok = Keep(P[g].ok)]]

------------------------------------------------------------------------------
(* Link signals: `recompute_page_signals` *)

\* Rows of snapshot_outlinks: a row and a group that its body links to.
Outlinks(R, L) == UNION {{<<r, g>> : g \in LinksOf[r.cap]} : r \in {r \in R : r.id \in L}}

\* Distinct links between groups.
Edges(R, L) == {e \in {<<GroupOf[o[1].cap], o[2]>> : o \in Outlinks(R, L)} : e[1] # e[2]}

Signal(E, g) == [in |-> Cardinality({e \in E : e[2] = g}),
                 out |-> Cardinality({e \in E : e[1] = g})]

\* Groups linked from the rows: what a job's old links may count for.
Targets(R, L) == {o[2] : o \in Outlinks(R, L)}

Recomputed(S, E, G) == [g \in Groups |-> IF g \in G THEN Signal(E, g) ELSE S[g]]

------------------------------------------------------------------------------
(* Deduplication: `find_same_day_duplicates`, `deduplicate_snapshots` *)

DupKey(r) == <<GroupOf[r.cap], DayOf[r.cap], HashOf[r.cap]>>

Shown(R, H) == {r \in R : r.id \notin H}

\* The first query: keys held by two shown rows of the scope, with the lowest id.
\* A scope is a job, or all of them (None).
DupGroups(R, H, scope) ==
    LET S == IF scope = None THEN Shown(R, H) ELSE RowsOf(Shown(R, H), scope)
        Twins(r) == {t \in S : DupKey(t) = DupKey(r)}
    IN {[key |-> DupKey(r), canon |-> r.id] :
            r \in {r \in S : Cardinality(Twins(r)) > 1 /\ \A t \in Twins(r) : r.id <= t.id}}

\* The second query, per key: every other shown row of it, whatever its job.
Duplicates(R, H, found) ==
    UNION {{[dup |-> r.id, canon |-> f.canon] :
                r \in {r \in Shown(R, H) : DupKey(r) = f.key /\ r.id # f.canon}} : f \in found}

\* Rows that are gone or marked by now are skipped.
Applicable(list, R, H) == {c \in list : c.dup \in IdsOf(R) /\ c.dup \notin H}

\* One audit row per row marked, stamped with the run that marked it.
AuditRows(list, at) == {[dup |-> c.dup, canon |-> c.canon, at |-> at] : c \in list}

------------------------------------------------------------------------------
(* What /api/search answers when nothing is searched for *)

\* Mutant: the latest capture stands for the page whatever its status.
PagesFastLatest(all) == {g \in Groups : pages[g] # NoPage /\ pages[g].latest \in IdsOf(rows)}

\* view=pages from the page table: the capture each page points to.
PagesFast(all) ==
    {g \in Groups :
        /\ pages[g] # NoPage
        /\ (IF all THEN pages[g].latest ELSE pages[g].ok) \in IdsOf(rows)}

\* view=pages from the snapshot table: groups of the rows not marked.
PagesSlow(all) ==
    GroupsIn(IF all THEN Shown(rows, hidden) ELSE OkRows(Shown(rows, hidden)))

\* The page table answers unless it has nothing to show.
BrowsePages(all) == IF PagesFast(all) # {} THEN PagesFast(all) ELSE PagesSlow(all)

\* view=snapshots, newest first: one row per capture day, URL and content. With
\* no date range the stored mark is all that PostgreSQL is asked for.
BrowseSnapshots(stored) ==
    LET R == Shown(rows, hidden)
    IN IF stored THEN R
       ELSE {r \in R : \A s \in R : DupKey(s) = DupKey(r) => Newer(r, s)}

------------------------------------------------------------------------------
NoIndex == [open |-> FALSE, job |-> None, reads |-> {}]
NoDedupe == [pc |-> "idle", scope |-> None, found |-> {}, list |-> {}]
NoRebuild == [open |-> FALSE, new |-> [g \in {} |-> NoPage], drop |-> {}]
NoChanges == [open |-> FALSE, mode |-> "since", list |-> {}, done |-> {}]

\* Rows of snapshot_changes: an event goes with its capture (ON DELETE CASCADE) and loses
\* the earlier one (SET NULL).
EventRows == [to : IdsOf(rows), from : IdsOf(rows) \cup {None},
              kind : {"new_page", "unchanged", "updated", "error"}]

\* Rows of page_signals.
SignalRows == [in : 0..Cardinality(Groups), out : 0..Cardinality(Groups)]

TypeOK ==
    /\ warcs \in [Jobs -> SUBSET Captures]
    /\ lastId \in 0..MaxId
    /\ indexed \subseteq Jobs
    /\ rows \subseteq [id : 1..lastId, cap : Captures]
    /\ \A r, s \in rows : r.id = s.id => r = s
    /\ hidden \subseteq IdsOf(rows)
    /\ linked \subseteq IdsOf(rows)
    /\ audits \subseteq [dup : hidden, canon : IdsOf(rows), at : Nat]
    /\ {a.dup : a \in audits} = hidden
    /\ events \subseteq EventRows
    /\ \A d, e \in events : d.to = e.to => d = e
    /\ \A g \in Groups : pages[g] # NoPage =>
            {pages[g].latest, pages[g].ok} \subseteq IdsOf(rows) \cup {None}
    /\ signals \in [Groups -> SignalRows]
    /\ owed.pages \subseteq Groups /\ owed.links \subseteq Groups

Init ==
    /\ tracking \in BOOLEAN
    /\ warcs = [j \in Jobs |-> {c \in Crawled : JobOf[c] = j}]
    /\ rows = {} /\ lastId = 0 /\ indexed = {}
    /\ hidden = {} /\ audits = {} /\ linked = {} /\ events = {}
    /\ pages = [g \in Groups |-> NoPage]
    /\ signals = [g \in Groups |-> [in |-> 0, out |-> 0]]
    /\ index = NoIndex /\ dedupe = NoDedupe /\ rebuild = NoRebuild /\ changes = NoChanges
    /\ bound = [warcs |-> 0, commands |-> 0, dedupes |-> 0]
    /\ owed = [pages |-> {}, links |-> {}]

\* The rows an open index transaction has deleted are locked until it ends:
\* a statement that writes or references one of them waits.
Locked == IF index.open THEN IdsOf(RowsOf(rows, index.job)) ELSE {}

------------------------------------------------------------------------------
(* `index_job` *)

\* What can be read from a job's WARC files changes between two runs: the crawl
\* is retried and adds records, or a file is quarantined, and with it its status.
WarcsChange(j) ==
    /\ bound.warcs < WarcBound
    /\ \E C \in SUBSET {c \in Captures : JobOf[c] = j} :
         /\ C # warcs[j]
         /\ warcs' = [warcs EXCEPT ![j] = C]
    /\ indexed' = indexed \ {j}
    /\ bound' = [bound EXCEPT !.warcs = @ + 1]
    /\ UNCHANGED <<tracking, rows, lastId, derived, sessions, owed>>

\* Mutant: nothing ties audit rows to snapshots (SQLite, which does not check).
IndexBeginsUnchecked(j) ==
    /\ ~index.open
    /\ RebuildAlone => ~rebuild.open
    /\ warcs[j] # {}
    /\ lastId + Cardinality(warcs[j]) <= MaxId
    /\ index' = [open |-> TRUE, job |-> j, reads |-> warcs[j]]
    /\ UNCHANGED <<store, derived, dedupe, rebuild, changes, bound, owed>>

\* The WARC files are listed and verified, and the old rows of the job deleted.
\* The database refuses when an audit row refers to one of them, and the whole
\* transaction is rolled back.
IndexBegins(j) ==
    /\ ~index.open
    /\ RebuildAlone => ~rebuild.open
    /\ warcs[j] # {}
    /\ lastId + Cardinality(warcs[j]) <= MaxId
    /\ \A a \in audits : {a.dup, a.canon} \cap IdsOf(RowsOf(rows, j)) = {}
    /\ index' = [open |-> TRUE, job |-> j, reads |-> warcs[j]]
    /\ UNCHANGED <<store, derived, dedupe, rebuild, changes, bound, owed>>

\* A damaged WARC file does not verify: the status becomes index_failed, and the
\* rows of an earlier run stay.
IndexRefused(j) ==
    /\ bound.warcs < WarcBound
    /\ ~index.open
    /\ j \in indexed
    /\ indexed' = indexed \ {j}
    /\ bound' = [bound EXCEPT !.warcs = @ + 1]
    /\ UNCHANGED <<tracking, warcs, rows, lastId, derived, sessions, owed>>

\* The rows for some of the records, with ids in the order of the files.
NewRows(C) == {[id |-> lastId + Cardinality({d \in C : d <= c}), cap |-> c] : c \in C}

\* Commits the deletion of a job's rows, with what the foreign keys do to the
\* tables that refer to them, and the rows for the captures C.
Replaced(old, new) ==
    /\ rows' = (rows \ old) \cup new
    /\ lastId' = lastId + Cardinality(new)
    /\ linked' = (linked \ IdsOf(old)) \cup IdsOf(new)
    /\ events' = {[e EXCEPT !.from = IF @ \in IdsOf(old) THEN None ELSE @] :
                    e \in {e \in events : e.to \notin IdsOf(old)}}

\* Mutant: what the old rows linked to is not looked at.
SignalGroupsNew(old, new) == GroupsIn(OkRows(new)) \cup Targets(new, IdsOf(new))

\* Groups whose signals are recomputed: those the old rows linked to, those of
\* the new rows with a good status, and those the new rows link to.
SignalGroups(old, new) ==
    Targets(old, linked) \cup GroupsIn(OkRows(new)) \cup Targets(new, IdsOf(new))

\* The run succeeds: pages of the groups the job had or has, and the signals.
\* With HEALTHARCHIVE_AUTO_DEDUPE the job's duplicates are marked as well.
IndexCommits ==
    /\ index.open /\ index' = NoIndex
    /\ \E auto \in AutoDedupe :
         LET old == RowsOf(rows, index.job)
             new == NewRows(index.reads)
             groups == GroupsIn(old \cup new)
             found == IF auto THEN DupGroups(rows', hidden, index.job) ELSE {}
             list == Duplicates(rows', hidden, found)
         IN /\ Replaced(old, new)
            /\ indexed' = indexed \cup {index.job}
            /\ pages' = Rebuilt(Cleared(pages, IdsOf(old)), rows', groups)
            /\ signals' = Recomputed(signals, Edges(rows', linked'), SignalGroups(old, new))
            /\ hidden' = hidden \cup {c.dup : c \in list}
            /\ audits' = audits \cup AuditRows(list, bound.dedupes)
            /\ bound' = IF list = {} THEN bound ELSE [bound EXCEPT !.dedupes = @ + 1]
            /\ owed' = [pages |-> owed.pages \ groups,
                        links |-> owed.links \ SignalGroups(old, new)]
    /\ UNCHANGED <<tracking, warcs, dedupe, rebuild, changes>>

\* A WARC file cannot be read to its end: the exception is caught, the status
\* becomes index_failed, and the deletion is committed with the rows made so far.
IndexFails ==
    /\ index.open /\ index' = NoIndex
    /\ \E k \in index.reads :
         LET old == RowsOf(rows, index.job)
             new == NewRows({c \in index.reads : c < k})
         IN /\ Replaced(old, new)
            /\ indexed' = indexed \ {index.job}
            /\ pages' = Cleared(pages, IdsOf(old))
            /\ owed' = [pages |-> owed.pages \cup GroupsIn(old \cup new),
                        links |-> owed.links \cup SignalGroups(old, new)]
    /\ UNCHANGED <<tracking, warcs, hidden, audits, signals, dedupe, rebuild, changes, bound>>

\* The worker dies, or the database reports an error: all is rolled back.
IndexAborts ==
    /\ index.open
    /\ index' = NoIndex
    /\ UNCHANGED <<store, derived, dedupe, rebuild, changes, bound, owed>>

------------------------------------------------------------------------------
(* dedupe-snapshots --apply and restore-deduped-snapshots *)

\* An operator starts a command.
Command ==
    /\ bound.commands < CommandBound[tracking]
    /\ bound' = [bound EXCEPT !.commands = @ + 1]

DedupeGroups(scope) ==
    /\ dedupe.pc = "idle"
    /\ DupGroups(rows, hidden, scope) # {}
    /\ dedupe' = [pc |-> "grouped", scope |-> scope,
                  found |-> DupGroups(rows, hidden, scope), list |-> {}]
    /\ Command
    /\ UNCHANGED <<store, derived, index, rebuild, changes, owed>>

DedupeLists ==
    /\ dedupe.pc = "grouped"
    /\ dedupe' = [dedupe EXCEPT !.pc = "listed", !.found = {},
                                !.list = Duplicates(rows, hidden, dedupe.found)]
    /\ UNCHANGED <<store, derived, index, rebuild, changes, bound, owed>>

\* Rows are marked and audited, then committed; an audit row that would refer to
\* a snapshot no longer there rolls the run back.
DedupeApplies ==
    /\ dedupe.pc = "listed"
    /\ LET list == Applicable(dedupe.list, rows, hidden)
           ok == {c.canon : c \in list} \subseteq IdsOf(rows)
       IN /\ {c.dup : c \in list} \cap Locked = {}
          /\ {c.canon : c \in list} \cap Locked = {}
          /\ hidden' = IF ok THEN hidden \cup {c.dup : c \in list} ELSE hidden
          /\ audits' = IF ok THEN audits \cup AuditRows(list, bound.dedupes) ELSE audits
    /\ bound' = [bound EXCEPT !.dedupes = @ + 1]
    /\ dedupe' = NoDedupe
    /\ UNCHANGED <<store, pages, linked, signals, events, index, rebuild, changes, owed>>

\* Clears the mark and deletes the audit rows of the scope's rows.
Restore(scope) ==
    LET back == IF scope = None THEN hidden ELSE hidden \cap IdsOf(RowsOf(rows, scope))
    IN /\ back # {}
       /\ hidden' = hidden \ back
       /\ audits' = {a \in audits : a.dup \notin back}
       /\ Command
       /\ UNCHANGED <<store, pages, linked, signals, events, sessions, owed>>

------------------------------------------------------------------------------
(* rebuild-pages, backfill-outlinks, recompute-page-signals *)

\* The aggregate is computed from the rows committed when the statement starts:
\* of the groups a job has, or of all groups. --truncate empties the table first.
RebuildSelects(scope, truncate) ==
    LET groups == GroupsIn(IF scope = None THEN rows ELSE RowsOf(rows, scope))
    IN /\ ~rebuild.open
       /\ RebuildAlone => ~index.open
       /\ groups # {}
       /\ rebuild' = [open |-> TRUE,
                      new |-> [g \in groups |-> PageOf(rows, g)],
                      drop |-> IF truncate THEN Groups \ groups ELSE {}]
       /\ Command
       /\ UNCHANGED <<store, derived, index, dedupe, changes, owed>>

\* The upsert waits for page rows an index transaction has touched, and is
\* refused when a pointer has become dangling.
RebuildWrites ==
    LET groups == DOMAIN rebuild.new
        pointers == UNION {{rebuild.new[g].latest, rebuild.new[g].ok} : g \in groups}
        ok == pointers \ {None} \subseteq IdsOf(rows)
    IN /\ rebuild.open
       /\ index.open => groups \cap GroupsIn(RowsOf(rows, index.job)) = {}
       /\ pages' = [g \in Groups |->
                       IF ok /\ g \in groups THEN rebuild.new[g]
                       ELSE IF ok /\ g \in rebuild.drop THEN NoPage ELSE pages[g]]
       /\ owed' = IF ok THEN [owed EXCEPT !.pages = (@ \ (groups \cup rebuild.drop))
                                            \cup (rebuild.drop \cap GroupsIn(rows))]
                  ELSE owed
       /\ rebuild' = NoRebuild
       /\ UNCHANGED <<store, hidden, audits, linked, signals, events,
                      index, dedupe, changes, bound>>

\* The job's links are deleted and read again from the WARC files its rows name;
\* the signals follow with --update-signals.
BackfillOutlinks(j, update) ==
    LET old == RowsOf(rows, j)
        read == {r \in old : r.cap \in warcs[j]}
        groups == Targets(old, linked) \cup GroupsIn(OkRows(read)) \cup Targets(read, IdsOf(read))
    IN /\ old # {}
       /\ IdsOf(old) \cap Locked = {}
       /\ linked' = (linked \ IdsOf(old)) \cup IdsOf(read)
       /\ signals' = IF update THEN Recomputed(signals, Edges(rows, linked'), groups)
                     ELSE signals
       /\ owed' = [owed EXCEPT !.links = IF update THEN @ \ groups ELSE @ \cup groups]
       /\ Command
       /\ UNCHANGED <<store, hidden, audits, pages, events, sessions>>

\* The whole table is built anew.
RecomputeSignals ==
    /\ signals' = Recomputed(signals, Edges(rows, linked), Groups)
    /\ owed' = [owed EXCEPT !.links = {}]
    /\ Command
    /\ UNCHANGED <<store, hidden, audits, pages, linked, events, sessions>>

------------------------------------------------------------------------------
(* compute-changes *)

Earlier(r, s) == r # s /\ Newer(s, r)

\* The rows without an event, oldest first, up to the limit of a run.
FirstFew(R) == {r \in R : Cardinality({s \in R : Earlier(s, r)}) < MaxEvents}

\* An event of a capture, with the newest of those it was compared with.
Event(r, from, kind) == [to |-> r.id, from |-> LatestId(from), kind |-> kind]

\* What an event says: the first capture of the page, the same content, a diff, or
\* that a WARC file has no record for one of the two any more.
Pair(r, from) ==
    Event(r, from,
          IF from = {} THEN "new_page"
          ELSE LET s == CHOOSE s \in from : s.id = LatestId(from)
               IN IF HashOf[s.cap] = HashOf[r.cap] THEN "unchanged"
                  ELSE IF {s.cap, r.cap} \subseteq UNION {warcs[j] : j \in Jobs}
                       THEN "updated" ELSE "error")

\* Mutant: rows that have an event count for the limit.
EventsSinceCounted(list) ==
    {Pair(r, {s \in InGroup(rows, GroupOf[r.cap]) : TimeOf[s.cap] < TimeOf[r.cap]}) :
        r \in {r \in FirstFew(list) : \A e \in events : e.to # r.id}}

\* compute_changes_since: the capture before in time, read when the event is made;
\* a capture of the same second is not before.
EventsSince(list) ==
    {Pair(r, {s \in InGroup(rows, GroupOf[r.cap]) : TimeOf[s.cap] < TimeOf[r.cap]}) :
        r \in FirstFew({r \in list : \A e \in events : e.to # r.id})}

\* compute_changes_backfill: the row before in the list, group by group.
EventsBackfill(list, done) ==
    LET missing == {r \in list : r.id \notin done}
        Before(s, r) == \/ GroupOf[s.cap] < GroupOf[r.cap]
                        \/ GroupOf[s.cap] = GroupOf[r.cap] /\ Earlier(s, r)
    IN {Pair(r, {s \in InGroup(list, GroupOf[r.cap]) : Earlier(s, r)}) :
            r \in {r \in missing : Cardinality({s \in missing : Before(s, r)}) < MaxEvents}}

Recent == {r \in rows : TimeOf[r.cap] >= Since}

\* The timer, or an operator with --backfill, reads the list; without a row that
\* lacks an event the run changes nothing.
ChangesRead(mode) ==
    LET list == IF mode = "since" THEN Recent ELSE rows
    IN /\ tracking /\ ~changes.open
       /\ \E r \in list : \A e \in events : e.to # r.id
       /\ changes' = [open |-> TRUE, mode |-> mode, list |-> list,
                      done |-> IF mode = "since" THEN {} ELSE {e.to : e \in events}]
       /\ IF mode = "since" THEN UNCHANGED bound ELSE Command
       /\ UNCHANGED <<store, derived, index, dedupe, rebuild, owed>>

\* The events are inserted and committed together; a snapshot that has gone in
\* the meantime makes the run fail, and nothing of it stays.
ChangesWritten ==
    /\ changes.open /\ changes' = NoChanges
    /\ LET new == IF changes.mode = "since" THEN EventsSince(changes.list)
                  ELSE EventsBackfill(changes.list, changes.done)
           used == {e.to : e \in new} \cup ({e.from : e \in new} \ {None})
       IN /\ used \cap Locked = {}
          /\ events' = IF used \subseteq IdsOf(rows) THEN events \cup new ELSE events
    /\ UNCHANGED <<store, hidden, audits, pages, linked, signals,
                   index, dedupe, rebuild, bound, owed>>

------------------------------------------------------------------------------
IndexEnds == IndexAborts \/ IndexFails \/ IndexCommits

Next ==
    \/ \E j \in Jobs : WarcsChange(j)
    \/ \E j \in Jobs : IndexBegins(j)
    \/ \E j \in Jobs : IndexRefused(j)
    \/ IndexEnds
    \/ \E scope \in Jobs \cup {None} : DedupeGroups(scope)
    \/ DedupeLists
    \/ DedupeApplies
    \/ \E scope \in Jobs \cup {None} : Restore(scope)
    \/ \E scope \in Jobs \cup {None}, truncate \in BOOLEAN : RebuildSelects(scope, truncate)
    \/ RebuildWrites
    \/ \E j \in Jobs, update \in BOOLEAN : BackfillOutlinks(j, update)
    \/ RecomputeSignals
    \/ \E mode \in {"since", "backfill"} : ChangesRead(mode)
    \/ ChangesWritten

Spec == Init /\ [][Next]_vars

\* A transaction ends; the change-tracking timer fires again and again, and a run
\* that has begun ends, for PostgreSQL serves those who wait for a lock in turn.
\* Nothing obliges an operator, or a job to be indexed.
Fairness ==
    /\ WF_vars(IndexEnds)
    /\ WF_vars(ChangesRead("since"))
    /\ SF_vars(ChangesWritten)

FairSpec == Spec /\ Fairness

------------------------------------------------------------------------------
(* Properties *)

\* Marking a duplicate hides a row but never its content: for every row there is
\* one with the same page, day and content in the default listing of snapshots,
\* whether that relies on the stored mark or compares the rows again. Several
\* deduplications of different scopes, restores of one job and re-indexing of
\* another come between the choice of a canonical row and its use.
ContentStaysListed ==
    \A stored \in BOOLEAN :
        {DupKey(r) : r \in BrowseSnapshots(stored)} = {DupKey(r) : r \in rows}

\* The page table and the numbers of pages that link to a page agree with the
\* rows in every group that no failed run and no partial rebuild has left behind,
\* also when a job is indexed again from other WARC files and pages lose their
\* captures (pages.rebuild_pages, authority.recompute_page_signals).
PagesFollowRows ==
    /\ \A g \in Groups \ owed.pages : pages[g] = PageOf(rows, g)
    /\ \A g \in Groups \ owed.links : signals[g].in = Signal(Edges(rows, linked), g).in

\* A recent capture gets its change event unless it is indexed anew, however many
\* captures already have one and whatever fails in between.
RecentGetsEvent ==
    [](tracking => <>(\A r \in Recent : \E e \in events : e.to = r.id))

\* What the code does not keep: numbers of links going out of a page,
OutlinksFollowRows ==
    \A g \in Groups \ owed.links : signals[g].out = Signal(Edges(rows, linked), g).out

\* events between adjacent captures,
EventsAdjacent ==
    \A e \in events : \A r, s \in rows :
        /\ r.id = e.to /\ GroupOf[s.cap] = GroupOf[r.cap] /\ TimeOf[s.cap] < TimeOf[r.cap]
        => e.kind # "new_page" /\ \A p \in rows : p.id = e.from => Newer(p, s)

\* and marked rows out of the listing of pages.
PagesShowUnmarked ==
    \A g \in Groups : pages[g] # NoPage => pages[g].latest \notin hidden
=============================================================================
