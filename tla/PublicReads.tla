----------------------------- MODULE PublicReads -----------------------------
(***************************************************************************)
(* What the public API answers from the tables of Catalogue. Each endpoint *)
(* runs in a session of its own and asks several questions of the same     *)
(* rows: the page table or the snapshots, one capture's page or the whole  *)
(* archive, the events or the captures they are about. Ids are handed from *)
(* one endpoint to the next by the browser.                                *)
(***************************************************************************)
EXTENDS Catalogue, FiniteSetsExt

CONSTANTS
    Home,    \* groups that stand for the source's base URL, with or without www
    RootRank \* of a group: how much its path looks like an entry point

ASSUME ReadsAssumption == Home \subseteq Groups /\ RootRank \in [Groups -> Nat]

RowOf(i) == CHOOSE r \in rows : r.id = i

------------------------------------------------------------------------------
(* /api/search with nothing searched for; both listings are in the same order *)

\* Rows that pass the filters of a request.
Candidates(all, duplicates) ==
    LET R == IF duplicates THEN rows ELSE Shown(rows, hidden)
    IN IF all THEN R ELSE OkRows(R)

\* The row shown for each page: from the page table,
FastItems(all) ==
    {RowOf(IF all THEN pages[g].latest ELSE pages[g].ok) : g \in PagesFast(all)}

\* and with row_number() over the snapshots.
SlowItems(all) ==
    LET R == Candidates(all, FALSE)
    IN {r \in R : r.id = LatestId(InGroup(R, GroupOf[r.cap]))}

\* `total`: pages, captures of distinct content, or captures.
Total(view, all, duplicates) ==
    LET R == Candidates(all, duplicates)
    IN IF view = "pages" THEN Cardinality(GroupsIn(R))
       ELSE IF duplicates THEN Cardinality(R)
       ELSE Cardinality({DupKey(r) : r \in R})

------------------------------------------------------------------------------
(* One capture and its page *)

\* /api/snapshots/{id}/latest
LatestOf(i) == LatestId(InGroup(rows, GroupOf[RowOf(i).cap]))

\* /api/snapshots/{id}/timeline: the captures of the page, oldest first, each with
\* the capture it can be compared to.
Timeline(i) ==
    {[row |-> r, compareFrom |-> {e.from : e \in {e \in events : e.to = r.id}} \ {None}] :
        r \in InGroup(rows, GroupOf[RowOf(i).cap])}

\* /api/snapshot/{id}
Detail(i) == i \in IdsOf(rows)

------------------------------------------------------------------------------
(* Change events *)

LastCapture(R) == LET T == {TimeOf[r.cap] : r \in R} IN CHOOSE t \in T : \A u \in T : t >= u

\* Indexed jobs with captures; the newest of them by last capture, then id.
Editions == {j \in indexed : RowsOf(rows, j) # {}}

NewestEdition ==
    {j \in Editions :
        \A k \in Editions :
            LET s == LastCapture(RowsOf(rows, j))
                t == LastCapture(RowsOf(rows, k))
            IN s > t \/ (s = t /\ j >= k)}

\* /api/changes: events of a job, by default of the newest edition.
Feed(jobs, unchanged) ==
    {e \in events : JobOf[RowOf(e.to).cap] \in jobs /\ (unchanged \/ e.kind # "unchanged")}

\* /api/changes/rss links to the comparison, or to the capture when it is the first.
RssLinks ==
    {IF e.from = None THEN <<"snapshot", e.to>> ELSE <<"compare", e.to>> :
        e \in Feed(NewestEdition, FALSE)}

\* /api/exports/changes gives the pair of each event.
ExportedPairs == {<<e.from, e.to>> : e \in events}

\* /api/changes/compare finds the event of the later capture, refuses another
\* earlier one than the event's, and shows both captures.
Compares(from, to) ==
    \E e \in events :
        /\ e.to = to
        /\ from \in {None, e.from}
        /\ {e.to, e.from} \ {None} \subseteq IdsOf(rows)

------------------------------------------------------------------------------
(* The whole archive *)

Exact == [pages |-> Cardinality(GroupsIn(rows)),
          latest |-> IF rows = {} THEN 0 ELSE LastCapture(rows)]

\* Captures the page table counts.
Covered == MapThenSumSet(LAMBDA g : pages[g].count, Groups)

\* /api/stats: the page table answers when it counts as many captures as there are.
Stats ==
    LET P == {g \in Groups : pages[g] # NoPage}
    IN IF P # {} /\ Covered = Cardinality(rows)
       THEN [pages |-> Cardinality(P),
             latest |-> CHOOSE t \in {pages[g].last : g \in P} : \A g \in P : t >= pages[g].last]
       ELSE Exact

\* The newest of the rows of the best quality; a root-like page first (`ranked`).
Best(R, ranked) ==
    LET Key(r) == <<QualityOf[r.cap], IF ranked THEN RootRank[GroupOf[r.cap]] ELSE 0>>
        Above(r, s) ==
            \/ Key(r)[1] > Key(s)[1]
            \/ Key(r)[1] = Key(s)[1] /\ Key(r)[2] > Key(s)[2]
            \/ Key(r) = Key(s) /\ Newer(r, s)
    IN IF R = {} THEN None ELSE (CHOOSE r \in R : \A s \in R : Above(r, s)).id

\* /api/sources and /api/sources/{code}/editions: the capture browsing starts from,
\* the home page if it was captured.
Entry(R) ==
    LET H == {r \in R : GroupOf[r.cap] \in Home}
    IN IF H # {} THEN Best(H, FALSE) ELSE Best(R, TRUE)

Source == [records |-> Cardinality(rows), newest |-> LatestId(rows), entry |-> Entry(rows)]

EditionEntries == [j \in Editions |-> Entry(RowsOf(rows, j))]
------------------------------------------------------------------------------
(* Properties *)

\* Browsing pages lists the same pages from the page table, which knows nothing
\* of deduplication, as from the snapshots that are not marked, and the same
\* captures of them when none is marked. (The conjuncts speak of the groups that
\* no failed run and no partial rebuild has left behind.)
BrowseAgrees ==
    \A all \in BOOLEAN :
        /\ BrowsePages(all) \ owed.pages = PagesSlow(all) \ owed.pages
        /\ hidden = {} /\ owed.pages = {} => FastItems(all) = SlowItems(all)

\* The latest capture of a page is the one the page table names, and every
\* comparison a timeline offers is with an earlier capture of the same timeline
\* and can be shown, also when that capture was indexed anew in the meantime.
TimelinesHold ==
    \A r \in rows :
        LET items == Timeline(r.id)
        IN /\ GroupOf[r.cap] \notin owed.pages => pages[GroupOf[r.cap]].latest = LatestOf(r.id)
           /\ \A t \in items : \A f \in t.compareFrom :
                  /\ \E u \in items : u.row.id = f /\ Earlier(u.row, t.row)
                  /\ Compares(f, t.row.id)

\* What the feed and the export hand out resolves at the other endpoints.
LinksResolve ==
    /\ \A l \in RssLinks : IF l[1] = "snapshot" THEN Detail(l[2]) ELSE Compares(None, l[2])
    /\ \A p \in ExportedPairs : Compares(p[1], p[2])

\* Totals are exact, the source's newest capture is the newest of a page, and a
\* page that can be browsed gives the archive an entry point.
TotalsHold ==
    owed.pages = {} =>
        /\ Stats = Exact
        /\ Total("pages", TRUE, TRUE) = Stats.pages
        /\ Total("snapshots", TRUE, FALSE) = Cardinality(BrowseSnapshots(FALSE))
        /\ rows # {} => \E g \in Groups : pages[g] # NoPage /\ pages[g].latest = Source.newest
        /\ BrowsePages(TRUE) # {} => Source.entry # None
        /\ \A j \in Editions :
               GroupOf[RowOf(EditionEntries[j]).cap] \in Home
               => GroupOf[RowOf(Source.entry).cap] \in Home

\* The endpoints of the public API agree with each other in every state a failed,
\* repeated or concurrent writer leaves (routes_public.py).
ReadsAgree == BrowseAgrees /\ TimelinesHold /\ LinksResolve /\ TotalsHold

\* What the code does not keep: totals that are exact or come from the snapshots.
StatsGuarded == Stats = Exact
=============================================================================
