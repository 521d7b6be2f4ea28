---------------------------- MODULE ReplayProofs ----------------------------
(***************************************************************************)
(* For any number of WARCs, commands and failures: the type invariant of   *)
(* verification, compaction, promotion and replay; and that the snapshots  *)
(* of a job stay readable, and can be replayed when its collection says so *)
(* (RowsServed), if index runs verify what they read, compaction takes all *)
(* WARCs and the timer is off while an operator reindexes by hand.         *)
(***************************************************************************)
EXTENDS Replay, FiniteSetTheorems, WellFoundedInduction, TLAPS

Places == {"idle", "crawl", "discover", "insert", "verify", "quarantine", "compact",
           "report", "promote", "retire", "land", "unlink", "link", "mark"}

\* What there is of the WARCs crawled so far.
Known == [warc : 1..made, at : {"temp", "live"}]
Good == (1..made) \ bad
Local == [pc : Places, todo : SUBSET Known, all : SUBSET Known, next : Nat, refuse : BOOLEAN]

FilesTyped ==
    /\ made \in 0..N /\ temp \subseteq 1..made /\ bad \subseteq 1..made
    /\ live \in [Warcs -> SUBSET Records]
    /\ promoted \in [Warcs -> SUBSET Records]
    /\ rollback \in [Warcs -> SUBSET Records]
    /\ dir \in BOOLEAN /\ (dir \/ live = Nothing)

\* No directory has a file of a WARC that is not crawled yet.
FilesMade == \A w \in Warcs : live[w] # {} \/ promoted[w] # {} \/ rollback[w] # {} => w \in 1..made

StagingTyped ==
    staging \in [files : SUBSET [path : Known, has : SUBSET Records],
                 entries : SUBSET Known, report : {"none", "complete", "missing"}]

TablesTyped ==
    /\ status \in {"queued", "running", "retryable", "completed", "indexed", "index_failed"}
    /\ rows \subseteq Known
    /\ commands \in 0..CommandBound /\ faults \in 0..FaultBound

CollectionTyped ==
    /\ links \subseteq [number : Nat, target : Known]
    /\ cdx \subseteq [number : Nat, warc : 1..made, has : SUBSET Records]
    /\ indexed \in BOOLEAN /\ due \in BOOLEAN
    /\ marker = NoMarker \/ marker \subseteq Known

ProcsTyped ==
    /\ proc \in [Procs -> Local]
    /\ proc["worker"].pc \in {"idle", "crawl", "discover", "insert"}
    /\ proc["timer"].pc \in {"idle", "unlink", "link", "mark"}
    /\ proc["operator"].pc # "crawl"

\* What is to be promoted is staged.
ToPromote ==
    Is("operator", "promote") => \A q \in proc["operator"].todo : \E f \in staging.files : f.path = q

Ground == FilesTyped /\ FilesMade /\ StagingTyped /\ TablesTyped /\ CollectionTyped /\ ProcsTyped /\ ToPromote

-----------------------------------------------------------------------------
(* Paths and steps.                                                        *)

LEMMA Bounds == N \in Nat /\ CommandBound \in Nat /\ FaultBound \in Nat
BY BoundsAssumption

\* The place of a path in the order of the commands.
Key(p) == IF p.at = "temp" THEN p.warc ELSE N + p.warc

LEMMA KeyOrders ==
    \A p, q \in Path : /\ Key(p) \in 1..2 * N
                       /\ p # q => (Before(p, q) <=> Key(p) < Key(q)) /\ Key(p) # Key(q)
<1> SUFFICES ASSUME NEW p \in Path, NEW q \in Path
             PROVE  /\ Key(p) \in 1..2 * N
                    /\ p # q => (Before(p, q) <=> Key(p) < Key(q)) /\ Key(p) # Key(q)
  OBVIOUS
<1>1. /\ p.warc \in 1..N /\ p.at \in {"temp", "live"}
      /\ q.warc \in 1..N /\ q.at \in {"temp", "live"}
  BY DEF Path, Warcs
<1>2. p = [warc |-> p.warc, at |-> p.at] /\ q = [warc |-> q.warc, at |-> q.at]
  BY DEF Path
<1>3. p # q => p.warc # q.warc \/ p.at # q.at
  BY <1>2
<1> QED BY <1>1, <1>3, Bounds DEF Key, Before

\* Commands take the first of what is left to do.
LEMMA FirstIn ==
    ASSUME NEW S, S \subseteq Path, S # {}
    PROVE  First(S) \in S
<1> DEFINE K == {Key(p) : p \in S}
<1>1. K \subseteq Nat /\ K # {}
  BY KeyOrders, Bounds
<1>2. PICK k \in K : \A l \in K : <<l, k>> \notin OpToRel(<, Nat)
  BY <1>1, NatLessThanWellFounded, WFMin
<1>3. \A l \in K : ~(l < k)
  BY <1>1, <1>2 DEF OpToRel
<1>4. PICK p \in S : k = Key(p)
  OBVIOUS
<1>5. \A q \in S \ {p} : Before(p, q)
  <2> SUFFICES ASSUME NEW q \in S \ {p} PROVE Before(p, q)
    OBVIOUS
  <2>1. ~(Key(q) < Key(p)) /\ Key(q) # Key(p) /\ Key(p) \in Nat /\ Key(q) \in Nat
    BY <1>3, <1>4, KeyOrders, Bounds
  <2> QED BY <2>1, KeyOrders
<1> QED BY <1>5 DEF First

LEMMA PathsKnown == ASSUME FilesTyped PROVE Known \subseteq Path
BY Bounds DEF FilesTyped, Known, Path, Warcs

\* Whatever is found is a file of a WARC that was crawled.
LEMMA FoundKnown ==
    ASSUME FilesTyped, FilesMade
    PROVE  Discovered \subseteq Known
<1> SUFFICES ASSUME NEW p \in Path, Exists(p) PROVE p \in Known
  BY DEF Discovered
<1>1. p = [warc |-> p.warc, at |-> p.at] /\ p.warc \in Warcs /\ p.at \in {"temp", "live"}
  BY DEF Path
<1>2. p.warc \in 1..made
  BY <1>1 DEF Exists, Content, FilesTyped, FilesMade
<1> QED BY <1>1, <1>2 DEF Known

LEMMA ContentRecords == ASSUME FilesTyped, NEW p \in Path PROVE Content(p) \subseteq Records
BY DEF Content, FilesTyped, Path

\* What became of the files.
FilesStay == UNCHANGED <<files, promoted, rollback>>

FileSteps ==
    \/ FilesStay
    \/ CrawlEnds
    \/ \E p \in {"worker", "operator"} : IndexBegins(p)
    \/ QuarantineMoves \/ PromoteStages \/ Retire \/ Land \/ LandFails

LEMMA StepFiles == ASSUME [Next]_vars PROVE FileSteps
<1>1. CASE UNCHANGED vars
  BY <1>1 DEF vars, stages, FileSteps, FilesStay
<1>2. CASE Next
  BY <1>2 DEF Next, FileSteps, FilesStay, stages, CrawlBegins, Indexing, IndexDiscovers, IndexCommits, VerifyReads,
       Verifying, VerifyEnds, QuarantineEnds, CompactReads, Compacting, CompactOne, CompactManifest, CompactReport,
       PromoteBegins, Promoting, PromoteManifest, ReplayByHand, ReconcileChecks, Replaying, Unlink, Link, Reindex,
       Mark, Kill
<1> QED BY <1>1, <1>2

\* No WARC is forgotten.
LEMMA KnownGrows == ASSUME Ground, [Next]_vars PROVE made \in Nat /\ made' \in made..made + 1 /\ Known \subseteq Known'
<1>1. made \in Nat
  BY Bounds DEF Ground, FilesTyped
<1>2. made' = made \/ made' = made + 1
  BY StepFiles DEF FileSteps, FilesStay, files, CrawlEnds, IndexBegins, QuarantineMoves, PromoteStages, Retire, Land, LandFails
<1> QED BY <1>1, <1>2 DEF Known

-----------------------------------------------------------------------------
(* The files.                                                              *)

\* All that is in a temp directory, in warcs/.
Linked == [w \in Warcs |-> IF w \in temp /\ live[w] = {} THEN Records ELSE live[w]]

LEMMA LinkedTyped ==
    ASSUME FilesTyped
    PROVE  /\ Linked \in [Warcs -> SUBSET Records]
           /\ \A w \in Warcs : Linked[w] # {} => w \in 1..made \/ live[w] # {}
BY DEF FilesTyped, Linked

\* The file that is promoted next.
Staged == CHOOSE f \in staging.files : f.path = First(proc["operator"].todo)

LEMMA StagedFound ==
    ASSUME Ground, PromoteStages
    PROVE  /\ First(proc["operator"].todo) \in proc["operator"].todo
           /\ Staged \in staging.files /\ Staged.path = First(proc["operator"].todo)
           /\ Staged.path \in Known /\ Staged.has \subseteq Records
           /\ Staged.path.warc \in 1..made /\ Staged.path.warc \in Warcs
<1>1. proc["operator"].todo \subseteq Known /\ proc["operator"].todo # {}
  BY DEF Ground, ProcsTyped, Local, Procs, PromoteStages
<1>2. First(proc["operator"].todo) \in proc["operator"].todo
  BY <1>1, FirstIn, PathsKnown DEF Ground
<1>3. \E f \in staging.files : f.path = First(proc["operator"].todo)
  BY <1>2 DEF Ground, ToPromote, PromoteStages
<1>4. Staged \in staging.files /\ Staged.path = First(proc["operator"].todo)
  BY <1>3 DEF Staged
<1>5. Staged.path \in Known /\ Staged.has \subseteq Records
  BY <1>4 DEF Ground, StagingTyped
<1>6. Staged.path.warc \in 1..made /\ Staged.path.warc \in Warcs
  BY <1>5, Bounds DEF Known, Ground, FilesTyped, Warcs
<1> QED BY <1>2, <1>4, <1>5, <1>6

LEMMA PromoteEffect ==
    ASSUME Ground, PromoteStages
    PROVE  /\ promoted' = [promoted EXCEPT ![Staged.path.warc] = Staged.has]
           /\ staging' = [staging EXCEPT !.files = staging.files \ {Staged}]
           /\ proc' = [proc EXCEPT !["operator"].todo = proc["operator"].todo \ {Staged.path}]
BY DEF PromoteStages, Staged, Done

LEMMA FilesTypedStep == ASSUME Ground, [Next]_vars PROVE FilesTyped'
<1> USE DEF Ground
<1>1. CASE FilesStay
  BY <1>1 DEF FilesStay, files, FilesTyped
<1>2. CASE CrawlEnds
  BY <1>2, Bounds DEF CrawlEnds, stages, FilesTyped
<1>3. ASSUME NEW p \in {"worker", "operator"}, IndexBegins(p)
      PROVE  FilesTyped'
  <2>1. UNCHANGED <<made, temp, bad, promoted, rollback>>
    BY <1>3 DEF IndexBegins, stages
  <2>2. UNCHANGED <<live, dir>> \/ (live' = Linked /\ dir' = TRUE)
    BY <1>3 DEF IndexBegins, Consolidates, Linked
  <2> QED BY <2>1, <2>2, LinkedTyped DEF FilesTyped
<1>4. CASE QuarantineMoves
  <2>1. UNCHANGED <<made, bad, dir, promoted, rollback>>
    BY <1>4 DEF QuarantineMoves, stages
  <2>2. \/ UNCHANGED <<temp, live>>
        \/ \E q \in proc["operator"].todo : /\ Exists(q)
                                            /\ IF q.at = "live" THEN live' = [live EXCEPT ![q.warc] = {}] /\ UNCHANGED temp
                                                                ELSE temp' = temp \ {q.warc} /\ UNCHANGED live
    BY <1>4 DEF QuarantineMoves
  <2>3. proc["operator"].todo \subseteq Known
    BY DEF ProcsTyped, Local, Procs
  <2>4. live = Nothing => \A q \in Known : q.at = "live" => ~Exists(q)
    BY PathsKnown DEF Nothing, Exists, Content, Known, Path
  <2> QED BY <2>1, <2>2, <2>3, <2>4 DEF FilesTyped
<1>5. CASE PromoteStages
  BY <1>5, PromoteEffect, StagedFound DEF PromoteStages, files, FilesTyped
<1>6. CASE Retire
  BY <1>6 DEF Retire, Nothing, FilesTyped
<1>7. CASE Land
  BY <1>7 DEF Land, Nothing, FilesTyped
<1>8. CASE LandFails
  BY <1>8 DEF LandFails, Nothing, FilesTyped
<1> QED BY <1>1, <1>2, <1>3, <1>4, <1>5, <1>6, <1>7, <1>8, StepFiles DEF FileSteps

LEMMA FilesMadeStep == ASSUME Ground, [Next]_vars PROVE FilesMade'
<1> USE DEF Ground
<1>1. 1..made \subseteq 1..made'
  BY KnownGrows
<1>2. CASE FilesStay
  BY <1>2 DEF FilesStay, files, FilesMade
<1>3. CASE CrawlEnds
  BY <1>1, <1>3 DEF CrawlEnds, stages, FilesMade
<1>4. ASSUME NEW p \in {"worker", "operator"}, IndexBegins(p)
      PROVE  FilesMade'
  <2>1. (live' = live \/ live' = Linked) /\ UNCHANGED <<made, promoted, rollback>>
    BY <1>4 DEF IndexBegins, Consolidates, Linked, stages
  <2> QED BY <2>1, LinkedTyped DEF FilesMade
<1>5. CASE QuarantineMoves
  <2>1. UNCHANGED <<made, promoted, rollback>> /\ (live' = live \/ \E w : live' = [live EXCEPT ![w] = {}])
    BY <1>5 DEF QuarantineMoves, stages
  <2> QED BY <2>1 DEF FilesMade, FilesTyped
<1>6. CASE PromoteStages
  BY <1>6, PromoteEffect, StagedFound DEF PromoteStages, files, FilesMade, FilesTyped
<1>7. CASE Retire
  BY <1>7 DEF Retire, Nothing, FilesMade
<1>8. CASE Land
  BY <1>8 DEF Land, Nothing, FilesMade
<1>9. CASE LandFails
  BY <1>9 DEF LandFails, Nothing, FilesMade
<1> QED BY <1>2, <1>3, <1>4, <1>5, <1>6, <1>7, <1>8, <1>9, StepFiles DEF FileSteps

-----------------------------------------------------------------------------
(* Staging, tables and collection.                                         *)

\* What became of the staging directory.
StagingSteps ==
    \/ UNCHANGED staging
    \/ CompactReads \/ CompactOne \/ CompactManifest \/ CompactReport \/ PromoteStages \/ PromoteManifest

LEMMA StepStaging == ASSUME [Next]_vars PROVE StagingSteps
<1>1. CASE UNCHANGED vars
  BY <1>1 DEF vars, stages, StagingSteps
<1>2. CASE Next
  BY <1>2 DEF Next, StagingSteps, stages, CrawlBegins, CrawlEnds, Indexing, IndexBegins, IndexDiscovers, IndexCommits,
       VerifyReads, Verifying, VerifyEnds, QuarantineMoves, QuarantineEnds, Compacting, PromoteBegins, Promoting,
       Retire, Land, LandFails, ReplayByHand, ReconcileChecks, Replaying, Unlink, Link, Reindex, Mark, Kill
<1> QED BY <1>1, <1>2

\* The file that compaction makes next.
Compacted == LET p == First(proc["operator"].todo) IN [path |-> p, has |-> KeptOf(Content(p))]

LEMMA CompactEffect ==
    ASSUME Ground, CompactOne
    PROVE  /\ Compacted \in [path : Known, has : SUBSET Records]
           /\ Compacted.path = First(proc["operator"].todo) /\ Compacted.path \in proc["operator"].todo
           /\ \/ /\ staging' = [staging EXCEPT !.files = staging.files \cup {Compacted}]
                 /\ proc' = [proc EXCEPT !["operator"].todo = proc["operator"].todo \ {Compacted.path}]
                 /\ Exists(Compacted.path) /\ Compacted.path.warc \notin bad
              \/ UNCHANGED staging /\ Return("operator")
<1>1. proc["operator"].todo \subseteq Known /\ proc["operator"].todo # {}
  BY DEF Ground, ProcsTyped, Local, Procs, CompactOne
<1>2. First(proc["operator"].todo) \in proc["operator"].todo
  BY <1>1, FirstIn, PathsKnown DEF Ground
<1>3. Content(First(proc["operator"].todo)) \subseteq Records
  BY <1>1, <1>2, PathsKnown, ContentRecords DEF Ground
<1>4. Compacted \in [path : Known, has : SUBSET Records] /\ Compacted.path = First(proc["operator"].todo)
  BY <1>1, <1>2, <1>3 DEF Compacted, KeptOf
<1> QED BY <1>2, <1>4 DEF CompactOne, Compacted, Done

LEMMA StagingTypedStep == ASSUME Ground, [Next]_vars PROVE StagingTyped'
<1> USE DEF Ground
<1>1. Known \subseteq Known'
  BY KnownGrows
<1>2. staging' \in [files : SUBSET [path : Known, has : SUBSET Records],
                    entries : SUBSET Known, report : {"none", "complete", "missing"}]
  <2>1. CASE UNCHANGED staging
    BY <2>1 DEF StagingTyped
  <2>2. CASE CompactReads
    BY <2>2 DEF CompactReads, EmptyStaging
  <2>3. CASE CompactOne
    BY <2>3, CompactEffect DEF StagingTyped
  <2>4. CASE CompactManifest
    BY <2>4 DEF CompactManifest, StagingTyped
  <2>5. CASE CompactReport
    BY <2>5 DEF CompactReport, StagingTyped
  <2>6. CASE PromoteStages
    BY <2>6, PromoteEffect DEF StagingTyped
  <2>7. CASE PromoteManifest
    BY <2>7 DEF PromoteManifest, StagingTyped
  <2> QED BY <2>1, <2>2, <2>3, <2>4, <2>5, <2>6, <2>7, StepStaging DEF StagingSteps
<1> HIDE DEF Known
<1> QED BY <1>1, <1>2 DEF StagingTyped

LEMMA TablesTypedStep == ASSUME Ground, [Next]_vars PROVE TablesTyped'
<1> USE DEF Ground, TablesTyped
<1>1. Known \subseteq Known'
  BY KnownGrows
<1>2. /\ status' \in {"queued", "running", "retryable", "completed", "indexed", "index_failed"}
      /\ commands' \in 0..CommandBound /\ faults' \in 0..FaultBound
  <2>1. CASE UNCHANGED vars
    BY <2>1 DEF vars, db, bounds
  <2>2. CASE Next
    <3>1. UNCHANGED status \/ status' \in {"running", "completed", "retryable", "indexed", "index_failed"}
      BY <2>2 DEF Next, db, CrawlBegins, CrawlEnds, Indexing, IndexBegins, IndexDiscovers, IndexCommits, VerifyReads,
           Verifying, VerifyEnds, QuarantineMoves, QuarantineEnds, CompactReads, Compacting, CompactOne,
           CompactManifest, CompactReport, PromoteBegins, Promoting, PromoteStages, PromoteManifest, Retire, Land,
           LandFails, ReplayByHand, ReconcileChecks, Replaying, Unlink, Link, Reindex, Mark, Kill
    <3>2. UNCHANGED bounds \/ Ask \/ Fault
      BY <2>2 DEF Next, CrawlBegins, CrawlEnds, Indexing, IndexBegins, IndexDiscovers, IndexCommits, VerifyReads,
           Verifying, VerifyEnds, QuarantineMoves, QuarantineEnds, CompactReads, Compacting, CompactOne,
           CompactManifest, CompactReport, PromoteBegins, Promoting, PromoteStages, PromoteManifest, Retire, Land,
           LandFails, ReplayByHand, ReconcileChecks, Replaying, Unlink, Link, Reindex, Mark, Kill
    <3> QED BY <3>1, <3>2, Bounds DEF bounds, Ask, Fault
  <2> QED BY <2>1, <2>2
<1>3. rows' \subseteq Known
  <2>1. UNCHANGED rows \/ \E p \in {"worker", "operator"} : IndexCommits(p)
    BY DEF Next, vars, db, CrawlBegins, CrawlEnds, Indexing, IndexBegins, IndexDiscovers, VerifyReads,
           Verifying, VerifyEnds, QuarantineMoves, QuarantineEnds, CompactReads, Compacting, CompactOne,
           CompactManifest, CompactReport, PromoteBegins, Promoting, PromoteStages, PromoteManifest, Retire, Land,
           LandFails, ReplayByHand, ReconcileChecks, Replaying, Unlink, Link, Reindex, Mark, Kill
  <2>2. ASSUME NEW p \in {"worker", "operator"}, IndexCommits(p) PROVE rows' \subseteq proc[p].todo
    BY <2>2 DEF IndexCommits
  <2> QED BY <2>1, <2>2 DEF ProcsTyped, Local, Procs
<1> QED BY <1>1, <1>2, <1>3

\* Who changes the collection.
CollectionSteps ==
    \/ UNCHANGED collection
    \/ \E p \in {"operator", "timer"} : Unlink(p) \/ Link(p) \/ Reindex(p) \/ Mark(p)

LEMMA StepCollection == ASSUME [Next]_vars PROVE CollectionSteps
<1>1. CASE UNCHANGED vars
  BY <1>1 DEF vars, CollectionSteps
<1>2. CASE Next
  BY <1>2 DEF Next, CollectionSteps, CrawlBegins, CrawlEnds, Indexing, IndexBegins, IndexDiscovers, IndexCommits,
       VerifyReads, Verifying, VerifyEnds, QuarantineMoves, QuarantineEnds, CompactReads, Compacting, CompactOne,
       CompactManifest, CompactReport, PromoteBegins, Promoting, PromoteStages, PromoteManifest, Retire, Land,
       LandFails, ReplayByHand, ReconcileChecks, Replaying, Kill
<1> QED BY <1>1, <1>2

\* The link that a run makes next.
NewLink(p) == [number |-> proc[p].next, target |-> First(proc[p].todo)]

LEMMA LinkEffect ==
    ASSUME Ground, NEW p \in {"operator", "timer"}, Link(p)
    PROVE  /\ NewLink(p) \in [number : Nat, target : Known]
           /\ NewLink(p).target = First(proc[p].todo) /\ NewLink(p).target \in proc[p].todo
           /\ \/ UNCHANGED links /\ Return(p)
              \/ /\ links' = links \cup {NewLink(p)}
                 /\ proc' = [proc EXCEPT ![p].todo = proc[p].todo \ {NewLink(p).target},
                                         ![p].next = proc[p].next + 1]
<1>1. proc[p].todo \subseteq Known /\ proc[p].todo # {} /\ proc[p].next \in Nat
  BY DEF Ground, ProcsTyped, Local, Procs, Link
<1>2. First(proc[p].todo) \in proc[p].todo
  BY <1>1, FirstIn, PathsKnown DEF Ground
<1>3. NewLink(p) \in [number : Nat, target : Known] /\ NewLink(p).target = First(proc[p].todo)
  BY <1>1, <1>2 DEF NewLink
<1> QED BY <1>2, <1>3 DEF Link, NewLink

LEMMA CollectionTypedStep == ASSUME Ground, [Next]_vars PROVE CollectionTyped'
<1> USE DEF Ground
<1>1. Known \subseteq Known' /\ 1..made \subseteq 1..made'
  BY KnownGrows
<1> DEFINE Typed(L, C, i, m) == /\ L \subseteq [number : Nat, target : Known]
                                /\ C \subseteq [number : Nat, warc : 1..made, has : SUBSET Records]
                                /\ i \in BOOLEAN
                                /\ m = NoMarker \/ m \subseteq Known
<1>2. Typed(links, cdx, indexed, marker)
  BY DEF CollectionTyped
<1>3. Typed(links', cdx', indexed', marker')
  <2>1. CASE UNCHANGED collection
    BY <1>2, <2>1 DEF collection
  <2>2. ASSUME NEW p \in {"operator", "timer"}, Unlink(p)
        PROVE  Typed(links', cdx', indexed', marker')
    BY <1>2, <2>2 DEF Unlink
  <2>3. ASSUME NEW p \in {"operator", "timer"}, Link(p)
        PROVE  Typed(links', cdx', indexed', marker')
    BY <1>2, <2>3, LinkEffect DEF Link
  <2>4. ASSUME NEW p \in {"operator", "timer"}, Reindex(p)
        PROVE  Typed(links', cdx', indexed', marker')
    <3>1. \A l \in links : l.number \in Nat /\ l.target \in Known /\ l.target.warc \in 1..made
      BY <1>2 DEF Known
    <3>2. \A l \in links : Content(l.target) \subseteq Records
      BY <3>1, PathsKnown, ContentRecords
    <3>3. cdx' \subseteq [number : Nat, warc : 1..made, has : SUBSET Records]
      BY <2>4, <3>1, <3>2 DEF Reindex
    <3> QED BY <1>2, <2>4, <3>3 DEF Reindex
  <2>5. ASSUME NEW p \in {"operator", "timer"}, Mark(p)
        PROVE  Typed(links', cdx', indexed', marker')
    <3>1. proc[p].all \subseteq Known
      BY DEF ProcsTyped, Local, Procs
    <3> QED BY <1>2, <2>5, <3>1 DEF Mark
  <2> HIDE DEF Typed
  <2> QED BY <2>1, <2>2, <2>3, <2>4, <2>5, StepCollection DEF CollectionSteps
<1>4. due' \in BOOLEAN
  <2>1. due \in BOOLEAN
    BY DEF CollectionTyped
  <2> QED BY <2>1 DEF Next, vars, CrawlBegins, CrawlEnds, Indexing, IndexBegins, IndexDiscovers, IndexCommits,
       VerifyReads, Verifying, VerifyEnds, QuarantineMoves, QuarantineEnds, CompactReads, Compacting, CompactOne,
       CompactManifest, CompactReport, PromoteBegins, Promoting, PromoteStages, PromoteManifest, Retire, Land,
       LandFails, ReplayByHand, ReconcileChecks, Replaying, Unlink, Link, Reindex, Mark, Kill
<1>5. links' \subseteq [number : Nat, target : Known']
  BY <1>1, <1>3
<1>6. cdx' \subseteq [number : Nat, warc : 1..made', has : SUBSET Records]
  BY <1>1, <1>3
<1> HIDE DEF Known
<1> QED BY <1>1, <1>3, <1>4, <1>5, <1>6 DEF CollectionTyped

-----------------------------------------------------------------------------
(* The processes.                                                          *)

\* Where a step of the process may lead, with something to do or without.
LEMMA RestLocal == ASSUME Ground PROVE Rest \in Local
BY DEF Rest, Local, Places

LEMMA GotoLocal ==
    ASSUME Ground, NEW p \in Procs, NEW label \in Places, Goto(p, label)
    PROVE  /\ proc' \in [Procs -> Local]
           /\ proc'[p].pc = label /\ proc'[p].todo = proc[p].todo /\ proc'[p].all = proc[p].all
           /\ \A q \in Procs \ {p} : proc'[q] = proc[q]
BY DEF Ground, ProcsTyped, Local, Goto

LEMMA ReturnLocal ==
    ASSUME Ground, NEW p \in Procs, Return(p)
    PROVE  /\ proc' \in [Procs -> Local]
           /\ proc'[p].pc = "idle" /\ proc'[p].todo = {} /\ proc'[p].all = {}
           /\ \A q \in Procs \ {p} : proc'[q] = proc[q]
<1>1. proc \in [Procs -> Local] /\ proc' = [proc EXCEPT ![p] = Rest]
  BY DEF Ground, ProcsTyped, Return
<1>2. Rest.pc = "idle" /\ Rest.todo = {} /\ Rest.all = {}
  BY DEF Rest
<1> HIDE DEF Local
<1> QED BY <1>1, <1>2, RestLocal

\* Locals are set one after the other.
LEMMA SetsLocal ==
    ASSUME NEW l \in Local
    PROVE  /\ \A label \in Places : LET m == [l EXCEPT !.pc = label]
                                    IN m \in Local /\ m.pc = label /\ m.todo = l.todo /\ m.all = l.all
           /\ \A S \in SUBSET Known : LET m == [l EXCEPT !.todo = S]
                                      IN m \in Local /\ m.pc = l.pc /\ m.todo = S /\ m.all = l.all
           /\ \A S \in SUBSET Known : LET m == [l EXCEPT !.all = S]
                                      IN m \in Local /\ m.pc = l.pc /\ m.todo = l.todo /\ m.all = S
           /\ \A b \in BOOLEAN : LET m == [l EXCEPT !.refuse = b]
                                 IN m \in Local /\ m.pc = l.pc /\ m.todo = l.todo /\ m.all = l.all
           /\ \A n \in Nat : LET m == [l EXCEPT !.next = n]
                             IN m \in Local /\ m.pc = l.pc /\ m.todo = l.todo /\ m.all = l.all
BY DEF Local

LEMMA StartLocal ==
    ASSUME Ground, NEW p \in Procs, NEW label \in Places, NEW todo, todo \subseteq Known, Start(p, label, todo)
    PROVE  /\ proc' \in [Procs -> Local]
           /\ proc'[p].pc = label /\ proc'[p].todo = todo /\ proc'[p].all = todo
           /\ \A q \in Procs \ {p} : proc'[q] = proc[q]
<1> DEFINE a == [Rest EXCEPT !.pc = label]
           b == [a EXCEPT !.todo = todo]
           c == [b EXCEPT !.all = todo]
<1>1. a \in Local /\ a.pc = label
  BY RestLocal, SetsLocal
<1> HIDE DEF a
<1>2. b \in Local /\ b.pc = label /\ b.todo = todo
  BY <1>1, SetsLocal
<1> HIDE DEF b
<1>3. c \in Local /\ c.pc = label /\ c.todo = todo /\ c.all = todo
  BY <1>2, SetsLocal
<1>4. proc \in [Procs -> Local] /\ proc' = [proc EXCEPT ![p] = c]
  BY DEF Ground, ProcsTyped, Start, a, b
<1> HIDE DEF c
<1> QED BY <1>3, <1>4

LEMMA DoneLocal ==
    ASSUME Ground, NEW p \in Procs, NEW q, Done(p, q)
    PROVE  /\ proc' \in [Procs -> Local]
           /\ proc'[p].pc = proc[p].pc /\ proc'[p].todo = proc[p].todo \ {q} /\ proc'[p].all = proc[p].all
           /\ \A r \in Procs \ {p} : proc'[r] = proc[r]
BY DEF Ground, ProcsTyped, Local, Done

LEMMA VerifyLocal ==
    ASSUME Ground, VerifyReads
    PROVE  /\ proc' \in [Procs -> Local]
           /\ proc'["operator"].pc = "verify" /\ proc'["operator"].todo = Discovered
           /\ \A q \in Procs \ {"operator"} : proc'[q] = proc[q]
<1> DEFINE a == [Rest EXCEPT !.pc = "verify"]
           b == [a EXCEPT !.todo = Discovered]
           refuse == (status = "running" \/ rows # {})
           c == [b EXCEPT !.refuse = refuse]
<1>1. a \in Local /\ a.pc = "verify"
  BY RestLocal, SetsLocal DEF Places
<1> HIDE DEF a
<1>2. b \in Local /\ b.pc = "verify" /\ b.todo = Discovered
  BY <1>1, SetsLocal, FoundKnown DEF Ground
<1>3. refuse \in BOOLEAN
  OBVIOUS
<1>4. proc' = [proc EXCEPT !["operator"] = c]
  BY DEF VerifyReads, a
<1> HIDE DEF b, refuse
<1>5. c \in Local /\ c.pc = "verify" /\ c.todo = Discovered
  BY <1>2, <1>3, SetsLocal
<1>6. proc \in [Procs -> Local]
  BY DEF Ground, ProcsTyped
<1> HIDE DEF c
<1> QED BY <1>4, <1>5, <1>6 DEF Procs

LEMMA LinkLocal ==
    ASSUME Ground, NEW p \in {"operator", "timer"}, Link(p), ~Return(p)
    PROVE  /\ proc' \in [Procs -> Local]
           /\ proc'[p].pc = "link" /\ proc'[p].todo = proc[p].todo \ {NewLink(p).target} /\ proc'[p].all = proc[p].all
           /\ \A q \in Procs \ {p} : proc'[q] = proc[q]
<1> DEFINE todo == proc[p].todo \ {NewLink(p).target}
           half == [proc EXCEPT ![p].todo = todo]
<1>1. proc' = [half EXCEPT ![p].next = proc[p].next + 1] /\ proc[p].pc = "link"
  BY LinkEffect DEF Link, Is
<1>2. todo \subseteq Known /\ proc[p].next + 1 \in Nat /\ p \in Procs
  BY DEF Ground, ProcsTyped, Local, Procs
<1> HIDE DEF todo
<1>3. /\ half \in [Procs -> Local]
      /\ half[p].pc = proc[p].pc /\ half[p].todo = todo /\ half[p].all = proc[p].all
      /\ \A q \in Procs \ {p} : half[q] = proc[q]
  BY <1>2 DEF Ground, ProcsTyped, Local
<1> DEFINE n == proc[p].next + 1
<1> HIDE DEF half, n
<1>4. proc' = [half EXCEPT ![p].next = n]
  BY <1>1 DEF n
<1>5. n \in Nat
  BY <1>2 DEF n
<1>6. /\ proc' \in [Procs -> Local]
      /\ proc'[p].pc = half[p].pc /\ proc'[p].todo = half[p].todo /\ proc'[p].all = half[p].all
      /\ \A q \in Procs \ {p} : proc'[q] = half[q]
  BY <1>2, <1>3, <1>4, <1>5 DEF Local
<1> QED BY <1>1, <1>3, <1>6 DEF todo

\* Only the process moves, and to one of these places.
Moves(p, labels) ==
    /\ proc' \in [Procs -> Local] /\ proc'[p].pc \in labels
    /\ \A q \in Procs \ {p} : proc'[q] = proc[q]

LEMMA WorkerMoves ==
    ASSUME Ground, CrawlBegins \/ CrawlEnds \/ Indexing("worker")
    PROVE  Moves("worker", {"idle", "crawl", "discover", "insert"})
<1> USE DEF Moves, Places, Procs
<1>1. CASE CrawlBegins
  BY <1>1, GotoLocal DEF CrawlBegins
<1>2. CASE CrawlEnds
  BY <1>2, ReturnLocal DEF CrawlEnds
<1>3. CASE IndexBegins("worker")
  BY <1>3, GotoLocal DEF IndexBegins
<1>4. CASE IndexDiscovers("worker")
  BY <1>4, StartLocal, ReturnLocal, FoundKnown DEF IndexDiscovers, Ground
<1>5. CASE IndexCommits("worker")
  BY <1>5, ReturnLocal DEF IndexCommits
<1> QED BY <1>1, <1>2, <1>3, <1>4, <1>5 DEF Indexing

LEMMA ReplayMoves ==
    ASSUME Ground, NEW p \in {"operator", "timer"}, Replaying(p) \/ Kill(p)
    PROVE  UNCHANGED proc \/ Moves(p, {"idle", "link", "mark"})
<1> USE DEF Moves, Places, Procs
<1>1. CASE Unlink(p)
  BY <1>1, GotoLocal DEF Unlink
<1>2. CASE Link(p)
  BY <1>2, LinkLocal, ReturnLocal
<1>3. CASE Reindex(p)
  BY <1>3, GotoLocal DEF Reindex
<1>4. CASE Mark(p)
  BY <1>4, ReturnLocal DEF Mark
<1>5. CASE Kill(p)
  BY <1>5, ReturnLocal DEF Kill
<1> QED BY <1>1, <1>2, <1>3, <1>4, <1>5 DEF Replaying

LEMMA TimerChecks == ASSUME Ground, ReconcileChecks PROVE Moves("timer", {"unlink"})
BY StartLocal, FoundKnown DEF ReconcileChecks, Ground, Moves, Places, Procs

LEMMA ByHandMoves == ASSUME Ground, ReplayByHand PROVE Moves("operator", {"unlink"})
BY StartLocal, FoundKnown DEF ReplayByHand, Ground, Moves, Places, Procs

CommandPlaces == Places \ {"crawl", "unlink", "link", "mark"}

LEMMA CommandMoves ==
    ASSUME Ground, \/ Indexing("operator") \/ VerifyReads \/ Verifying \/ CompactReads \/ Compacting
                   \/ PromoteBegins \/ Promoting \/ LandFails
    PROVE  Moves("operator", CommandPlaces)
<1> USE DEF Moves, Places, CommandPlaces, Procs, Is
<1>1. ASSUME NEW label \in CommandPlaces, Goto("operator", label) PROVE Moves("operator", CommandPlaces)
  BY <1>1, GotoLocal
<1>2. ASSUME Return("operator") PROVE Moves("operator", CommandPlaces)
  BY <1>2, ReturnLocal
<1>3. ASSUME NEW label \in CommandPlaces, NEW todo \in SUBSET Known, Start("operator", label, todo)
      PROVE  Moves("operator", CommandPlaces)
  BY <1>3, StartLocal
<1>4. ASSUME NEW q, Done("operator", q), proc["operator"].pc \in {"quarantine", "compact", "promote"}
      PROVE  Moves("operator", CommandPlaces)
  BY <1>4, DoneLocal DEF Ground, ProcsTyped, Local
<1>5. Discovered \subseteq Known
  BY FoundKnown DEF Ground
<1>6. /\ proc["operator"].todo \subseteq Known /\ staging.entries \subseteq Known
  BY DEF Ground, ProcsTyped, Local, StagingTyped
<1>7. CASE IndexBegins("operator")
  BY <1>1, <1>7 DEF IndexBegins
<1>8. CASE IndexDiscovers("operator")
  BY <1>2, <1>3, <1>5, <1>8 DEF IndexDiscovers
<1>9. CASE IndexCommits("operator")
  BY <1>2, <1>9 DEF IndexCommits
<1>10. CASE VerifyReads
  BY <1>10, VerifyLocal
<1>11. CASE VerifyEnds
  <2>1. Failures(proc["operator"].todo) \in SUBSET Known
    BY <1>6 DEF Failures
  <2> QED BY <1>2, <1>3, <1>11, <2>1 DEF VerifyEnds
<1>12. CASE QuarantineMoves
  BY <1>2, <1>4, <1>12 DEF QuarantineMoves
<1>13. CASE QuarantineEnds
  BY <1>2, <1>13 DEF QuarantineEnds
<1>14. CASE CompactReads
  <2>1. \A n : Selected(n) \in SUBSET Known
    BY <1>5 DEF Selected
  <2> QED BY <1>3, <1>14, <2>1 DEF CompactReads
<1>15. CASE CompactOne
  BY <1>2, <1>4, <1>15 DEF CompactOne
<1>16. CASE CompactManifest
  BY <1>1, <1>16 DEF CompactManifest
<1>17. CASE CompactReport
  BY <1>2, <1>17 DEF CompactReport
<1>18. CASE PromoteBegins
  BY <1>3, <1>6, <1>18 DEF PromoteBegins
<1>19. CASE PromoteStages
  BY <1>4, <1>19 DEF PromoteStages
<1>20. CASE PromoteManifest
  BY <1>1, <1>20 DEF PromoteManifest
<1>21. CASE Retire
  BY <1>1, <1>21 DEF Retire
<1>22. CASE Land
  BY <1>2, <1>22 DEF Land
<1>23. CASE LandFails
  BY <1>2, <1>23 DEF LandFails
<1> QED BY <1>7, <1>8, <1>9, <1>10, <1>11, <1>12, <1>13, <1>14, <1>15, <1>16, <1>17, <1>18, <1>19, <1>20, <1>21,
           <1>22, <1>23 DEF Indexing, Verifying, Compacting, Promoting

LEMMA ProcsTypedStep == ASSUME Ground, [Next]_vars PROVE ProcsTyped'
<1> USE DEF Ground
<1>1. Local \subseteq Local'
  BY KnownGrows DEF Local
<1> DEFINE Fine == /\ proc' \in [Procs -> Local]
                   /\ proc'["worker"].pc \in {"idle", "crawl", "discover", "insert"}
                   /\ proc'["timer"].pc \in {"idle", "unlink", "link", "mark"}
                   /\ proc'["operator"].pc # "crawl"
<1>2. ASSUME UNCHANGED proc PROVE Fine
  BY <1>2 DEF ProcsTyped
<1>3. ASSUME NEW p \in Procs, NEW labels, Moves(p, labels),
             p = "worker" => labels \subseteq {"idle", "crawl", "discover", "insert"},
             p = "timer" => labels \subseteq {"idle", "unlink", "link", "mark"},
             p = "operator" => "crawl" \notin labels
      PROVE  Fine
  BY <1>3 DEF Moves, ProcsTyped, Procs
<1>4. Fine
  <2>1. CASE UNCHANGED vars
    BY <1>2, <2>1 DEF vars
  <2>2. CASE CrawlBegins \/ CrawlEnds \/ Indexing("worker")
    BY <1>3, <2>2, WorkerMoves DEF Procs
  <2>3. CASE \E p \in {"operator", "timer"} : Replaying(p) \/ Kill(p)
    <3> HIDE DEF Fine
    <3>1. PICK p \in {"operator", "timer"} : Replaying(p) \/ Kill(p)
      BY <2>3
    <3>2. CASE UNCHANGED proc
      BY <1>2, <3>2
    <3>3. CASE Moves(p, {"idle", "link", "mark"})
      BY <1>3, <3>3 DEF Procs
    <3> QED BY <3>1, <3>2, <3>3, ReplayMoves
  <2>4. CASE ReconcileChecks
    BY <1>3, <2>4, TimerChecks DEF Procs
  <2>5. CASE \/ Indexing("operator") \/ VerifyReads \/ Verifying \/ CompactReads \/ Compacting
             \/ PromoteBegins \/ Promoting \/ LandFails
    BY <1>3, <2>5, CommandMoves DEF Procs, CommandPlaces
  <2>6. CASE ReplayByHand
    BY <1>3, <2>6, ByHandMoves DEF Procs
  <2> HIDE DEF Fine
  <2> QED BY <2>1, <2>2, <2>3, <2>4, <2>5, <2>6 DEF Next
<1> HIDE DEF Local
<1> QED BY <1>1, <1>4 DEF ProcsTyped

\* Only the operator's promotion uses up what it staged.
LEMMA ToPromoteStep == ASSUME Ground, [Next]_vars PROVE ToPromote'
<1> USE DEF Ground, ToPromote, Is
<1>1. ASSUME UNCHANGED <<proc, staging>> PROVE ToPromote'
  BY <1>1
<1>2. ASSUME proc'["operator"].pc # "promote" PROVE ToPromote'
  BY <1>2
<1>3. CASE UNCHANGED vars
  BY <1>1, <1>3 DEF vars, stages
<1>4. ASSUME UNCHANGED staging, NEW p \in {"worker", "timer"}, NEW labels, Moves(p, labels)
      PROVE  ToPromote'
  BY <1>4 DEF Moves, Procs
<1>5. CASE CrawlBegins \/ CrawlEnds \/ Indexing("worker")
  BY <1>4, <1>5, WorkerMoves DEF CrawlBegins, CrawlEnds, Indexing, IndexBegins, IndexDiscovers, IndexCommits, stages
<1>6. CASE ReconcileChecks
  BY <1>4, <1>6, TimerChecks DEF ReconcileChecks, stages
<1>7. CASE \E p \in {"operator", "timer"} : Replaying(p) \/ Kill(p)
  <2>1. PICK p \in {"operator", "timer"} : Replaying(p) \/ Kill(p)
    BY <1>7
  <2>2. UNCHANGED staging
    BY <2>1 DEF Replaying, Unlink, Link, Reindex, Mark, Kill, stages
  <2>3. UNCHANGED proc \/ Moves(p, {"idle", "link", "mark"})
    BY <2>1, ReplayMoves
  <2> QED BY <1>1, <1>2, <1>4, <2>2, <2>3 DEF Moves
<1>8. CASE PromoteBegins
  <2>1. staging.entries \subseteq Known
    BY DEF StagingTyped
  <2>2. proc'["operator"].todo = staging.entries /\ UNCHANGED staging
    BY <1>8, <2>1, StartLocal DEF PromoteBegins, stages, Procs, Places
  <2> QED BY <1>8, <2>2 DEF PromoteBegins, Promotable
<1>9. CASE PromoteStages
  <2>1. /\ staging'.files = staging.files \ {Staged}
        /\ Done("operator", Staged.path)
    BY <1>9, PromoteEffect DEF StagingTyped, Done
  <2>2. proc'["operator"].todo = proc["operator"].todo \ {Staged.path} /\ Is("operator", "promote")
    BY <1>9, <2>1, DoneLocal DEF PromoteStages, Procs
  <2> QED BY <2>1, <2>2
<1> DEFINE Else == \/ Indexing("operator") \/ VerifyReads \/ Verifying \/ CompactReads \/ Compacting
                   \/ PromoteManifest \/ Retire \/ Land \/ LandFails \/ ReplayByHand
<1>10. CASE Else
  <2> SUFFICES proc'["operator"].pc # "promote"
    BY <1>2
  <2> USE DEF Procs, Places
  <2>1. Discovered \subseteq Known
    BY FoundKnown
  <2>2. ASSUME NEW label \in Places \ {"promote"}, Goto("operator", label) PROVE proc'["operator"].pc # "promote"
    BY <2>2, GotoLocal
  <2>3. ASSUME NEW label \in Places \ {"promote"}, NEW todo \in SUBSET Known, Start("operator", label, todo)
        PROVE  proc'["operator"].pc # "promote"
    BY <2>3, StartLocal
  <2>4. ASSUME NEW q, Done("operator", q), proc["operator"].pc # "promote" PROVE proc'["operator"].pc # "promote"
    BY <2>4, DoneLocal
  <2>5. ASSUME Return("operator") PROVE proc'["operator"].pc # "promote"
    BY <2>5, ReturnLocal
  <2>6. CASE Indexing("operator")
    BY <2>1, <2>2, <2>3, <2>5, <2>6 DEF Indexing, IndexBegins, IndexDiscovers, IndexCommits
  <2>7. CASE VerifyReads
    BY <2>7, VerifyLocal
  <2>8. CASE Verifying
    <3>1. Failures(proc["operator"].todo) \in SUBSET Known
      BY DEF Failures, ProcsTyped, Local
    <3> QED BY <2>3, <2>4, <2>5, <2>8, <3>1 DEF Verifying, VerifyEnds, QuarantineMoves, QuarantineEnds
  <2>9. CASE CompactReads
    <3>1. \A n : Selected(n) \in SUBSET Known
      BY <2>1 DEF Selected
    <3> QED BY <2>3, <2>9, <3>1 DEF CompactReads
  <2>10. CASE Compacting
    BY <2>2, <2>4, <2>5, <2>10 DEF Compacting, CompactOne, CompactManifest, CompactReport
  <2>11. CASE PromoteManifest \/ Retire
    BY <2>2, <2>11 DEF PromoteManifest, Retire
  <2>12. CASE Land \/ LandFails
    BY <2>5, <2>12 DEF Land, LandFails
  <2>13. CASE ReplayByHand
    BY <2>1, <2>3, <2>13 DEF ReplayByHand
  <2> QED BY <1>10, <2>6, <2>7, <2>8, <2>9, <2>10, <2>11, <2>12, <2>13
<1> QED BY <1>3, <1>5, <1>6, <1>7, <1>8, <1>9, <1>10 DEF Next, Promoting

LEMMA GroundStep == Ground /\ [Next]_vars => Ground'
BY FilesTypedStep, FilesMadeStep, StagingTypedStep, TablesTypedStep, CollectionTypedStep, ProcsTypedStep, ToPromoteStep
   DEF Ground

LEMMA GroundInit == Init => Ground
<1> SUFFICES ASSUME Init PROVE Ground
  OBVIOUS
<1>1. FilesTyped /\ FilesMade
  <2>1. Nothing \in [Warcs -> SUBSET Records] /\ \A w \in Warcs : Nothing[w] = {}
    BY DEF Nothing
  <2>2. made = 0 /\ 0 \in 0..N /\ temp = {} /\ bad = {}
    BY Bounds DEF Init
  <2>3. live = Nothing /\ promoted = Nothing /\ rollback = Nothing /\ dir = FALSE
    BY DEF Init
  <2> QED BY <2>1, <2>2, <2>3 DEF FilesTyped, FilesMade
<1>2. StagingTyped /\ TablesTyped /\ CollectionTyped
  <2>1. staging = [files |-> {}, entries |-> {}, report |-> "none"]
    BY DEF Init, EmptyStaging
  <2>2. StagingTyped
    BY <2>1 DEF StagingTyped
  <2>3. TablesTyped
    <3>1. 0 \in 0..CommandBound /\ 0 \in 0..FaultBound
      BY Bounds
    <3> QED BY <3>1 DEF Init, TablesTyped
  <2>4. CollectionTyped
    BY DEF Init, CollectionTyped
  <2> QED BY <2>2, <2>3, <2>4
<1>3. Rest.pc = "idle" /\ Rest \in Local
  BY DEF Rest, Local, Places
<1>4. ProcsTyped /\ ToPromote
  BY <1>3 DEF Init, ProcsTyped, ToPromote, Is, Procs
<1> QED BY <1>1, <1>2, <1>4 DEF Ground

\* Every variable has its type, nothing is known of a WARC before it is crawled, and no file is
\* in a directory that is not there, however commands overlap and break off.
THEOREM TypeCorrect == Spec => []TypeOK
<1>1. Ground => TypeOK
  <2> SUFFICES ASSUME Ground PROVE TypeOK
    OBVIOUS
  <2>1. Known \subseteq Path
    BY PathsKnown DEF Ground
  <2>2. /\ temp \subseteq 1..made /\ bad \subseteq 1..made /\ made \in 0..N
        /\ {live, promoted, rollback} \subseteq [Warcs -> SUBSET Records]
        /\ dir \in BOOLEAN /\ (dir \/ live = Nothing)
    BY DEF Ground, FilesTyped
  <2>3. staging \in [files : SUBSET [path : Path, has : SUBSET Records],
                     entries : SUBSET Path, report : {"none", "complete", "missing"}]
    BY <2>1 DEF Ground, StagingTyped
  <2>4. /\ links \subseteq [number : Nat, target : Path]
        /\ cdx \subseteq [number : Nat, warc : 1..made, has : SUBSET Records]
        /\ indexed \in BOOLEAN /\ due \in BOOLEAN
        /\ marker = NoMarker \/ marker \subseteq Path
    BY <2>1 DEF Ground, CollectionTyped
  <2>5. proc \in [Procs -> [pc : Places, todo : SUBSET Path, all : SUBSET Path, next : Nat, refuse : BOOLEAN]]
    BY <2>1 DEF Ground, ProcsTyped, Local
  <2>6. rows \subseteq Path
    BY <2>1 DEF Ground, TablesTyped
  <2> QED BY <2>2, <2>3, <2>4, <2>5, <2>6 DEF TypeOK, Ground, TablesTyped, Places
<1> QED BY <1>1, GroundInit, GroundStep, PTL DEF Spec

-----------------------------------------------------------------------------
(* Damaged WARCs.  Index runs verify what they read: no damaged WARC is     *)
(* left while snapshots are written, and while compacted files are about.  *)

Clean == \A w \in bad : w \notin temp /\ live[w] = {}

\* Compaction and promotion; the crawl and the quarantine do not come back.
Frozen ==
    \/ proc["operator"].pc \in {"compact", "report", "promote", "retire", "land"}
    \/ staging # EmptyStaging \/ promoted # Nothing \/ rollback # Nothing

\* Temp directories keep the good WARCs, and no file loses its HTML capture.
CapturesKept ==
    /\ Good \subseteq temp
    /\ \A w \in Warcs : live[w] # {} => "html" \in live[w]
    /\ \A w \in Warcs : promoted[w] # {} => "html" \in promoted[w] /\ w \notin bad
    /\ \A w \in Warcs : rollback[w] # {} => "html" \in rollback[w] /\ w \notin bad
    /\ \A f \in staging.files : "html" \in f.has /\ f.path.warc \notin bad

CleanWhenUsed ==
    (status = "indexed" \/ Frozen \/ Is("worker", "insert") \/ Is("operator", "insert")) => Clean

\* What the status says while a process is there, and what it has in hand.
StatusHeld ==
    /\ Frozen => status \in {"indexed", "index_failed"} /\ ~Is("operator", "quarantine")
    /\ proc["operator"].pc \in {"discover", "insert"} => status \in {"completed", "indexed", "index_failed"}
    /\ Is("worker", "crawl") => status \in {"running", "retryable"}

InHand ==
    /\ \A p \in {"worker", "operator"} : Is(p, "insert") => \A q \in proc[p].todo : q.warc \notin bad
    /\ Is("operator", "verify") => \A q \in proc["operator"].todo : Exists(q)
    /\ Is("operator", "quarantine") => \A q \in proc["operator"].todo : q.warc \in bad

Safe == CapturesKept /\ CleanWhenUsed /\ StatusHeld /\ InHand

Looking == {"discover", "insert", "verify", "quarantine"}
Compacts == {"compact", "report", "promote", "retire", "land"}

\* Steps of the timer, and of operators who neither index nor verify.
LEMMA SafeKept ==
    ASSUME Ground, Safe, UNCHANGED <<files, promoted, rollback, status>>,
           proc'["worker"] = proc["worker"],
           Frozen' => Frozen \/ status = "indexed",
           \A f \in staging'.files : f \in staging.files \/ ("html" \in f.has /\ f.path.warc \notin bad),
           UNCHANGED <<proc["operator"], staging>> \/ proc'["operator"].pc \notin Looking
    PROVE  Safe'
<1> USE DEF Safe, Is, Looking
<1>1. CapturesKept'
  BY DEF CapturesKept, Good, files
<1>2. Clean' <=> Clean
  BY DEF Clean, files
<1>3. CleanWhenUsed'
  BY <1>2 DEF CleanWhenUsed
<1>4. StatusHeld'
  <2>1. CASE UNCHANGED <<proc["operator"], staging>>
    BY <2>1 DEF StatusHeld, Frozen
  <2>2. CASE proc'["operator"].pc \notin Looking
    BY <2>2 DEF StatusHeld
  <2> QED BY <2>1, <2>2
<1>5. \A q : Exists(q)' <=> Exists(q)
  BY DEF Exists, Content, files
<1>6. InHand'
  BY <1>5 DEF InHand, files
<1> QED BY <1>1, <1>3, <1>4, <1>6

LEMMA SafeReplay ==
    ASSUME Ground, Safe,
           UNCHANGED vars \/ ReconcileChecks \/ ReplayByHand \/ \E p \in {"operator", "timer"} : Replaying(p) \/ Kill(p)
    PROVE  Safe'
<1> USE DEF Procs
<1>1. UNCHANGED <<files, promoted, rollback, status, staging>>
  BY DEF vars, db, stages, ReconcileChecks, ReplayByHand, Replaying, Kill, Unlink, Link, Reindex, Mark
<1>2. \A f \in staging'.files : f \in staging.files
  BY <1>1
<1>3. CASE UNCHANGED vars
  BY <1>1, <1>2, <1>3, SafeKept DEF vars, Frozen
<1>4. CASE ReconcileChecks
  BY <1>1, <1>2, <1>4, TimerChecks, SafeKept DEF Moves, Frozen
<1>5. ASSUME proc'["worker"] = proc["worker"],
             \/ proc'["operator"] = proc["operator"]
             \/ proc'["operator"].pc \in {"idle", "unlink", "link", "mark"}
      PROVE  Safe'
  <2>1. Frozen' => Frozen
    BY <1>1, <1>5 DEF Frozen
  <2>2. UNCHANGED <<proc["operator"], staging>> \/ proc'["operator"].pc \notin Looking
    BY <1>1, <1>5 DEF Looking
  <2> QED BY <1>1, <1>2, <1>5, <2>1, <2>2, SafeKept
<1>6. CASE ReplayByHand
  <2>1. Discovered \subseteq Known
    BY FoundKnown DEF Ground
  <2>2. proc'["operator"].pc = "unlink" /\ proc'["worker"] = proc["worker"]
    BY <1>6, <2>1, StartLocal DEF ReplayByHand, Places
  <2> QED BY <1>5, <2>2
<1>7. ASSUME NEW p \in {"operator", "timer"}, Replaying(p) \/ Kill(p) PROVE Safe'
  <2>1. UNCHANGED proc \/ Moves(p, {"idle", "link", "mark"})
    BY <1>7, ReplayMoves
  <2> QED BY <1>5, <2>1 DEF Moves
<1> QED BY <1>3, <1>4, <1>6, <1>7

LEMMA SafeCompact ==
    ASSUME Ground, Safe, CompactReads \/ Compacting \/ PromoteBegins \/ PromoteManifest
    PROVE  Safe'
<1> USE DEF Procs, Places
<1>1. UNCHANGED <<files, promoted, rollback, status>>
  BY DEF db, stages, CompactReads, Compacting, CompactOne, CompactManifest, CompactReport, PromoteBegins, PromoteManifest
<1>2. ASSUME proc'["worker"] = proc["worker"], proc'["operator"].pc \in Compacts \cup {"idle"},
             status = "indexed" \/ Is("operator", "compact") \/ Is("operator", "report") \/ Is("operator", "promote"),
             \A f \in staging'.files : f \in staging.files \/ ("html" \in f.has /\ f.path.warc \notin bad)
      PROVE  Safe'
  <2>1. Frozen \/ status = "indexed"
    BY <1>2 DEF Frozen, Is
  <2>2. proc'["operator"].pc \notin Looking
    BY <1>2 DEF Looking, Compacts
  <2> QED BY <1>1, <1>2, <2>1, <2>2, SafeKept
<1>3. CASE CompactReads
  <2>1. \A n : Selected(n) \in SUBSET Known
    BY FoundKnown DEF Selected, Ground
  <2>2. PICK n : Start("operator", "compact", Selected(n))
    BY <1>3 DEF CompactReads
  <2>3. proc'["operator"].pc = "compact" /\ proc'["worker"] = proc["worker"]
    BY <2>1, <2>2, StartLocal
  <2>4. staging'.files = {} /\ status = "indexed"
    BY <1>3 DEF CompactReads, EmptyStaging
  <2> QED BY <1>2, <2>3, <2>4 DEF Compacts
<1>4. CASE CompactOne
  <2>1. Is("operator", "compact")
    BY <1>4 DEF CompactOne
  <2>2. CASE UNCHANGED staging /\ Return("operator")
    BY <1>2, <2>1, <2>2, ReturnLocal
  <2>3. CASE /\ staging' = [staging EXCEPT !.files = staging.files \cup {Compacted}]
             /\ proc' = [proc EXCEPT !["operator"].todo = proc["operator"].todo \ {Compacted.path}]
             /\ Exists(Compacted.path) /\ Compacted.path.warc \notin bad
    <3>1. staging'.files = staging.files \cup {Compacted}
      BY <2>3 DEF Ground, StagingTyped
    <3>2. Done("operator", Compacted.path)
      BY <2>3 DEF Done
    <3>3. proc'["operator"].pc = "compact" /\ proc'["worker"] = proc["worker"]
      BY <2>1, <3>2, DoneLocal DEF Is
    <3>4. Compacted.path \in Known
      BY <1>4, CompactEffect
    <3>5. Compacted.path.warc \in Warcs /\ Content(Compacted.path) # {}
      BY <2>3, <3>4, Bounds DEF Known, Warcs, Ground, FilesTyped, Exists
    <3>6. "html" \in Content(Compacted.path)
      <4>1. \A p \in Known : p.warc \in Warcs
        BY Bounds DEF Known, Warcs, Ground, FilesTyped
      <4>2. \A p \in Known : Content(p) # {} => "html" \in Content(p)
        BY <4>1 DEF Content, Records, Safe, CapturesKept, Known
      <4> QED BY <3>4, <3>5, <4>2
    <3>7. "html" \in Compacted.has
      BY <3>6 DEF Compacted, KeptOf
    <3> QED BY <1>2, <2>1, <2>3, <3>1, <3>3, <3>7 DEF Compacts
  <2> QED BY <1>4, <2>2, <2>3, CompactEffect
<1>5. ASSUME staging'.files = staging.files, NEW label \in Compacts, Goto("operator", label),
             status = "indexed" \/ Is("operator", "compact") \/ Is("operator", "report") \/ Is("operator", "promote")
      PROVE  Safe'
  BY <1>2, <1>5, GotoLocal DEF Compacts
<1>6. CASE CompactManifest
  BY <1>5, <1>6 DEF CompactManifest, Ground, StagingTyped, Compacts
<1>7. CASE PromoteManifest
  BY <1>5, <1>7 DEF PromoteManifest, Ground, StagingTyped, Compacts
<1>8. CASE CompactReport
  <2>1. staging'.files = staging.files /\ Return("operator") /\ Is("operator", "report")
    BY <1>8 DEF CompactReport, Ground, StagingTyped
  <2> QED BY <1>2, <2>1, ReturnLocal
<1>9. CASE PromoteBegins
  <2>1. staging.entries \subseteq Known /\ UNCHANGED staging /\ status = "indexed"
    BY <1>9 DEF PromoteBegins, Promotable, stages, Ground, StagingTyped
  <2>2. proc'["operator"].pc = "promote" /\ proc'["worker"] = proc["worker"]
    BY <1>9, <2>1, StartLocal DEF PromoteBegins
  <2> QED BY <1>2, <2>1, <2>2 DEF Compacts
<1> QED BY <1>3, <1>4, <1>6, <1>7, <1>8, <1>9 DEF Compacting

LEMMA SafeCrawl == ASSUME Ground, Safe, CrawlBegins \/ CrawlEnds PROVE Safe'
<1> USE DEF Safe
<1>1. /\ UNCHANGED <<live, dir, promoted, rollback, staging>>
      /\ proc'["operator"] = proc["operator"] /\ proc'["worker"].pc \in {"idle", "crawl"}
      /\ CrawlBegins => proc'["worker"].pc = "crawl"
      /\ CrawlEnds => proc'["worker"].pc = "idle"
  BY GotoLocal, ReturnLocal DEF CrawlBegins, CrawlEnds, files, stages, Procs, Places
<1>2. status \in {"queued", "running", "retryable"}
  BY DEF CrawlBegins, CrawlEnds, StatusHeld
<1>3. ~Frozen /\ ~Frozen' /\ proc["operator"].pc \notin {"discover", "insert"}
  BY <1>1, <1>2 DEF StatusHeld, Frozen
<1>4. CleanWhenUsed' /\ StatusHeld'
  <2>1. status' \in {"running", "completed", "retryable"}
    BY DEF CrawlBegins, CrawlEnds
  <2>2. Is("worker", "crawl")' => status' \in {"running", "retryable"}
    BY <1>1 DEF Is, CrawlBegins, CrawlEnds
  <2> QED BY <1>1, <1>3, <2>1, <2>2 DEF CleanWhenUsed, StatusHeld, Is
<1>5. CASE CrawlBegins
  <2>1. UNCHANGED files
    BY <1>5 DEF CrawlBegins
  <2>2. CapturesKept'
    BY <1>1, <2>1 DEF CapturesKept, Good, files
  <2>3. InHand'
    BY <1>1, <1>3, <1>5, <2>1 DEF InHand, Is, files, Exists, Content
  <2> QED BY <1>4, <2>2, <2>3
<1>6. CASE CrawlEnds
  <2>1. /\ made \in Nat /\ made' = made + 1 /\ temp' = temp \cup {made'} /\ bad \subseteq bad' /\ bad' \subseteq bad \cup {made'}
    BY <1>6, Bounds DEF CrawlEnds, Ground, FilesTyped
  <2>2. \A w \in 1..made : w \in bad' => w \in bad
    BY <2>1
  <2>3. CapturesKept'
    <3>1. Good' \subseteq temp'
      BY <2>1 DEF CapturesKept, Good
    <3>2. \A f \in staging'.files : "html" \in f.has /\ f.path.warc \notin bad'
      <4>1. \A f \in staging.files : f.path.warc \in 1..made
        BY DEF Ground, StagingTyped, Known
      <4> QED BY <1>1, <2>2, <4>1 DEF CapturesKept
    <3> QED BY <1>1, <2>2, <3>1, <3>2 DEF CapturesKept, Ground, FilesMade
  <2>4. \A q \in Known : Exists(q) => Exists(q)'
    BY <1>1, <2>1 DEF Exists, Content, Known
  <2>5. InHand'
    <3>1. proc["operator"].todo \subseteq Known
      BY DEF Ground, ProcsTyped, Local, Procs
    <3> QED BY <1>1, <1>3, <1>6, <2>1, <2>4, <3>1 DEF InHand, Is
  <2> QED BY <1>4, <2>3, <2>5
<1> QED BY <1>5, <1>6

\* What is found damaged would have stopped the run.
LEMMA VerifiedClean ==
    ASSUME Ground, \A q \in Discovered : q.warc \notin bad
    PROVE  Clean
<1> SUFFICES ASSUME NEW w \in bad, w \in temp \/ live[w] # {}
             PROVE  FALSE
  BY DEF Clean
<1>1. w \in Warcs
  BY Bounds DEF Ground, FilesTyped, Warcs
<1> DEFINE there == [warc |-> w, at |-> IF live[w] # {} THEN "live" ELSE "temp"]
<1>2. there \in Path /\ there.warc = w
  BY <1>1 DEF Path
<1>3. Exists(there) /\ (there.at = "temp" => live[w] = {})
  BY DEF Exists, Content, Records
<1>4. there \in Discovered
  BY <1>2, <1>3 DEF Discovered
<1> QED BY <1>2, <1>4

LEMMA SafeIndexBegins ==
    ASSUME Ground, Safe, NEW p \in {"worker", "operator"}, IndexBegins(p)
    PROVE  Safe'
<1> USE DEF Safe, Procs
<1>1. /\ UNCHANGED <<temp, bad, made, promoted, rollback, staging, status>>
      /\ live' = live \/ live' = Linked
      /\ proc'[p].pc = "discover" /\ \A q \in Procs \ {p} : proc'[q] = proc[q]
      /\ proc[p].pc = "idle" /\ status \in {"completed", "index_failed", "indexed"}
  BY GotoLocal DEF IndexBegins, Consolidates, Linked, stages, db, Places, Is
<1>2. Frozen' => Frozen
  BY <1>1 DEF Frozen
<1>3. Clean => Clean'
  BY <1>1, Bounds DEF Clean, Linked, Ground, FilesTyped, Warcs
<1>4. CleanWhenUsed' /\ StatusHeld'
  BY <1>1, <1>2, <1>3 DEF CleanWhenUsed, StatusHeld, Is
<1>5. \A w \in Warcs : live[w] # {} => live'[w] # {}
  BY <1>1 DEF Linked
<1>6. \A q \in Known : Exists(q) => Exists(q)'
  BY <1>1, <1>5, Bounds DEF Exists, Content, Known, Warcs, Ground, FilesTyped
<1>7. InHand'
  <2>1. proc["operator"].todo \subseteq Known
    BY DEF Ground, ProcsTyped, Local
  <2> QED BY <1>1, <1>6, <2>1 DEF InHand, Is
<1>8. CapturesKept'
  <2>1. \A w \in Warcs : live'[w] # {} => "html" \in live'[w]
    BY <1>1 DEF CapturesKept, Linked, Records
  <2> QED BY <1>1, <2>1 DEF CapturesKept, Good
<1> QED BY <1>4, <1>7, <1>8

LEMMA SafeIndex ==
    ASSUME Ground, Safe, IndexVerifies = TRUE, NEW p \in {"worker", "operator"}, IndexDiscovers(p) \/ IndexCommits(p)
    PROVE  Safe'
<1> USE DEF Safe, Procs
<1>1. /\ UNCHANGED <<temp, live, bad, made, promoted, rollback, staging>>
      /\ proc[p].pc \in {"discover", "insert"}
  BY DEF IndexDiscovers, IndexCommits, files, stages, Is
<1>2. CapturesKept'
  BY <1>1 DEF CapturesKept, Good
<1>3. \A q : Exists(q)' <=> Exists(q)
  BY <1>1 DEF Exists, Content
<1>4. Clean' <=> Clean
  BY <1>1 DEF Clean
<1>5. ASSUME proc'[p].pc = "insert", proc'[p].todo = Discovered, \A q \in Procs \ {p} : proc'[q] = proc[q],
             \A q \in Discovered : q.warc \notin bad, UNCHANGED status
      PROVE  Safe'
  <2>1. Clean'
    BY <1>4, <1>5, VerifiedClean
  <2>2. Frozen' => Frozen
    BY <1>1, <1>5 DEF Frozen
  <2>3. CleanWhenUsed' /\ StatusHeld'
    BY <1>1, <1>5, <2>1, <2>2 DEF CleanWhenUsed, StatusHeld, Is
  <2>4. InHand'
    BY <1>1, <1>3, <1>5 DEF InHand, Is
  <2> QED BY <1>2, <2>3, <2>4
<1>6. ASSUME proc'[p].pc = "idle", \A q \in Procs \ {p} : proc'[q] = proc[q],
             status' \in {"indexed", "index_failed"}, status' = "indexed" => Is(p, "insert")
      PROVE  Safe'
  <2>1. Frozen' => Frozen
    BY <1>1, <1>6 DEF Frozen
  <2>2. CleanWhenUsed'
    BY <1>1, <1>4, <1>6, <2>1 DEF CleanWhenUsed, Is
  <2>3. ~Is("worker", "crawl")'
    <3>1. CASE p = "worker"
      BY <1>6, <3>1 DEF Is
    <3>2. CASE p = "operator"
      BY <1>1, <1>6, <3>2 DEF StatusHeld, Is
    <3> QED BY <3>1, <3>2
  <2>4. StatusHeld'
    BY <1>1, <1>6, <2>1, <2>3 DEF StatusHeld, Is
  <2>5. InHand'
    BY <1>1, <1>3, <1>6 DEF InHand, Is
  <2> QED BY <1>2, <2>2, <2>4, <2>5
<1>7. CASE IndexDiscovers(p)
  <2>1. Discovered \subseteq Known
    BY FoundKnown DEF Ground
  <2>2. CASE Verified(Discovered)
    BY <1>5, <1>7, <2>1, <2>2, StartLocal DEF IndexDiscovers, Verified, db, Places
  <2>3. CASE ~Verified(Discovered)
    BY <1>6, <1>7, <2>3, ReturnLocal DEF IndexDiscovers
  <2> QED BY <2>2, <2>3
<1>8. CASE IndexCommits(p)
  BY <1>6, <1>8, ReturnLocal DEF IndexCommits
<1> QED BY <1>7, <1>8

LEMMA SafeVerify == ASSUME Ground, Safe, VerifyReads \/ Verifying PROVE Safe'
<1> USE DEF Safe, Procs, Places
<1>1. UNCHANGED <<bad, made, promoted, rollback, staging>>
  BY DEF VerifyReads, Verifying, VerifyEnds, QuarantineMoves, QuarantineEnds, files, stages
<1>2. proc["operator"].todo \subseteq Known
  BY DEF Ground, ProcsTyped, Local
<1>3. ASSUME UNCHANGED <<files, status>>, \A q \in Procs \ {"operator"} : proc'[q] = proc[q],
             \/ proc'["operator"].pc = "idle"
             \/ proc'["operator"].pc = "verify" /\ \A q \in proc'["operator"].todo : Exists(q)
             \/ proc'["operator"].pc = "quarantine" /\ ~Frozen /\ \A q \in proc'["operator"].todo : q.warc \in bad
      PROVE  Safe'
  <2>1. Frozen' => Frozen
    BY <1>1, <1>3 DEF Frozen
  <2>2. Clean' <=> Clean
    BY <1>3 DEF Clean, files
  <2>3. CleanWhenUsed' /\ StatusHeld'
    BY <1>3, <2>1, <2>2 DEF CleanWhenUsed, StatusHeld, Is
  <2>4. \A q : Exists(q)' <=> Exists(q)
    BY <1>3 DEF Exists, Content, files
  <2>5. InHand'
    BY <1>1, <1>3, <2>4 DEF InHand, Is
  <2>6. CapturesKept'
    BY <1>1, <1>3 DEF CapturesKept, Good, files
  <2> QED BY <2>3, <2>5, <2>6
<1>4. CASE VerifyReads
  <2>1. \A q \in Discovered : Exists(q)
    BY DEF Discovered
  <2> QED BY <1>3, <1>4, <2>1, VerifyLocal DEF VerifyReads, db
<1>5. CASE VerifyEnds
  <2>1. UNCHANGED <<files, status>>
    BY <1>5 DEF VerifyEnds, db
  <2>2. CASE Return("operator")
    BY <1>3, <2>1, <2>2, ReturnLocal
  <2>3. ASSUME ~Return("operator")
        PROVE  /\ Failures(proc["operator"].todo) # {}
               /\ Start("operator", "quarantine", Failures(proc["operator"].todo))
    BY <1>5, <2>3 DEF VerifyEnds
  <2>4. \A q \in Failures(proc["operator"].todo) : q.warc \in bad /\ Exists(q) /\ q \in Known
    BY <1>2, <1>5 DEF VerifyEnds, Failures, InHand
  <2>5. Failures(proc["operator"].todo) # {} => ~Clean
    BY <2>4 DEF Clean, Exists, Content, Known
  <2>6. ASSUME ~Return("operator") PROVE Safe'
    <3>1. ~Frozen
      BY <2>3, <2>5, <2>6 DEF CleanWhenUsed
    <3>2. Failures(proc["operator"].todo) \subseteq Known
      BY <2>4
    <3> QED BY <1>3, <2>1, <2>3, <2>4, <2>6, <3>1, <3>2, StartLocal
  <2> QED BY <2>2, <2>6
<1>6. CASE QuarantineMoves
  <2>1. proc["operator"].pc = "quarantine" /\ UNCHANGED status
    BY <1>6 DEF QuarantineMoves, db, Is
  <2>2. ~Frozen /\ \A q \in proc["operator"].todo : q.warc \in bad
    BY <2>1 DEF StatusHeld, InHand, Is
  <2>3. PICK q \in proc["operator"].todo :
          IF Exists(q)
          THEN /\ Done("operator", q)
               /\ IF q.at = "live" THEN live' = [live EXCEPT ![q.warc] = {}] /\ UNCHANGED temp
                                   ELSE temp' = temp \ {q.warc} /\ UNCHANGED live
          ELSE Return("operator") /\ UNCHANGED <<temp, live>>
    BY <1>6 DEF QuarantineMoves
  <2>4. /\ temp' \subseteq temp /\ \A w \in temp : w \notin bad => w \in temp'
        /\ \A w \in Warcs : live'[w] \in {live[w], {}}
    BY <2>2, <2>3 DEF Ground, FilesTyped
  <2>5. /\ proc'["operator"].pc \in {"idle", "quarantine"}
        /\ proc'["operator"].todo \subseteq proc["operator"].todo
        /\ \A p \in Procs \ {"operator"} : proc'[p] = proc[p]
    BY <2>1, <2>3, DoneLocal, ReturnLocal
  <2>6. ~Frozen'
    BY <1>1, <2>2, <2>5 DEF Frozen
  <2>7. Clean => Clean'
    BY <1>1, <2>4, Bounds DEF Clean, Ground, FilesTyped, Warcs
  <2>8. CleanWhenUsed' /\ StatusHeld'
    BY <2>1, <2>5, <2>6, <2>7 DEF CleanWhenUsed, StatusHeld, Is
  <2>9. InHand'
    BY <1>1, <2>2, <2>5 DEF InHand, Is
  <2>10. CapturesKept'
    BY <1>1, <2>4 DEF CapturesKept, Good
  <2> QED BY <2>8, <2>9, <2>10
<1>7. CASE QuarantineEnds
  <2>1. /\ UNCHANGED files /\ status' = "retryable" /\ proc["operator"].pc = "quarantine"
        /\ proc'["operator"].pc = "idle" /\ \A q \in Procs \ {"operator"} : proc'[q] = proc[q]
    BY <1>7, ReturnLocal DEF QuarantineEnds, Is
  <2>2. ~Frozen /\ ~Frozen'
    BY <1>1, <2>1 DEF StatusHeld, Frozen, Is
  <2>3. CleanWhenUsed' /\ StatusHeld'
    BY <2>1, <2>2 DEF CleanWhenUsed, StatusHeld, Is, Clean, files
  <2>4. InHand'
    BY <1>1, <2>1 DEF InHand, Is
  <2>5. CapturesKept'
    BY <1>1, <2>1 DEF CapturesKept, Good, files
  <2> QED BY <2>3, <2>4, <2>5
<1> QED BY <1>4, <1>5, <1>6, <1>7 DEF Verifying

LEMMA SafePromote ==
    ASSUME Ground, Safe, PromoteStages \/ Retire \/ Land \/ LandFails
    PROVE  Safe'
<1> USE DEF Safe, Procs, Places
<1>1. /\ UNCHANGED <<temp, bad, made, status>>
      /\ proc["operator"].pc \in {"promote", "retire", "land"}
  BY DEF PromoteStages, Retire, Land, LandFails, files, db, Is
<1>2. proc'["operator"].pc \in {"idle", "promote", "land"} /\ \A q \in Procs \ {"operator"} : proc'[q] = proc[q]
  <2>1. CASE PromoteStages
    BY <2>1, PromoteEffect, DoneLocal DEF Done, PromoteStages, Is
  <2> QED BY <2>1, GotoLocal, ReturnLocal DEF Retire, Land, LandFails
<1>3. Frozen /\ Clean /\ status \in {"indexed", "index_failed"}
  BY <1>1 DEF Frozen, CleanWhenUsed, StatusHeld
<1>4. ASSUME CapturesKept', \A w \in Warcs : live'[w] # {} => live[w] # {} \/ w \notin bad
      PROVE  Safe'
  <2>1. Clean'
    BY <1>1, <1>3, <1>4, Bounds DEF Clean, Ground, FilesTyped, Warcs
  <2>2. CleanWhenUsed' /\ StatusHeld'
    <3>1. ~Is("worker", "crawl")
      BY <1>3 DEF StatusHeld, Is
    <3> QED BY <1>1, <1>2, <1>3, <2>1, <3>1 DEF CleanWhenUsed, StatusHeld, Is
  <2>3. InHand'
    BY <1>1, <1>2 DEF InHand, Is
  <2> QED BY <1>4, <2>2, <2>3
<1>5. \A w \in Warcs : live[w] # {} => w \notin bad
  BY <1>3 DEF Clean
<1>6. \A w \in Warcs : Nothing[w] = {}
  BY DEF Nothing
<1>7. CASE PromoteStages
  <2>1. UNCHANGED <<live, rollback>> /\ staging'.files = staging.files \ {Staged}
    BY <1>7, PromoteEffect DEF PromoteStages, files, Ground, StagingTyped
  <2>2. "html" \in Staged.has /\ Staged.path.warc \notin bad
    BY <1>7, StagedFound DEF CapturesKept
  <2>3. promoted' = [promoted EXCEPT ![Staged.path.warc] = Staged.has]
    BY <1>7, PromoteEffect
  <2>4. \A w \in Warcs : promoted'[w] # {} => "html" \in promoted'[w] /\ w \notin bad
    BY <2>2, <2>3 DEF CapturesKept, Ground, FilesTyped
  <2>5. CapturesKept'
    BY <1>1, <2>1, <2>4 DEF CapturesKept, Good
  <2> QED BY <1>4, <2>1, <2>5
<1>8. CASE Retire
  <2>1. rollback' = live /\ live' = Nothing /\ UNCHANGED <<staging, promoted>>
    BY <1>8 DEF Retire
  <2>2. CapturesKept'
    BY <1>1, <1>5, <1>6, <2>1 DEF CapturesKept, Good
  <2> QED BY <1>4, <1>6, <2>1, <2>2
<1>9. CASE Land
  <2>1. live' = promoted /\ promoted' = Nothing /\ UNCHANGED <<staging, rollback>>
    BY <1>9 DEF Land
  <2>2. CapturesKept'
    BY <1>1, <1>6, <2>1 DEF CapturesKept, Good
  <2> QED BY <1>4, <2>1, <2>2 DEF CapturesKept
<1>10. CASE LandFails
  <2>1. live' = rollback /\ rollback' = Nothing /\ UNCHANGED <<staging, promoted>>
    BY <1>10 DEF LandFails
  <2>2. CapturesKept'
    BY <1>1, <1>6, <2>1 DEF CapturesKept, Good
  <2> QED BY <1>4, <2>1, <2>2 DEF CapturesKept
<1> QED BY <1>7, <1>8, <1>9, <1>10

LEMMA SafeStep == ASSUME Ground, Safe, IndexVerifies = TRUE, [Next]_vars PROVE Safe'
BY SafeReplay, SafeCompact, SafeCrawl, SafeIndexBegins, SafeIndex, SafeVerify, SafePromote DEF Next, Indexing, Promoting

-----------------------------------------------------------------------------
(* Compaction takes all WARCs, so a promotion replaces all; and every       *)
(* snapshot is in warcs/ or, between the two renames, in both directories.  *)

Covers(S) == \A w \in Good : \E q \in S : q.warc = w

\* Compaction has compacted all that it does not have to do yet; what it lists is all there is.
CompactionWhole ==
    /\ Is("operator", "compact") =>
         /\ Covers(proc["operator"].all)
         /\ \A q \in proc["operator"].all : q \in proc["operator"].todo \/ \E f \in staging.files : f.path = q
    /\ staging.entries # {} => Covers(staging.entries)

\* So has a promotion, which comes back to its directories as it left them.
PromotionWhole ==
    /\ proc["operator"].pc \in {"promote", "retire", "land"} =>
         /\ Covers(proc["operator"].all) /\ proc["operator"].all # {}
         /\ \A q \in proc["operator"].all : q \in proc["operator"].todo \/ promoted[q.warc] # {}
    /\ proc["operator"].pc \in {"retire", "land"} => proc["operator"].todo = {}
    /\ proc["operator"].pc \in {"promote", "retire"} => dir /\ rollback = Nothing
    /\ Is("operator", "land") => ~dir /\ due

RowsHeld ==
    \A p \in rows : /\ p.warc \in Good
                    /\ \/ p.at = "temp" \/ live[p.warc] # {}
                       \/ ~dir /\ rollback[p.warc] # {} /\ promoted[p.warc] # {}

Held == CompactionWhole /\ PromotionWhole /\ RowsHeld

\* Steps that are not of compaction or promotion.
LEMMA QuietMoves ==
    ASSUME Ground, \/ UNCHANGED vars \/ CrawlBegins \/ CrawlEnds \/ \E p \in {"worker", "operator"} : Indexing(p)
                   \/ VerifyReads \/ Verifying \/ ReplayByHand \/ ReconcileChecks
                   \/ \E p \in {"operator", "timer"} : Replaying(p) \/ Kill(p)
    PROVE  UNCHANGED proc["operator"] \/ proc'["operator"].pc \notin Compacts
<1> USE DEF Procs, Compacts
<1>1. CASE UNCHANGED vars
  BY <1>1 DEF vars
<1>2. CASE CrawlBegins \/ CrawlEnds \/ Indexing("worker")
  BY <1>2, WorkerMoves DEF Moves
<1>3. CASE ReconcileChecks
  BY <1>3, TimerChecks DEF Moves
<1>4. ASSUME NEW p \in {"operator", "timer"}, Replaying(p) \/ Kill(p)
      PROVE  UNCHANGED proc["operator"] \/ proc'["operator"].pc \notin Compacts
  BY <1>4, ReplayMoves DEF Moves
<1> USE DEF Places
<1>5. Discovered \subseteq Known
  BY FoundKnown DEF Ground
<1>6. CASE Indexing("operator")
  BY <1>5, <1>6, GotoLocal, StartLocal, ReturnLocal DEF Indexing, IndexBegins, IndexDiscovers, IndexCommits
<1>7. CASE VerifyReads
  BY <1>7, VerifyLocal
<1>8. CASE Verifying
  <2>1. Failures(proc["operator"].todo) \subseteq Known
    BY DEF Failures, Ground, ProcsTyped, Local
  <2>2. CASE VerifyEnds
    BY <2>1, <2>2, StartLocal, ReturnLocal DEF VerifyEnds
  <2>3. CASE QuarantineMoves
    BY <2>3, DoneLocal, ReturnLocal DEF QuarantineMoves, Is
  <2>4. CASE QuarantineEnds
    BY <2>4, ReturnLocal DEF QuarantineEnds
  <2> QED BY <1>8, <2>2, <2>3, <2>4 DEF Verifying
<1>9. CASE ReplayByHand
  BY <1>5, <1>9, StartLocal DEF ReplayByHand
<1> QED BY <1>1, <1>2, <1>3, <1>4, <1>6, <1>7, <1>8, <1>9

\* Nothing new comes while compacted files are about.
LEMMA FrozenStays ==
    ASSUME Ground, Safe, Frozen, [Next]_vars
    PROVE  ~CrawlEnds /\ ~IndexBegins("worker") /\ ~QuarantineMoves /\ UNCHANGED <<made, bad, temp>> /\ Good' = Good
<1>1. ~CrawlEnds /\ ~IndexBegins("worker") /\ ~QuarantineMoves
  BY DEF Safe, StatusHeld, CrawlEnds, IndexBegins, QuarantineMoves, Is, Procs
<1>2. UNCHANGED <<made, bad, temp>>
  BY <1>1, StepFiles DEF FileSteps, FilesStay, files, IndexBegins, PromoteStages, Retire, Land, LandFails
<1> QED BY <1>1, <1>2 DEF Good

LEMMA WholeKept ==
    ASSUME Ground, Safe, Held, [Next]_vars, UNCHANGED <<staging, promoted, rollback>>,
           UNCHANGED <<dir, proc["operator"]>> \/ proc'["operator"].pc \notin Compacts,
           due => due' \/ proc["operator"].pc # "land"
    PROVE  CompactionWhole' /\ PromotionWhole'
<1> USE DEF Held
<1>1. CASE Frozen
  <2>1. \A S : Covers(S)' <=> Covers(S)
    BY <1>1, FrozenStays DEF Covers
  <2> QED BY <2>1, FrozenStays DEF CompactionWhole, PromotionWhole, Compacts, Is
<1>2. CASE ~Frozen
  <2>1. staging.entries = {} /\ proc["operator"].pc \notin Compacts
    BY <1>2 DEF Frozen, EmptyStaging, Compacts
  <2>2. staging'.entries = {} /\ proc'["operator"].pc \notin Compacts
    BY <2>1
  <2> QED BY <2>2 DEF CompactionWhole, PromotionWhole, Compacts, Is
<1> QED BY <1>1, <1>2

LEMMA WholeQuiet ==
    ASSUME Ground, Safe, Held, [Next]_vars,
           \/ UNCHANGED vars \/ CrawlBegins \/ CrawlEnds \/ \E p \in {"worker", "operator"} : Indexing(p)
           \/ VerifyReads \/ Verifying \/ ReplayByHand \/ ReconcileChecks
           \/ \E p \in {"operator", "timer"} : Replaying(p) \/ Kill(p)
    PROVE  CompactionWhole' /\ PromotionWhole'
<1>1. UNCHANGED <<staging, promoted, rollback>>
  BY DEF vars, stages, CrawlBegins, CrawlEnds, Indexing, IndexBegins, IndexDiscovers, IndexCommits,
         VerifyReads, Verifying, VerifyEnds, QuarantineMoves, QuarantineEnds, ReplayByHand, ReconcileChecks,
         Replaying, Unlink, Link, Reindex, Mark, Kill
<1>2. UNCHANGED dir \/ \E p \in {"worker", "operator"} : IndexBegins(p)
  BY DEF vars, files, CrawlBegins, CrawlEnds, Indexing, IndexDiscovers, IndexCommits,
         VerifyReads, Verifying, VerifyEnds, QuarantineMoves, QuarantineEnds, ReplayByHand, ReconcileChecks,
         Replaying, Unlink, Link, Reindex, Mark, Kill
<1>3. UNCHANGED proc["operator"] \/ proc'["operator"].pc \notin Compacts
  BY QuietMoves
<1>4. UNCHANGED <<dir, proc["operator"]>> \/ proc'["operator"].pc \notin Compacts
  <2>1. ASSUME IndexBegins("operator") PROVE proc'["operator"].pc \notin Compacts
    BY <2>1, GotoLocal DEF IndexBegins, Procs, Places, Compacts
  <2>2. ASSUME IndexBegins("worker") PROVE proc["operator"].pc \notin Compacts
    BY <2>2, FrozenStays DEF Frozen, Compacts
  <2> QED BY <1>2, <1>3, <2>1, <2>2
<1>5. due => due' \/ proc["operator"].pc # "land"
  BY DEF vars, CrawlBegins, CrawlEnds, Indexing, IndexBegins, IndexDiscovers, IndexCommits,
         VerifyReads, Verifying, VerifyEnds, QuarantineMoves, QuarantineEnds, ReplayByHand, ReconcileChecks,
         Replaying, Unlink, Link, Reindex, Mark, Kill, Is
<1> QED BY <1>1, <1>4, <1>5, WholeKept

\* --limit-warcs aside, compaction selects all WARCs.
LEMMA SelectsAll == ASSUME Ground PROVE Selected(2 * N) = Discovered
<1> SUFFICES ASSUME NEW p \in Discovered PROVE Rank(Discovered, p) <= 2 * N
  BY DEF Selected
<1> DEFINE S == {q \in Discovered : Before(q, p)}
           k == Key(p)
<1>1. Discovered \subseteq Path /\ p \in Path
  BY DEF Discovered
<1>2. k \in 1..2 * N
  BY <1>1, KeyOrders
<1>3. \A q \in S : q \in Path /\ q # p /\ Key(q) \in 1..k - 1
  <2> SUFFICES ASSUME NEW q \in Discovered, Before(q, p)
               PROVE  q \in Path /\ q # p /\ Key(q) \in 1..k - 1
    OBVIOUS
  <2>1. q # p
    BY <1>1, Bounds DEF Before, Path, Warcs
  <2> QED BY <1>1, <1>2, <2>1, KeyOrders, Bounds
<1>4. \A q, r \in S : Key(q) = Key(r) => q = r
  BY <1>3, KeyOrders
<1> HIDE DEF S, k
<1>5. [q \in S |-> Key(q)] \in Injection(S, 1..k - 1)
  <2> DEFINE f == [q \in S |-> Key(q)]
  <2>1. f \in [S -> 1..k - 1]
    BY <1>3
  <2>2. \A q, r \in S : f[q] = f[r] => q = r
    BY <1>4
  <2> HIDE DEF f
  <2>3. f \in Injection(S, 1..k - 1)
    BY <2>1, <2>2 DEF Injection, IsInjective
  <2> QED BY <2>3 DEF f
<1>6. IsFiniteSet(1..k - 1) /\ Cardinality(1..k - 1) = k - 1
  BY <1>2, Bounds, FS_Interval
<1>7. Cardinality(S) <= k - 1 /\ Cardinality(S) \in Nat
  BY <1>5, <1>6, FS_Injection, FS_CardinalityType
<1>8. Rank(Discovered, p) = 1 + Cardinality(S)
  BY DEF Rank, S
<1> QED BY <1>2, <1>7, <1>8, Bounds

LEMMA DiscoveredCovers == ASSUME Ground, Safe PROVE Covers(Discovered)
<1> SUFFICES ASSUME NEW w \in Good PROVE \E q \in Discovered : q.warc = w
  BY DEF Covers
<1>1. w \in temp /\ w \in Warcs
  BY Bounds DEF Safe, CapturesKept, Good, Ground, FilesTyped, Warcs
<1> DEFINE there == [warc |-> w, at |-> IF live[w] # {} THEN "live" ELSE "temp"]
<1>2. there \in Path /\ there.warc = w /\ Exists(there) /\ (there.at = "temp" => live[w] = {})
  BY <1>1 DEF Path, Exists, Content, Records
<1> QED BY <1>2 DEF Discovered

LEMMA WholeCompact ==
    ASSUME Ground, Safe, Held, Limits = {}, [Next]_vars, CompactReads \/ Compacting
    PROVE  CompactionWhole' /\ PromotionWhole'
<1> USE DEF Held, Procs, Places
<1>1. CASE CompactReads
  <2>1. Start("operator", "compact", Discovered) /\ staging' = EmptyStaging /\ UNCHANGED <<made, bad>>
    BY <1>1, SelectsAll DEF CompactReads, files
  <2>2. proc'["operator"].pc = "compact" /\ proc'["operator"].todo = Discovered /\ proc'["operator"].all = Discovered
    BY <2>1, StartLocal, FoundKnown DEF Ground
  <2>3. \A w \in Good' : \E q \in proc'["operator"].all : q.warc = w
    BY <2>1, <2>2, DiscoveredCovers DEF Covers, Good
  <2>4. staging'.entries = {}
    BY <2>1 DEF EmptyStaging
  <2> QED BY <2>2, <2>3, <2>4 DEF CompactionWhole, PromotionWhole, Covers, Is
<1> DEFINE own == proc["operator"]
<1>2. CASE Compacting
  <2>1. own.pc \in {"compact", "report"} /\ UNCHANGED <<promoted, rollback, dir>>
    BY <1>2 DEF Compacting, CompactOne, CompactManifest, CompactReport, Is, files
  <2>2. \A S : Covers(S)' <=> Covers(S)
    BY <2>1, FrozenStays DEF Covers, Frozen
  <2>3. ASSUME proc'["operator"].pc \in {"idle", "report"}, staging'.entries = {} \/ Covers(staging'.entries)
        PROVE  CompactionWhole' /\ PromotionWhole'
    BY <2>2, <2>3 DEF CompactionWhole, PromotionWhole, Is
  <2>4. CASE CompactOne
    <3>1. CASE UNCHANGED staging /\ Return("operator")
      BY <2>3, <3>1, ReturnLocal DEF CompactionWhole
    <3>2. CASE /\ staging' = [staging EXCEPT !.files = staging.files \cup {Compacted}]
               /\ proc' = [proc EXCEPT !["operator"].todo = proc["operator"].todo \ {Compacted.path}]
               /\ Exists(Compacted.path) /\ Compacted.path.warc \notin bad
      <4>1. staging'.files = staging.files \cup {Compacted} /\ staging'.entries = staging.entries
        BY <3>2 DEF Ground, StagingTyped
      <4>2. /\ proc'["operator"].pc = "compact" /\ proc'["operator"].all = own.all
            /\ proc'["operator"].todo = own.todo \ {Compacted.path}
        <5>1. Done("operator", Compacted.path)
          BY <3>2 DEF Done
        <5> QED BY <2>4, <5>1, DoneLocal DEF CompactOne, Is
      <4>3. \A q \in own.all : q \in own.todo \/ \E f \in staging.files : f.path = q
        BY <2>4 DEF CompactOne, CompactionWhole
      <4>4. \A q \in own.all : q \in proc'["operator"].todo \/ \E f \in staging'.files : f.path = q
        BY <4>1, <4>2, <4>3
      <4> QED BY <2>2, <2>4, <4>1, <4>2, <4>4 DEF CompactOne, CompactionWhole, PromotionWhole, Is
    <3> QED BY <2>4, <3>1, <3>2, CompactEffect
  <2>5. CASE CompactManifest
    <3>1. staging'.entries = {f.path : f \in staging.files} /\ Is("operator", "compact") /\ own.todo = {}
      BY <2>5 DEF CompactManifest, Ground, StagingTyped
    <3>2. Covers(staging'.entries)
      BY <3>1 DEF CompactionWhole, Covers
    <3> QED BY <2>3, <2>5, <3>2, GotoLocal DEF CompactManifest
  <2>6. CASE CompactReport
    <3>1. staging'.entries = staging.entries
      BY <2>6 DEF CompactReport, Ground, StagingTyped
    <3> QED BY <2>3, <2>6, <3>1, ReturnLocal DEF CompactReport, CompactionWhole
  <2> QED BY <1>2, <2>4, <2>5, <2>6 DEF Compacting
<1> QED BY <1>1, <1>2

LEMMA WholePromote ==
    ASSUME Ground, Safe, Held, [Next]_vars, PromoteBegins \/ Promoting \/ LandFails
    PROVE  CompactionWhole' /\ PromotionWhole'
<1> USE DEF Held, Procs, Places
<1> DEFINE own == proc["operator"]
<1>1. Frozen
  BY DEF Frozen, PromoteBegins, Promotable, Promoting, PromoteStages, PromoteManifest, Retire, Land, LandFails, Is,
         EmptyStaging
<1>2. \A S : Covers(S)' <=> Covers(S)
  BY <1>1, FrozenStays DEF Covers
<1>3. CASE PromoteBegins
  <2>1. /\ Start("operator", "promote", staging.entries) /\ staging.entries \subseteq Known /\ staging.entries # {}
        /\ UNCHANGED <<staging, dir, rollback>> /\ dir /\ rollback = Nothing
    BY <1>3 DEF PromoteBegins, Promotable, stages, files, Ground, StagingTyped
  <2>2. /\ proc'["operator"].pc = "promote"
        /\ proc'["operator"].all = staging.entries /\ proc'["operator"].todo = staging.entries
    BY <2>1, StartLocal
  <2> QED BY <1>2, <2>1, <2>2 DEF CompactionWhole, PromotionWhole, Is
<1>4. CASE PromoteStages
  <2>1. /\ own.pc = "promote" /\ UNCHANGED <<dir, rollback>> /\ staging'.entries = staging.entries
    BY <1>4, PromoteEffect DEF PromoteStages, files, Is, Ground, StagingTyped
  <2>2. /\ proc'["operator"].pc = "promote" /\ proc'["operator"].all = own.all
        /\ proc'["operator"].todo = own.todo \ {Staged.path}
    <3>1. Done("operator", Staged.path)
      BY <1>4, PromoteEffect DEF Done
    <3> QED BY <2>1, <3>1, DoneLocal
  <2>3. Staged.has # {}
    BY <1>4, StagedFound DEF Safe, CapturesKept
  <2>4. \A w \in Warcs : promoted'[w] = IF w = Staged.path.warc THEN Staged.has ELSE promoted[w]
    BY <1>4, PromoteEffect, StagedFound DEF Ground, FilesTyped
  <2>5. \A q \in own.all : q.warc \in Warcs
    BY Bounds DEF Ground, ProcsTyped, Local, Known, FilesTyped, Warcs
  <2>6. \A q \in own.all : q \in own.todo \/ promoted[q.warc] # {}
    BY <2>1 DEF PromotionWhole
  <2>7. \A q \in own.all : q \in proc'["operator"].todo \/ promoted'[q.warc] # {}
    BY <2>2, <2>3, <2>4, <2>5, <2>6
  <2> QED BY <1>2, <2>1, <2>2, <2>7 DEF CompactionWhole, PromotionWhole, Is
<1>5. CASE PromoteManifest
  <2>1. /\ own.pc = "promote" /\ own.todo = {} /\ staging'.entries = {}
        /\ UNCHANGED <<dir, rollback, promoted>> /\ Goto("operator", "retire")
    BY <1>5 DEF PromoteManifest, files, Is, Ground, StagingTyped
  <2>2. proc'["operator"].pc = "retire" /\ proc'["operator"].all = own.all /\ proc'["operator"].todo = {}
    BY <2>1, GotoLocal
  <2> QED BY <1>2, <2>1, <2>2 DEF CompactionWhole, PromotionWhole, Is
<1>6. CASE Retire
  <2>1. /\ own.pc = "retire" /\ UNCHANGED <<staging, promoted>> /\ dir' = FALSE /\ due' = TRUE
        /\ Goto("operator", "land")
    BY <1>6 DEF Retire, Is
  <2>2. proc'["operator"].pc = "land" /\ proc'["operator"].all = own.all /\ proc'["operator"].todo = own.todo
    BY <2>1, GotoLocal
  <2> QED BY <1>2, <2>1, <2>2 DEF CompactionWhole, PromotionWhole, Is
<1>7. CASE Land \/ LandFails
  <2>1. UNCHANGED staging /\ proc'["operator"].pc = "idle"
    BY <1>7, ReturnLocal DEF Land, LandFails
  <2> QED BY <1>2, <2>1 DEF CompactionWhole, PromotionWhole, Is
<1> QED BY <1>3, <1>4, <1>5, <1>6, <1>7 DEF Promoting

\* What a promotion is about to put in place.
LEMMA AllPromoted ==
    ASSUME Held, proc["operator"].pc \in {"retire", "land"}
    PROVE  /\ \A w \in Good : promoted[w] # {}
           /\ Is("operator", "land") => ~dir
BY DEF Held, PromotionWhole, Covers

LEMMA RowsHeldStep == ASSUME Ground, Safe, Held, [Next]_vars PROVE RowsHeld'
<1> USE DEF Held
<1>1. Good \subseteq Good' /\ \A p \in rows : p.warc \in Warcs /\ p.at \in {"temp", "live"}
  <2>1. Good \subseteq Good'
    <3>1. CASE CrawlEnds
      BY <3>1, Bounds DEF CrawlEnds, Good, Ground, FilesTyped
    <3>2. CASE ~CrawlEnds
      BY <3>2, StepFiles DEF FileSteps, FilesStay, files, IndexBegins, QuarantineMoves, PromoteStages, Retire, Land,
           LandFails, Good
    <3> QED BY <3>1, <3>2
  <2> QED BY <2>1, Bounds DEF Ground, TablesTyped, Known, FilesTyped, Warcs
<1>2. ASSUME UNCHANGED rows,
             \A w \in Good : live[w] # {} => \/ live'[w] # {}
                                             \/ ~dir' /\ rollback'[w] # {} /\ promoted'[w] # {},
             \A w \in Good : ~dir /\ rollback[w] # {} /\ promoted[w] # {} =>
                 \/ live'[w] # {}
                 \/ ~dir' /\ rollback'[w] # {} /\ promoted'[w] # {}
      PROVE  RowsHeld'
  BY <1>1, <1>2 DEF RowsHeld
<1>3. CASE \E p \in {"worker", "operator"} : IndexCommits(p)
  <2>1. PICK p \in {"worker", "operator"} : IndexCommits(p)
    BY <1>3
  <2>2. proc[p].todo \subseteq Known /\ rows' \subseteq {q \in proc[p].todo : Exists(q)} /\ UNCHANGED <<files, promoted, rollback>>
    BY <2>1 DEF IndexCommits, stages, Ground, ProcsTyped, Local, Procs
  <2>3. \A q \in rows' : q.warc \in Good /\ Exists(q) /\ q.at \in {"temp", "live"}
    BY <2>1, <2>2 DEF IndexCommits, Safe, InHand, Known, Good
  <2>4. \A q \in rows' : q.at = "live" => live[q.warc] # {}
    BY <2>3 DEF Exists, Content
  <2>5. Good' = Good
    BY <2>2 DEF Good, files
  <2> QED BY <2>2, <2>3, <2>4, <2>5 DEF RowsHeld, files
<1>4. ~(\E p \in {"worker", "operator"} : IndexCommits(p)) => UNCHANGED rows
  BY DEF Next, vars, db, CrawlBegins, CrawlEnds, Indexing, IndexBegins, IndexDiscovers, VerifyReads,
         Verifying, VerifyEnds, QuarantineMoves, QuarantineEnds, CompactReads, Compacting, CompactOne,
         CompactManifest, CompactReport, PromoteBegins, Promoting, PromoteStages, PromoteManifest, Retire, Land,
         LandFails, ReplayByHand, ReconcileChecks, Replaying, Unlink, Link, Reindex, Mark, Kill
<1>5. CASE UNCHANGED rows
  <2>1. Good \subseteq Warcs /\ \A w \in Warcs : Nothing[w] = {}
    BY Bounds DEF Good, Ground, FilesTyped, Warcs, Nothing
  <2>2. CASE FilesStay \/ CrawlEnds
    BY <1>2, <1>5, <2>2 DEF FilesStay, files, CrawlEnds, stages
  <2>3. ASSUME NEW p \in {"worker", "operator"}, IndexBegins(p) PROVE RowsHeld'
    <3>1. \A w \in Good : w \in temp /\ w \in Warcs
      BY <2>1 DEF Safe, CapturesKept
    <3>2. UNCHANGED <<promoted, rollback>> /\ (UNCHANGED <<live, dir>> \/ live' = Linked)
      BY <2>3 DEF IndexBegins, Consolidates, Linked, stages
    <3>3. \A w \in Good : Linked[w] # {}
      BY <3>1 DEF Linked, Records
    <3> QED BY <1>2, <1>5, <3>2, <3>3
  <2>4. CASE QuarantineMoves
    <3>1. /\ UNCHANGED <<dir, promoted, rollback>>
          /\ \E q \in proc["operator"].todo : live' = live \/ live' = [live EXCEPT ![q.warc] = {}]
      BY <2>4 DEF QuarantineMoves, stages
    <3>2. \A q \in proc["operator"].todo : q.warc \in bad
      BY <2>4 DEF QuarantineMoves, Safe, InHand
    <3>3. \A w \in Good : live'[w] = live[w]
      BY <2>1, <3>1, <3>2 DEF Good, Ground, FilesTyped
    <3> QED BY <1>2, <1>5, <3>1, <3>3
  <2>5. CASE PromoteStages
    <3>1. UNCHANGED <<live, dir, rollback>> /\ promoted' = [promoted EXCEPT ![Staged.path.warc] = Staged.has]
      BY <2>5, PromoteEffect DEF PromoteStages, files
    <3>2. Staged.has # {}
      BY <2>5, StagedFound DEF Safe, CapturesKept
    <3>3. \A w \in Warcs : promoted[w] # {} => promoted'[w] # {}
      BY <3>1, <3>2 DEF Ground, FilesTyped
    <3> QED BY <1>2, <1>5, <2>1, <3>1, <3>3
  <2>6. CASE Retire
    <3>1. rollback' = live /\ dir' = FALSE /\ UNCHANGED promoted /\ dir
      BY <2>6 DEF Retire, PromotionWhole, Is
    <3>2. \A w \in Good : promoted[w] # {}
      BY <2>6, AllPromoted DEF Retire, Is
    <3> QED BY <1>2, <1>5, <3>1, <3>2
  <2>7. CASE Land \/ LandFails
    <3>1. ~dir /\ proc["operator"].pc = "land" /\ (live' = promoted \/ live' = rollback)
      BY <2>7 DEF Land, LandFails, Is
    <3>2. \A w \in Good : live[w] = {}
      BY <2>1, <3>1 DEF Ground, FilesTyped
    <3> QED BY <1>2, <1>5, <3>1, <3>2
  <2> QED BY <2>2, <2>3, <2>4, <2>5, <2>6, <2>7, StepFiles DEF FileSteps
<1> QED BY <1>3, <1>4, <1>5

LEMMA HeldStep == ASSUME Ground, Safe, Held, Limits = {}, [Next]_vars PROVE Held'
BY WholeQuiet, WholeCompact, WholePromote, RowsHeldStep DEF Next, Held

-----------------------------------------------------------------------------
(* The collection, while one run at a time rebuilds it.                     *)

Placed(w) == live[w] # {} \/ rollback[w] # {}

\* No promotion is between its renames, or was broken off.
Settled == promoted = Nothing \/ proc["operator"].pc \in {"promote", "retire"}

\* The files in warcs/ are still in it, or quarantined, or in the directory that a promotion replaced.
LivePlaced(S) == \A p \in S : p.at = "live" => Placed(p.warc) \/ p.warc \in bad

\* No list of WARCs will be like this one again.
Gone(M) ==
    \/ \E p \in M : p.warc \in bad \/ (p.at = "temp" /\ Placed(p.warc))
    \/ \E w \in Good : \A p \in M : p.warc # w

Obsolete == marker = NoMarker \/ Gone(marker)

\* The links and the index have these WARCs as they are now.
Fits(M) ==
    /\ indexed /\ links # {}
    /\ \A p \in M : p.warc \notin bad =>
         /\ Exists(p)
         /\ \E l \in links, e \in cdx :
               l.target = p /\ e.number = l.number /\ e.warc = p.warc /\ e.has = Content(p)

Runners == {"operator", "timer"}

RunsApart == ~(Runs("operator") /\ Runs("timer")) /\ (Runs("operator") => due)

Settles == Settled => \A w \in Warcs : rollback[w] # {} => live[w] # {}

PathsPlaced ==
    /\ \A p \in Runners : Runs(p) => LivePlaced(proc[p].all) /\ proc[p].all # {}
    /\ marker # NoMarker => LivePlaced(marker)

LinksRight ==
    \A p \in Runners :
        /\ Is(p, "unlink") => proc[p].todo = proc[p].all
        /\ Is(p, "link") => \A q \in proc[p].all : q \in proc[p].todo \/ \E l \in links : l.target = q

RunFits ==
    \A p \in Runners : Settled /\ Is(p, "mark") /\ (p = "operator" \/ ~due) => Fits(proc[p].all)

\* Between runs the marker is out of date, or true.  An operator's run need not write its
\* marker, so what it rebuilds has to have all that the old one names.
MarkerRight ==
    /\ Settled /\ ~due => Obsolete \/ (~Runs("timer") /\ Fits(marker))
    /\ Settled /\ Runs("operator") => Obsolete \/ \A p \in marker : p.warc \in bad \/ p \in proc["operator"].all

Collected == RunsApart /\ Settles /\ PathsPlaced /\ LinksRight /\ RunFits /\ MarkerRight

\* Where a run comes from.
LEMMA RunSteps ==
    ASSUME Ground, NEW p \in Runners, [Next]_vars, Runs(p)'
    PROVE  \/ UNCHANGED proc[p]
           \/ Unlink(p) \/ Link(p) \/ Reindex(p)
           \/ p = "operator" /\ ReplayByHand
           \/ p = "timer" /\ ReconcileChecks
<1> USE DEF Runners, Runs, Procs
<1>1. CASE UNCHANGED vars
  BY <1>1 DEF vars
<1>2. CASE CrawlBegins \/ CrawlEnds \/ Indexing("worker")
  BY <1>2, WorkerMoves DEF Moves
<1>3. CASE \/ Indexing("operator") \/ VerifyReads \/ Verifying \/ CompactReads \/ Compacting
           \/ PromoteBegins \/ Promoting \/ LandFails
  BY <1>3, CommandMoves DEF Moves, CommandPlaces
<1>4. ASSUME NEW r \in Runners, Replaying(r) \/ Kill(r)
      PROVE  UNCHANGED proc[p] \/ Unlink(p) \/ Link(p) \/ Reindex(p)
  <2>1. CASE r # p
    BY <1>4, <2>1, ReplayMoves DEF Moves
  <2>2. CASE r = p
    <3>1. ~Mark(p) /\ ~Kill(p)
      BY ReturnLocal DEF Mark, Kill
    <3> QED BY <1>4, <2>2, <3>1 DEF Replaying
  <2> QED BY <2>1, <2>2
<1>5. CASE ReplayByHand
  BY <1>5, ByHandMoves DEF Moves
<1>6. CASE ReconcileChecks
  BY <1>6, TimerChecks DEF Moves
<1> QED BY <1>1, <1>2, <1>3, <1>4, <1>5, <1>6 DEF Next

\* What a run has in hand then.
LEMMA RunMoves ==
    ASSUME Ground, NEW p \in Runners, [Next]_vars, Runs(p)'
    PROVE  \/ UNCHANGED proc[p]
           \/ Unlink(p) /\ Is(p, "link")' /\ proc'[p].todo = proc[p].todo /\ proc'[p].all = proc[p].all
           \/ Link(p) /\ ~Return(p) /\ Is(p, "link")' /\ proc'[p].todo = proc[p].todo \ {NewLink(p).target}
                /\ proc'[p].all = proc[p].all
           \/ Reindex(p) /\ Is(p, "mark")' /\ proc'[p].all = proc[p].all
           \/ /\ \/ p = "operator" /\ ReplayByHand
                 \/ p = "timer" /\ ReconcileChecks
              /\ Is(p, "unlink")' /\ proc'[p].todo = Discovered /\ proc'[p].all = Discovered
<1> USE DEF Runners, Procs, Places, Is
<1>1. CASE Unlink(p)
  BY <1>1, GotoLocal DEF Unlink
<1>2. CASE Link(p)
  <2>1. ~Return(p)
    BY ReturnLocal DEF Runs
  <2> QED BY <1>2, <2>1, LinkLocal
<1>3. CASE Reindex(p)
  BY <1>3, GotoLocal DEF Reindex
<1>4. CASE (p = "operator" /\ ReplayByHand) \/ (p = "timer" /\ ReconcileChecks)
  BY <1>4, StartLocal, FoundKnown DEF ReplayByHand, ReconcileChecks, Ground
<1> QED BY <1>1, <1>2, <1>3, <1>4, RunSteps

\* One run at a time touches the collection.
LEMMA OwnCollection ==
    ASSUME Ground, RunsApart, NEW p \in Runners, Runs(p), [Next]_vars, ~Replaying(p)
    PROVE  UNCHANGED collection
<1> SUFFICES ASSUME NEW r \in Runners, Replaying(r) PROVE r = p
  BY StepCollection DEF CollectionSteps, Replaying, Runners
<1>1. Runs(r)
  BY DEF Replaying, Unlink, Link, Reindex, Mark, Runs, Is
<1> QED BY <1>1 DEF RunsApart, Runners

\* An operator owes no run any more once he has written a marker.
LEMMA DueKept == ASSUME [Next]_vars, ~Mark("operator"), due \in BOOLEAN PROVE due => due'
BY DEF Next, vars, CrawlBegins, CrawlEnds, Indexing, IndexBegins, IndexDiscovers, IndexCommits,
       VerifyReads, Verifying, VerifyEnds, QuarantineMoves, QuarantineEnds, CompactReads, Compacting, CompactOne,
       CompactManifest, CompactReport, PromoteBegins, Promoting, PromoteStages, PromoteManifest, Retire, Land,
       LandFails, ReplayByHand, ReconcileChecks, Replaying, Unlink, Link, Reindex, Mark, Kill

\* Between the renames something is promoted.
LEMMA Between ==
    ASSUME Ground, Held, proc["operator"].pc \in {"retire", "land"}
    PROVE  promoted # Nothing
<1>1. PICK q \in proc["operator"].all : promoted[q.warc] # {}
  BY DEF Held, PromotionWhole
<1>2. q.warc \in Warcs
  BY Bounds DEF Ground, ProcsTyped, Local, Procs, Known, FilesTyped, Warcs
<1> QED BY <1>1, <1>2 DEF Nothing

\* Only the second rename settles what was not.
LEMMA SettledSteps ==
    ASSUME Ground, Safe, Held, [Next]_vars, Settled', ~Land
    PROVE  Settled /\ ~Retire /\ ~LandFails
<1> USE DEF Procs
<1>1. ~Retire /\ ~LandFails
  <2>1. ASSUME Retire PROVE FALSE
    <3>1. promoted # Nothing
      BY <2>1, Between DEF Retire, Is
    <3>2. promoted' = promoted /\ proc'["operator"].pc = "land"
      BY <2>1, GotoLocal DEF Retire, Places
    <3> QED BY <3>1, <3>2 DEF Settled
  <2>2. ASSUME LandFails PROVE FALSE
    <3>1. promoted # Nothing
      BY <2>2, Between DEF LandFails, Is
    <3>2. promoted' = promoted /\ proc'["operator"].pc = "idle"
      BY <2>2, ReturnLocal DEF LandFails
    <3> QED BY <3>1, <3>2 DEF Settled
  <2> QED BY <2>1, <2>2
<1>2. ASSUME UNCHANGED promoted, proc'["operator"].pc \in {"promote", "retire"} => Settled
      PROVE  Settled
  BY <1>2 DEF Settled
<1>3. CASE PromoteStages \/ PromoteManifest \/ PromoteBegins
  BY <1>1, <1>3 DEF PromoteStages, PromoteManifest, PromoteBegins, Promotable, Settled, Is
<1>4. CASE CompactReads \/ Compacting
  <2>1. UNCHANGED promoted
    BY <1>4 DEF CompactReads, Compacting, CompactOne, CompactManifest, CompactReport
  <2>2. proc'["operator"].pc \in {"idle", "compact", "report"}
    <3> USE DEF Places
    <3>1. CASE CompactReads
      <4>1. \A n : Selected(n) \in SUBSET Known
        BY FoundKnown DEF Selected, Ground
      <4> QED BY <3>1, <4>1, StartLocal DEF CompactReads
    <3>2. CASE CompactOne
      BY <3>2, DoneLocal, ReturnLocal DEF CompactOne, Is
    <3>3. CASE CompactManifest
      BY <3>3, GotoLocal DEF CompactManifest
    <3>4. CASE CompactReport
      BY <3>4, ReturnLocal DEF CompactReport
    <3> QED BY <1>4, <3>1, <3>2, <3>3, <3>4 DEF Compacting
  <2> QED BY <1>1, <1>2, <2>1, <2>2
<1> DEFINE Else == \/ UNCHANGED vars \/ CrawlBegins \/ CrawlEnds \/ \E p \in {"worker", "operator"} : Indexing(p)
                   \/ VerifyReads \/ Verifying \/ ReplayByHand \/ ReconcileChecks
                   \/ \E p \in {"operator", "timer"} : Replaying(p) \/ Kill(p)
<1>5. CASE Else
  <2>1. UNCHANGED promoted
    BY <1>5 DEF vars, stages, CrawlBegins, CrawlEnds, Indexing, IndexBegins, IndexDiscovers, IndexCommits,
         VerifyReads, Verifying, VerifyEnds, QuarantineMoves, QuarantineEnds, ReplayByHand, ReconcileChecks,
         Replaying, Unlink, Link, Reindex, Mark, Kill
  <2>2. UNCHANGED proc["operator"] \/ proc'["operator"].pc \notin Compacts
    BY <1>5, QuietMoves
  <2> QED BY <1>1, <1>2, <2>1, <2>2 DEF Settled, Compacts
<1> HIDE DEF Else
<1> QED BY <1>1, <1>3, <1>4, <1>5 DEF Next, Promoting, Else

\* A file that was placed stays so, or is quarantined.
LEMMA PlacedStays ==
    ASSUME Ground, Safe, Held, [Next]_vars, NEW w \in Warcs, Placed(w) \/ w \in bad
    PROVE  Placed(w)' \/ w \in bad'
<1> USE DEF Placed
<1>1. bad \subseteq bad' /\ Nothing[w] = {}
  BY StepFiles DEF FileSteps, FilesStay, files, CrawlEnds, IndexBegins, QuarantineMoves, PromoteStages, Retire, Land,
       LandFails, Nothing
<1>2. CASE FilesStay \/ CrawlEnds \/ PromoteStages
  BY <1>1, <1>2 DEF FilesStay, files, CrawlEnds, stages, PromoteStages
<1>3. ASSUME NEW p \in {"worker", "operator"}, IndexBegins(p) PROVE Placed(w)' \/ w \in bad'
  BY <1>1, <1>3 DEF IndexBegins, Consolidates, stages
<1>4. CASE QuarantineMoves
  <2>1. UNCHANGED rollback /\ \E q \in proc["operator"].todo : live' = live \/ live' = [live EXCEPT ![q.warc] = {}]
    BY <1>4 DEF QuarantineMoves, stages
  <2>2. \A q \in proc["operator"].todo : q.warc \in bad
    BY <1>4 DEF QuarantineMoves, Safe, InHand
  <2> QED BY <1>1, <2>1, <2>2 DEF Ground, FilesTyped
<1>5. CASE Retire
  <2>1. rollback' = live /\ rollback = Nothing
    BY <1>5 DEF Retire, Held, PromotionWhole, Is
  <2> QED BY <1>1, <2>1
<1>6. CASE Land \/ LandFails
  <2>1. live = Nothing /\ (UNCHANGED rollback \/ live' = rollback)
    BY <1>6 DEF Land, LandFails, Ground, FilesTyped
  <2> QED BY <1>1, <2>1
<1> QED BY <1>2, <1>3, <1>4, <1>5, <1>6, StepFiles DEF FileSteps

LEMMA ListStays ==
    ASSUME Ground, Safe, Held, [Next]_vars, NEW M, M \subseteq Known
    PROVE  /\ LivePlaced(M) => LivePlaced(M)'
           /\ Gone(M) => Gone(M)'
<1>1. bad \subseteq bad' /\ Good \subseteq Good'
  <2>1. CASE CrawlEnds
    BY <2>1, Bounds DEF CrawlEnds, Good, Ground, FilesTyped
  <2>2. CASE ~CrawlEnds
    BY <2>2, StepFiles DEF FileSteps, FilesStay, files, IndexBegins, QuarantineMoves, PromoteStages, Retire, Land,
         LandFails, Good
  <2> QED BY <2>1, <2>2
<1>2. \A p \in M : p.warc \in Warcs
  BY Bounds DEF Known, Ground, FilesTyped, Warcs
<1> QED BY <1>1, <1>2, PlacedStays DEF LivePlaced, Gone

\* Links and consolidation add to the files, the quarantine takes damaged ones only.
LEMMA ContentStays ==
    ASSUME Ground, Safe, [Next]_vars, ~Retire, ~Land, ~LandFails, NEW q \in Known, Exists(q), q.warc \notin bad
    PROVE  Content(q)' = Content(q)
<1>1. q.warc \in Warcs /\ q.at \in {"temp", "live"} /\ q.warc \in Good
  BY Bounds DEF Known, Ground, FilesTyped, Warcs, Good
<1>2. /\ q.at = "temp" => Content(q) = (IF q.warc \in temp THEN Records ELSE {})
      /\ q.at = "live" => Content(q) = live[q.warc]
      /\ q.at = "temp" => Content(q)' = (IF q.warc \in temp' THEN Records ELSE {})
      /\ q.at = "live" => Content(q)' = live'[q.warc]
  BY DEF Content
<1>3. ASSUME q.warc \in temp => q.warc \in temp', live[q.warc] # {} => live'[q.warc] = live[q.warc]
      PROVE  Content(q)' = Content(q)
  BY <1>1, <1>2, <1>3 DEF Exists
<1>4. CASE FilesStay \/ CrawlEnds \/ PromoteStages
  BY <1>3, <1>4 DEF FilesStay, files, CrawlEnds, PromoteStages
<1>5. ASSUME NEW p \in {"worker", "operator"}, IndexBegins(p) PROVE Content(q)' = Content(q)
  BY <1>1, <1>3, <1>5 DEF IndexBegins, Consolidates
<1>6. CASE QuarantineMoves
  <2>1. \E r \in proc["operator"].todo : /\ live' = live \/ live' = [live EXCEPT ![r.warc] = {}]
                                         /\ temp' = temp \/ temp' = temp \ {r.warc}
    BY <1>6 DEF QuarantineMoves
  <2>2. \A r \in proc["operator"].todo : r.warc \in bad
    BY <1>6 DEF QuarantineMoves, Safe, InHand
  <2> QED BY <1>1, <1>3, <2>1, <2>2 DEF Ground, FilesTyped
<1> QED BY <1>4, <1>5, <1>6, StepFiles DEF FileSteps

LEMMA FitsStays ==
    ASSUME Ground, Safe, Held, [Next]_vars, ~Retire, ~Land, ~LandFails, UNCHANGED <<links, cdx, indexed>>,
           NEW M, M \subseteq Known, Fits(M)
    PROVE  Fits(M)'
<1>1. bad \subseteq bad'
  BY StepFiles DEF FileSteps, FilesStay, files, CrawlEnds, IndexBegins, QuarantineMoves, PromoteStages
<1>2. ASSUME NEW p \in M, p.warc \notin bad'
      PROVE  /\ Exists(p)'
             /\ \E l \in links, e \in cdx :
                   l.target = p /\ e.number = l.number /\ e.warc = p.warc /\ e.has = Content(p)'
  <2>1. /\ Exists(p)
        /\ \E l \in links, e \in cdx :
              l.target = p /\ e.number = l.number /\ e.warc = p.warc /\ e.has = Content(p)
    BY <1>1, <1>2 DEF Fits
  <2>2. Content(p)' = Content(p)
    BY <1>1, <1>2, <2>1, ContentStays
  <2>3. Exists(p)'
    BY <2>1, <2>2 DEF Exists
  <2> QED BY <2>1, <2>2, <2>3
<1> QED BY <1>2 DEF Fits

LEMMA SettlesStep == ASSUME Ground, Safe, Held, Settles, [Next]_vars PROVE Settles'
<1> SUFFICES ASSUME Settled', NEW w \in Warcs, rollback'[w] # {} PROVE live'[w] # {}
  BY DEF Settles
<1>1. CASE Land
  <2>1. w \in Good
    BY <1>1 DEF Land, Ground, FilesMade, Safe, CapturesKept, Good
  <2> QED BY <1>1, <2>1, AllPromoted DEF Land, Is
<1>2. CASE ~Land
  <2>1. Settled /\ ~Retire /\ ~LandFails
    BY <1>2, SettledSteps
  <2>2. UNCHANGED rollback
    BY <1>2, <2>1, StepFiles DEF FileSteps, FilesStay, CrawlEnds, IndexBegins, QuarantineMoves, PromoteStages, stages
  <2>3. live[w] # {}
    BY <2>1, <2>2 DEF Settles
  <2>4. CASE FilesStay \/ CrawlEnds \/ PromoteStages
    BY <2>3, <2>4 DEF FilesStay, files, CrawlEnds, PromoteStages
  <2>5. ASSUME NEW p \in {"worker", "operator"}, IndexBegins(p) PROVE live'[w] # {}
    BY <2>3, <2>5 DEF IndexBegins, Consolidates
  <2>6. CASE QuarantineMoves
    BY <2>2, <2>6 DEF QuarantineMoves, Safe, StatusHeld, Frozen, Nothing
  <2> QED BY <1>2, <2>1, <2>4, <2>5, <2>6, StepFiles DEF FileSteps
<1> QED BY <1>1, <1>2

LEMMA RunsApartStep ==
    ASSUME Ground, RunsApart, TimerStopped = TRUE, [Next]_vars
    PROVE  RunsApart'
<1> USE DEF Procs, Runners, Places
<1>1. ASSUME Runs("operator")' PROVE due'
  <2>1. CASE ReplayByHand
    BY <2>1 DEF ReplayByHand
  <2>2. CASE ~ReplayByHand
    <3>1. Runs("operator")
      BY <1>1, <2>2, RunSteps DEF Runs, Unlink, Link, Reindex, Is
    <3>2. ~Mark("operator")
      BY <1>1, ReturnLocal DEF Mark, Runs
    <3> QED BY <3>1, <3>2, DueKept DEF RunsApart, Ground, CollectionTyped
  <2> QED BY <2>1, <2>2
<1>2. ASSUME Runs("operator")', Runs("timer")' PROVE FALSE
  <2>1. CASE ReplayByHand
    BY <1>2, <2>1, ByHandMoves DEF ReplayByHand, Moves, Runs, Is
  <2>2. CASE ~ReplayByHand
    <3>1. Runs("operator")
      BY <1>2, <2>2, RunSteps DEF Runs, Unlink, Link, Reindex, Is
    <3>2. ~ReconcileChecks
      BY <3>1 DEF ReconcileChecks
    <3>3. Runs("timer")
      BY <1>2, <3>2, RunSteps DEF Runs, Unlink, Link, Reindex, Is
    <3> QED BY <3>1, <3>3 DEF RunsApart
  <2> QED BY <2>1, <2>2
<1> QED BY <1>1, <1>2 DEF RunsApart

LEMMA DiscoveredPlaced == LivePlaced(Discovered)
BY DEF LivePlaced, Discovered, Exists, Content, Placed

LEMMA PathsPlacedStep == ASSUME Ground, Safe, Held, PathsPlaced, [Next]_vars PROVE PathsPlaced'
<1>1. Discovered \subseteq Known
  BY FoundKnown DEF Ground
<1>2. \A p \in Runners : proc[p].all \subseteq Known
  BY DEF Ground, ProcsTyped, Local, Procs, Runners
<1>3. ASSUME NEW p \in Runners, Runs(p)' 
      PROVE  /\ \A q \in proc'[p].all : q.at = "live" => Placed(q.warc)' \/ q.warc \in bad'
             /\ proc'[p].all # {}
  <2>1. \/ Runs(p) /\ proc'[p].all = proc[p].all
        \/ proc'[p].all = Discovered /\ Discovered # {}
    BY <1>3, RunMoves DEF ReplayByHand, ReconcileChecks, NeedsReindex, Unlink, Link, Reindex, Runs, Is
  <2>2. CASE Runs(p) /\ proc'[p].all = proc[p].all
    <3>1. LivePlaced(proc[p].all) /\ proc[p].all # {} /\ proc[p].all \subseteq Known
      BY <1>2, <2>2 DEF PathsPlaced
    <3>2. \A q \in proc[p].all : q.warc \in Warcs
      BY <3>1, Bounds DEF Known, Ground, FilesTyped, Warcs
    <3>3. \A q \in proc[p].all : q.at = "live" => Placed(q.warc)' \/ q.warc \in bad'
      BY <3>1, <3>2, PlacedStays DEF LivePlaced
    <3> QED BY <2>2, <3>1, <3>3
  <2>3. CASE proc'[p].all = Discovered /\ Discovered # {}
    <3>1. \A q \in Discovered : q.at = "live" => Placed(q.warc)' \/ q.warc \in bad'
      <4>1. \A q \in Discovered : q.warc \in Warcs
        BY DEF Discovered, Path
      <4> QED BY <4>1, PlacedStays, DiscoveredPlaced DEF LivePlaced
    <3> QED BY <2>3, <3>1
  <2> QED BY <2>1, <2>2, <2>3
<1>4. ASSUME marker' # NoMarker PROVE LivePlaced(marker)'
  <2>1. \/ UNCHANGED marker
        \/ \E p \in Runners : Runs(p) /\ marker' = proc[p].all
    BY StepCollection DEF CollectionSteps, collection, Unlink, Link, Reindex, Mark, Runs, Is, Runners
  <2>2. PICK M \in SUBSET Known : marker' = M /\ LivePlaced(M)
    BY <1>2, <1>4, <2>1 DEF PathsPlaced, Ground, CollectionTyped
  <2>3. \A q \in M : q.warc \in Warcs
    BY Bounds DEF Known, Ground, FilesTyped, Warcs
  <2> QED BY <2>2, <2>3, PlacedStays DEF LivePlaced
<1>5. \A p \in Runners : Runs(p)' => LivePlaced(proc[p].all)' /\ proc'[p].all # {}
  BY <1>3 DEF LivePlaced
<1> QED BY <1>4, <1>5 DEF PathsPlaced

LEMMA LinksRightStep == ASSUME Ground, Safe, RunsApart, LinksRight, [Next]_vars PROVE LinksRight'
<1> SUFFICES ASSUME NEW p \in Runners, Runs(p)'
             PROVE  /\ Is(p, "unlink")' => proc'[p].todo = proc'[p].all
                    /\ Is(p, "link")' => \A q \in proc'[p].all : q \in proc'[p].todo \/ \E l \in links' : l.target = q
  BY DEF LinksRight, Runs, Is
<1> USE DEF Is
<1>1. CASE UNCHANGED proc[p]
  <2>1. Runs(p)
    BY <1>1 DEF Runs
  <2>2. ~Link(p) /\ ~Reindex(p) /\ ~Mark(p)
    <3> USE DEF Runners, Procs, Places
    <3>1. ASSUME Link(p) PROVE FALSE
      <4>1. ~Return(p)
        BY <1>1, <2>1, ReturnLocal DEF Runs
      <4>2. NewLink(p).target \in proc[p].todo /\ proc'[p].todo = proc[p].todo \ {NewLink(p).target}
        BY <3>1, <4>1, LinkEffect, LinkLocal
      <4> QED BY <1>1, <4>2
    <3>2. ASSUME Reindex(p) PROVE FALSE
      BY <1>1, <3>2, GotoLocal DEF Reindex
    <3>3. ASSUME Mark(p) PROVE FALSE
      BY <1>1, <2>1, <3>3, ReturnLocal DEF Mark, Runs
    <3> QED BY <3>1, <3>2, <3>3
  <2>3. ~Replaying(p) => UNCHANGED links
    BY <2>1, OwnCollection DEF collection
  <2> QED BY <1>1, <2>2, <2>3 DEF LinksRight, Replaying, Unlink
<1>2. CASE Unlink(p) /\ Is(p, "link")' /\ proc'[p].todo = proc[p].todo /\ proc'[p].all = proc[p].all
  BY <1>2 DEF LinksRight, Unlink
<1>3. CASE Link(p) /\ ~Return(p) /\ Is(p, "link")' /\ proc'[p].todo = proc[p].todo \ {NewLink(p).target}
             /\ proc'[p].all = proc[p].all
  <2>1. links' = links \cup {NewLink(p)}
    BY <1>3, LinkEffect DEF Runners
  <2>2. \A q \in proc[p].all : q \in proc[p].todo \/ \E l \in links : l.target = q
    BY <1>3 DEF LinksRight, Link
  <2> QED BY <1>3, <2>1, <2>2
<1>4. CASE Reindex(p) /\ Is(p, "mark")' /\ proc'[p].all = proc[p].all
  BY <1>4
<1>5. CASE Is(p, "unlink")' /\ proc'[p].todo = Discovered /\ proc'[p].all = Discovered
  BY <1>5
<1> QED BY <1>1, <1>2, <1>3, <1>4, <1>5, RunMoves

\* What is in hand, and good, is there while nothing is between two places.
LEMMA GoodExists ==
    ASSUME Ground, Safe, Settled, Settles, NEW M, M \subseteq Known, LivePlaced(M), NEW q \in M, q.warc \notin bad
    PROVE  Exists(q)
<1>1. q.warc \in Good /\ q.warc \in Warcs /\ q.at \in {"temp", "live"}
  BY Bounds DEF Known, Good, Ground, FilesTyped, Warcs
<1>2. q.at = "temp" => Content(q) = Records
  BY <1>1 DEF Content, Safe, CapturesKept
<1>3. q.at = "live" => Content(q) = live[q.warc] /\ live[q.warc] # {}
  BY <1>1 DEF Content, LivePlaced, Placed, Settles
<1> QED BY <1>1, <1>2, <1>3 DEF Exists, Records

\* A list of WARCs that is not that of now will not be that of another time.
LEMMA ListGone ==
    ASSUME Ground, Safe, Clean, Settled, Settles, NEW M, M \subseteq Known, LivePlaced(M), M # Discovered
    PROVE  Gone(M)
<1> SUFFICES ASSUME ~Gone(M) PROVE FALSE
  OBVIOUS
<1>1. \A p \in Known : p = [warc |-> p.warc, at |-> p.at] /\ p.at \in {"temp", "live"}
  BY DEF Known
<1>2. ASSUME NEW p \in M PROVE p \in Discovered
  <2>1. p.warc \notin bad /\ (p.at = "temp" => ~Placed(p.warc))
    BY DEF Gone
  <2>2. Exists(p)
    BY <2>1, GoodExists
  <2>3. p \in Path
    BY PathsKnown DEF Ground
  <2> QED BY <2>1, <2>2, <2>3 DEF Discovered, Placed
<1>3. ASSUME NEW q \in Discovered PROVE q \in M
  <2>1. q \in Known /\ q.warc \in 1..made
    BY FoundKnown DEF Ground, Known
  <2>2. q.warc \notin bad
    BY <1>1, <2>1 DEF Clean, Discovered, Exists, Content
  <2>3. PICK p \in M : p.warc = q.warc
    BY <2>1, <2>2 DEF Gone, Good
  <2>4. p \in Discovered /\ p \in Known
    BY <1>2
  <2>5. \A r \in {p, q} : (r.at = "temp" => live[q.warc] = {}) /\ (r.at = "live" => live[q.warc] # {})
    BY <2>3, <2>4 DEF Discovered, Exists, Content
  <2>6. p.at = q.at
    BY <1>1, <2>1, <2>4, <2>5
  <2> QED BY <1>1, <2>1, <2>3, <2>4, <2>6
<1> QED BY <1>2, <1>3

\* While a run has its place, it has not done anything.
LEMMA RunRests ==
    ASSUME Ground, NEW p \in Runners, Is(p, "mark"), UNCHANGED proc[p]
    PROVE  ~Replaying(p)
BY ReturnLocal DEF Replaying, Unlink, Link, Reindex, Mark, Is, Runners, Procs

LEMMA ReindexFits ==
    ASSUME Ground, Safe, Settled, Settles, PathsPlaced, LinksRight, NEW p \in Runners, Reindex(p),
           proc'[p].all = proc[p].all
    PROVE  Fits(proc[p].all)'
<1>1. PICK M \in SUBSET Known : M = proc[p].all
  BY DEF Ground, ProcsTyped, Local, Runners, Procs
<1>2. /\ indexed' /\ links' = links /\ UNCHANGED <<bad, temp, live>>
      /\ \A l \in links : Exists(l.target) =>
             [number |-> l.number, warc |-> l.target.warc, has |-> Content(l.target)] \in cdx'
  BY DEF Reindex, files
<1>3. LivePlaced(M) /\ M # {} /\ \A q \in M : \E l \in links : l.target = q
  BY <1>1 DEF PathsPlaced, LinksRight, Reindex, Runs, Is
<1>4. links' # {}
  BY <1>2, <1>3
<1>5. ASSUME NEW q \in M, q.warc \notin bad'
      PROVE  /\ Exists(q)'
             /\ \E l \in links', e \in cdx' :
                   l.target = q /\ e.number = l.number /\ e.warc = q.warc /\ e.has = Content(q)'
  <2>1. Exists(q)
    BY <1>2, <1>3, <1>5, GoodExists
  <2>2. Content(q)' = Content(q)
    BY <1>2 DEF Content
  <2>3. Exists(q)'
    BY <2>1, <2>2 DEF Exists
  <2>4. PICK l \in links : l.target = q
    BY <1>3
  <2> DEFINE e == [number |-> l.number, warc |-> q.warc, has |-> Content(q)]
  <2>5. e \in cdx' /\ e.number = l.number /\ e.warc = q.warc /\ e.has = Content(q)
    BY <1>2, <2>1, <2>4
  <2> QED BY <1>2, <2>2, <2>3, <2>4, <2>5
<1> QED BY <1>1, <1>2, <1>4, <1>5 DEF Fits

LEMMA RunFitsStep ==
    ASSUME Ground, Safe, Held, Collected, [Next]_vars
    PROVE  RunFits'
<1> SUFFICES ASSUME NEW p \in Runners, Settled', Is(p, "mark")', p = "operator" \/ ~due'
             PROVE  Fits(proc[p].all)'
  BY DEF RunFits
<1> USE DEF Runners, Procs
<1>1. ~Land
  <2>1. ASSUME Land PROVE due' /\ proc'["operator"].pc = "idle"
    BY <2>1, ReturnLocal DEF Land, Held, PromotionWhole
  <2> QED BY <2>1 DEF Is
<1>2. Settled /\ ~Retire /\ ~LandFails
  BY <1>1, SettledSteps
<1>3. CASE UNCHANGED proc[p]
  <2>1. Is(p, "mark") /\ Runs(p)
    BY <1>3 DEF Is, Runs
  <2>2. UNCHANGED collection
    BY <1>3, <2>1, RunRests, OwnCollection DEF Collected
  <2>3. p = "operator" \/ ~due
    <3>1. CASE p = "timer"
      <4>1. ~Mark("operator")
        BY <2>1, <3>1 DEF Collected, RunsApart, Mark, Runs, Is
      <4> QED BY <3>1, <4>1, DueKept DEF Ground, CollectionTyped
    <3> QED BY <3>1
  <2>4. PICK M \in SUBSET Known : M = proc[p].all
    BY DEF Ground, ProcsTyped, Local
  <2>5. Fits(M)
    BY <1>2, <2>1, <2>3, <2>4 DEF Collected, RunFits
  <2>6. Fits(M)'
    BY <1>1, <1>2, <2>2, <2>5, FitsStays DEF collection
  <2> QED BY <1>3, <2>4, <2>6 DEF Fits
<1>4. CASE Reindex(p) /\ proc'[p].all = proc[p].all
  BY <1>2, <1>4, ReindexFits DEF Collected
<1> QED BY <1>3, <1>4, RunMoves DEF Runs, Is

LEMMA ObsoleteStays == ASSUME Ground, Safe, Held, [Next]_vars, Obsolete, UNCHANGED marker PROVE Obsolete'
<1>1. CASE marker = NoMarker
  BY <1>1 DEF Obsolete, NoMarker
<1>2. CASE marker # NoMarker
  <2>1. PICK M \in SUBSET Known : M = marker
    BY <1>2 DEF Ground, CollectionTyped
  <2>2. Gone(M)
    BY <1>2, <2>1 DEF Obsolete
  <2>3. Gone(M)'
    BY <2>2, ListStays
  <2> QED BY <2>1, <2>3 DEF Obsolete, Gone
<1> QED BY <1>1, <1>2

\* Fits(marker), through any list that is the marker's.
LEMMA MarkerFits ==
    ASSUME Ground, Safe, Held, [Next]_vars, ~Retire, ~Land, ~LandFails, UNCHANGED <<links, cdx, indexed>>,
           NEW M, M \subseteq Known, Fits(M), marker' = M
    PROVE  Fits(marker)'
<1>1. Fits(M)'
  BY FitsStays
<1> QED BY <1>1 DEF Fits

LEMMA OwnMark ==
    ASSUME Ground, Safe, Held, Collected, [Next]_vars, ~Retire, ~Land, ~LandFails, Settled, Mark("operator")
    PROVE  Obsolete' \/ (~Runs("timer")' /\ Fits(marker)')
<1> USE DEF Runners, Procs
<1>1. Runs("operator") /\ Is("operator", "mark") /\ UNCHANGED <<links, cdx, indexed>>
      /\ (marker' = proc["operator"].all \/ UNCHANGED marker)
  BY DEF Mark, Runs, Is
<1>2. ~Runs("timer")'
  BY <1>1, ReturnLocal DEF Mark, Collected, RunsApart, Runs
<1>3. PICK M \in SUBSET Known : M = proc["operator"].all
  BY DEF Ground, ProcsTyped, Local
<1>4. Fits(M)
  BY <1>1, <1>3 DEF Collected, RunFits
<1>5. CASE marker' = proc["operator"].all
  BY <1>1, <1>2, <1>3, <1>4, <1>5, MarkerFits
<1>6. CASE UNCHANGED marker /\ ~Obsolete
  <2>1. PICK K \in SUBSET Known : K = marker
    BY <1>6 DEF Ground, CollectionTyped, Obsolete
  <2>2. \A p \in K : p.warc \in bad \/ p \in M
    BY <1>1, <1>3, <1>6, <2>1 DEF Collected, MarkerRight
  <2>3. Fits(K)
    BY <1>4, <2>2 DEF Fits
  <2> QED BY <1>1, <1>2, <1>6, <2>1, <2>3, MarkerFits
<1>7. CASE UNCHANGED marker /\ Obsolete
  BY <1>7, ObsoleteStays
<1> QED BY <1>1, <1>5, <1>6, <1>7

LEMMA TimersMark ==
    ASSUME Ground, Safe, Held, Collected, [Next]_vars, ~Retire, ~Land, ~LandFails, Settled, ~due, Mark("timer")
    PROVE  Obsolete' \/ (~Runs("timer")' /\ Fits(marker)')
<1> USE DEF Runners, Procs
<1>1. Runs("timer") /\ Is("timer", "mark") /\ UNCHANGED <<links, cdx, indexed>>
      /\ (marker' = proc["timer"].all \/ UNCHANGED marker)
  BY DEF Mark, Runs, Is
<1>2. ~Runs("timer")'
  BY ReturnLocal DEF Mark, Runs
<1>3. CASE marker' = proc["timer"].all
  <2>1. PICK M \in SUBSET Known : M = proc["timer"].all
    BY DEF Ground, ProcsTyped, Local
  <2>2. Fits(M)
    BY <1>1, <2>1 DEF Collected, RunFits
  <2> QED BY <1>1, <1>2, <1>3, <2>1, <2>2, MarkerFits
<1>4. CASE UNCHANGED marker
  <2>1. Obsolete
    BY <1>1 DEF Collected, MarkerRight
  <2> QED BY <1>4, <2>1, ObsoleteStays
<1> QED BY <1>1, <1>3, <1>4

\* The timer finds nothing to do as long as the marker is true.
LEMMA NothingToDo ==
    ASSUME Ground, Safe, Collected, Settled, ReconcileChecks, Fits(marker)
    PROVE  Obsolete
<1>1. (Ready /\ marker # Discovered) \/ marker = NoMarker
  BY DEF ReconcileChecks, NeedsReindex, Fits, Ready
<1>2. CASE marker # NoMarker
  <2>1. Clean
    BY DEF ReconcileChecks, Safe, CleanWhenUsed
  <2>2. Settles /\ LivePlaced(marker) /\ marker \subseteq Known
    BY <1>2 DEF Collected, PathsPlaced, Ground, CollectionTyped
  <2> QED BY <1>1, <1>2, <2>1, <2>2, ListGone DEF Obsolete
<1> QED BY <1>2 DEF Obsolete

LEMMA MarkerTrue ==
    ASSUME Ground, Safe, Held, Collected, [Next]_vars, Settled', ~due'
    PROVE  Obsolete' \/ (~Runs("timer")' /\ Fits(marker)')
<1> USE DEF Runners, Procs
<1>1. ~Land
  BY DEF Land, Held, PromotionWhole
<1>2. Settled /\ ~Retire /\ ~LandFails
  BY <1>1, SettledSteps
<1>3. CASE Mark("operator")
  BY <1>1, <1>2, <1>3, OwnMark
<1>4. CASE ~Mark("operator")
  <2>1. ~due /\ ~Runs("operator")
    BY <1>4, DueKept DEF Ground, CollectionTyped, Collected, RunsApart
  <2>2. CASE Mark("timer")
    BY <1>1, <1>2, <2>1, <2>2, TimersMark
  <2>3. CASE ~Mark("timer")
    <3>1. UNCHANGED marker
      BY <1>4, <2>3, StepCollection DEF CollectionSteps, collection, Unlink, Link, Reindex
    <3>2. CASE Obsolete
      BY <3>1, <3>2, ObsoleteStays
    <3>3. CASE ~Obsolete
      <4>1. ~Runs("timer") /\ Fits(marker)
        BY <1>2, <2>1, <3>3 DEF Collected, MarkerRight
      <4>2. UNCHANGED collection
        BY <2>1, <4>1, StepCollection DEF CollectionSteps, Unlink, Link, Reindex, Mark, Runs, Is
      <4>3. ~Runs("timer")'
        <5>1. ~ReconcileChecks
          BY <1>2, <3>3, <4>1, NothingToDo
        <5> QED BY <4>1, <5>1, RunSteps DEF Runs, Unlink, Link, Reindex, Is
      <4>4. PICK K \in SUBSET Known : K = marker
        BY <3>3 DEF Ground, CollectionTyped, Obsolete
      <4> QED BY <1>1, <1>2, <4>1, <4>2, <4>3, <4>4, MarkerFits DEF collection
    <3> QED BY <3>2, <3>3
  <2> QED BY <2>2, <2>3
<1> QED BY <1>3, <1>4

\* What an operator's run has in hand has all that the marker has.
LEMMA OwnRunCovers ==
    ASSUME Ground, Safe, Held, Collected, TimerStopped = TRUE, [Next]_vars, Settled', Runs("operator")'
    PROVE  Obsolete' \/ \A p \in marker' : p.warc \in bad' \/ p \in proc'["operator"].all
<1> USE DEF Runners, Procs
<1>1. ~Land
  BY ReturnLocal DEF Land, Runs
<1>2. Settled /\ ~Retire /\ ~LandFails
  BY <1>1, SettledSteps
<1>3. bad \subseteq bad'
  BY <1>1, <1>2, StepFiles DEF FileSteps, FilesStay, files, CrawlEnds, IndexBegins, QuarantineMoves, PromoteStages
<1>4. UNCHANGED marker
  <2>1. ~Mark("operator")
    BY ReturnLocal DEF Mark, Runs
  <2>2. ~Mark("timer")
    <3>1. ASSUME Mark("timer") PROVE ~Runs("operator")
      BY <3>1 DEF Mark, Collected, RunsApart, Runs, Is
    <3>2. ASSUME Mark("timer") PROVE ~ReplayByHand
      BY <3>2 DEF Mark, ReplayByHand, Is
    <3> QED BY <3>1, <3>2, RunSteps DEF Runs, Unlink, Link, Reindex, Is
  <2> QED BY <2>1, <2>2, StepCollection DEF CollectionSteps, collection, Unlink, Link, Reindex
<1>5. CASE Obsolete
  BY <1>4, <1>5, ObsoleteStays
<1>6. CASE ~Obsolete /\ Runs("operator") /\ proc'["operator"].all = proc["operator"].all
  BY <1>2, <1>3, <1>4, <1>6 DEF Collected, MarkerRight
<1>7. CASE ~Obsolete /\ proc'["operator"].all = Discovered
  <2>1. /\ marker \subseteq Known /\ LivePlaced(marker) /\ Settles
        /\ \A p \in marker : p.warc \notin bad /\ (p.at = "temp" => ~Placed(p.warc))
    BY <1>7 DEF Collected, PathsPlaced, Ground, CollectionTyped, Obsolete, Gone
  <2>2. \A p \in marker : Exists(p) /\ p \in Path
    BY <1>2, <2>1, GoodExists, PathsKnown DEF Ground
  <2>3. \A p \in marker : p \in Discovered
    BY <2>1, <2>2 DEF Discovered, Placed
  <2> QED BY <1>4, <1>7, <2>3
<1>8. \/ Runs("operator") /\ proc'["operator"].all = proc["operator"].all
      \/ proc'["operator"].all = Discovered
  BY RunMoves DEF Unlink, Link, Reindex, Runs, Is
<1> QED BY <1>5, <1>6, <1>7, <1>8

LEMMA CollectedStep ==
    ASSUME Ground, Safe, Held, Collected, TimerStopped = TRUE, [Next]_vars
    PROVE  Collected'
<1>1. MarkerRight'
  BY MarkerTrue, OwnRunCovers DEF MarkerRight
<1>2. RunsApart' /\ Settles' /\ PathsPlaced'
  BY RunsApartStep, SettlesStep, PathsPlacedStep DEF Collected
<1>3. LinksRight' /\ RunFits'
  BY LinksRightStep, RunFitsStep DEF Collected
<1> QED BY <1>1, <1>2, <1>3 DEF Collected

-----------------------------------------------------------------------------
(* The theorem.                                                            *)

LEMMA RestInit == ASSUME Init, NEW p \in Procs PROVE proc[p].pc = "idle"
BY DEF Init, Rest

LEMMA SafeInit == Init => Safe
<1> SUFFICES ASSUME Init PROVE Safe
  OBVIOUS
<1>1. \A p \in Procs : proc[p].pc = "idle"
  BY RestInit
<1>2. CapturesKept
  BY DEF Init, CapturesKept, Good, Nothing, EmptyStaging
<1>3. CleanWhenUsed
  BY DEF Init, CleanWhenUsed, Clean
<1>4. StatusHeld /\ InHand
  BY <1>1 DEF Init, StatusHeld, InHand, Frozen, Is, Procs
<1> QED BY <1>2, <1>3, <1>4 DEF Safe

LEMMA HeldInit == Init => Held
<1> SUFFICES ASSUME Init PROVE Held
  OBVIOUS
<1>1. proc["operator"].pc = "idle"
  BY RestInit DEF Procs
<1>2. CompactionWhole
  BY <1>1 DEF Init, CompactionWhole, Is, EmptyStaging
<1>3. PromotionWhole
  BY <1>1 DEF PromotionWhole, Is
<1>4. RowsHeld
  BY DEF Init, RowsHeld
<1> QED BY <1>2, <1>3, <1>4 DEF Held

LEMMA CollectedInit == Init => Collected
<1> SUFFICES ASSUME Init PROVE Collected
  OBVIOUS
<1>1. \A p \in Runners : proc[p].pc = "idle"
  BY RestInit DEF Procs, Runners
<1>2. RunsApart /\ LinksRight /\ RunFits
  BY <1>1 DEF RunsApart, LinksRight, RunFits, Runs, Is, Runners
<1>3. Settles /\ PathsPlaced /\ MarkerRight
  BY <1>1 DEF Init, Settles, PathsPlaced, MarkerRight, Obsolete, Runs, Nothing, Runners
<1> QED BY <1>2, <1>3 DEF Collected

\* What the snapshots' files hold.
LEMMA RowsRead ==
    ASSUME Ground, Safe, RowsHeld, NEW p \in rows
    PROVE  \/ Raw(p) = "html" /\ Exists(p) /\ p.warc \in Good
           \/ ~dir /\ p.at = "live" /\ "html" \in promoted[p.warc] \cap rollback[p.warc] /\ promoted # Nothing
<1>1. p \in Known /\ p.warc \in Warcs /\ p.at \in {"temp", "live"} /\ p.warc \in Good /\ p.warc \notin bad
  BY Bounds DEF Known, Good, Ground, FilesTyped, TablesTyped, Warcs, RowsHeld
<1>2. CASE p.at = "temp"
  <2>1. Content(p) = Records
    BY <1>1, <1>2 DEF Content, Safe, CapturesKept
  <2> QED BY <1>1, <2>1 DEF Raw, Exists, Records
<1>3. CASE p.at = "live" /\ live[p.warc] # {}
  <2>1. Content(p) = live[p.warc] /\ "html" \in live[p.warc]
    BY <1>1, <1>3 DEF Content, Safe, CapturesKept
  <2> QED BY <1>1, <2>1 DEF Raw, Exists
<1>4. CASE p.at = "live" /\ ~dir /\ rollback[p.warc] # {} /\ promoted[p.warc] # {}
  BY <1>1, <1>4 DEF Safe, CapturesKept, Nothing
<1> QED BY <1>1, <1>2, <1>3, <1>4 DEF RowsHeld

LEMMA RowsReplay ==
    ASSUME Ground, Safe, Held, Collected, status = "indexed", marker = Discovered, promoted = Nothing,
           ~due, ~Runs("operator"), ~Runs("timer"), NEW p \in rows
    PROVE  Resolved(p.warc) /\ Replays(p.warc)
<1>1. Clean /\ Settled /\ Settles
  BY DEF Safe, CleanWhenUsed, Settled, Collected
<1>2. Discovered \subseteq Known
  BY FoundKnown DEF Ground
<1>3. p.warc \in Good /\ Exists(p)
  BY RowsRead DEF Held
<1>4. PICK q \in Discovered : q.warc = p.warc
  BY <1>3, DiscoveredCovers DEF Covers
<1>5. q \in Known /\ q.warc \notin bad /\ q.warc \in Warcs /\ q.at \in {"temp", "live"}
  BY <1>2, <1>3, <1>4, Bounds DEF Known, Good, Ground, FilesTyped, Warcs
<1>6. ~Obsolete
  <2>1. marker # NoMarker
    BY <1>2, <1>4 DEF NoMarker, Known
  <2>2. \A r \in Discovered : r.warc \notin bad /\ (r.at = "temp" => ~Placed(r.warc))
    <3> SUFFICES ASSUME NEW r \in Discovered PROVE r.warc \notin bad /\ (r.at = "temp" => ~Placed(r.warc))
      OBVIOUS
    <3>1. r \in Known /\ r.warc \in Warcs /\ r.at \in {"temp", "live"}
      BY <1>2, Bounds DEF Known, Ground, FilesTyped, Warcs
    <3>2. r.warc \notin bad
      BY <1>1, <3>1 DEF Clean, Discovered, Exists, Content
    <3>3. r.at = "temp" => live[r.warc] = {}
      BY DEF Discovered
    <3> QED BY <1>1, <3>1, <3>2, <3>3 DEF Settles, Placed
  <2>3. \A w \in Good : \E r \in Discovered : r.warc = w
    BY DiscoveredCovers DEF Covers
  <2> QED BY <2>1, <2>2, <2>3 DEF Obsolete, Gone
<1>7. Fits(Discovered)
  BY <1>1, <1>6 DEF Collected, MarkerRight
<1>8. Resolved(p.warc)
  BY <1>7 DEF Resolved, Ready, Fits
<1>9. PICK l \in links, e \in cdx : l.target = q /\ e.number = l.number /\ e.warc = q.warc /\ e.has = Content(q)
  BY <1>4, <1>5, <1>7 DEF Fits
<1>10. "html" \in Content(q)
  <2>1. CASE q.at = "temp"
    BY <1>4, <2>1 DEF Discovered, Exists, Content, Records
  <2>2. CASE q.at = "live"
    BY <1>4, <1>5, <2>2 DEF Discovered, Exists, Content, Safe, CapturesKept
  <2> QED BY <1>5, <2>1, <2>2
<1> QED BY <1>4, <1>8, <1>9, <1>10 DEF Replays

LEMMA RowsServedHolds == Ground /\ Safe /\ Held /\ Collected => RowsServed
<1> SUFFICES ASSUME Ground, Safe, Held, Collected PROVE RowsServed
  OBVIOUS
<1>1. \A p \in rows : \/ Raw(p) = "html"
                      \/ ~dir /\ p.at = "live" /\ "html" \in promoted[p.warc] \cap rollback[p.warc]
  BY RowsRead DEF Held
<1> QED BY <1>1, RowsReplay DEF RowsServed

\* If index runs verify the WARCs as verify-warcs does, compaction takes all WARCs, and the
\* timer is off while an operator reindexes by hand: whatever commands, crawls and index
\* runs overlap and break off, the API serves each snapshot from the WARC it names, and a
\* collection whose marker is that of the job's WARCs replays it.
THEOREM SnapshotsServed ==
    ASSUME IndexVerifies = TRUE, TimerStopped = TRUE, Limits = {}
    PROVE  Spec => []RowsServed
<1> DEFINE Inv == Ground /\ Safe /\ Held /\ Collected
<1>1. Init => Inv
  BY GroundInit, SafeInit, HeldInit, CollectedInit
<1>2. Inv /\ [Next]_vars => Inv'
  <2> SUFFICES ASSUME Ground, Safe, Held, Collected, [Next]_vars PROVE Inv'
    OBVIOUS
  <2>1. Ground'
    BY GroundStep
  <2>2. Safe' /\ Held'
    BY SafeStep, HeldStep
  <2>3. Collected'
    BY CollectedStep
  <2> QED BY <2>1, <2>2, <2>3
<1>3. Inv => RowsServed
  BY RowsServedHolds
<1> HIDE DEF Inv
<1> QED BY <1>1, <1>2, <1>3, PTL DEF Spec

=============================================================================
