------------------------ MODULE AnnualCampaignProofs ------------------------
(***************************************************************************)
(* Theorems about the annual campaign, for any jobs, seeds, reporters,      *)
(* policies and bounds.                                                     *)
(***************************************************************************)
EXTENDS AnnualCampaign, TLAPS, WellFoundedInduction

\* "full" and "none" are no keys of seeds.
LEMMA Constants ==
    /\ Jobs \subseteq Nat /\ Seeds # {} /\ "full" \notin Seeds /\ "none" \notin Seeds
    /\ MaxFresh \in Nat /\ MaxRetries \in Nat /\ EditBound \in Nat
BY JobsAssumption, SeedsAssumption, BudgetAssumption

\* The next row is one that is not in use.
LEMMA LowestInSet ==
    ASSUME NEW S, S \subseteq Nat, S # {}
    PROVE  Lowest(S) \in S
<1>1. PICK m \in S : \A q \in S : ~(<<q, m>> \in OpToRel(<, Nat))
    BY NatLessThanWellFounded, WFMin
<1>2. \A q \in S : ~(q < m)
    BY <1>1 DEF OpToRel
<1>3. \A q \in S : m <= q
    BY <1>2
<1> QED BY <1>3 DEF Lowest

-----------------------------------------------------------------------------
(* Type correctness.                                                       *)

ReportRows ==
    [pc : {"idle", "open", "written"}, gap : SUBSET Jobs, config : Configs, attach : SUBSET Jobs,
     creates : BOOLEAN, review : SUBSET Jobs, missing : SUBSET Seeds, research : BOOLEAN, gaps : BOOLEAN]

Typed == TypeOK /\ reports \in [Reporters -> ReportRows]

\* The rows that the operations compute are rows.
LEMMA RowsTyped ==
    /\ NoRow \in JobRows /\ NoReport \in ReportRows
    /\ NewJob("full", Seeds, None, "full_site", FALSE, "pending") \in JobRows
    /\ \A s \in Seeds : NewJob(s, {s}, s, "seed_group", TRUE, "pending") \in JobRows
    /\ \A row \in JobRows : Attached(row, "full") \in JobRows
<1>1. Config(TRUE) \in Configs /\ Config(FALSE) \in Configs
    BY DEF Config, Configs
<1>2. /\ NewJob("full", Seeds, None, "full_site", FALSE, "pending") \in JobRows
      /\ \A s \in Seeds : NewJob(s, {s}, s, "seed_group", TRUE, "pending") \in JobRows
    BY <1>1 DEF NewJob, JobRows, Blocking, None
<1>3. NoRow \in JobRows /\ NoReport \in ReportRows
    BY <1>1 DEF NoRow, NewJob, JobRows, NoReport, ReportRows, None
<1>4. ASSUME NEW row \in JobRows
      PROVE  Attached(row, "full") \in JobRows
    BY ZenonT(60), <1>4 DEF JobRows, Attached
<1> QED BY <1>2, <1>3, <1>4

\* The writers of config: which of its values they keep.
LEMMA ConfigsTyped ==
    ASSUME NEW config \in Configs
    PROVE  /\ Started(config) \in Configs /\ Started(config).stall = config.stall
           /\ Ensured(config) \in Configs /\ [Ensured(config) EXCEPT !.backend = "browsertrix"] \in Configs
           /\ Ensured(config).annual /\ [Ensured(config) EXCEPT !.backend = "browsertrix"].annual
           /\ config.stall = "own" =>
                 /\ Ensured(config).stall = "own"
                 /\ [Ensured(config) EXCEPT !.backend = "browsertrix"].stall = "own"
           /\ \A stall \in {"legacy", "own"} :
                 /\ [ToDict(config) EXCEPT !.stall = stall] \in Configs
                 /\ [ToDict(config) EXCEPT !.stall = stall].stall = stall
<1>1. Started(config) \in Configs /\ Started(config).stall = config.stall
    BY DEF Configs, Started, ToDict
<1>2. /\ Ensured(config) \in Configs /\ [Ensured(config) EXCEPT !.backend = "browsertrix"] \in Configs
      /\ Ensured(config).annual /\ [Ensured(config) EXCEPT !.backend = "browsertrix"].annual
    BY DEF Configs, Ensured, Tuned
<1>3. config.stall = "own" =>
         /\ Ensured(config).stall = "own"
         /\ [Ensured(config) EXCEPT !.backend = "browsertrix"].stall = "own"
    BY DEF Configs, Ensured, Tuned
<1>4. \A stall \in {"legacy", "own"} :
         /\ [ToDict(config) EXCEPT !.stall = stall] \in Configs
         /\ [ToDict(config) EXCEPT !.stall = stall].stall = stall
    BY DEF Configs, ToDict
<1> QED BY <1>1, <1>2, <1>3, <1>4

\* So is what the failure policy leaves.
LEMMA FailedTyped ==
    ASSUME NEW row \in JobRows
    PROVE  Failed(row) \in JobRows
<1>1. row.config \in Configs /\ row.retries \in Nat
    BY DEF JobRows
<1>2. ASSUME NEW n \in Nat
      PROVE  /\ Retryable(row, n) \in JobRows
             /\ [Retryable(row, n) EXCEPT !.config = ToDict(row.config)] \in JobRows
             /\ [Retryable(row, n) EXCEPT !.config = [ToDict(row.config) EXCEPT !.backend = "playwright_warc"]]
                    \in JobRows
             /\ ForReview([row EXCEPT !.status = "failed", !.retries = n]) \in JobRows
  <2>1. ToDict(row.config) \in Configs /\ [ToDict(row.config) EXCEPT !.backend = "playwright_warc"] \in Configs
      BY <1>1 DEF Configs, ToDict
  <2> QED BY <1>2, <2>1 DEF JobRows, Retryable, ForReview, Blocking, Review
<1>3. ForReview([row EXCEPT !.status = "failed"]) \in JobRows
    BY DEF JobRows, ForReview, Review
<1> DEFINE next     == row.retries + 1
           fallback == row.config.backend # "browsertrix"
           fresh    == ~fallback /\ FreshOnly /\ MaxFresh > 0
<1>4. next \in Nat
    BY <1>1
<1>5. CASE fresh
    BY <1>2, <1>3, <1>4, <1>5, Constants DEF Failed
<1>6. CASE ~fresh /\ fallback
    BY <1>2, <1>3, <1>4, <1>6, Constants DEF Failed
<1>7. CASE ~fresh /\ ~fallback
    BY <1>2, <1>3, <1>4, <1>7, Constants DEF Failed
<1> QED BY <1>5, <1>6, <1>7

\* A step that replaces one row by a row is typed.
LEMMA RowSet ==
    ASSUME jobs \in [Jobs -> JobRows], NEW j \in Jobs, NEW row \in JobRows, SetJob(j, row)
    PROVE  jobs' \in [Jobs -> JobRows]
BY DEF SetJob

\* What a session has read is a report.
LEMMA ReportTyped ==
    ASSUME Typed, NEW p \in Reporters, NEW rows \in [Jobs -> JobRows], NEW gap,
           gap = {} \/ \E j \in Jobs : gap = {j}, ReadReport(p, rows, gap)
    PROVE  reports' \in [Reporters -> ReportRows]
<1>1. PICK failed \in BOOLEAN :
         reports' = [reports EXCEPT ![p] =
            [pc |-> "open", gap |-> gap, creates |-> ~edition.exists,
             attach |-> {j \in Jobs : rows[j].edition # jobs[j].edition},
             config |-> IF gap = {} THEN Config(FALSE) ELSE jobs[CHOOSE j \in gap : TRUE].config,
             review |-> Reviewed(rows), missing |-> Missing(rows), research |-> ResearchReady(rows),
             gaps |-> failed \/ Missing(rows) # {} \/ Unaccepted(rows, Review) # {}]]
    BY DEF ReadReport
<1>2. (IF gap = {} THEN Config(FALSE) ELSE jobs[CHOOSE j \in gap : TRUE].config) \in Configs
    BY DEF Typed, TypeOK, JobRows, Config, Configs
<1>3. Reviewed(rows) \subseteq Jobs /\ Missing(rows) \subseteq Seeds /\ gap \subseteq Jobs
    BY DEF Reviewed, Unaccepted, Missing, JobRows
<1>4. ResearchReady(rows) \in BOOLEAN
    BY DEF ResearchReady, SearchReady
<1>5. (~edition.exists) \in BOOLEAN
    OBVIOUS
<1> DEFINE g == failed \/ Missing(rows) # {} \/ Unaccepted(rows, Review) # {}
<1>6. g \in BOOLEAN
    OBVIOUS
<1> HIDE DEF g
<1>7. [pc |-> "open", gap |-> gap, creates |-> ~edition.exists,
             attach |-> {j \in Jobs : rows[j].edition # jobs[j].edition},
             config |-> IF gap = {} THEN Config(FALSE) ELSE jobs[CHOOSE j \in gap : TRUE].config,
             review |-> Reviewed(rows), missing |-> Missing(rows), research |-> ResearchReady(rows),
             gaps |-> g] \in ReportRows
    BY <1>2, <1>3, <1>4, <1>5, <1>6 DEF ReportRows
<1> QED BY <1>1, <1>7 DEF Typed, g

-----------------------------------------------------------------------------
(* What a step does to the rows.                                           *)

\* Every row is that of the full-site job, which has its key once it is attached, or that of the
\* shard of a seed, in the edition; no two have a name; a session holds rows that exist.
FullSite(row) ==
    row.name = "full" /\ row.seeds = Seeds /\ row.key \in {None, "full"} /\ (row.edition => row.key = "full")

Shard(row) == row.name \in Seeds /\ row.seeds = {row.name} /\ row.key = row.name /\ row.edition

RowsNamed ==
    /\ \A j \in Free : jobs[j] = NoRow
    /\ \A j \in Rows : FullSite(jobs[j]) \/ Shard(jobs[j])
    /\ \A j, k \in Rows : jobs[j].name = jobs[k].name => j = k

SessionRows ==
    \A p \in Reporters : (reports[p].attach \cup reports[p].review) \subseteq Rows /\ reports[p].gap \subseteq InEdition

Named == RowsNamed /\ SessionRows

\* Only indexed jobs have snapshots.
IndexedOnly == \A j \in Jobs : captured[j] # {} => jobs[j].status = "indexed"

\* What later steps leave of a row: its name and its seeds; its key, unless it is attached; that it
\* is indexed, and then its tag, unless it is attached.
Inherits(old, new) ==
    /\ new.status # None /\ new.name = old.name /\ new.seeds = old.seeds
    /\ \/ new.edition = old.edition /\ new.key = old.key
       \/ new.edition /\ new.key = IF old.key = None THEN "full" ELSE old.key
    /\ old.status = "indexed" => new.status = "indexed" /\ (old.config.annual => new.config.annual \/ new.edition)

\* What the commands and the worker leave of an operator's decisions.
KeepsGap(old, new) == new.accept \in Accepted <=> old.accept \in Accepted

Heeds(old, new) == KeepsGap(old, new) /\ (old.config.stall = "own" => new.config.stall = "own")

\* A step that changes rows, and adds none; one that attaches none either, and accepts no gap.
RowsChange ==
    /\ jobs' \in [Jobs -> JobRows]
    /\ \A k \in Rows : Inherits(jobs[k], jobs'[k])
    /\ \A k \in Free : jobs'[k] = jobs[k]

RowsStay == RowsChange /\ \A k \in Jobs : KeepsGap(jobs[k], jobs'[k]) /\ jobs'[k].edition = jobs[k].edition

LEMMA SetRow ==
    ASSUME Typed, NEW j \in Rows, NEW row \in JobRows, SetJob(j, row),
           Inherits(jobs[j], row), KeepsGap(jobs[j], row), row.edition = jobs[j].edition
    PROVE  /\ RowsStay
           /\ Heeds(jobs[j], row) => \A k \in Jobs : Heeds(jobs[k], jobs'[k])
<1>1. j \in Jobs /\ jobs' \in [Jobs -> JobRows] /\ jobs'[j] = row
    BY DEF SetJob, Typed, TypeOK, Rows
<1>2. \A k \in Jobs : k # j => jobs'[k] = jobs[k]
    BY DEF SetJob, Typed, TypeOK
<1>3. \A k \in Rows : k # j => Inherits(jobs[k], jobs'[k])
    BY <1>2 DEF Rows, Inherits
<1>4. \A k \in Jobs : k # j => Heeds(jobs[k], jobs'[k]) /\ KeepsGap(jobs[k], jobs'[k])
    BY <1>2 DEF Heeds, KeepsGap
<1> QED BY <1>1, <1>2, <1>3, <1>4 DEF RowsStay, RowsChange, Free

\* The failure policy.
LEMMA FailedInherits ==
    ASSUME NEW row \in JobRows, row.status = "running"
    PROVE  Inherits(row, Failed(row)) /\ Heeds(row, Failed(row)) /\ Failed(row).edition = row.edition
<1> USE DEF JobRows, Configs
<1>1. ASSUME NEW n \in Nat,
             NEW config \in {row.config, ToDict(row.config), [ToDict(row.config) EXCEPT !.backend = "playwright_warc"]}
      PROVE  LET new == [Retryable(row, n) EXCEPT !.config = config]
             IN Inherits(row, new) /\ Heeds(row, new) /\ new.edition = row.edition
  <2>1. config.stall = row.config.stall
      BY <1>1 DEF ToDict
  <2> QED BY <2>1 DEF Inherits, Heeds, KeepsGap, Retryable, None
<1>2. ASSUME NEW n \in Nat
      PROVE  LET new == ForReview([row EXCEPT !.status = "failed", !.retries = n])
             IN Inherits(row, new) /\ Heeds(row, new) /\ new.edition = row.edition
  <2>1. CASE row.accept \in Accepted
      BY <2>1 DEF Inherits, Heeds, KeepsGap, ForReview, None, Accepted
  <2>2. CASE row.accept \notin Accepted
      BY <2>2 DEF Inherits, Heeds, KeepsGap, ForReview, None, Accepted
  <2> QED BY <2>1, <2>2
<1> DEFINE next     == row.retries + 1
           fallback == row.config.backend # "browsertrix"
           fresh    == ~fallback /\ FreshOnly /\ MaxFresh > 0
<1>3. next \in Nat /\ row.retries \in Nat /\ 0 \in Nat
    OBVIOUS
<1>4. \A n \in Nat : Retryable(row, n) = [Retryable(row, n) EXCEPT !.config = row.config]
    BY DEF Retryable
<1>5. ForReview([row EXCEPT !.status = "failed"]) = ForReview([row EXCEPT !.status = "failed", !.retries = row.retries])
    BY DEF ForReview
<1>6. CASE fresh
    BY <1>1, <1>2, <1>3, <1>4, <1>5, <1>6, Constants DEF Failed
<1>7. CASE ~fresh /\ fallback
    BY ZenonT(60), <1>1, <1>2, <1>3, <1>4, <1>5, <1>7, Constants DEF Failed
<1>8. CASE ~fresh /\ ~fallback
    BY ZenonT(60), <1>1, <1>2, <1>3, <1>4, <1>5, <1>8, Constants DEF Failed
<1> QED BY <1>6, <1>7, <1>8

\* A row in use is a row of the table.
LEMMA RowOf == ASSUME Typed PROVE \A j \in Rows : j \in Jobs /\ jobs[j] \in JobRows /\ jobs[j].config \in Configs
BY DEF Typed, TypeOK, Rows, JobRows

LEMMA WorkRows ==
    ASSUME Typed, NEW j \in Jobs, Work(j) \/ WatchdogStarts(j)
    PROVE  RowsStay /\ \A k \in Jobs : Heeds(jobs[k], jobs'[k])
<1>0. j \in Rows => jobs[j] \in JobRows /\ jobs[j].config \in Configs
    BY RowOf
<1> USE DEF Inherits, Heeds, KeepsGap, JobRows, None
<1>1. CASE RunJob(j)
  <2>1. j \in Rows
      BY <1>1 DEF RunJob, Rows
  <2>2. Started(jobs[j].config) \in Configs /\ Started(jobs[j].config).stall = jobs[j].config.stall
      BY <1>0, <2>1, ConfigsTyped
  <2>3. [jobs[j] EXCEPT !.status = "running", !.config = Started(jobs[j].config)] \in JobRows
      BY <1>0, <2>1, <2>2 DEF Blocking
  <2>4. jobs[j].status \in {"queued", "retryable"}
      BY <1>1 DEF RunJob
  <2> DEFINE row == [jobs[j] EXCEPT !.status = "running", !.config = Started(jobs[j].config)]
  <2>5. Inherits(jobs[j], row) /\ KeepsGap(jobs[j], row) /\ Heeds(jobs[j], row) /\ row.edition = jobs[j].edition
      BY <1>0, <2>1, <2>2, <2>4
  <2>6. SetJob(j, row)
      BY <1>1 DEF RunJob
  <2> HIDE DEF row
  <2> QED BY <2>1, <2>3, <2>5, <2>6, SetRow DEF row
<1>2. CASE CrawlSucceeds(j)
  <2>1. j \in Rows
      BY <1>2 DEF CrawlSucceeds, Rows
  <2>2. [jobs[j] EXCEPT !.status = "completed"] \in JobRows
      BY <1>0, <2>1 DEF Blocking
  <2> QED BY <1>0, <1>2, <2>1, <2>2, SetRow DEF CrawlSucceeds
<1>3. CASE CrawlFails(j)
  <2>1. j \in Rows
      BY <1>3 DEF CrawlFails, Rows
  <2> QED BY <1>0, <1>3, <2>1, FailedTyped, FailedInherits, SetRow DEF CrawlFails
<1>4. CASE IndexJob(j)
  <2>1. j \in Rows
      BY <1>4 DEF IndexJob, Rows
  <2>2. PICK status \in {"indexed", "index_failed"} : SetJob(j, [jobs[j] EXCEPT !.status = status])
      BY <1>4 DEF IndexJob
  <2>3. [jobs[j] EXCEPT !.status = status] \in JobRows
      BY <1>0, <2>1 DEF Blocking
  <2>4. jobs[j].status = "completed"
      BY <1>4 DEF IndexJob
  <2> QED BY <1>0, <2>1, <2>2, <2>3, <2>4, SetRow
<1>5. CASE WatchdogStarts(j)
  <2>1. j \in Rows
      BY <1>5 DEF WatchdogStarts, Rows
  <2>2. /\ Ensured(jobs[j].config) \in Configs
        /\ jobs[j].config.stall = "own" => Ensured(jobs[j].config).stall = "own"
      BY <1>0, <2>1, ConfigsTyped
  <2>3. [jobs[j] EXCEPT !.config = Ensured(jobs[j].config)] \in JobRows
      BY <1>0, <2>1, <2>2
  <2>4. jobs[j].status \in {"queued", "retryable"}
      BY <1>5 DEF WatchdogStarts
  <2> QED BY <1>0, <1>5, <2>1, <2>2, <2>3, <2>4, SetRow DEF WatchdogStarts
<1> QED BY <1>1, <1>2, <1>3, <1>4, <1>5 DEF Work

LEMMA ReconcileRows ==
    ASSUME Typed, ReconcileOptions
    PROVE  RowsStay /\ \A k \in Jobs : Heeds(jobs[k], jobs'[k])
<1> DEFINE row(k) == [jobs[k] EXCEPT !.config = [Ensured(jobs[k].config) EXCEPT !.backend = "browsertrix"]]
<1>1. jobs' = [k \in Jobs |-> IF k \in Rows THEN row(k) ELSE jobs[k]]
    BY DEF ReconcileOptions
<1>2. ASSUME NEW k \in Rows
      PROVE  row(k) \in JobRows /\ Inherits(jobs[k], row(k)) /\ Heeds(jobs[k], row(k))
  <2>1. jobs[k] \in JobRows /\ jobs[k].config \in Configs /\ jobs[k].status # None
      BY RowOf DEF Rows
  <2>2. /\ [Ensured(jobs[k].config) EXCEPT !.backend = "browsertrix"] \in Configs
        /\ [Ensured(jobs[k].config) EXCEPT !.backend = "browsertrix"].annual
        /\ jobs[k].config.stall = "own" => [Ensured(jobs[k].config) EXCEPT !.backend = "browsertrix"].stall = "own"
      BY <2>1, ConfigsTyped
  <2> QED BY <2>1, <2>2 DEF Inherits, Heeds, KeepsGap, JobRows, None
<1> HIDE DEF row
<1>3. \A k \in Jobs : jobs'[k] = IF k \in Rows THEN row(k) ELSE jobs[k]
    BY <1>1
<1>4. jobs' \in [Jobs -> JobRows]
    BY <1>1, <1>2 DEF Typed, TypeOK
<1>5. \A k \in Jobs : Heeds(jobs[k], jobs'[k]) /\ KeepsGap(jobs[k], jobs'[k])
    BY <1>2, <1>3 DEF Heeds, KeepsGap
<1>6. \A k \in Rows : row(k).edition = jobs[k].edition
    BY RowOf DEF row, JobRows
<1> QED BY <1>2, <1>3, <1>4, <1>5, <1>6 DEF RowsStay, RowsChange, Free, Rows

LEMMA EditRows ==
    ASSUME Typed, NEW j \in Jobs, RetryJob(j) \/ \E stall \in {"legacy", "own"} : PatchConfig(j, stall)
    PROVE  /\ RowsStay
           /\ \A k \in Jobs : Heeds(jobs[k], jobs'[k]) \/ PatchConfig(k, "legacy")
<1>0. j \in Rows => jobs[j] \in JobRows /\ jobs[j].config \in Configs
    BY RowOf
<1> USE DEF Inherits, Heeds, KeepsGap, JobRows, None
<1>1. CASE RetryJob(j)
  <2>1. j \in Rows /\ jobs[j].status \in Review
      BY <1>1 DEF RetryJob
  <2>2. PICK status \in {"retryable", "completed"} : SetJob(j, [jobs[j] EXCEPT !.status = status])
      BY <1>1 DEF RetryJob
  <2>3. [jobs[j] EXCEPT !.status = status] \in JobRows
      BY <1>0, <2>1 DEF Blocking
  <2> QED BY <1>0, <2>1, <2>2, <2>3, SetRow DEF Review
<1>2. ASSUME NEW stall \in {"legacy", "own"}, PatchConfig(j, stall)
      PROVE  /\ RowsStay
             /\ \A k \in Jobs : Heeds(jobs[k], jobs'[k]) \/ PatchConfig(k, "legacy")
  <2> DEFINE row == [jobs[j] EXCEPT !.config = [ToDict(jobs[j].config) EXCEPT !.stall = stall]]
  <2>1. j \in Rows /\ jobs[j].status \in {"queued", "retryable", "failed"} /\ SetJob(j, row)
      BY <1>2 DEF PatchConfig
  <2>2. row \in JobRows /\ row.config.stall = stall
      BY <1>0, <2>1, ConfigsTyped
  <2>3. Inherits(jobs[j], row) /\ KeepsGap(jobs[j], row) /\ row.edition = jobs[j].edition
      BY <1>0, <2>1
  <2> HIDE DEF row
  <2>4. /\ RowsStay
        /\ Heeds(jobs[j], row) => \A k \in Jobs : Heeds(jobs[k], jobs'[k])
      BY <2>1, <2>2, <2>3, SetRow
  <2>5. CASE stall = "own"
      BY <2>2, <2>3, <2>4, <2>5 DEF Heeds
  <2>6. CASE stall = "legacy"
    <3>1. \A k \in Jobs : k # j => jobs'[k] = jobs[k]
        BY <2>1 DEF SetJob, Typed, TypeOK
    <3> QED BY <1>2, <2>4, <2>6, <3>1
  <2> QED BY <2>5, <2>6
<1> QED BY <1>1, <1>2

\* Attaching a job.
LEMMA AttachedInherits ==
    ASSUME NEW row \in JobRows, row.status # None
    PROVE  Inherits(row, Attached(row, "full")) /\ Heeds(row, Attached(row, "full"))
BY DEF JobRows, Attached, Inherits, Heeds, KeepsGap, Accepted, None

LEMMA SalvagedRows ==
    ASSUME Typed
    PROVE  /\ Salvaged \in [Jobs -> JobRows]
           /\ \A k \in Rows : Inherits(jobs[k], Salvaged[k])
           /\ \A k \in Free : Salvaged[k] = jobs[k]
           /\ \A k \in Jobs : Heeds(jobs[k], Salvaged[k])
<1>1. \A k \in Jobs : jobs[k] \in JobRows
    BY DEF Typed, TypeOK
<1>2. \A k \in Jobs : Salvaged[k] = IF Annual(k) THEN Attached(jobs[k], "full") ELSE jobs[k]
    BY DEF Salvaged
<1>3. Salvaged \in [Jobs -> JobRows]
    BY <1>1, RowsTyped DEF Salvaged
<1>4. \A k \in Rows : k \in Jobs /\ jobs[k].status # None
    BY DEF Rows
<1>5. \A k \in Rows : Inherits(jobs[k], Salvaged[k])
    BY <1>1, <1>2, <1>4, AttachedInherits DEF Inherits
<1>6. \A k \in Jobs : Heeds(jobs[k], Salvaged[k])
    BY <1>1, <1>2, <1>4, AttachedInherits DEF Heeds, KeepsGap, Annual
<1> QED BY <1>2, <1>3, <1>5, <1>6 DEF Free, Annual

\* What a report writes: an acceptance goes only where a review read none.
LEMMA WrittenRows ==
    ASSUME Typed, Named, NEW p \in Reporters, WriteReport(p)
    PROVE  /\ RowsChange
           /\ \A k \in Jobs \ reports[p].review : jobs[k].accept \in Accepted => jobs'[k].accept \in Accepted
           /\ \A k \in reports[p].attach : jobs'[k].edition
<1> DEFINE r == reports[p]
           base(k) == IF k \in r.attach THEN Attached(jobs[k], "full") ELSE jobs[k]
           accept(k) == IF k \in r.review THEN "needs_review"
                        ELSE IF k \in r.gap THEN "accepted_gap" ELSE base(k).accept
           config(k) == IF k \in r.gap THEN r.config ELSE base(k).config
           row(k) == [base(k) EXCEPT !.accept = accept(k), !.config = config(k)]
<1>1. jobs' = [k \in Jobs |-> row(k)]
    BY DEF WriteReport
<1>2. r \in ReportRows /\ (r.attach \cup r.review) \subseteq Rows /\ r.gap \subseteq InEdition
    BY DEF Typed, Named, SessionRows
<1>3. ASSUME NEW k \in Jobs
      PROVE  /\ base(k) \in JobRows /\ KeepsGap(jobs[k], base(k))
             /\ k \in Rows => Inherits(jobs[k], base(k))
             /\ k \in Free => base(k) = jobs[k]
             /\ k \in r.attach => base(k).edition
  <2>1. jobs[k] \in JobRows
      BY DEF Typed, TypeOK
  <2>2. CASE k \in r.attach
    <3>1. k \in Rows /\ jobs[k].status # None
        BY <1>2, <2>2 DEF Rows
    <3>2. Attached(jobs[k], "full") \in JobRows
        BY <2>1, RowsTyped
    <3>3. Attached(jobs[k], "full").edition
        BY <2>1 DEF JobRows, Attached
    <3>4. Inherits(jobs[k], Attached(jobs[k], "full")) /\ KeepsGap(jobs[k], Attached(jobs[k], "full"))
        BY <2>1, <3>1, AttachedInherits DEF Heeds
    <3> QED BY <2>2, <3>1, <3>2, <3>3, <3>4 DEF Free
  <2>3. CASE k \notin r.attach
    BY <2>1, <2>3 DEF Inherits, KeepsGap, Rows
  <2> QED BY <2>2, <2>3
<1>4. ASSUME NEW k \in Jobs
      PROVE  /\ accept(k) \in {None, "pending", "needs_review"} \cup Accepted /\ config(k) \in Configs
             /\ k \in Free => accept(k) = base(k).accept /\ config(k) = base(k).config
             /\ k \in r.gap => base(k).edition
             /\ jobs[k].accept \in Accepted /\ k \notin r.review => accept(k) \in Accepted
  <2>1. base(k) \in JobRows /\ KeepsGap(jobs[k], base(k)) /\ (k \in Rows => Inherits(jobs[k], base(k)))
      BY <1>3
  <2>2. r.config \in Configs
      BY <1>2 DEF ReportRows
  <2>3. k \in r.gap => k \in Rows /\ jobs[k].edition
      BY <1>2 DEF InEdition
  <2> HIDE DEF base
  <2>4. k \in r.gap => base(k).edition
      BY <2>1, <2>3 DEF Inherits
  <2>5. k \in Free => k \notin r.gap /\ k \notin r.review
      BY <1>2, <2>3 DEF Free
  <2> QED BY <2>1, <2>2, <2>4, <2>5 DEF JobRows, Accepted, KeepsGap
<1> HIDE DEF base, accept, config
<1>5. ASSUME NEW k \in Jobs
      PROVE  /\ row(k) \in JobRows
             /\ row(k).accept = accept(k) /\ row(k).edition = base(k).edition
             /\ k \in Rows => Inherits(jobs[k], row(k))
             /\ k \in Free => row(k) = jobs[k]
  <2>1. base(k) \in JobRows
      BY <1>3
  <2>2. row(k) \in JobRows
      BY <1>4, <2>1 DEF JobRows
  <2>3. row(k).accept = accept(k) /\ row(k).edition = base(k).edition
      BY <2>1 DEF JobRows
  <2>4. ASSUME k \in Rows
        PROVE  Inherits(jobs[k], row(k))
    <3>1. Inherits(jobs[k], base(k)) /\ (k \in r.gap => base(k).edition)
        BY <1>3, <1>4, <2>4
    <3>2. k \notin r.gap => config(k) = base(k).config
        BY DEF config
    <3> QED BY <2>1, <3>1, <3>2 DEF JobRows, Inherits
  <2>5. ASSUME k \in Free
        PROVE  row(k) = jobs[k]
      BY ZenonT(60), <1>3, <1>4, <2>1, <2>5 DEF JobRows
  <2> QED BY <2>2, <2>3, <2>4, <2>5
<1> HIDE DEF row
<1>6. \A k \in Jobs : jobs'[k] = row(k)
    BY <1>1
<1>7. jobs' \in [Jobs -> JobRows]
    BY <1>1, <1>5
<1>8. Rows \subseteq Jobs /\ Free \subseteq Jobs
    BY DEF Rows, Free
<1> QED BY <1>2, <1>3, <1>4, <1>5, <1>6, <1>7, <1>8 DEF RowsChange

\* schedule-annual.
LEMMA ScheduledRows ==
    ASSUME Typed, ScheduleAnnual
    PROVE  /\ jobs' \in [Jobs -> JobRows]
           /\ \A k \in Rows : jobs'[k] = jobs[k] /\ jobs[k].name # "full"
           /\ \E j \in Free : /\ jobs'[j] = NewJob("full", Seeds, None, "full_site", FALSE, "pending")
                              /\ \A k \in Free \ {j} : jobs'[k] = jobs[k]
<1>1. Lowest(Free) \in Free
    BY LowestInSet, Constants DEF ScheduleAnnual, Schedulable, Free
<1>2. Rows \subseteq Jobs /\ Free = Jobs \ Rows
    BY DEF Rows, Free
<1>3. jobs' = [jobs EXCEPT ![Lowest(Free)] = NewJob("full", Seeds, None, "full_site", FALSE, "pending")]
    BY DEF ScheduleAnnual, SetJob
<1>4. jobs \in [Jobs -> JobRows]
    BY DEF Typed, TypeOK
<1>5. \A k \in Rows : jobs[k].name # "full"
    BY DEF ScheduleAnnual, Schedulable
<1>6. /\ jobs'[Lowest(Free)] = NewJob("full", Seeds, None, "full_site", FALSE, "pending")
      /\ \A k \in Jobs \ {Lowest(Free)} : jobs'[k] = jobs[k]
    BY <1>1, <1>2, <1>3, <1>4
<1>7. jobs' \in [Jobs -> JobRows]
    BY <1>3, <1>4, RowsTyped
<1> QED BY <1>1, <1>2, <1>5, <1>6, <1>7

\* plan-annual-shards --apply: a row for each planned seed.
LEMMA CreatedRows ==
    ASSUME Typed, CreateShards
    PROVE  /\ jobs' \in [Jobs -> JobRows]
           /\ \A k \in Rows : jobs'[k] = jobs[k]
           /\ \A k \in Free : \/ jobs'[k] = jobs[k]
                              \/ \E s \in Planned : jobs'[k] = NewJob(s, {s}, s, "seed_group", TRUE, "pending")
           /\ \A s \in Planned : \E j \in Free :
                 /\ jobs'[j] = NewJob(s, {s}, s, "seed_group", TRUE, "pending")
                 /\ \A k \in Free : jobs'[k] # jobs[k] /\ jobs'[k].name = s => k = j
<1>1. PICK id \in [Planned -> Free] :
         /\ \A s, t \in Planned : s # t => id[s] # id[t]
         /\ jobs' = [j \in Jobs |->
               IF \E s \in Planned : id[s] = j
               THEN LET s == CHOOSE s \in Planned : id[s] = j
                    IN NewJob(s, {s}, s, "seed_group", TRUE, "pending")
               ELSE jobs[j]]
    BY DEF CreateShards
<1>2. Planned \subseteq Seeds /\ Rows \subseteq Jobs /\ Free = Jobs \ Rows
    BY DEF Planned, Rows, Free
<1>3. ASSUME NEW s \in Planned
      PROVE  /\ id[s] \in Free /\ (CHOOSE t \in Planned : id[t] = id[s]) = s
             /\ jobs'[id[s]] = NewJob(s, {s}, s, "seed_group", TRUE, "pending")
    BY <1>1, <1>2, <1>3
<1>4. \A k \in Jobs : (~\E s \in Planned : id[s] = k) => jobs'[k] = jobs[k]
    BY <1>1
<1>5. \A k \in Rows : jobs'[k] = jobs[k]
    BY <1>2, <1>3, <1>4
<1>6. \A k \in Free : \/ jobs'[k] = jobs[k]
                      \/ \E s \in Planned : jobs'[k] = NewJob(s, {s}, s, "seed_group", TRUE, "pending")
    BY <1>2, <1>3, <1>4
<1>7. jobs' \in [Jobs -> JobRows]
  <2>1. \A k \in Jobs : jobs'[k] \in JobRows
      BY <1>2, <1>5, <1>6, RowsTyped DEF Typed, TypeOK
  <2> QED BY <1>1, <2>1
<1>8. ASSUME NEW s \in Planned, NEW k \in Free, jobs'[k] # jobs[k], jobs'[k].name = s
      PROVE  k = id[s]
  <2>1. PICK t \in Planned : id[t] = k
      BY <1>2, <1>4, <1>8
  <2>2. jobs'[id[t]] = NewJob(t, {t}, t, "seed_group", TRUE, "pending")
      BY <1>3
  <2>3. NewJob(t, {t}, t, "seed_group", TRUE, "pending").name = t
      BY DEF NewJob
  <2>4. t = s
      BY <1>8, <2>1, <2>2, <2>3
  <2> QED BY <2>1, <2>4
<1>9. ASSUME NEW s \in Planned
      PROVE  \E j \in Free :
                /\ jobs'[j] = NewJob(s, {s}, s, "seed_group", TRUE, "pending")
                /\ \A k \in Free : jobs'[k] # jobs[k] /\ jobs'[k].name = s => k = j
  <2>1. /\ id[s] \in Free
        /\ jobs'[id[s]] = NewJob(s, {s}, s, "seed_group", TRUE, "pending")
      BY <1>3
  <2>2. \A k \in Free : jobs'[k] # jobs[k] /\ jobs'[k].name = s => k = id[s]
      BY <1>8
  <2> QED BY <2>1, <2>2
<1> QED BY <1>5, <1>6, <1>7, <1>9

-----------------------------------------------------------------------------
(* The invariant: types and names.                                         *)

\* A step that adds no row leaves the rows in use, and the edition has at least those it had.
LEMMA ChangeNamed ==
    ASSUME Typed, RowsNamed, RowsChange
    PROVE  RowsNamed' /\ Rows' = Rows /\ Free' = Free /\ InEdition \subseteq InEdition'
<1>1. Rows' = Rows /\ Free' = Free
  <2>1. \A k \in Rows : jobs'[k].status # None
      BY DEF RowsChange, Inherits
  <2>2. \A k \in Free : jobs'[k].status = None
      BY DEF RowsChange, Free, Rows
  <2>3. Rows' = Rows
      BY <2>1, <2>2 DEF Rows, Free
  <2> QED BY <2>3 DEF Free
<1>2. InEdition \subseteq InEdition'
    BY <1>1 DEF InEdition, RowsChange, Inherits
<1>3. ASSUME NEW j \in Rows
      PROVE  FullSite(jobs'[j]) \/ Shard(jobs'[j])
  <2>1. Inherits(jobs[j], jobs'[j]) /\ (FullSite(jobs[j]) \/ Shard(jobs[j]))
      BY DEF RowsChange, RowsNamed
  <2>2. jobs[j].edition \in BOOLEAN
      BY RowOf DEF JobRows
  <2> QED BY <2>1, <2>2, Constants DEF Inherits, FullSite, Shard, None
<1>4. \A j \in Rows : jobs'[j].name = jobs[j].name
    BY DEF RowsChange, Inherits
<1>5. \A j \in Free : jobs'[j] = NoRow
    BY DEF RowsChange, RowsNamed
<1>6. \A j, k \in Rows : jobs'[j].name = jobs'[k].name => j = k
    BY <1>4 DEF RowsNamed
<1> QED BY <1>1, <1>2, <1>3, <1>5, <1>6 DEF RowsNamed

\* The sessions that were open still hold rows.
LEMMA ChangeSessions ==
    ASSUME Named, Rows \subseteq Rows', InEdition \subseteq InEdition', UNCHANGED reports
    PROVE  SessionRows'
BY DEF Named, SessionRows

\* A session that ends, or that writes its files.
LEMMA EndSessions ==
    ASSUME Typed, Named, Rows \subseteq Rows', InEdition \subseteq InEdition', NEW p \in Reporters,
           reports' \in {[reports EXCEPT ![p] = NoReport], [reports EXCEPT ![p].pc = "written"]}
    PROVE  SessionRows' /\ reports' \in [Reporters -> ReportRows]
<1> DEFINE row == [reports[p] EXCEPT !.pc = "written"]
<1>1. reports[p] \in ReportRows
    BY DEF Typed
<1>2. row \in ReportRows /\ row.attach = reports[p].attach /\ row.review = reports[p].review /\ row.gap = reports[p].gap
    BY <1>1 DEF ReportRows
<1> HIDE DEF row
<1>3. NoReport \in ReportRows /\ NoReport.attach = {} /\ NoReport.review = {} /\ NoReport.gap = {}
    BY RowsTyped DEF NoReport
<1>4. PICK new \in {NoReport, row} : reports' = [reports EXCEPT ![p] = new]
    BY DEF row
<1>5. reports' \in [Reporters -> ReportRows]
    BY <1>2, <1>3, <1>4 DEF Typed
<1>6. /\ \A q \in Reporters \ {p} : reports'[q] = reports[q]
      /\ reports'[p] \in {NoReport, row}
    BY <1>4 DEF Typed
<1> QED BY <1>2, <1>3, <1>5, <1>6 DEF Named, SessionRows

\* A session that reads holds the rows that it read.
LEMMA ReadSessions ==
    ASSUME Typed, Named, NEW p \in Reporters, NEW rows \in [Jobs -> JobRows], NEW gap \in SUBSET InEdition,
           gap = {} \/ \E j \in Jobs : gap = {j},
           \A k \in Free : rows[k] = jobs[k], ReadReport(p, rows, gap)
    PROVE  /\ SessionRows' /\ reports' \in [Reporters -> ReportRows]
           /\ \A q \in Reporters \ {p} : reports'[q] = reports[q]
           /\ reports'[p].pc = "open" /\ reports'[p].gap = gap /\ reports'[p].review = Reviewed(rows)
           /\ reports'[p].attach = {k \in Jobs : rows[k].edition # jobs[k].edition}
           /\ reports'[p].missing = Missing(rows) /\ reports'[p].research = ResearchReady(rows)
<1>1. reports' \in [Reporters -> ReportRows]
    BY ReportTyped
<1>2. /\ \A q \in Reporters \ {p} : reports'[q] = reports[q]
      /\ reports'[p].pc = "open" /\ reports'[p].gap = gap /\ reports'[p].review = Reviewed(rows)
      /\ reports'[p].attach = {k \in Jobs : rows[k].edition # jobs[k].edition}
      /\ reports'[p].missing = Missing(rows) /\ reports'[p].research = ResearchReady(rows)
    BY DEF ReadReport, Typed
<1>3. UNCHANGED <<Rows, InEdition>>
    BY DEF ReadReport, Rows, InEdition
<1>4. \A k \in Free : jobs[k].status = None
    BY DEF Free, Rows
<1>5. Reviewed(rows) \subseteq Rows /\ {k \in Jobs : rows[k].edition # jobs[k].edition} \subseteq Rows
    BY <1>4 DEF Reviewed, Unaccepted, Free, Review, None
<1> QED BY <1>1, <1>2, <1>3, <1>5 DEF Named, SessionRows

\* New rows have names of their own.
LEMMA ScheduleNamed ==
    ASSUME Typed, Named, ScheduleAnnual
    PROVE  RowsNamed' /\ Rows \subseteq Rows' /\ InEdition \subseteq InEdition' /\ InEdition' \subseteq InEdition
<1> DEFINE new == NewJob("full", Seeds, None, "full_site", FALSE, "pending")
<1>1. /\ \A k \in Rows : jobs'[k] = jobs[k] /\ jobs[k].name # "full"
      /\ \E j \in Free : jobs'[j] = new /\ \A k \in Free \ {j} : jobs'[k] = jobs[k]
    BY ScheduledRows
<1>2. PICK j \in Free : jobs'[j] = new /\ \A k \in Free \ {j} : jobs'[k] = jobs[k]
    BY <1>1
<1>3. new.status = "queued" /\ new.name = "full" /\ ~new.edition /\ FullSite(new)
    BY DEF NewJob, FullSite
<1> HIDE DEF new
<1>4. Rows' = Rows \cup {j} /\ Free' = Free \ {j}
    BY <1>1, <1>2, <1>3 DEF Rows, Free, None
<1>5. InEdition' = InEdition
    BY <1>1, <1>2, <1>3, <1>4 DEF InEdition, Free
<1>6. RowsNamed'
  <2>1. \A k \in Free' : jobs'[k] = NoRow
      BY <1>2, <1>4 DEF Named, RowsNamed
  <2>2. \A k \in Rows' : FullSite(jobs'[k]) \/ Shard(jobs'[k])
      BY <1>1, <1>2, <1>3, <1>4 DEF Named, RowsNamed
  <2>3. \A k, l \in Rows' : jobs'[k].name = jobs'[l].name => k = l
      BY <1>1, <1>2, <1>3, <1>4 DEF Named, RowsNamed
  <2> QED BY <2>1, <2>2, <2>3 DEF RowsNamed
<1> QED BY <1>4, <1>5, <1>6

LEMMA CreateNamed ==
    ASSUME Typed, Named, CreateShards
    PROVE  RowsNamed' /\ Rows \subseteq Rows' /\ InEdition \subseteq InEdition'
<1> DEFINE new(s) == NewJob(s, {s}, s, "seed_group", TRUE, "pending")
<1>1. /\ \A k \in Rows : jobs'[k] = jobs[k]
      /\ \A k \in Free : jobs'[k] = jobs[k] \/ \E s \in Planned : jobs'[k] = new(s)
      /\ \A s \in Planned : \E j \in Free :
            jobs'[j] = new(s) /\ \A k \in Free : jobs'[k] # jobs[k] /\ jobs'[k].name = s => k = j
    BY CreatedRows
<1>2. Planned \subseteq Seeds /\ Planned \cap Keys = {}
    BY DEF Planned
<1>3. \A s \in Planned : new(s).status = "queued" /\ new(s).name = s /\ Shard(new(s))
    BY <1>2 DEF NewJob, Shard
<1> HIDE DEF new
<1>4. Rows \subseteq Rows'
    BY <1>1 DEF Rows
<1>5. \A k \in Rows' \ Rows : k \in Free /\ \E s \in Planned : jobs'[k] = new(s)
    BY <1>1 DEF Rows, Free
<1>6. ASSUME NEW k \in Rows
      PROVE  jobs[k].name \notin Planned
  <2>1. jobs[k].name \in Seeds => k \in InEdition /\ jobs[k].key = jobs[k].name
      BY Constants DEF Named, RowsNamed, FullSite, Shard, InEdition
  <2>2. jobs[k].name \in Seeds => jobs[k].name \in Keys
      BY <2>1, Constants DEF Keys, None
  <2> QED BY <1>2, <2>2
<1>7. \A k \in Free' : jobs'[k] = NoRow
  <2>1. \A k \in Free' : k \in Free /\ jobs'[k].status = None
      BY <1>4 DEF Free, Rows
  <2> QED BY <1>1, <1>3, <2>1 DEF Named, RowsNamed, None
<1>8. \A k \in Rows' : FullSite(jobs'[k]) \/ Shard(jobs'[k])
    BY <1>1, <1>3, <1>5 DEF Named, RowsNamed
<1>9. ASSUME NEW k \in Rows', NEW l \in Rows', jobs'[k].name = jobs'[l].name
      PROVE  k = l
  <2>1. CASE k \in Rows /\ l \in Rows
      BY <1>1, <1>9, <2>1 DEF Named, RowsNamed
  <2>2. CASE k \notin Rows /\ l \notin Rows
    <3>1. PICK s \in Planned : jobs'[k] = new(s)
        BY <1>5, <2>2
    <3>2. jobs'[k].name = s /\ jobs'[l].name = s /\ k \in Free /\ l \in Free
        BY <1>3, <1>5, <1>9, <2>2, <3>1
    <3>3. jobs[k] = NoRow /\ jobs[l] = NoRow /\ NoRow.name = None
        BY <3>2 DEF Named, RowsNamed, NoRow, NewJob
    <3>4. jobs'[k] # jobs[k] /\ jobs'[l] # jobs[l]
        BY <1>2, <3>2, <3>3, Constants DEF None
    <3> QED BY <1>1, <3>2, <3>4
  <2>3. CASE k \in Rows /\ l \notin Rows
      BY <1>1, <1>3, <1>5, <1>6, <1>9, <2>3
  <2>4. CASE k \notin Rows /\ l \in Rows
      BY <1>1, <1>3, <1>5, <1>6, <1>9, <2>4
  <2> QED BY <2>1, <2>2, <2>3, <2>4
<1> QED BY <1>1, <1>4, <1>7, <1>8, <1>9 DEF RowsNamed, InEdition

\* Each kind of step, with what it reads, what it leaves of the rows and of the edition.
LEMMA Steps ==
    ASSUME Typed, Named, [Next]_vars
    PROVE  \/ UNCHANGED vars
           \/ ScheduleAnnual
           \/ \E apply \in BOOLEAN : PlanShards(apply)
           \/ Salvage
           \/ RowsStay /\ UNCHANGED <<edition, ledger, reports>> /\ edits' \in 0 .. EditBound
           \/ \E p \in Reporters :
                 \/ StartReport(p) \/ WriteArtifacts(p) \/ WriteReport(p) \/ ReportFails(p) \/ SalvageReport(p)
                 \/ \E j \in Jobs : AcceptGap(p, j)
<1>1. edits \in 0 .. EditBound
    BY DEF Typed, TypeOK
<1>2. ASSUME NEW j \in Jobs, Work(j) \/ WatchdogStarts(j)
      PROVE  RowsStay /\ UNCHANGED <<edition, ledger, reports>> /\ edits' \in 0 .. EditBound
  <2>1. UNCHANGED <<edition, ledger, reports, edits>>
      BY <1>2 DEF Work, RunJob, CrawlSucceeds, CrawlFails, IndexJob, WatchdogStarts
  <2> QED BY <1>1, <1>2, <2>1, WorkRows
<1>3. ASSUME ReconcileOptions
      PROVE  RowsStay /\ UNCHANGED <<edition, ledger, reports>> /\ edits' \in 0 .. EditBound
    BY <1>1, <1>3, ReconcileRows DEF ReconcileOptions
<1>4. ASSUME NEW j \in Jobs, RetryJob(j) \/ \E stall \in {"legacy", "own"} : PatchConfig(j, stall)
      PROVE  RowsStay /\ UNCHANGED <<edition, ledger, reports>> /\ edits' \in 0 .. EditBound
  <2>1. UNCHANGED <<edition, ledger, reports>> /\ Edit
      BY <1>4 DEF RetryJob, PatchConfig
  <2>2. edits' \in 0 .. EditBound
      BY <1>1, <2>1, Constants DEF Edit
  <2> QED BY <1>4, <2>1, <2>2, EditRows
<1> QED BY <1>2, <1>3, <1>4 DEF Next, Command

\* Snapshots come from the seeds of an indexed job.
LEMMA CapturedSteps ==
    ASSUME Typed, [Next]_vars
    PROVE  \/ UNCHANGED captured
           \/ \E j \in Jobs : \E got \in SUBSET jobs[j].seeds :
                 /\ jobs[j].status = "completed" /\ jobs'[j].status = "indexed"
                 /\ captured' = [captured EXCEPT ![j] = got]
<1>1. ASSUME NEW j \in Jobs, IndexJob(j)
      PROVE  \/ UNCHANGED captured
             \/ \E got \in SUBSET jobs[j].seeds :
                   /\ jobs[j].status = "completed" /\ jobs'[j].status = "indexed"
                   /\ captured' = [captured EXCEPT ![j] = got]
  <2>1. jobs[j] \in JobRows
      BY DEF Typed, TypeOK
  <2>2. SetJob(j, [jobs[j] EXCEPT !.status = "indexed"]) => jobs'[j].status = "indexed"
      BY <2>1 DEF SetJob, JobRows, Typed, TypeOK
  <2> QED BY <1>1, <2>2 DEF IndexJob
<1>2. CASE UNCHANGED vars
    BY <1>2 DEF vars
<1>3. CASE Next
    BY <1>1, <1>3 DEF Next, Command, ScheduleAnnual, Salvage, ReconcileOptions, PlanShards, RetryJob, PatchConfig,
          Work, RunJob, CrawlSucceeds, CrawlFails, WatchdogStarts, StartReport, ReadReport, WriteArtifacts,
          WriteReport, ReportFails, SalvageReport, AcceptGap
<1> QED BY <1>2, <1>3

\* In the edition, or to be attached by the next salvage.
Reached == InEdition \cup {j \in Jobs : Annual(j)}

\* What a report reads: the rows as they are, as a salvage leaves them, or with one gap accepted.
LEMMA ReadRows ==
    ASSUME Typed, Named, NEW p \in Reporters,
           \/ StartReport(p) \/ SalvageReport(p)
           \/ \E j \in Jobs : AcceptGap(p, j)
    PROVE  \E rows \in [Jobs -> JobRows], gap \in SUBSET InEdition :
              /\ gap = {} \/ \E j \in Jobs : gap = {j}
              /\ \A k \in Free : rows[k] = jobs[k]
              /\ \A k \in Jobs : jobs[k].accept \in Accepted => rows[k].accept \in Accepted
              /\ \A k \in Jobs : /\ rows[k].seeds = jobs[k].seeds
                                 /\ k \in InEdition => rows[k].edition
                                 /\ rows[k].edition => k \in Reached
              /\ ReadReport(p, rows, gap)
<1>1. jobs \in [Jobs -> JobRows]
    BY DEF Typed, TypeOK
<1>2. \A k \in Jobs : k \in InEdition <=> jobs[k].edition
  <2>1. NoRow.edition = FALSE
      BY DEF NoRow, NewJob
  <2>2. \A k \in Jobs \ Rows : ~jobs[k].edition
      BY <2>1 DEF Named, RowsNamed, Free
  <2> QED BY <2>2 DEF InEdition, Rows
<1>3. CASE StartReport(p)
    BY <1>1, <1>2, <1>3 DEF StartReport, Reached
<1>4. CASE SalvageReport(p)
  <2>1. /\ Salvaged \in [Jobs -> JobRows]
        /\ \A k \in Free : Salvaged[k] = jobs[k]
        /\ \A k \in Jobs : jobs[k].accept \in Accepted => Salvaged[k].accept \in Accepted
      BY SalvagedRows DEF Heeds, KeepsGap
  <2>2. ASSUME NEW k \in Jobs
        PROVE  /\ Salvaged[k].seeds = jobs[k].seeds
               /\ k \in InEdition => Salvaged[k].edition
               /\ Salvaged[k].edition => k \in Reached
    <3>1. CASE Annual(k)
      <4>1. Salvaged[k] = Attached(jobs[k], "full") /\ jobs[k] \in JobRows /\ k \in Reached
          BY <1>1, <3>1 DEF Salvaged, Reached
      <4> QED BY <4>1 DEF Attached, JobRows
    <3>2. CASE ~Annual(k)
        BY <1>2, <3>2 DEF Salvaged, Reached
    <3> QED BY <3>1, <3>2
  <2>3. ReadReport(p, Salvaged, {})
      BY <1>4 DEF SalvageReport
  <2> QED BY <2>1, <2>2, <2>3
<1>5. ASSUME NEW j \in Jobs, AcceptGap(p, j)
      PROVE  \E rows \in [Jobs -> JobRows], gap \in SUBSET InEdition :
                /\ gap = {} \/ \E l \in Jobs : gap = {l}
                /\ \A k \in Free : rows[k] = jobs[k]
                /\ \A k \in Jobs : jobs[k].accept \in Accepted => rows[k].accept \in Accepted
                /\ \A k \in Jobs : /\ rows[k].seeds = jobs[k].seeds
                                   /\ k \in InEdition => rows[k].edition
                                   /\ rows[k].edition => k \in Reached
                /\ ReadReport(p, rows, gap)
  <2> DEFINE row  == [jobs[j] EXCEPT !.accept = "accepted_gap"]
             rows == [jobs EXCEPT ![j] = row]
  <2>1. j \in InEdition /\ j \notin Free /\ ReadReport(p, rows, {j})
      BY <1>5 DEF AcceptGap, InEdition, Free
  <2>2. row \in JobRows /\ row.accept \in Accepted /\ row.seeds = jobs[j].seeds /\ row.edition = jobs[j].edition
      BY <1>1 DEF JobRows, Accepted
  <2> HIDE DEF row
  <2>3. /\ rows \in [Jobs -> JobRows] /\ rows[j] = row
        /\ \A k \in Jobs \ {j} : rows[k] = jobs[k]
      BY <1>1, <2>2
  <2> HIDE DEF rows
  <2>4. /\ \A k \in Free : rows[k] = jobs[k]
        /\ \A k \in Jobs : jobs[k].accept \in Accepted => rows[k].accept \in Accepted
      BY <2>1, <2>2, <2>3 DEF Free
  <2>5. \A k \in Jobs : rows[k].seeds = jobs[k].seeds /\ rows[k].edition = jobs[k].edition
      BY <2>2, <2>3
  <2>6. \A k \in Jobs : k \in InEdition => k \in Reached
      BY DEF Reached
  <2> QED BY <1>2, <2>1, <2>3, <2>4, <2>5, <2>6
<1> QED BY <1>3, <1>4, <1>5

LEMMA NamedInit == Init => Typed /\ Named
<1> SUFFICES ASSUME Init PROVE Typed /\ Named
    OBVIOUS
<1>1. \A j \in Jobs : jobs[j] = NoRow
    BY DEF Init
<1>2. NoRow \in JobRows /\ NoRow.status = None
    BY RowsTyped DEF NoRow, NewJob, JobRows
<1>3. Rows = {} /\ InEdition = {}
    BY <1>1, <1>2 DEF Rows, InEdition
<1>4. NoReport \in ReportRows /\ NoReport.attach = {} /\ NoReport.review = {} /\ NoReport.gap = {}
    BY RowsTyped DEF NoReport
<1>5. TypeOK
  <2>1. jobs \in [Jobs -> JobRows]
      BY <1>2 DEF Init
  <2> QED BY <1>3, <2>1, Constants DEF Init, TypeOK, NoEdition, EditionRows
<1>6. reports \in [Reporters -> ReportRows] /\ SessionRows
    BY <1>4 DEF Init, SessionRows
<1>7. RowsNamed
    BY <1>1, <1>3 DEF RowsNamed, Free
<1> QED BY <1>5, <1>6, <1>7 DEF Typed, Named

LEMMA NamedStep ==
    ASSUME Typed, Named, [Next]_vars
    PROVE  (Typed /\ Named)'
<1>1. captured' \in [Jobs -> SUBSET Seeds]
  <2>1. \A j \in Jobs : jobs[j].seeds \subseteq Seeds
      BY DEF Typed, TypeOK, JobRows
  <2> QED BY <2>1, CapturedSteps DEF Typed, TypeOK
<1> DEFINE Goal == /\ jobs' \in [Jobs -> JobRows] /\ RowsNamed' /\ SessionRows'
                   /\ reports' \in [Reporters -> ReportRows]
                   /\ edition' \in EditionRows /\ ledger' \subseteq Seeds /\ edits' \in 0 .. EditBound
                   /\ InEdition' # {} => edition'.exists
<1>2. /\ jobs \in [Jobs -> JobRows] /\ reports \in [Reporters -> ReportRows]
      /\ edition \in EditionRows /\ ledger \subseteq Seeds /\ edits \in 0 .. EditBound
      /\ InEdition # {} => edition.exists
      /\ RowsNamed /\ SessionRows
    BY DEF Typed, TypeOK, Named
<1>3. ASSUME UNCHANGED vars
      PROVE  Goal
    BY <1>2, <1>3 DEF vars, RowsNamed, SessionRows, Rows, Free, InEdition
<1>4. ASSUME ScheduleAnnual
      PROVE  Goal
  <2>1. UNCHANGED <<edition, ledger, reports, edits>>
      BY <1>4 DEF ScheduleAnnual
  <2> QED BY <1>2, <1>4, <2>1, ScheduledRows, ScheduleNamed, ChangeSessions
<1>5. ASSUME NEW apply \in BOOLEAN, PlanShards(apply)
      PROVE  Goal
  <2>1. UNCHANGED <<ledger, reports, edits>> /\ edition' \in EditionRows /\ edition'.exists
      BY <1>2, <1>5 DEF PlanShards, EditionRows
  <2>2. CASE CreateShards
      BY <1>2, <2>1, <2>2, CreatedRows, CreateNamed, ChangeSessions
  <2>3. CASE UNCHANGED jobs
    <3>1. UNCHANGED <<Rows, Free, InEdition>>
        BY <2>3 DEF Rows, Free, InEdition
    <3>2. RowsNamed'
        BY <1>2, <2>3, <3>1 DEF RowsNamed
    <3> QED BY <1>2, <2>1, <2>3, <3>1, <3>2, ChangeSessions
  <2> QED BY <1>5, <2>2, <2>3 DEF PlanShards
<1>6. ASSUME Salvage
      PROVE  Goal
  <2>1. UNCHANGED <<ledger, reports, edits>> /\ edition' \in EditionRows /\ edition'.exists
      BY <1>2, <1>6 DEF Salvage, EditionRows
  <2>2. RowsChange
      BY <1>6, SalvagedRows DEF Salvage, RowsChange
  <2>3. jobs' \in [Jobs -> JobRows]
      BY <2>2 DEF RowsChange
  <2> QED BY <1>2, <2>1, <2>2, <2>3, ChangeNamed, ChangeSessions
<1>7. ASSUME RowsStay /\ UNCHANGED <<edition, ledger, reports>> /\ edits' \in 0 .. EditBound
      PROVE  Goal
  <2>1. RowsChange /\ jobs' \in [Jobs -> JobRows]
      BY <1>7 DEF RowsStay, RowsChange
  <2>2. Rows' = Rows /\ RowsNamed' /\ InEdition \subseteq InEdition'
      BY <1>2, <2>1, ChangeNamed
  <2>3. InEdition' = InEdition
      BY <1>7, <2>2 DEF RowsStay, InEdition, Rows
  <2> QED BY <1>2, <1>7, <2>1, <2>2, <2>3, ChangeSessions
<1>8. ASSUME NEW p \in Reporters,
             \/ StartReport(p) \/ SalvageReport(p)
             \/ \E j \in Jobs : AcceptGap(p, j)
      PROVE  Goal
  <2>1. PICK rows \in [Jobs -> JobRows], gap \in SUBSET InEdition :
           /\ gap = {} \/ \E j \in Jobs : gap = {j}
           /\ \A k \in Free : rows[k] = jobs[k]
           /\ ReadReport(p, rows, gap)
      BY <1>2, <1>8, ReadRows DEF Typed, TypeOK, Named
  <2>2. SessionRows' /\ reports' \in [Reporters -> ReportRows]
      BY <2>1, ReadSessions
  <2>3. UNCHANGED <<jobs, edition, ledger, edits>>
      BY <2>1 DEF ReadReport
  <2>4. UNCHANGED <<Rows, Free, InEdition>>
      BY <2>3 DEF Rows, Free, InEdition
  <2> QED BY <1>2, <2>2, <2>3, <2>4 DEF RowsNamed
<1>9. ASSUME NEW p \in Reporters, WriteArtifacts(p) \/ ReportFails(p)
      PROVE  Goal
  <2>1. /\ reports' \in {[reports EXCEPT ![p] = NoReport], [reports EXCEPT ![p].pc = "written"]}
        /\ ledger' \in {ledger, reports[p].missing} /\ UNCHANGED <<jobs, edition, edits>>
      BY <1>9 DEF WriteArtifacts, ReportFails
  <2>2. UNCHANGED <<Rows, Free, InEdition>>
      BY <2>1 DEF Rows, Free, InEdition
  <2>3. reports[p].missing \subseteq Seeds
      BY <1>2 DEF ReportRows
  <2>4. SessionRows' /\ reports' \in [Reporters -> ReportRows]
      BY <2>1, <2>2, EndSessions
  <2> QED BY <1>2, <2>1, <2>2, <2>3, <2>4 DEF RowsNamed
<1>10. ASSUME NEW p \in Reporters, WriteReport(p)
       PROVE  Goal
  <2>1. RowsChange /\ jobs' \in [Jobs -> JobRows]
      BY <1>10, WrittenRows DEF RowsChange
  <2>2. RowsNamed' /\ Rows' = Rows /\ InEdition \subseteq InEdition'
      BY <1>2, <2>1, ChangeNamed
  <2>3. /\ reports' = [reports EXCEPT ![p] = NoReport] /\ UNCHANGED <<ledger, edits>>
        /\ edition' = [exists |-> TRUE, generated |-> TRUE, research |-> reports[p].research, gaps |-> reports[p].gaps]
      BY <1>10 DEF WriteReport
  <2>4. edition' \in EditionRows /\ edition'.exists
      BY <1>2, <2>3 DEF EditionRows, ReportRows
  <2>5. SessionRows' /\ reports' \in [Reporters -> ReportRows]
      BY <2>2, <2>3, EndSessions
  <2> QED BY <1>2, <2>1, <2>2, <2>3, <2>4, <2>5
<1> HIDE DEF Goal
<1>11. Goal
    BY <1>3, <1>4, <1>5, <1>6, <1>7, <1>8, <1>9, <1>10, Steps
<1> QED BY <1>1, <1>11 DEF Goal, Typed, TypeOK, Named

LEMMA NamedAlways == Spec => [](Typed /\ Named)
<1>1. (Typed /\ Named) /\ [Next]_vars => (Typed /\ Named)'
    BY NamedStep
<1> QED BY <1>1, NamedInit, PTL DEF Spec

\* Every row is well formed, and only a row of an existing edition is attached to it.
THEOREM TypeCorrect == Spec => []TypeOK
<1>1. Typed /\ Named => TypeOK
    BY DEF Typed
<1> QED BY <1>1, NamedAlways, PTL

\* Whatever is planned, salvaged and reported on, by any number of sessions, the jobs of an edition
\* have keys of their own: the row of the full-site job has its own, that of a shard its seed's.
THEOREM KeysUnique == Spec => []ShardKeysUnique
<1>1. Typed /\ Named => ShardKeysUnique
  <2> SUFFICES ASSUME Named, NEW j \in InEdition, NEW k \in InEdition, j # k
               PROVE  jobs[j].key # jobs[k].key /\ jobs[j].key # None
      BY DEF ShardKeysUnique
  <2>1. \A l \in {j, k} : jobs[l].key = jobs[l].name /\ jobs[l].name \in Seeds \cup {"full"}
      BY DEF Named, RowsNamed, FullSite, Shard, InEdition
  <2>2. jobs[j].name # jobs[k].name
      BY DEF Named, RowsNamed, InEdition
  <2> QED BY <2>1, <2>2, Constants DEF None
<1> QED BY <1>1, NamedAlways, PTL

-----------------------------------------------------------------------------
(* What an operator decided.                                               *)

\* A session reviews no job whose gap was accepted before it commits.
Unsettled == \A p \in Reporters : \A j \in reports[p].review : jobs[j].accept \notin Accepted

LEMMA UnsettledInit == Init => Unsettled
BY DEF Init, Unsettled, NoReport

LEMMA UnsettledStep ==
    ASSUME Typed, Named, Unsettled, [Next]_vars, \A p, q \in Reporters : p = q
    PROVE  Unsettled'
<1> DEFINE Same(k) == jobs'[k].accept \in Accepted => jobs[k].accept \in Accepted
<1>1. \A p \in Reporters : reports[p].review \subseteq Rows
    BY DEF Named, SessionRows
<1>2. ASSUME UNCHANGED reports, \A k \in Rows : Same(k)
      PROVE  Unsettled'
    BY <1>1, <1>2 DEF Unsettled
<1>3. CASE UNCHANGED vars
    BY <1>2, <1>3 DEF vars
<1>4. CASE ScheduleAnnual
    BY <1>2, <1>4, ScheduledRows DEF ScheduleAnnual
<1>5. ASSUME NEW apply \in BOOLEAN, PlanShards(apply)
      PROVE  Unsettled'
    BY <1>2, <1>5, CreatedRows DEF PlanShards
<1>6. CASE Salvage
  <2>1. \A k \in Rows : k \in Jobs
      BY DEF Rows
  <2> QED BY <1>2, <1>6, <2>1, SalvagedRows DEF Salvage, Heeds, KeepsGap
<1>7. CASE RowsStay /\ UNCHANGED <<edition, ledger, reports>> /\ edits' \in 0 .. EditBound
    BY <1>2, <1>7 DEF RowsStay, KeepsGap, Rows
<1>8. ASSUME NEW p \in Reporters,
             \/ StartReport(p) \/ SalvageReport(p)
             \/ \E j \in Jobs : AcceptGap(p, j)
      PROVE  Unsettled'
  <2>1. PICK rows \in [Jobs -> JobRows], gap \in SUBSET InEdition :
           /\ gap = {} \/ \E j \in Jobs : gap = {j}
           /\ \A k \in Free : rows[k] = jobs[k]
           /\ \A k \in Jobs : jobs[k].accept \in Accepted => rows[k].accept \in Accepted
           /\ ReadReport(p, rows, gap)
      BY <1>8, ReadRows
  <2>2. /\ \A q \in Reporters \ {p} : reports'[q] = reports[q]
        /\ reports'[p].review = Reviewed(rows)
      BY <2>1, ReadSessions
  <2>3. jobs' = jobs
      BY <2>1 DEF ReadReport
  <2>4. \A k \in Reviewed(rows) : jobs[k].accept \notin Accepted
      BY <2>1 DEF Reviewed, Unaccepted
  <2> QED BY <2>2, <2>3, <2>4 DEF Unsettled
<1>9. ASSUME NEW p \in Reporters, WriteArtifacts(p) \/ ReportFails(p)
      PROVE  Unsettled'
  <2>1. /\ reports' \in {[reports EXCEPT ![p] = NoReport], [reports EXCEPT ![p].pc = "written"]}
        /\ jobs' = jobs
      BY <1>9 DEF WriteArtifacts, ReportFails
  <2>2. NoReport.review = {} /\ [reports[p] EXCEPT !.pc = "written"].review = reports[p].review
      BY DEF Typed, ReportRows, NoReport
  <2>3. \A q \in Reporters : reports'[q].review \subseteq reports[q].review
      BY <2>1, <2>2 DEF Typed
  <2> QED BY <2>1, <2>3 DEF Unsettled
<1>10. ASSUME NEW p \in Reporters, WriteReport(p)
       PROVE  Unsettled'
  <2>1. \A q \in Reporters : reports'[q].review = {}
      BY <1>10 DEF WriteReport, Typed, NoReport
  <2> QED BY <2>1 DEF Unsettled
<1> HIDE DEF Same
<1> QED BY <1>3, <1>4, <1>5, <1>6, <1>7, <1>8, <1>9, <1>10, Steps

\* While one session at a time reports, a gap that was accepted stays accepted, whatever is
\* planned, run, salvaged or reviewed; and a value chosen for a job stays until the next patch, or
\* until the acceptance of a gap writes a config that it read before.
THEOREM DecisionsHold ==
    ASSUME \A p, q \in Reporters : p = q
    PROVE  Spec => DecisionsStay
<1> DEFINE Kept(j) ==
              /\ jobs[j].accept \in Accepted => jobs'[j].accept \in Accepted
              /\ jobs[j].config.stall = "own" /\ jobs'[j].config.stall # "own"
                    => PatchConfig(j, "legacy") \/ \E p \in Reporters : WriteReport(p)
<1>1. ASSUME Typed, Named, Unsettled, Next, NEW j \in Jobs
      PROVE  Kept(j)
  <2>1. Heeds(jobs[j], jobs'[j]) => Kept(j)
      BY DEF Heeds, KeepsGap
  <2>2. jobs'[j] = jobs[j] => Kept(j)
      OBVIOUS
  <2>3. j \in Free => jobs[j].accept \notin Accepted /\ jobs[j].config.stall # "own"
    <3>1. NoRow.accept = None /\ NoRow.config.stall = "profile"
        BY DEF NoRow, NewJob, Config
    <3> QED BY <1>1, <3>1 DEF Named, RowsNamed, Accepted, None
  <2>4. j \in Rows \/ j \in Free
      BY DEF Free
  <2>5. CASE ScheduleAnnual
      BY <1>1, <2>2, <2>3, <2>4, <2>5, ScheduledRows
  <2>6. ASSUME NEW apply \in BOOLEAN, PlanShards(apply)
        PROVE  Kept(j)
      BY <1>1, <2>2, <2>3, <2>4, <2>6, CreatedRows DEF PlanShards
  <2>7. CASE Salvage
      BY <1>1, <2>1, <2>7, SalvagedRows DEF Salvage
  <2>8. CASE ReconcileOptions
      BY <1>1, <2>1, <2>8, ReconcileRows
  <2>9. ASSUME NEW k \in Jobs, Work(k) \/ WatchdogStarts(k)
        PROVE  Kept(j)
      BY <1>1, <2>1, <2>9, WorkRows
  <2>10. ASSUME NEW k \in Jobs, RetryJob(k) \/ \E stall \in {"legacy", "own"} : PatchConfig(k, stall)
         PROVE  Kept(j)
      BY <1>1, <2>10, EditRows DEF Heeds, RowsStay, KeepsGap
  <2>11. ASSUME NEW p \in Reporters, WriteReport(p)
         PROVE  Kept(j)
      BY <1>1, <2>11, WrittenRows DEF Unsettled
  <2>12. ASSUME NEW p \in Reporters,
                \/ StartReport(p) \/ WriteArtifacts(p) \/ ReportFails(p) \/ SalvageReport(p)
                \/ \E k \in Jobs : AcceptGap(p, k)
         PROVE  Kept(j)
      BY <2>2, <2>12 DEF StartReport, WriteArtifacts, ReportFails, SalvageReport, AcceptGap, ReadReport
  <2> HIDE DEF Kept
  <2> QED BY <1>1, <2>5, <2>6, <2>7, <2>8, <2>9, <2>10, <2>11, <2>12 DEF Next, Command
<1>2. Typed /\ Named /\ Unsettled /\ [Next]_vars => [\A j \in Jobs : Kept(j)]_vars
    BY <1>1
<1>3. Unsettled /\ (Typed /\ Named) /\ [Next]_vars => Unsettled'
    BY UnsettledStep
<1> HIDE DEF Kept
<1>4. Spec => [][\A j \in Jobs : Kept(j)]_vars
    BY <1>2, <1>3, NamedAlways, UnsettledInit, PTL DEF Spec
<1> QED BY <1>4 DEF DecisionsStay, Kept

-----------------------------------------------------------------------------
(* What the report of an edition accounts for.                             *)

\* A seed is listed as missing, or a job that is reached has captured it.
Accounted(missing) == \A s \in Seeds : s \in missing \/ \E j \in Reached : s \in captured[j]

\* The jobs of an edition cover all seeds.
Covered == InEdition # {} => \A s \in Seeds : \E j \in InEdition : s \in jobs[j].seeds

\* What a session has read still accounts for every seed when it is written.
Honest(r) ==
    /\ r.research => InEdition \cup r.attach # {}
    /\ r.pc # "idle" /\ (edition.research \/ r.research) => Accounted(r.missing)
    /\ r.pc = "written" => ledger = r.missing

Gaps ==
    /\ IndexedOnly /\ Covered
    /\ edition.research => InEdition # {} /\ Accounted(ledger)
    /\ \A p \in Reporters : Honest(reports[p])

\* A row that exists is inherited by every step.
LEMMA RowsInherit ==
    ASSUME Typed, Named, [Next]_vars
    PROVE  \A k \in Rows : k \in Jobs /\ Inherits(jobs[k], jobs'[k])
<1>1. \A k \in Rows : k \in Jobs /\ Inherits(jobs[k], jobs[k])
    BY DEF Rows, Inherits
<1>2. ASSUME NEW apply \in BOOLEAN, PlanShards(apply)
      PROVE  \A k \in Rows : Inherits(jobs[k], jobs'[k])
    BY <1>1, <1>2, CreatedRows DEF PlanShards
<1>3. ASSUME NEW p \in Reporters,
             \/ StartReport(p) \/ WriteArtifacts(p) \/ ReportFails(p) \/ SalvageReport(p)
             \/ \E j \in Jobs : AcceptGap(p, j)
      PROVE  jobs' = jobs
    BY <1>3 DEF StartReport, WriteArtifacts, ReportFails, SalvageReport, AcceptGap, ReadReport
<1>4. ASSUME NEW p \in Reporters, WriteReport(p)
      PROVE  \A k \in Rows : Inherits(jobs[k], jobs'[k])
    BY <1>4, WrittenRows DEF RowsChange
<1>5. CASE UNCHANGED vars
    BY <1>1, <1>5 DEF vars
<1>6. CASE ScheduleAnnual
    BY <1>1, <1>6, ScheduledRows
<1>7. CASE Salvage
    BY <1>1, <1>7, SalvagedRows DEF Salvage
<1>8. CASE RowsStay
    BY <1>1, <1>8 DEF RowsStay, RowsChange
<1> QED BY <1>1, <1>2, <1>3, <1>4, <1>5, <1>6, <1>7, <1>8, Steps

\* What is captured stays so, and stays within reach: no step takes the tag of an indexed job.
LEMMA AccountedStays ==
    ASSUME Typed, Named, IndexedOnly, [Next]_vars, NEW missing, Accounted(missing)
    PROVE  Accounted(missing)'
<1> SUFFICES ASSUME NEW j \in Reached, NEW s \in captured[j]
             PROVE  j \in Reached' /\ s \in captured'[j]
    BY DEF Accounted
<1>1. j \in Rows /\ j \in Jobs
    BY DEF Reached, InEdition, Annual, Rows
<1>2. jobs[j].status = "indexed"
    BY <1>1 DEF IndexedOnly
<1>3. Inherits(jobs[j], jobs'[j])
    BY <1>1, RowsInherit
<1>4. j \in Rows'
    BY <1>1, <1>3 DEF Inherits, Rows
<1>5. j \in Reached'
    BY <1>1, <1>2, <1>3, <1>4 DEF Reached, InEdition, Annual, Inherits
<1>6. captured'[j] = captured[j]
    BY <1>1, <1>2, CapturedSteps DEF Typed, TypeOK
<1> QED BY <1>5, <1>6

LEMMA IndexedStep ==
    ASSUME Typed, Named, IndexedOnly, [Next]_vars
    PROVE  IndexedOnly'
<1>1. ASSUME NEW j \in Jobs, captured[j] # {}
      PROVE  jobs'[j].status = "indexed"
  <2>1. jobs[j].status = "indexed" /\ j \in Rows
      BY <1>1 DEF IndexedOnly, Rows, None
  <2> QED BY <2>1, RowsInherit DEF Inherits
<1> QED BY <1>1, CapturedSteps DEF IndexedOnly, Typed, TypeOK

LEMMA CoveredStep ==
    ASSUME Typed, Named, Covered, [Next]_vars
    PROVE  Covered' /\ InEdition \subseteq InEdition'
<1>1. \A k \in Rows : k \in Jobs /\ Inherits(jobs[k], jobs'[k])
    BY RowsInherit
<1>2. InEdition \subseteq InEdition'
    BY <1>1 DEF InEdition, Inherits, Rows
<1>3. RowsNamed'
    BY NamedStep DEF Named
<1>4. ASSUME InEdition # {}
      PROVE  Covered'
    BY <1>1, <1>2, <1>4 DEF Covered, InEdition, Inherits
<1>5. ASSUME InEdition' \subseteq Rows
      PROVE  Covered'
  <2>1. ASSUME NEW j \in InEdition'
        PROVE  FullSite(jobs'[j]) \/ j \in InEdition
    <3>1. FullSite(jobs'[j]) \/ Shard(jobs'[j])
        BY <1>3 DEF RowsNamed, InEdition
    <3>2. jobs[j].name = jobs'[j].name /\ (FullSite(jobs[j]) \/ Shard(jobs[j])) /\ j \in Rows
        BY <1>1, <1>5 DEF Inherits, Named, RowsNamed
    <3> QED BY <3>1, <3>2, Constants DEF FullSite, Shard, InEdition
  <2> QED BY <1>4, <2>1 DEF Covered, FullSite
<1>6. ASSUME NEW apply \in BOOLEAN, PlanShards(apply), InEdition = {}
      PROVE  Covered'
  <2>1. Planned = Seeds
      BY <1>6 DEF Planned, Legacy, Keys
  <2>2. CASE CreateShards
    <3>1. ASSUME NEW s \in Seeds
          PROVE  \E j \in InEdition' : s \in jobs'[j].seeds
      <4>1. PICK j \in Free : jobs'[j] = NewJob(s, {s}, s, "seed_group", TRUE, "pending")
          BY <2>1, <2>2, CreatedRows
      <4>2. jobs'[j].status = "queued" /\ jobs'[j].edition /\ jobs'[j].seeds = {s}
          BY <4>1 DEF NewJob
      <4> QED BY <4>2 DEF InEdition, Rows, Free, None
    <3> QED BY <3>1 DEF Covered
  <2>3. CASE UNCHANGED jobs
      BY <1>5, <2>3 DEF InEdition, Rows
  <2> QED BY <1>6, <2>2, <2>3 DEF PlanShards
<1>7. InEdition' \subseteq Rows \/ \E apply \in BOOLEAN : PlanShards(apply)
  <2>1. ASSUME Rows' \subseteq Rows PROVE InEdition' \subseteq Rows
      BY <2>1 DEF InEdition
  <2>2. CASE ScheduleAnnual
      BY <2>2, ScheduleNamed DEF InEdition
  <2>3. ASSUME RowsChange PROVE Rows' = Rows
      BY <2>3, ChangeNamed DEF Named
  <2>4. CASE Salvage
      BY <2>1, <2>3, <2>4, SalvagedRows DEF Salvage, RowsChange
  <2>5. ASSUME NEW p \in Reporters, WriteReport(p)
        PROVE  InEdition' \subseteq Rows
      BY <2>1, <2>3, <2>5, WrittenRows
  <2>6. ASSUME jobs' = jobs PROVE InEdition' \subseteq Rows
      BY <2>6 DEF InEdition, Rows
  <2>7. ASSUME NEW p \in Reporters,
               \/ StartReport(p) \/ WriteArtifacts(p) \/ ReportFails(p) \/ SalvageReport(p)
               \/ \E j \in Jobs : AcceptGap(p, j)
        PROVE  InEdition' \subseteq Rows
      BY <2>6, <2>7 DEF StartReport, WriteArtifacts, ReportFails, SalvageReport, AcceptGap, ReadReport
  <2>8. CASE UNCHANGED vars
      BY <2>6, <2>8 DEF vars
  <2>9. CASE RowsStay
      BY <2>1, <2>3, <2>9 DEF RowsStay
  <2> QED BY <2>2, <2>4, <2>5, <2>7, <2>8, <2>9, Steps
<1> QED BY <1>2, <1>4, <1>5, <1>6, <1>7

\* A report that may declare the edition ready lists every seed that no job within reach captured.
LEMMA MissingAccounted ==
    ASSUME Typed, Named, Covered, NEW rows \in [Jobs -> JobRows],
           \A k \in Jobs : /\ rows[k].seeds = jobs[k].seeds
                           /\ k \in InEdition => rows[k].edition
                           /\ rows[k].edition => k \in Reached,
           InEdition # {} \/ ResearchReady(rows)
    PROVE  /\ Accounted(Missing(rows))
           /\ ResearchReady(rows) => InEdition \cup {k \in Jobs : rows[k].edition # jobs[k].edition} # {}
<1>1. ASSUME NEW s \in Seeds
      PROVE  \E j \in Jobs : rows[j].edition /\ s \in rows[j].seeds
  <2>1. CASE InEdition # {}
      BY <2>1 DEF Covered, InEdition, Rows
  <2>2. CASE InEdition = {}
    <3>1. PICK j \in Jobs : rows[j].edition
        BY <2>2 DEF ResearchReady, SearchReady
    <3>2. j \in Rows
        BY <3>1 DEF Reached, InEdition, Annual
    <3>3. FullSite(jobs[j])
        BY <2>2, <3>2 DEF Named, RowsNamed, Shard, InEdition
    <3> QED BY <3>1, <3>3 DEF FullSite
  <2> QED BY <2>1, <2>2
<1>2. ASSUME NEW s \in Seeds, s \notin Missing(rows)
      PROVE  \E j \in Reached : s \in captured[j]
  <2> DEFINE of == {k \in Jobs : rows[k].edition}
  <2>1. \E j \in Jobs : rows[j].edition /\ s \in captured[j]
    <3>1. PICK j \in Jobs : rows[j].edition /\ s \in rows[j].seeds
        BY <1>1
    <3>2. s \in UNION {rows[k].seeds : k \in of}
        BY <3>1
    <3>3. s \in UNION {captured[k] : k \in of}
        BY <1>2, <3>2 DEF Missing
    <3> QED BY <3>3
  <2> QED BY <2>1
<1>3. ASSUME ResearchReady(rows), InEdition = {}
      PROVE  {k \in Jobs : rows[k].edition # jobs[k].edition} # {}
  <2>1. PICK j \in Jobs : rows[j].edition
      BY <1>3 DEF ResearchReady, SearchReady
  <2>2. j \in Rows
      BY <2>1 DEF Reached, InEdition, Annual
  <2>3. ~jobs[j].edition
      BY <1>3, <2>2 DEF InEdition
  <2> QED BY <2>1, <2>3
<1> QED BY <1>2, <1>3 DEF Accounted

LEMMA GapsInit == Init => Gaps
<1> SUFFICES ASSUME Init PROVE Gaps
    OBVIOUS
<1>1. \A j \in Jobs : jobs[j] = NoRow
    BY DEF Init
<1>2. NoRow.status = None
    BY DEF NoRow, NewJob
<1>3. InEdition = {}
    BY <1>1, <1>2 DEF Rows, InEdition
<1>4. ~NoReport.research /\ NoReport.pc = "idle"
    BY DEF NoReport
<1> QED BY <1>3, <1>4 DEF Init, Gaps, IndexedOnly, Covered, NoEdition, Honest

LEMMA GapsStep ==
    ASSUME Typed, Named, Gaps, [Next]_vars, \A p, q \in Reporters : p = q
    PROVE  Gaps'
<1>1. IndexedOnly' /\ Covered' /\ InEdition \subseteq InEdition'
    BY IndexedStep, CoveredStep DEF Gaps
<1>2. \A missing : Accounted(missing) => Accounted(missing)'
    BY AccountedStays DEF Gaps
<1> DEFINE Goal == /\ edition'.research => InEdition' # {} /\ Accounted(ledger)'
                   /\ \A p \in Reporters : Honest(reports[p])'
<1>3. ASSUME UNCHANGED <<ledger, reports>>, edition'.research = edition.research
      PROVE  Goal
    BY <1>1, <1>2, <1>3 DEF Gaps, Honest
<1>4. ASSUME UNCHANGED vars
      PROVE  Goal
    BY <1>3, <1>4 DEF vars
<1>5. ASSUME ScheduleAnnual
      PROVE  Goal
    BY <1>3, <1>5 DEF ScheduleAnnual
<1>6. ASSUME Salvage \/ \E apply \in BOOLEAN : PlanShards(apply)
      PROVE  Goal
    BY <1>3, <1>6 DEF Salvage, PlanShards, Typed, TypeOK, EditionRows
<1>7. ASSUME UNCHANGED <<edition, ledger, reports>>
      PROVE  Goal
    BY <1>3, <1>7
<1>8. ASSUME NEW p \in Reporters,
             \/ StartReport(p) \/ SalvageReport(p)
             \/ \E j \in Jobs : AcceptGap(p, j)
      PROVE  Goal
  <2>1. PICK rows \in [Jobs -> JobRows], gap \in SUBSET InEdition :
           /\ gap = {} \/ \E j \in Jobs : gap = {j}
           /\ \A k \in Free : rows[k] = jobs[k]
           /\ \A k \in Jobs : /\ rows[k].seeds = jobs[k].seeds
                              /\ k \in InEdition => rows[k].edition
                              /\ rows[k].edition => k \in Reached
           /\ ReadReport(p, rows, gap)
      BY <1>8, ReadRows
  <2>2. UNCHANGED <<jobs, captured, edition, ledger>>
      BY <2>1 DEF ReadReport
  <2>3. /\ \A q \in Reporters \ {p} : reports'[q] = reports[q]
        /\ reports'[p].pc = "open"
        /\ reports'[p].attach = {k \in Jobs : rows[k].edition # jobs[k].edition}
        /\ reports'[p].missing = Missing(rows) /\ reports'[p].research = ResearchReady(rows)
      BY <2>1, ReadSessions
  <2>4. edition.research \/ ResearchReady(rows) => Accounted(Missing(rows))
      BY <2>1, MissingAccounted DEF Gaps
  <2>5. ResearchReady(rows) => InEdition \cup {k \in Jobs : rows[k].edition # jobs[k].edition} # {}
      BY <2>1, MissingAccounted DEF Gaps
  <2>6. Honest(reports[p])'
      BY <1>1, <1>2, <2>2, <2>3, <2>4, <2>5 DEF Honest
  <2> QED BY <1>1, <1>2, <2>2, <2>6 DEF Gaps
<1>9. ASSUME NEW p \in Reporters, WriteArtifacts(p)
      PROVE  Goal
  <2>1. /\ reports[p].pc = "open" /\ ledger' = reports[p].missing
        /\ reports' = [reports EXCEPT ![p].pc = "written"] /\ UNCHANGED edition
      BY <1>9 DEF WriteArtifacts
  <2>2. /\ reports'[p].pc = "written" /\ reports'[p].missing = reports[p].missing
        /\ reports'[p].research = reports[p].research /\ reports'[p].attach = reports[p].attach
      BY <2>1 DEF Typed, ReportRows
  <2>3. Honest(reports[p])'
      BY <1>1, <1>2, <2>1, <2>2 DEF Gaps, Honest
  <2> QED BY <1>1, <1>2, <2>1, <2>3 DEF Gaps, Honest
<1>10. ASSUME NEW p \in Reporters, ReportFails(p)
       PROVE  Goal
  <2>1. reports' = [reports EXCEPT ![p] = NoReport] /\ UNCHANGED <<edition, ledger>>
      BY <1>10 DEF ReportFails
  <2>2. reports'[p].pc = "idle" /\ ~reports'[p].research
      BY <2>1 DEF Typed, NoReport
  <2>3. Honest(reports[p])'
      BY <2>2 DEF Honest
  <2> QED BY <1>1, <1>2, <2>1, <2>3 DEF Gaps
<1>11. ASSUME NEW p \in Reporters, WriteReport(p)
       PROVE  Goal
  <2>1. /\ reports[p].pc = "written" /\ ledger' = ledger /\ reports' = [reports EXCEPT ![p] = NoReport]
        /\ edition'.research = reports[p].research
      BY <1>11 DEF WriteReport
  <2>2. reports'[p].pc = "idle" /\ ~reports'[p].research
      BY <2>1 DEF Typed, NoReport
  <2>3. Honest(reports[p])'
      BY <2>2 DEF Honest
  <2>4. reports[p].research => InEdition' # {}
    <3>1. \A k \in reports[p].attach : k \in Rows' /\ jobs'[k].edition
        BY <1>11, WrittenRows, ChangeNamed DEF Named, SessionRows
    <3> QED BY <1>1, <3>1 DEF Gaps, Honest, InEdition
  <2>5. reports[p].research => Accounted(ledger)'
      BY <1>2, <2>1 DEF Gaps, Honest
  <2> QED BY <2>1, <2>3, <2>4, <2>5
<1> HIDE DEF Goal
<1>12. Goal
    BY <1>4, <1>5, <1>6, <1>7, <1>8, <1>9, <1>10, <1>11, Steps
<1> QED BY <1>1, <1>12 DEF Gaps, Goal

\* While one session at a time reports, an edition that is declared research ready has an account
\* of every seed: no plan, salvage, retry or later report drops one from both its ledger and the
\* captures of its jobs.
THEOREM GapsAccounted ==
    ASSUME \A p, q \in Reporters : p = q
    PROVE  Spec => []NoSilentGap
<1>1. Gaps /\ (Typed /\ Named) /\ [Next]_vars => Gaps'
    BY GapsStep
<1>2. Gaps => NoSilentGap
    BY DEF Gaps, Accounted, Reached, NoSilentGap
<1> QED BY <1>1, <1>2, NamedAlways, GapsInit, PTL DEF Spec
=============================================================================
