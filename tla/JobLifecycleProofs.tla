------------------------ MODULE JobLifecycleProofs ------------------------
(***************************************************************************)
(* For every set of jobs, workers and commands, and every bound: the type   *)
(* invariant, the exclusion of runners by the job lock, and the retry       *)
(* budget.  For a process that acts alone: captures are indexed once and    *)
(* stay, and the status of a job follows its documented lifecycle.          *)
(***************************************************************************)
EXTENDS JobLifecycle, FiniteSetTheorems, WellFoundedInduction, TLAPS

USE JobsAssumption, ProcsAssumption, BoundsAssumption

\* The rows that the handlers write are rows: what each helper returns.
LEMMA RecordedType ==
    ASSUME NEW r \in Row, NEW outcome \in Outcomes
    PROVE  Recorded(r, outcome) \in Row
  BY DEF Recorded, Row, Outcomes, Status, CrawlerStatus

LEMMA PolicyType ==
    ASSUME NEW r \in Row, NEW j \in Jobs
    PROVE  FailurePolicy(j, r) \in Row
<1>1. r.retries + 1 \in Nat
  BY DEF Row
<1>2. ASSUME NEW s \in Row PROVE FlagForReview(s) \in Row
  BY DEF FlagForReview, Row
<1>3. CASE r.backend = "browsertrix" /\ j \in FreshJobs /\ MaxFreshFailures > 0
  BY <1>1, <1>3 DEF FailurePolicy, Row, Status
<1>4. CASE ~(r.backend = "browsertrix" /\ j \in FreshJobs /\ MaxFreshFailures > 0)
           /\ r.backend = "fallback"
  <2>1. [r EXCEPT !.status = "failed", !.retries = r.retries + 1] \in Row
    BY <1>1 DEF Row, Status
  <2>2. [r EXCEPT !.status = "retryable", !.retries = r.retries + 1] \in Row
    BY <1>1 DEF Row, Status
  <2>3. QED
    BY <1>2, <1>4, <2>1, <2>2 DEF FailurePolicy
<1>5. CASE r.backend # "fallback"
           /\ ~(r.backend = "browsertrix" /\ j \in FreshJobs /\ MaxFreshFailures > 0)
  <2>1. [r EXCEPT !.status = "retryable", !.retries = r.retries + 1] \in Row
    BY <1>1 DEF Row, Status
  <2>2. QED
    BY <1>2, <1>5, <2>1 DEF FailurePolicy
<1>6. QED
  BY <1>3, <1>4, <1>5

LEMMA StatusType ==
    ASSUME NEW r \in Row, NEW s \in Status
    PROVE  [r EXCEPT !.status = s] \in Row
  BY DEF Row

LEMMA WriteType ==
    ASSUME DbTyped, NEW j \in Jobs, NEW new \in Row, Write(j, new),
           started' \in [Jobs -> {"unset", "recent", "old"}],
           copies' \in [Jobs -> SUBSET Versions]
    PROVE  DbTyped'
  BY DEF Write, DbTyped

\* There is an oldest job in any non-empty set of jobs.
LEMMA OldestExists ==
    ASSUME NEW S, S \subseteq Jobs, S # {}
    PROVE  Oldest(S) \in S
<1> DEFINE Less == OpToRel(<, Nat)
<1>1. IsWellFoundedOn(Less, Nat)
  BY NatLessThanWellFounded
<1>2. \A x, y \in Nat : y < x => <<y, x>> \in Less
  BY DEF OpToRel
<1> HIDE DEF Less
<1>3. S \subseteq Nat
  OBVIOUS
<1>4. PICK x \in S : \A y \in S : <<y, x>> \notin Less
  BY <1>1, <1>3, WFMin
<1>5. ASSUME NEW y \in S PROVE x <= y
  <2>1. x \in Nat /\ y \in Nat
    BY <1>3
  <2>2. ~ (y < x)
    BY <1>2, <1>4, <2>1
  <2>3. QED
    BY <2>1, <2>2
<1>6. QED
  BY <1>5 DEF Oldest

\* How the locals of a process change: it returns, or moves on with its job.
LEMMA ReturnType ==
    ASSUME ProcsTyped, NEW p \in Procs, Return(p)
    PROVE  ProcsTyped'
  BY DEF ProcsTyped, Return, Goto, Labels, Unassigned, Indexable, NoJob

LEMMA GotoType ==
    ASSUME ProcsTyped, NEW p \in Procs, NEW label \in Labels, Goto(p, label),
           UNCHANGED <<todo, found, target, crawlOk, seen, gone>>,
           cur' = cur \/ \E j \in Jobs : cur' = [cur EXCEPT ![p] = j],
           label \notin Unassigned => cur'[p] \in Jobs
    PROVE  ProcsTyped'
  BY DEF ProcsTyped, Goto

LEMMA HasJob ==
    ASSUME ProcsTyped, NEW p \in Procs, pc[p] \notin Unassigned
    PROVE  cur[p] \in Jobs
  BY DEF ProcsTyped

LEMMA UnchangedType ==
    /\ DbTyped /\ UNCHANGED dbVars => DbTyped'
    /\ ProcsTyped /\ UNCHANGED <<pc, procVars>> => ProcsTyped'
    /\ CountersTyped /\ UNCHANGED boundVars => CountersTyped'
  BY DEF DbTyped, ProcsTyped, CountersTyped, dbVars, procVars, boundVars

\* The rows that a step of the code writes are rows.
LEMMA DbStep == ASSUME TypeOK, Next PROVE DbTyped'
<1> USE DEF TypeOK
<1>1. ASSUME NEW p \in Procs, RecoverCommits(p) PROVE DbTyped'
  <2>1. ASSUME NEW j \in Jobs PROVE [row[j] EXCEPT !.status = "retryable"] \in Row
    BY StatusType DEF DbTyped, Status
  <2>2. found[p] \subseteq Jobs
    BY TypeOK DEF ProcsTyped
  <2>3. QED
    BY <1>1, <2>1, <2>2, TypeOK DEF RecoverCommits, DbTyped
<1>2. ASSUME NEW p \in Workers, Sync(p) PROVE DbTyped'
  <2>1. cur[p] \in Jobs
    BY <1>2, HasJob DEF Sync, Unassigned, Procs
  <2>2. row[cur[p]] \in Row
    BY <2>1 DEF TypeOK, DbTyped
  <2>3. [row[cur[p]] EXCEPT !.status = "running"] \in Row
    BY <2>2, StatusType DEF Status
  <2>4. started' \in [Jobs -> {"unset", "recent", "old"}] /\ copies' \in [Jobs -> SUBSET Versions]
    BY <1>2, <2>1, TypeOK DEF Sync, DbTyped
  <2>5. QED
    BY <1>2, <2>1, <2>3, <2>4, WriteType, UnchangedType DEF Sync, dbVars
<1>3. ASSUME NEW p \in Procs, Begin(p) PROVE DbTyped'
  <2>1. cur[p] \in Jobs
    BY <1>3, HasJob DEF Begin, Unassigned
  <2>2. row[cur[p]] \in Row
    BY <2>1 DEF TypeOK, DbTyped
  <2>3. [row[cur[p]] EXCEPT !.status = "running", !.crawler = "none"] \in Row
    BY <2>2 DEF Row, Status, CrawlerStatus
  <2>4. started' \in [Jobs -> {"unset", "recent", "old"}] /\ copies' \in [Jobs -> SUBSET Versions]
    BY <1>3, <2>1, TypeOK DEF Begin, DbTyped
  <2>5. QED
    BY <1>3, <2>1, <2>3, <2>4, WriteType, UnchangedType DEF Begin, dbVars
<1>4. ASSUME NEW p \in Procs, NEW outcome \in Outcomes, Record(p, outcome) PROVE DbTyped'
  <2>1. cur[p] \in Jobs
    BY <1>4, HasJob DEF Record, Unassigned
  <2>2. row[cur[p]] \in Row
    BY <2>1 DEF TypeOK, DbTyped
  <2>3. Recorded(row[cur[p]], outcome) \in Row
    BY <2>2, RecordedType
  <2>4. started' \in [Jobs -> {"unset", "recent", "old"}] /\ copies' \in [Jobs -> SUBSET Versions]
    BY <1>4, <2>1, TypeOK DEF Record, DbTyped
  <2>5. QED
    BY <1>4, <2>1, <2>3, <2>4, WriteType, UnchangedType DEF Record, dbVars
<1>5. ASSUME NEW p \in Workers, PostInfra(p) PROVE DbTyped'
  <2>1. cur[p] \in Jobs
    BY <1>5, HasJob DEF PostInfra, Unassigned, Procs
  <2>2. row[cur[p]] \in Row
    BY <2>1 DEF TypeOK, DbTyped
  <2>3. [row[cur[p]] EXCEPT !.status = "retryable"] \in Row
    BY <2>2, StatusType DEF Status
  <2>4. started' \in [Jobs -> {"unset", "recent", "old"}] /\ copies' \in [Jobs -> SUBSET Versions]
    BY <1>5, <2>1, TypeOK DEF PostInfra, DbTyped
  <2>5. QED
    BY <1>5, <2>1, <2>3, <2>4, WriteType, UnchangedType DEF PostInfra, dbVars
<1>6. ASSUME NEW p \in Workers, PostFailed(p) PROVE DbTyped'
  <2>1. cur[p] \in Jobs
    BY <1>6, HasJob DEF PostFailed, Unassigned, Procs
  <2>2. row[cur[p]] \in Row
    BY <2>1 DEF TypeOK, DbTyped
  <2>3. FailurePolicy(cur[p], row[cur[p]]) \in Row
    BY <2>2, <2>1, PolicyType
  <2>4. started' \in [Jobs -> {"unset", "recent", "old"}] /\ copies' \in [Jobs -> SUBSET Versions]
    BY <1>6, <2>1, TypeOK DEF PostFailed, DbTyped
  <2>5. QED
    BY <1>6, <2>1, <2>3, <2>4, WriteType, UnchangedType DEF PostFailed, dbVars
<1>7. ASSUME NEW p \in Procs, IndexGivesUp(p) PROVE DbTyped'
  <2>1. cur[p] \in Jobs
    BY <1>7, HasJob DEF IndexGivesUp, Unassigned
  <2>2. row[cur[p]] \in Row
    BY <2>1 DEF TypeOK, DbTyped
  <2>3. [row[cur[p]] EXCEPT !.status = "index_failed"] \in Row
    BY <2>2, StatusType DEF Status
  <2>4. started' \in [Jobs -> {"unset", "recent", "old"}] /\ copies' \in [Jobs -> SUBSET Versions]
    BY <1>7, <2>1, TypeOK DEF IndexGivesUp, WriteIndexStatus, DbTyped
  <2>5. QED
    BY <1>7, <2>1, <2>3, <2>4, WriteType, UnchangedType DEF IndexGivesUp, WriteIndexStatus, dbVars
<1>8. ASSUME NEW p \in Procs, NEW status \in {"indexed", "index_failed"}, IndexCommits(p, status) PROVE DbTyped'
  <2>1. cur[p] \in Jobs
    BY <1>8, HasJob DEF IndexCommits, Unassigned
  <2>2. row[cur[p]] \in Row
    BY <2>1 DEF TypeOK, DbTyped
  <2>3. [row[cur[p]] EXCEPT !.status = status] \in Row
    BY <2>2, StatusType DEF Status
  <2>4. started' \in [Jobs -> {"unset", "recent", "old"}] /\ copies' \in [Jobs -> SUBSET Versions]
    BY <1>8, <2>1, TypeOK DEF IndexCommits, Unused, WriteIndexStatus, DbTyped
  <2>5. QED
    BY <1>8, <2>1, <2>3, <2>4, WriteType, TypeOK DEF IndexCommits, WriteIndexStatus, DbTyped
<1>9. ASSUME NEW j \in Jobs, RetryJob(j) PROVE DbTyped'
  <2>1. row[j] \in Row
    BY DEF TypeOK, DbTyped
  <2>2. [row[j] EXCEPT !.status = IF @ = "failed" THEN "retryable" ELSE "completed"] \in Row
    BY SMTT(30), <2>1, StatusType DEF Status, Row
  <2>3. started' \in [Jobs -> {"unset", "recent", "old"}] /\ copies' \in [Jobs -> SUBSET Versions]
    BY <1>9, TypeOK DEF RetryJob, DbTyped
  <2>4. QED
    BY <1>9, <2>2, <2>3, WriteType, UnchangedType DEF RetryJob, dbVars
<1>10. ASSUME NEW c \in Clis, ResetCommits(c) PROVE DbTyped'
  <2>1. cur[c] \in Jobs
    BY <1>10, HasJob DEF ResetCommits, Unassigned, Procs
  <2>2. row[cur[c]] \in Row
    BY <2>1 DEF TypeOK, DbTyped
  <2>3. target[c] \in Nat
    <3>1. NewCounts \cup {0} \subseteq Nat
      OBVIOUS
    <3>2. target[c] \in NewCounts \cup {0}
      BY DEF ProcsTyped, Procs
    <3>3. QED
      BY <3>1, <3>2
  <2>4. [row[cur[c]] EXCEPT !.retries = target[c]] \in Row
    BY <2>2, <2>3 DEF Row
  <2>5. started' \in [Jobs -> {"unset", "recent", "old"}] /\ copies' \in [Jobs -> SUBSET Versions]
    BY <1>10, TypeOK DEF ResetCommits, DbTyped
  <2>6. QED
    BY <1>10, <2>1, <2>4, <2>5, WriteType DEF ResetCommits
<1>11. ASSUME NEW j \in Jobs, Age(j) \/ Cool(j) PROVE DbTyped'
  BY <1>11 DEF Age, Cool, DbTyped
<1>12. CASE UNCHANGED dbVars
  BY <1>12, UnchangedType
<1>13. QED
  BY <1>1, <1>2, <1>3, <1>4, <1>5, <1>6, <1>7, <1>8, <1>9, <1>10, <1>11, <1>12
     DEF Next, WorkerStep, CliStep, CliStart, RunnerStep, Clock, Procs,
         WorkerWakes, CliRecovers, ScanStale, Probe, ProbeFindsLocked, ProbeEnds, Reconcile, Select,
         SkipCrawl, CliRuns, TakeLock, WorkerFindsLocked,
         CliFindsLocked, RefuseBegin, Crawl, Acquire, Release, WorkerUnlocks,
         CliResets, ResetProbes, ResetRefused, ResetReleases,
         CliUnlocks, CliExits, PostConfigError, PostSucceeded,
         CliIndexes, OpenIndex, RefuseIndex, DeleteSnapshots,
         IndexRollsBack, Crash, FallSilent

\* A process keeps well-formed locals, and a job wherever its code has one.
LEMMA ProcsStep == ASSUME TypeOK, Next PROVE ProcsTyped'
<1> USE DEF TypeOK
<1>1. ASSUME NEW p \in Procs, NEW rows \in SUBSET Jobs, ScanStale(p, rows) PROVE ProcsTyped'
  BY <1>1 DEF ScanStale, Goto, ProcsTyped, Labels, Unassigned
<1>2. ASSUME NEW p \in Procs, Probe(p) PROVE ProcsTyped'
  <2>1. PICK j \in Jobs : /\ cur' = [cur EXCEPT ![p] = j]
                          /\ todo' = [todo EXCEPT ![p] = @ \ {j}]
    BY <1>2 DEF Probe, ProcsTyped
  <2>2. QED
    BY <1>2, <2>1 DEF Probe, Goto, ProcsTyped, Labels
<1>17. ASSUME NEW p \in Procs, ProbeFindsLocked(p) PROVE ProcsTyped'
  BY <1>17 DEF ProbeFindsLocked, ProcsTyped
<1>18. ASSUME NEW p \in Procs, ProbeEnds(p) PROVE ProcsTyped'
  <2>1. cur[p] \in Jobs
    BY <1>18, HasJob DEF ProbeEnds, Unassigned
  <2>2. QED
    BY <1>18, <2>1 DEF ProbeEnds, Goto, ProcsTyped, Labels, Unassigned
<1>3. ASSUME NEW p \in Procs, RecoverCommits(p) PROVE ProcsTyped'
  BY <1>3 DEF RecoverCommits, Goto, ProcsTyped, Labels, Unassigned
<1>4. ASSUME NEW w \in Workers, Reconcile(w) \/ Select(w) PROVE ProcsTyped'
  <2>1. CASE Reconcile(w) /\ Completed = {}
    BY <2>1, GotoType DEF Reconcile, Labels, Unassigned, Procs, Completed
  <2>2. ASSUME Reconcile(w), NEW j \in Completed,
               cur' = [cur EXCEPT ![w] = j], Goto(w, "index")
        PROVE  ProcsTyped'
    <3>1. j \in Jobs /\ w \in Procs
      BY DEF Completed, Procs
    <3>2. cur'[w] \in Jobs
      BY <2>2, <3>1 DEF ProcsTyped
    <3>3. QED
      BY <2>2, <3>1, <3>2, GotoType DEF Reconcile, Labels
  <2>3. CASE Select(w)
    <3>1. Eligible \subseteq Jobs /\ Eligible \subseteq Nat /\ w \in Procs
      BY DEF Eligible, Procs
    <3>2. Oldest(Eligible) \in Jobs
      BY <2>3, <3>1, OldestExists DEF Select
    <3>3. QED
      BY <2>3, <3>1, <3>2, GotoType DEF Select, Labels, ProcsTyped
  <2>4. QED
    BY <1>4, <2>1, <2>2, <2>3 DEF Reconcile
<1>5. ASSUME NEW c \in Clis, CliRuns(c) \/ CliIndexes(c) PROVE ProcsTyped'
  <2>1. PICK j \in Jobs : cur' = [cur EXCEPT ![c] = j]
    BY <1>5 DEF CliRuns, CliIndexes
  <2>2. cur'[c] \in Jobs /\ c \in Procs
    BY <2>1 DEF ProcsTyped, Procs
  <2>3. QED
    BY <1>5, <2>1, <2>2, GotoType DEF CliRuns, CliIndexes, Labels
<1>19. ASSUME NEW c \in Clis, CliResets(c) PROVE ProcsTyped'
  <2>1. PICK j \in Jobs : cur' = [cur EXCEPT ![c] = j]
    BY <1>19 DEF CliResets
  <2>2. PICK n \in NewCounts : target' = [target EXCEPT ![c] = n]
    BY <1>19 DEF CliResets
  <2>3. QED
    BY <1>19, <2>1, <2>2 DEF CliResets, Goto, ProcsTyped, Labels
<1>6. ASSUME NEW p \in Procs, NEW label \in Labels, Goto(p, label),
             pc[p] \notin Unassigned, UNCHANGED procVars
      PROVE  ProcsTyped'
  BY <1>6, HasJob, GotoType DEF procVars
<1>7. ASSUME NEW p \in Procs, TakeLock(p) \/ Begin(p) PROVE ProcsTyped'
  BY <1>6, <1>7 DEF TakeLock, Acquire, Begin, Labels, Unassigned
<1>8. ASSUME NEW w \in Workers, WorkerFindsLocked(w) \/ WorkerUnlocks(w) \/ PostSucceeded(w)
      PROVE  ProcsTyped'
  BY <1>6, <1>8 DEF WorkerFindsLocked, WorkerUnlocks, Release, PostSucceeded,
                    Labels, Unassigned, Procs
<1>9. ASSUME NEW c \in Clis, CliUnlocks(c) \/ ResetProbes(c) \/ ResetReleases(c)
      PROVE  ProcsTyped'
  BY <1>6, <1>9 DEF CliUnlocks, ResetProbes, ResetReleases, Acquire, Release, Labels,
                    Unassigned, Procs
<1>10. ASSUME NEW p \in Procs, NEW outcome \in Outcomes, Record(p, outcome) PROVE ProcsTyped'
  BY <1>10 DEF Record, Goto, ProcsTyped, Labels, Unassigned
<1>11. ASSUME NEW p \in Procs, OpenIndex(p) PROVE ProcsTyped'
  BY <1>11 DEF OpenIndex, Goto, ProcsTyped, Labels, Unassigned
<1>12. ASSUME NEW p \in Procs, DeleteSnapshots(p) PROVE ProcsTyped'
  <2>1. copies[cur[p]] \in SUBSET Versions
    BY <1>12, HasJob DEF DeleteSnapshots, DbTyped, Unassigned
  <2>2. QED
    BY <1>12, <2>1 DEF DeleteSnapshots, Goto, ProcsTyped, Labels, Unassigned
<1>13. ASSUME NEW p \in Procs, Return(p) PROVE ProcsTyped'
  BY <1>13, ReturnType
<1>14. CASE UNCHANGED <<pc, procVars>>
  BY <1>14, UnchangedType
<1>15. Workers \subseteq Procs /\ Clis \subseteq Procs
  BY DEF Procs
<1>16. QED
  <2>1. StaleRunning \subseteq Jobs
    BY DEF StaleRunning
  <2>2. ASSUME NEW p \in Procs, WorkerWakes(p) \/ CliRecovers(p) PROVE ProcsTyped'
    BY <1>1, <2>1, <2>2 DEF WorkerWakes, CliRecovers
  <2>3. QED
    BY <1>2, <1>3, <1>4, <1>5, <1>7, <1>8, <1>9, <1>10, <1>11, <1>12, <1>13, <1>14, <1>15,
       <1>17, <1>18, <1>19, <2>2
     DEF Next, WorkerStep, CliStep, CliStart, RunnerStep, Clock,
         SkipCrawl, CliFindsLocked, Sync, RefuseBegin, ResetRefused, ResetCommits,
         Crawl, CliExits, PostInfra, PostConfigError, PostFailed, RefuseIndex,
         IndexGivesUp, IndexCommits, IndexRollsBack, Crash, RetryJob,
         Age, Cool, FallSilent

LEMMA CountersStep == ASSUME TypeOK, Next PROVE CountersTyped'
<1>1. ASSUME asks \in Nat, Ask PROVE asks' \in Nat
  BY <1>1 DEF Ask
<1>2. CASE UNCHANGED boundVars
  BY <1>2, UnchangedType DEF TypeOK
<1>3. ASSUME NEW p \in Procs, NEW outcome \in Outcomes, Record(p, outcome) PROVE CountersTyped'
  <2>1. cur[p] \in Jobs /\ infraRuns[cur[p]] \in Nat
    BY <1>3, HasJob DEF Record, Unassigned, TypeOK, CountersTyped
  <2>2. infraRuns' \in [Jobs -> Nat]
    BY <1>3, <2>1 DEF Record, CountersTyped, TypeOK
  <2>3. UNCHANGED <<faults, asks>>
    BY <1>3 DEF Record
  <2>4. QED
    BY <2>2, <2>3 DEF CountersTyped, TypeOK
<1>4. CASE faults' = faults + 1 /\ UNCHANGED <<infraRuns, asks>>
  BY <1>4 DEF CountersTyped, TypeOK
<1>5. CASE Ask /\ UNCHANGED <<faults, infraRuns>>
  BY <1>1, <1>5 DEF CountersTyped, TypeOK
<1>6. ASSUME NEW p \in Procs, NEW rows, ScanStale(p, rows), UNCHANGED asks \/ Ask
      PROVE  CountersTyped'
  BY <1>5, <1>6, <1>2 DEF ScanStale, boundVars
<1>7. QED
  BY ZenonT(60), <1>2, <1>3, <1>4, <1>5, <1>6
     DEF Next, WorkerStep, CliStep, CliStart, RunnerStep, Clock, Procs,
         WorkerWakes, CliRecovers, Probe, ProbeFindsLocked, ProbeEnds, RecoverCommits, Reconcile, Select,
         SkipCrawl, CliRuns, TakeLock, WorkerFindsLocked, CliFindsLocked, Sync,
         Begin, RefuseBegin, Crawl, Acquire, Release, WorkerUnlocks, CliUnlocks, CliResets,
         ResetProbes, ResetRefused, ResetReleases, ResetCommits, CliExits,
         PostInfra, PostConfigError, PostFailed, PostSucceeded, CliIndexes,
         OpenIndex, RefuseIndex, DeleteSnapshots, IndexGivesUp, IndexCommits,
         IndexRollsBack, Crash, RetryJob, Age, Cool, FallSilent

\* A process takes the flock of a job that nobody holds, or of its own job
\* gives it back.
Takes(p) ==
    /\ pc[p] \notin Holding /\ pc'[p] \in Holding
    /\ cur'[p] \in Jobs /\ lock[cur'[p]] = Free
    /\ lock' = [lock EXCEPT ![cur'[p]] = p]
    /\ \A q \in Procs \ {p} : pc'[q] = pc[q] /\ cur'[q] = cur[q]
Gives(p) ==
    /\ pc[p] \in Holding /\ pc'[p] \notin Holding
    /\ lock' = [lock EXCEPT ![cur[p]] = Free]
    /\ \A q \in Procs \ {p} : pc'[q] = pc[q] /\ cur'[q] = cur[q]

\* Nobody enters the locked region, leaves it or changes job in it.
Stays ==
    /\ UNCHANGED lock
    /\ \A q \in Procs : /\ pc'[q] \in Holding <=> pc[q] \in Holding
                        /\ pc[q] \in Holding => cur'[q] = cur[q]

\* Only these steps touch a flock or the region that it protects.
LEMMA LockSteps ==
    ASSUME TypeOK, Next
    PROVE  Stays \/ \E p \in Procs : Takes(p) \/ Gives(p) \/ Crash(p)
<1> USE DEF TypeOK
<1>1. ASSUME NEW p \in Procs, Acquire(p, "lock", "begin") \/ Acquire(p, "resetlock", "resetprobe")
      PROVE  Takes(p)
  BY <1>1, HasJob DEF Acquire, Goto, procVars, ProcsTyped, Takes, Holding, Unassigned
<1>2. ASSUME NEW p \in Procs, Probe(p) PROVE Takes(p)
  <2>1. PICK j \in todo[p] : /\ lock[j] = Free
                             /\ lock' = [lock EXCEPT ![j] = p]
                             /\ cur' = [cur EXCEPT ![p] = j]
    BY <1>2 DEF Probe
  <2>2. QED
    BY <1>2, <2>1 DEF Probe, Goto, ProcsTyped, Takes, Holding
<1>3. ASSUME NEW p \in Procs,
             \/ Release(p, "unlock", "post") \/ Release(p, "unlock", "index")
             \/ Release(p, "resetprobe", "reset")
      PROVE  Gives(p)
  BY <1>3 DEF Release, Goto, procVars, ProcsTyped, Gives, Holding
<1>4. ASSUME NEW p \in Procs, ProbeEnds(p) PROVE Gives(p)
  BY <1>4 DEF ProbeEnds, Goto, ProcsTyped, Gives, Holding
<1>5. ASSUME NEW p \in Procs, RefuseBegin(p) \/ CliExits(p) PROVE Gives(p)
  BY <1>5 DEF RefuseBegin, CliExits, Return, Goto, ProcsTyped, Gives, Holding
<1>6. ASSUME NEW p \in Procs, pc[p] \notin Holding, Return(p), UNCHANGED lock PROVE Stays
  BY <1>6 DEF Return, Goto, ProcsTyped, Stays, Holding
<1>7. ASSUME NEW p \in Procs, NEW label \in Labels, Goto(p, label), UNCHANGED lock,
             \/ label \notin Holding /\ pc[p] \notin Holding
             \/ label \in Holding /\ pc[p] \in Holding /\ UNCHANGED cur,
             \/ UNCHANGED cur
             \/ \E j \in Jobs : cur' = [cur EXCEPT ![p] = j]
      PROVE  Stays
  BY <1>7 DEF Goto, ProcsTyped, Stays, Holding
<1>8. ASSUME UNCHANGED <<lock, pc, cur>> PROVE Stays
  BY <1>8 DEF Stays
<1>9. ASSUME NEW p \in Procs, Begin(p) \/ \E outcome \in Outcomes : Record(p, outcome)
      PROVE  Stays
  BY <1>7, <1>9 DEF Begin, Record, procVars, Holding, Labels
<1>10. ASSUME NEW p \in Procs,
              \/ RecoverCommits(p) \/ OpenIndex(p) \/ DeleteSnapshots(p)
              \/ \E rows \in SUBSET Jobs : ScanStale(p, rows)
       PROVE  Stays
  BY <1>7, <1>10 DEF ScanStale, RecoverCommits, OpenIndex, DeleteSnapshots, Holding, Labels
<1>11. ASSUME NEW w \in Workers,
              \/ Reconcile(w) \/ Select(w) \/ WorkerFindsLocked(w) \/ PostSucceeded(w)
       PROVE  Stays
  <2>1. w \in Procs
    BY DEF Procs
  <2>2. CASE WorkerFindsLocked(w) \/ PostSucceeded(w)
    BY <1>7, <2>1, <2>2 DEF WorkerFindsLocked, PostSucceeded, procVars, Holding, Labels
  <2>3. CASE Reconcile(w) \/ Select(w)
    BY <2>1, <2>3 DEF Reconcile, Select, Goto, ProcsTyped, Stays, Holding
  <2>4. QED
    BY <1>11, <2>2, <2>3
<1>12. ASSUME NEW c \in Clis, CliRuns(c) \/ CliIndexes(c) \/ CliResets(c) PROVE Stays
  <2>1. c \in Procs
    BY DEF Procs
  <2>2. PICK j \in Jobs : cur' = [cur EXCEPT ![c] = j]
    BY <1>12 DEF CliRuns, CliIndexes, CliResets
  <2>3. QED
    BY <1>7, <1>12, <2>1, <2>2 DEF CliRuns, CliIndexes, CliResets, Holding, Labels
<1>13. Workers \subseteq Procs /\ Clis \subseteq Procs
  BY DEF Procs
<1>14. ASSUME NEW w \in Workers, WorkerStep(w)
       PROVE  Stays \/ Takes(w) \/ Gives(w)
  <2>1. StaleRunning \in SUBSET Jobs
    BY DEF StaleRunning
  <2>2. QED
    BY <1>1, <1>2, <1>3, <1>4, <1>5, <1>6, <1>8, <1>9, <1>10, <1>11, <1>13, <1>14, <2>1
       DEF WorkerStep, RunnerStep, WorkerWakes, ProbeFindsLocked, SkipCrawl, Sync,
           TakeLock, WorkerUnlocks, PostInfra, PostConfigError, PostFailed,
           RefuseIndex, IndexGivesUp, IndexCommits, Holding
<1>15. ASSUME NEW c \in Clis, CliStep(c) \/ CliStart(c)
       PROVE  Stays \/ Takes(c) \/ Gives(c)
  <2>1. ASSUME CliRecovers(c) PROVE \E rows \in SUBSET Jobs : ScanStale(c, rows)
    BY <2>1 DEF CliRecovers, StaleRunning
  <2>2. QED
    BY <1>1, <1>2, <1>3, <1>4, <1>5, <1>6, <1>8, <1>9, <1>10, <1>12, <1>13, <1>15, <2>1
       DEF CliStep, CliStart, RunnerStep, ProbeFindsLocked, CliFindsLocked, CliUnlocks,
           TakeLock, ResetProbes, ResetRefused, ResetReleases, ResetCommits,
           RefuseIndex, IndexGivesUp, IndexCommits, Holding
<1>16. ASSUME NEW j \in Jobs, RetryJob(j) \/ Clock(j) PROVE Stays
  BY <1>8, <1>16 DEF RetryJob, Clock, Age, Cool, FallSilent, procVars
<1>17. ASSUME NEW p \in Procs, Crawl(p) \/ IndexRollsBack(p) PROVE Stays
  BY <1>6, <1>8, <1>17 DEF Crawl, IndexRollsBack, procVars, Holding
<1>18. QED
  BY <1>13, <1>14, <1>15, <1>16, <1>17 DEF Next

LEMMA InitType == Init => TypeOK
  BY DEF Init, TypeOK, DbTyped, ProcsTyped, CountersTyped, Row, Status, CrawlerStatus,
         Labels, Unassigned, Indexable, NoJob

LEMMA TypeStep == ASSUME TypeOK, [Next]_vars PROVE TypeOK'
<1>1. CASE UNCHANGED vars
  BY <1>1, UnchangedType DEF vars, TypeOK, dbVars
<1>2. CASE Next
  <2>1. DbTyped' /\ ProcsTyped' /\ CountersTyped'
    BY <1>2, DbStep, ProcsStep, CountersStep
  <2>2. lock' \in [Jobs -> Procs \cup {Free}]
    BY <1>2, LockSteps DEF TypeOK, Stays, Takes, Gives, Crash
  <2>3. progress' \subseteq Jobs
    <3>1. ASSUME NEW p \in Procs, Crawl(p) PROVE progress' \subseteq Jobs
      BY <3>1, HasJob DEF Crawl, Unassigned, TypeOK
    <3>2. ASSUME NEW j \in Jobs, FallSilent(j) PROVE progress' \subseteq Jobs
      BY <3>2 DEF FallSilent, TypeOK
    <3>3. CASE UNCHANGED progress
      BY <3>3 DEF TypeOK
    <3>4. QED
      BY ZenonT(60), <1>2, <3>1, <3>2, <3>3
         DEF Next, WorkerStep, CliStep, CliStart, RunnerStep, Clock, WorkerWakes,
             CliRecovers, ScanStale, Probe, ProbeFindsLocked, ProbeEnds, RecoverCommits, Reconcile, Select,
             SkipCrawl, CliRuns, TakeLock, WorkerFindsLocked, CliFindsLocked, Sync,
             Begin, RefuseBegin, Record, Acquire, Release, WorkerUnlocks, CliUnlocks, CliResets,
         ResetProbes, ResetRefused, ResetReleases, ResetCommits, CliExits,
             PostInfra, PostConfigError, PostFailed, PostSucceeded, CliIndexes,
             OpenIndex, RefuseIndex, DeleteSnapshots, IndexGivesUp, IndexCommits,
             IndexRollsBack, Crash, RetryJob, Age, Cool
  <2>4. QED
    BY <2>1, <2>2, <2>3 DEF TypeOK
<1>3. QED
  BY <1>1, <1>2

\* Every reachable state is well formed, for every set of jobs, workers,
\* commands and every bound.
THEOREM TypeCorrect == Spec => []TypeOK
<1>1. Init => TypeOK
  BY InitType
<1>2. TypeOK /\ [Next]_vars => TypeOK'
  BY TypeStep
<1>3. QED
  BY <1>1, <1>2, PTL DEF Spec

-----------------------------------------------------------------------------
\* A process in run_persistent_job's locked region holds the flock of its job.
RunnersHoldLock == \A p \in Procs : pc[p] \in Holding => lock[cur[p]] = p

LEMMA LockStep == ASSUME TypeOK, RunnersHoldLock, [Next]_vars PROVE RunnersHoldLock'
<1>1. CASE UNCHANGED vars
  BY <1>1 DEF RunnersHoldLock, vars, procVars
<1>2. CASE Stays
  BY <1>2 DEF Stays, RunnersHoldLock
<1>3. \A q \in Procs : pc[q] \in Holding => lock[cur[q]] = q /\ q # Free /\ cur[q] \in Jobs
  BY HasJob DEF RunnersHoldLock, TypeOK, Holding, Unassigned
<1>4. ASSUME NEW p \in Procs, Takes(p) PROVE RunnersHoldLock'
  <2>1. ASSUME NEW q \in Procs, pc'[q] \in Holding, q # p PROVE lock'[cur'[q]] = q
    BY <1>3, <1>4, <2>1 DEF Takes, TypeOK
  <2>2. lock'[cur'[p]] = p
    BY <1>4 DEF Takes, TypeOK
  <2>3. QED
    BY <2>1, <2>2 DEF RunnersHoldLock
<1>5. ASSUME NEW p \in Procs, Gives(p) PROVE RunnersHoldLock'
  <2>1. SUFFICES ASSUME NEW q \in Procs, pc'[q] \in Holding PROVE lock'[cur'[q]] = q
    BY DEF RunnersHoldLock
  <2>2. q # p /\ pc[q] \in Holding /\ cur'[q] = cur[q]
    BY <1>5, <2>1 DEF Gives
  <2>3. QED
    BY <1>3, <1>5, <2>2 DEF Gives, TypeOK
<1>6. ASSUME NEW p \in Procs, Crash(p) PROVE RunnersHoldLock'
  <2>1. SUFFICES ASSUME NEW q \in Procs, pc'[q] \in Holding PROVE lock'[cur'[q]] = q
    BY DEF RunnersHoldLock
  <2>2. q # p /\ pc[q] \in Holding /\ cur'[q] = cur[q]
    BY <1>6, <2>1 DEF Crash, Return, Goto, TypeOK, ProcsTyped, Holding
  <2>3. QED
    BY <1>3, <1>6, <2>2 DEF Crash, TypeOK
<1>7. QED
  BY <1>1, <1>2, <1>4, <1>5, <1>6, LockSteps

\* Two runners never run archive_tool for one job, whatever crashes, stale
\* scans and commands do: the flock alone keeps them apart.
THEOREM RunnersExclude == Spec => []OneRunnerPerJob
<1>1. Init => TypeOK /\ RunnersHoldLock
  BY InitType DEF Init, RunnersHoldLock, Holding
<1>2. TypeOK /\ RunnersHoldLock /\ [Next]_vars => (TypeOK /\ RunnersHoldLock)'
  BY TypeStep, LockStep
<1>3. TypeOK /\ RunnersHoldLock => OneRunnerPerJob
  BY DEF RunnersHoldLock, OneRunnerPerJob, Holding
<1>4. QED
  BY <1>1, <1>2, <1>3, PTL DEF Spec

-----------------------------------------------------------------------------
\* The failure policy never charges a job past its budget.
LEMMA PolicyBudget ==
    ASSUME NEW j \in Jobs, NEW r \in Row,
           r.backend = "browsertrix" => r.retries <= Budget(j)
    PROVE  LET new == FailurePolicy(j, r)
           IN new.backend = "browsertrix" => new.retries <= Budget(j)
<1> DEFINE Fresh == j \in FreshJobs /\ MaxFreshFailures > 0
<1>1. r.retries \in Nat /\ MaxFreshFailures \in Nat /\ MaxCrawlRetries \in Nat
  BY DEF Row
<1>2. CASE r.backend = "browsertrix" /\ Fresh
  BY <1>1, <1>2 DEF FailurePolicy, Budget, Row
<1>3. CASE r.backend = "browsertrix" /\ ~ Fresh
  BY <1>1, <1>3 DEF FailurePolicy, FlagForReview, Budget, Row
<1>4. CASE r.backend = "fallback"
  BY <1>1, <1>4 DEF FailurePolicy, FlagForReview, Row
<1>5. QED
  BY <1>2, <1>3, <1>4 DEF Row

\* Every step but the failure policy and reset-retry-count keeps a row's backend
\* and does not raise its retry_count.
Kept(j) == row'[j].backend = row[j].backend /\ row'[j].retries <= row[j].retries

LEMMA RowFacts ==
    ASSUME TypeOK
    PROVE  \A k \in Jobs : row[k] \in Row /\ row[k].retries <= row[k].retries
<1>1. \A k \in Jobs : row[k] \in Row
  BY DEF TypeOK, DbTyped
<1>2. \A r \in Row : r.retries \in Nat
  BY DEF Row
<1>3. \A n \in Nat : n <= n
  OBVIOUS
<1>4. QED
  BY <1>1, <1>2, <1>3

LEMMA WriteKeeps ==
    ASSUME TypeOK, NEW j \in Jobs, NEW new,
           new.backend = row[j].backend, new.retries <= row[j].retries, Write(j, new)
    PROVE  \A k \in Jobs : Kept(k)
<1>1. row'[j] = new /\ \A k \in Jobs \ {j} : row'[k] = row[k]
  BY DEF Write, TypeOK, DbTyped
<1>2. QED
  BY <1>1, RowFacts DEF Kept

LEMMA StatusKeeps ==
    ASSUME TypeOK, NEW j \in Jobs, NEW s, Write(j, [row[j] EXCEPT !.status = s])
    PROVE  \A k \in Jobs : Kept(k)
<1>1. row[j] \in Row /\ row[j].retries <= row[j].retries
  BY RowFacts
<1>2. /\ [row[j] EXCEPT !.status = s].backend = row[j].backend
      /\ [row[j] EXCEPT !.status = s].retries = row[j].retries
      /\ row[j].retries <= row[j].retries
  BY <1>1 DEF Row
<1>3. QED
  BY <1>2, WriteKeeps

LEMMA RowSteps ==
    ASSUME TypeOK, Next
    PROVE  \/ \E w \in Workers : PostFailed(w)
           \/ \E c \in Clis : ResetCommits(c)
           \/ \A k \in Jobs : Kept(k)
<1> DEFINE AllKept == \A k \in Jobs : Kept(k)
<1> USE DEF TypeOK
<1>1. \A j \in Jobs : row[j] \in Row /\ row[j].retries <= row[j].retries
  BY RowFacts
<1>2. ASSUME UNCHANGED row PROVE AllKept
  BY <1>1, <1>2 DEF Kept
<1>3. ASSUME NEW p \in Procs, RecoverCommits(p) PROVE AllKept
  BY <1>1, <1>3 DEF RecoverCommits, Kept, Row
<1>4. ASSUME NEW w \in Workers, Sync(w) \/ PostInfra(w) PROVE AllKept
  <2>1. cur[w] \in Jobs
    BY <1>4, HasJob DEF Sync, PostInfra, Unassigned, Procs
  <2>2. \/ UNCHANGED row
        \/ \E s \in {"running", "retryable"} :
             Write(cur[w], [row[cur[w]] EXCEPT !.status = s])
    BY <1>4 DEF Sync, PostInfra
  <2>3. CASE UNCHANGED row
    BY <1>2, <2>3
  <2>4. ASSUME NEW s, Write(cur[w], [row[cur[w]] EXCEPT !.status = s]) PROVE AllKept
    BY <2>1, <2>4, StatusKeeps
  <2>5. QED
    BY <2>2, <2>3, <2>4
<1>5. ASSUME NEW p \in Procs, Begin(p) PROVE AllKept
  <2>1. cur[p] \in Jobs
    BY <1>5, HasJob DEF Begin, Unassigned
  <2>2. QED
    BY ZenonT(60), <1>1, <1>5, <2>1, WriteKeeps DEF Begin, Row
<1>6. ASSUME NEW p \in Procs, NEW outcome \in Outcomes, Record(p, outcome) PROVE AllKept
  <2>1. cur[p] \in Jobs
    BY <1>6, HasJob DEF Record, Unassigned
  <2>2. /\ Recorded(row[cur[p]], outcome).backend = row[cur[p]].backend
        /\ Recorded(row[cur[p]], outcome).retries = row[cur[p]].retries
    BY <1>1, <2>1 DEF Recorded, Row
  <2>3. QED
    BY <1>1, <1>6, <2>1, <2>2, WriteKeeps DEF Record
<1>7. ASSUME NEW p \in Procs, NEW status \in Status, WriteIndexStatus(p, status),
             pc[p] \in {"indexing", "insert"}
      PROVE  AllKept
  <2>1. cur[p] \in Jobs
    BY <1>7, HasJob DEF Unassigned
  <2>2. CASE Write(cur[p], [row[cur[p]] EXCEPT !.status = status])
    BY <2>1, <2>2, StatusKeeps
  <2>3. CASE UNCHANGED row
    BY <1>2, <2>3
  <2>4. QED
    BY <1>7, <2>2, <2>3 DEF WriteIndexStatus
<1>8. ASSUME NEW p \in Procs,
             IndexGivesUp(p) \/ \E status \in {"indexed", "index_failed"} : IndexCommits(p, status)
      PROVE  AllKept
  BY <1>7, <1>8 DEF IndexGivesUp, IndexCommits, Status
<1>9. ASSUME NEW j \in Jobs, RetryJob(j) PROVE AllKept
  BY <1>9, StatusKeeps DEF RetryJob
<1>11. Workers \subseteq Procs /\ Clis \subseteq Procs
  BY DEF Procs
<1>12. QED
  BY <1>2, <1>3, <1>4, <1>5, <1>6, <1>8, <1>9, <1>11
     DEF Next, WorkerStep, CliStep, CliStart, RunnerStep, Clock, dbVars,
         WorkerWakes, CliRecovers, ScanStale, Probe, ProbeFindsLocked, ProbeEnds, Reconcile, Select, SkipCrawl,
         CliRuns, TakeLock, WorkerFindsLocked, CliFindsLocked, RefuseBegin, Crawl,
         Acquire, Release, WorkerUnlocks, CliUnlocks, CliResets,
         ResetProbes, ResetRefused, ResetReleases, ResetCommits, CliExits, PostConfigError, PostSucceeded,
         CliIndexes, OpenIndex, RefuseIndex, DeleteSnapshots, IndexRollsBack, Crash,
         Age, Cool, FallSilent

\* However crawls fail, stale scans, retries and resets interleave, no job is
\* charged past its budget while it is on its first backend, if operators do
\* not themselves write a retry_count beyond it.
THEOREM BudgetHolds ==
    ASSUME \A n \in NewCounts, j \in Jobs : n <= Budget(j)
    PROVE  Spec => []RetryBudget
<1>1. Init => TypeOK /\ RetryBudget
  BY InitType DEF Init, RetryBudget, Budget
<1>2. ASSUME TypeOK, RetryBudget, [Next]_vars PROVE RetryBudget'
  <2>1. \A j \in Jobs : row[j] \in Row /\ row'[j] \in Row
    BY <1>2, TypeStep DEF TypeOK, DbTyped
  <2>2. \A j \in Jobs : Budget(j) \in Int
    BY DEF Budget
  <2>3. ASSUME NEW w \in Workers, PostFailed(w) PROVE RetryBudget'
    <3>1. cur[w] \in Jobs
      BY <1>2, <2>3, HasJob DEF PostFailed, Unassigned, TypeOK, Procs
    <3>2. /\ row'[cur[w]] = FailurePolicy(cur[w], row[cur[w]])
          /\ \A k \in Jobs \ {cur[w]} : row'[k] = row[k]
      BY <1>2, <2>3, <3>1 DEF PostFailed, Write, TypeOK, DbTyped
    <3>3. row'[cur[w]].backend = "browsertrix" => row'[cur[w]].retries <= Budget(cur[w])
      BY <1>2, <2>1, <3>1, <3>2, PolicyBudget DEF RetryBudget
    <3>4. QED
      BY <1>2, <3>2, <3>3 DEF RetryBudget, Budget
  <2>7. ASSUME NEW c \in Clis, ResetCommits(c) PROVE RetryBudget'
    <3>1. cur[c] \in Jobs
      BY <1>2, <2>7, HasJob DEF ResetCommits, Unassigned, TypeOK, Procs
    <3>2. target[c] <= Budget(cur[c])
      <4>1. 0 <= Budget(cur[c])
        BY <2>2 DEF Budget
      <4>2. target[c] \in NewCounts \cup {0}
        BY <1>2 DEF TypeOK, ProcsTyped, Procs
      <4>3. QED
        BY <3>1, <4>1, <4>2
    <3>3. /\ row'[cur[c]] = [row[cur[c]] EXCEPT !.retries = target[c]]
          /\ \A k \in Jobs \ {cur[c]} : row'[k] = row[k]
      BY <1>2, <2>7, <3>1 DEF ResetCommits, Write, TypeOK, DbTyped
    <3>4. row'[cur[c]].retries = target[c]
      BY <2>1, <3>1, <3>3 DEF Row
    <3>5. QED
      BY <1>2, <3>2, <3>3, <3>4 DEF RetryBudget, Budget
  <2>4. CASE \A k \in Jobs : Kept(k)
    BY <1>2, <2>1, <2>2, <2>4 DEF Kept, RetryBudget, Budget, Row
  <2>5. CASE UNCHANGED vars
    BY <1>2, <2>5 DEF vars, dbVars, RetryBudget, Budget
  <2>6. QED
    BY <1>2, <2>3, <2>4, <2>5, <2>7, RowSteps
<1>3. QED
  BY <1>1, <1>2, TypeStep, PTL DEF Spec

-----------------------------------------------------------------------------
(* One process: a worker, or an operator whose commands follow each other.   *)
(* Operators may still give retry-job in between: it is a short session.      *)

Alone == \A p, q \in Procs : p = q

\* A lock that is taken is held by a runner or a probe of this job.
LocksHeld == \A j \in Jobs : lock[j] # Free => pc[lock[j]] \in Holding /\ cur[lock[j]] = j

\* What a process knows of the rows it has read, as nobody else runs: the stale rows it
\* loaded still say 'running', so does the job it crawls; after the crawl the row says how
\* it ended, until retry-job is asked for; what a worker indexes is completed, and an index
\* transaction of a job that is indexed has read so; it deletes all there is to delete.
Knows(p) ==
    /\ pc[p] # "sync"
    /\ pc[p] \notin {"probe", "probing"} => todo[p] = {} /\ found[p] = {}
    /\ \A j \in todo[p] \cup found[p] : row[j].status = "running"
    /\ pc[p] \in {"probing", "crawl"} => row[cur[p]].status = "running"
    /\ pc[p] \in {"unlock", "post"} =>
           IF crawlOk[p] THEN row[cur[p]].status = "completed" /\ row[cur[p]].crawler = "success"
           ELSE /\ row[cur[p]].status \in {"failed", "retryable"}
                /\ asks = 0 /\ row[cur[p]].crawler # "infra_error" => row[cur[p]].status = "failed"
    /\ p \in Workers /\ pc[p] \in {"index", "indexing", "insert"} => row[cur[p]].status = "completed"
    /\ pc[p] \in {"indexing", "insert"} =>
           row[cur[p]].status \in Indexable /\ (row[cur[p]].status = "indexed" => seen[p] = "indexed")
    /\ pc[p] = "insert" => gone[p] = copies[cur[p]]

\* The edges that are not in the lifecycle: index-job runs again on an indexed or failed job,
\* and a failure is written after retry-job.
Late ==
    IF Clis = {} /\ asks = 0 THEN {}
    ELSE {<<"retryable", "failed">>, <<"index_failed", "indexed">>, <<"indexed", "index_failed">>}

Moves ==
    \A j \in Jobs : \/ row'[j].status = row[j].status
                    \/ <<row[j].status, row'[j].status>> \in Lifecycle!Edges \cup Late

\* Nothing is indexed, and nothing that was is changed.
Quiet == UNCHANGED copies /\ \A j \in Jobs : row'[j].status = "indexed" => row[j].status = "indexed"

LEMMA LocksHeldStep == ASSUME TypeOK, LocksHeld, [Next]_vars PROVE LocksHeld'
<1>1. CASE UNCHANGED vars
  BY <1>1 DEF LocksHeld, vars, procVars
<1>2. CASE Stays
  BY <1>2 DEF Stays, LocksHeld, TypeOK
<1>3. ASSUME NEW p \in Procs, Takes(p) PROVE LocksHeld'
  BY <1>3 DEF Takes, LocksHeld, TypeOK
<1>4. ASSUME NEW p \in Procs, Gives(p) PROVE LocksHeld'
  BY <1>4 DEF Gives, LocksHeld, TypeOK
<1>5. ASSUME NEW p \in Procs, Crash(p) PROVE LocksHeld'
  <2>1. \A q \in Procs \ {p} : pc'[q] = pc[q] /\ cur'[q] = cur[q]
    BY <1>5 DEF Crash, Return, Goto, TypeOK, ProcsTyped
  <2>2. QED
    BY <1>5, <2>1 DEF Crash, LocksHeld, TypeOK
<1>6. QED
  BY <1>1, <1>2, <1>3, <1>4, <1>5, LockSteps

\* A status is written: what becomes of the row, and of the others.
LEMMA Wrote ==
    ASSUME TypeOK, NEW j \in Jobs, NEW new, Write(j, new)
    PROVE  row'[j] = new /\ \A k \in Jobs \ {j} : row'[k] = row[k]
  BY DEF Write, TypeOK, DbTyped

LEMMA StatusWrote ==
    ASSUME TypeOK, NEW j \in Jobs, NEW s, Write(j, [row[j] EXCEPT !.status = s])
    PROVE  /\ row'[j].status = s /\ row'[j].crawler = row[j].crawler
           /\ \A k \in Jobs \ {j} : row'[k] = row[k]
<1>1. row[j] \in Row
  BY DEF TypeOK, DbTyped
<1>2. [row[j] EXCEPT !.status = s].status = s /\ [row[j] EXCEPT !.status = s].crawler = row[j].crawler
  BY <1>1 DEF Row
<1> QED BY <1>2, Wrote

\* The only process has returned.
LEMMA ReturnKnows ==
    ASSUME TypeOK, NEW p \in Procs, Return(p)
    PROVE  Knows(p)'
  BY DEF Return, Goto, TypeOK, ProcsTyped, Knows

LEMMA Unwritten == ASSUME UNCHANGED <<row, copies>> PROVE Moves /\ Quiet
  BY DEF Moves, Quiet

\* Steps that write no row, one after the other in the life of a process.
LEMMA ScanKnows ==
    ASSUME TypeOK, NEW p \in Procs, Knows(p),
           \/ \E rows \in SUBSET StaleRunning : ScanStale(p, rows)
           \/ Probe(p) \/ ProbeFindsLocked(p) \/ ProbeEnds(p)
    PROVE  Knows(p)' /\ UNCHANGED <<row, copies>>
<1> USE DEF TypeOK, ProcsTyped, Knows, Goto
<1>1. ASSUME NEW rows \in SUBSET StaleRunning, ScanStale(p, rows)
      PROVE  Knows(p)' /\ UNCHANGED <<row, copies>>
  <2>1. /\ pc' = [pc EXCEPT ![p] = "probe"] /\ todo' = [todo EXCEPT ![p] = rows]
        /\ UNCHANGED <<row, copies, found>> /\ pc[p] = "idle"
    BY <1>1 DEF ScanStale, dbVars
  <2>2. pc'[p] = "probe" /\ todo'[p] = rows /\ found'[p] = {}
    BY <2>1
  <2>3. \A j \in rows : row[j].status = "running"
    BY DEF StaleRunning
  <2>4. QED
    BY <2>1, <2>2, <2>3
<1>2. CASE Probe(p)
  <2>1. PICK j \in todo[p] : cur' = [cur EXCEPT ![p] = j] /\ todo' = [todo EXCEPT ![p] = @ \ {j}]
    BY <1>2 DEF Probe
  <2>2. pc'[p] = "probing" /\ cur'[p] = j /\ todo'[p] = todo[p] \ {j} /\ UNCHANGED <<row, copies, found>>
    BY <1>2, <2>1 DEF Probe, dbVars
  <2>3. QED
    BY <2>2
<1>3. CASE ProbeFindsLocked(p)
  <2>1. PICK j \in todo[p] : todo' = [todo EXCEPT ![p] = @ \ {j}]
    BY <1>3 DEF ProbeFindsLocked
  <2>2. pc'[p] = "probe" /\ todo'[p] = todo[p] \ {j} /\ UNCHANGED <<row, copies, found>>
    BY <1>3, <2>1 DEF ProbeFindsLocked, dbVars
  <2>3. QED
    BY <2>2
<1>4. CASE ProbeEnds(p)
  <2>1. pc[p] = "probing" /\ pc'[p] = "probe" /\ UNCHANGED <<row, copies, todo>>
    BY <1>4 DEF ProbeEnds, dbVars
  <2>2. found'[p] \subseteq found[p] \cup {cur[p]}
    BY <1>4 DEF ProbeEnds
  <2>3. QED
    BY <2>1, <2>2
<1>5. QED
  BY <1>1, <1>2, <1>3, <1>4

Picks(p) ==
    \/ Reconcile(p) \/ Select(p) \/ CliRuns(p) \/ CliResets(p) \/ ResetProbes(p) \/ ResetReleases(p)
    \/ TakeLock(p) \/ Crawl(p) \/ WorkerUnlocks(p) \/ PostSucceeded(p)
    \/ p \in Clis /\ (CliIndexes(p) \/ CliUnlocks(p))

LEMMA PickKnows ==
    ASSUME TypeOK, NEW p \in Procs, Knows(p), Picks(p)
    PROVE  Knows(p)' /\ UNCHANGED <<row, copies>>
<1>1. UNCHANGED <<row, copies, todo, found, crawlOk, asks>> \/ (CliRuns(p) \/ CliResets(p) \/ CliIndexes(p))
  BY DEF Picks, Reconcile, Select, ResetProbes, ResetReleases, TakeLock, Crawl, WorkerUnlocks,
         CliUnlocks, PostSucceeded, Acquire, Release, dbVars, procVars, boundVars
<1>2. UNCHANGED <<row, copies, todo, found, crawlOk>>
  BY <1>1 DEF CliRuns, CliResets, CliIndexes, dbVars
<1> USE DEF TypeOK, ProcsTyped, Knows, Goto
<1>3. CASE Reconcile(p)
  <2>1. pc[p] = "reconcile" /\ (pc'[p] = "select" \/ (pc'[p] = "index" /\ cur'[p] \in Completed))
    BY <1>3 DEF Reconcile
  <2>2. QED
    BY <1>2, <2>1 DEF Completed
<1>4. CASE Select(p) \/ CliRuns(p)
  <2>1. pc[p] \in {"idle", "select"} /\ pc'[p] = "lock"
    BY <1>4 DEF Select, CliRuns
  <2>2. QED
    BY <1>2, <2>1
<1>5. CASE CliResets(p) \/ ResetProbes(p) \/ ResetReleases(p)
  <2>1. /\ pc[p] \in {"idle", "resetlock", "resetprobe"}
        /\ pc'[p] \in {"resetlock", "resetprobe", "reset"}
    BY <1>5 DEF CliResets, ResetProbes, ResetReleases, Acquire, Release
  <2>2. QED
    BY <1>2, <2>1
<1>6. CASE p \in Clis /\ CliIndexes(p)
  <2>1. pc[p] = "idle" /\ pc'[p] = "index" /\ p \notin Workers
    BY <1>6, ProcsAssumption DEF CliIndexes
  <2>2. QED
    BY <1>2, <2>1
<1>7. CASE TakeLock(p) \/ Crawl(p)
  <2>1. \/ pc[p] = "lock" /\ pc'[p] = "begin"
        \/ UNCHANGED <<pc, cur, asks>> /\ pc[p] = "crawl"
    BY <1>7 DEF TakeLock, Acquire, Crawl, procVars, boundVars
  <2>2. QED
    BY <1>2, <2>1
<1>8. CASE WorkerUnlocks(p)
  <2>1. pc[p] = "unlock" /\ pc'[p] = "post" /\ UNCHANGED <<cur, asks>>
    BY <1>8 DEF WorkerUnlocks, Release, procVars, boundVars
  <2>2. QED
    BY <1>2, <2>1
<1>9. CASE p \in Clis /\ CliUnlocks(p)
  <2>1. pc[p] = "unlock" /\ pc'[p] = "index" /\ p \notin Workers
    BY <1>9, ProcsAssumption DEF CliUnlocks, Release
  <2>2. QED
    BY <1>2, <2>1
<1>10. CASE PostSucceeded(p)
  <2>1. pc[p] = "post" /\ pc'[p] = "index" /\ crawlOk[p] /\ UNCHANGED cur
    BY <1>10 DEF PostSucceeded, procVars
  <2>2. QED
    BY <1>2, <2>1
<1>11. QED
  BY <1>2, <1>3, <1>4, <1>5, <1>6, <1>7, <1>8, <1>9, <1>10 DEF Picks

LEMMA OpensKnows ==
    ASSUME TypeOK, NEW p \in Procs, Knows(p), OpenIndex(p) \/ DeleteSnapshots(p)
    PROVE  Knows(p)' /\ UNCHANGED <<row, copies>>
<1> USE DEF TypeOK, ProcsTyped, Knows, Goto
<1>1. UNCHANGED <<row, copies, todo, found, cur>>
  BY DEF OpenIndex, DeleteSnapshots, dbVars
<1>2. CASE OpenIndex(p)
  <2>1. /\ pc[p] = "index" /\ pc'[p] = "indexing" /\ seen'[p] = row[cur[p]].status
        /\ row[cur[p]].status \in Indexable
    BY <1>2 DEF OpenIndex
  <2>2. QED
    BY <1>1, <2>1
<1>3. CASE DeleteSnapshots(p)
  <2>1. pc[p] = "indexing" /\ pc'[p] = "insert" /\ gone'[p] = copies[cur[p]] /\ seen' = seen
    BY <1>3 DEF DeleteSnapshots
  <2>2. QED
    BY <1>1, <2>1
<1>4. QED
  BY <1>2, <1>3

\* Whoever takes a lock finds it free, as the only process holds none by then.
LEMMA NeverLocked ==
    ASSUME LocksHeld, TypeOK, Alone, NEW p \in Procs, pc[p] = "lock"
    PROVE  lock[cur[p]] = Free
<1>1. cur[p] \in Jobs
  BY HasJob DEF TypeOK, Unassigned
<1>2. lock[cur[p]] \in Procs \cup {Free}
  BY <1>1 DEF TypeOK
<1>3. lock[cur[p]] # Free => lock[cur[p]] = p
  BY <1>2 DEF Alone
<1>4. QED
  BY <1>1, <1>3 DEF LocksHeld, Holding

\* Steps that write rows.
LEMMA RecoverMoves ==
    ASSUME TypeOK, NEW p \in Procs, Knows(p), RecoverCommits(p)
    PROVE  Knows(p)' /\ Moves /\ Quiet
<1>1. /\ pc[p] = "probe" /\ pc'[p] \in {"reconcile", "idle"} /\ UNCHANGED <<copies, todo>>
      /\ todo[p] = {} /\ found'[p] = {}
  BY DEF RecoverCommits, Goto, TypeOK, ProcsTyped
<1>2. \A j \in found[p] : j \in Jobs /\ row[j].status = "running" /\ row[j] \in Row
  BY DEF TypeOK, DbTyped, ProcsTyped, Knows
<1>3. \A j \in Jobs : row'[j].status = IF j \in found[p] THEN "retryable" ELSE row[j].status
  BY <1>2 DEF RecoverCommits, Row
<1>4. Moves /\ Quiet
  BY <1>1, <1>2, <1>3 DEF Moves, Quiet, Lifecycle!Edges
<1>5. Knows(p)'
  BY <1>1 DEF Knows
<1>6. QED
  BY <1>4, <1>5

LEMMA BeginMoves ==
    ASSUME TypeOK, NEW p \in Procs, Knows(p), Begin(p)
    PROVE  Knows(p)' /\ Moves /\ Quiet
<1>1. /\ pc[p] = "begin" /\ pc'[p] = "crawl" /\ UNCHANGED <<copies, procVars>>
      /\ row[cur[p]].status \in Runnable
      /\ Write(cur[p], [row[cur[p]] EXCEPT !.status = "running", !.crawler = "none"])
  BY DEF Begin, Goto, TypeOK, ProcsTyped
<1>2. cur[p] \in Jobs
  BY <1>1, HasJob DEF TypeOK, Unassigned
<1>3. row[cur[p]] \in Row
  BY <1>2 DEF TypeOK, DbTyped
<1>4. row'[cur[p]].status = "running" /\ \A k \in Jobs \ {cur[p]} : row'[k] = row[k]
  <2>1. [row[cur[p]] EXCEPT !.status = "running", !.crawler = "none"].status = "running"
    BY <1>3 DEF Row
  <2>2. QED
    BY <1>1, <1>2, <2>1, Wrote
<1>5. Moves /\ Quiet
  BY <1>1, <1>2, <1>4 DEF Moves, Quiet, Lifecycle!Edges, Runnable
<1>6. Knows(p)'
  BY <1>1, <1>4 DEF Knows, procVars
<1>7. QED
  BY <1>5, <1>6

LEMMA RecordMoves ==
    ASSUME TypeOK, NEW p \in Procs, Knows(p), NEW outcome \in Outcomes, Record(p, outcome)
    PROVE  Knows(p)' /\ Moves /\ Quiet
<1>1. /\ pc[p] = "crawl" /\ pc'[p] = "unlock" /\ UNCHANGED <<copies, cur, todo, found, asks>>
      /\ Write(cur[p], Recorded(row[cur[p]], outcome)) /\ crawlOk'[p] = (outcome = "ok")
  BY DEF Record, Goto, TypeOK, ProcsTyped
<1>2. cur[p] \in Jobs
  BY <1>1, HasJob DEF TypeOK, Unassigned
<1>3. row[cur[p]] \in Row /\ row[cur[p]].status = "running"
  BY <1>1, <1>2 DEF TypeOK, DbTyped, Knows
<1> DEFINE new == Recorded(row[cur[p]], outcome)
<1>4. /\ outcome = "ok" => new.status = "completed" /\ new.crawler = "success"
      /\ outcome = "infra_error" => new.status \in {"retryable", "failed"} /\ new.crawler = "infra_error"
      /\ outcome \notin {"ok", "infra_error"} => new.status = "failed"
  BY <1>3 DEF Recorded, Row
<1>5. row'[cur[p]] = new /\ \A k \in Jobs \ {cur[p]} : row'[k] = row[k]
  BY <1>1, <1>2, Wrote
<1> HIDE DEF new
<1>6. Moves /\ Quiet
  BY <1>1, <1>2, <1>3, <1>4, <1>5 DEF Moves, Quiet, Lifecycle!Edges
<1>7. Knows(p)'
  BY <1>1, <1>4, <1>5 DEF Knows
<1>8. QED
  BY <1>6, <1>7

LEMMA PolicyStatus ==
    ASSUME NEW j \in Jobs, NEW r \in Row
    PROVE  FailurePolicy(j, r).status \in {"retryable", "failed", r.status}
  BY DEF FailurePolicy, FlagForReview, Row

\* Without retry-job, the failure policy finds a row that says 'failed'.
LEMMA PostMoves ==
    ASSUME TypeOK, NEW p \in Procs, Knows(p), PostInfra(p) \/ PostFailed(p)
    PROVE  Knows(p)' /\ Moves /\ Quiet
<1>1. pc[p] = "post" /\ Return(p) /\ UNCHANGED copies
  BY DEF PostInfra, PostFailed
<1>2. cur[p] \in Jobs
  BY <1>1, HasJob DEF TypeOK, Unassigned
<1>3. row[cur[p]] \in Row
  BY <1>2 DEF TypeOK, DbTyped
<1>4. ~crawlOk[p] \/ row[cur[p]].status # "completed" => row[cur[p]].status \in {"failed", "retryable"}
  BY <1>1 DEF Knows
<1>5. CASE PostInfra(p)
  <2>1. row[cur[p]].crawler = "infra_error"
    BY <1>5 DEF PostInfra
  <2>2. row[cur[p]].status \in {"failed", "retryable"}
    BY <1>1, <2>1 DEF Knows
  <2>3. ASSUME UNCHANGED row PROVE Moves /\ Quiet
    BY <1>1, <2>3, Unwritten
  <2>4. ASSUME Write(cur[p], [row[cur[p]] EXCEPT !.status = "retryable"]) PROVE Moves /\ Quiet
    <3>1. row'[cur[p]].status = "retryable" /\ \A k \in Jobs \ {cur[p]} : row'[k] = row[k]
      BY <1>2, <2>4, StatusWrote
    <3>2. QED
      BY <1>1, <1>2, <2>2, <3>1 DEF Moves, Quiet, Lifecycle!Edges
  <2>5. Moves /\ Quiet
    BY <1>5, <2>3, <2>4 DEF PostInfra
  <2>6. QED
    BY <1>1, <2>5, ReturnKnows
<1>6. CASE PostFailed(p)
  <2>1. /\ row[cur[p]].crawler # "infra_error" /\ (~crawlOk[p] \/ row[cur[p]].status = "failed")
        /\ Write(cur[p], FailurePolicy(cur[p], row[cur[p]]))
    BY <1>6 DEF PostFailed
  <2>2. /\ row[cur[p]].status \in {"failed", "retryable"}
        /\ asks = 0 => row[cur[p]].status = "failed"
    BY <1>1, <2>1 DEF Knows
  <2>3. row'[cur[p]].status \in {"failed", "retryable"} /\ \A k \in Jobs \ {cur[p]} : row'[k] = row[k]
    <3>1. row'[cur[p]] = FailurePolicy(cur[p], row[cur[p]]) /\ \A k \in Jobs \ {cur[p]} : row'[k] = row[k]
      BY <1>2, <2>1, Wrote
    <3>2. FailurePolicy(cur[p], row[cur[p]]).status \in {"retryable", "failed", row[cur[p]].status}
      BY <1>2, <1>3, PolicyStatus
    <3>3. QED
      BY <2>2, <3>1, <3>2
  <2>4. Moves /\ Quiet
    BY <1>1, <1>2, <2>2, <2>3 DEF Moves, Quiet, Lifecycle!Edges, Late
  <2>5. QED
    BY <1>1, <2>4, ReturnKnows
<1>7. QED
  BY <1>5, <1>6

LEMMA ResetMoves ==
    ASSUME TypeOK, NEW p \in Procs, Knows(p), ResetCommits(p)
    PROVE  Knows(p)' /\ Moves /\ Quiet
<1>1. /\ pc[p] = "reset" /\ Return(p) /\ UNCHANGED copies
      /\ Write(cur[p], [row[cur[p]] EXCEPT !.retries = target[p]])
  BY DEF ResetCommits
<1>2. cur[p] \in Jobs
  BY <1>1, HasJob DEF TypeOK, Unassigned
<1>3. row[cur[p]] \in Row
  BY <1>2 DEF TypeOK, DbTyped
<1>4. \A k \in Jobs : row'[k].status = row[k].status
  BY <1>1, <1>2, <1>3, Wrote DEF Row
<1>5. QED
  BY <1>1, <1>4, ReturnKnows DEF Moves, Quiet

\* What the end of an index transaction does to the row.
LEMMA IndexStatus ==
    ASSUME TypeOK, NEW p \in Procs, Knows(p), pc[p] \in {"indexing", "insert"},
           NEW status \in {"indexed", "index_failed"}, WriteIndexStatus(p, status)
    PROVE  /\ Moves
           /\ \A k \in Jobs \ {cur[p]} : row'[k] = row[k]
           /\ row'[cur[p]].status = "indexed" => status = "indexed" \/ row[cur[p]].status = "indexed"
           /\ status = "index_failed" => row'[cur[p]].status # "indexed"
<1>1. cur[p] \in Jobs
  BY HasJob DEF TypeOK, Unassigned
<1>2. seen[p] \in Indexable
  BY DEF TypeOK, ProcsTyped
<1>3. CASE status = seen[p] /\ UNCHANGED row
  BY <1>1, <1>3 DEF Knows, Moves
<1>4. CASE Write(cur[p], [row[cur[p]] EXCEPT !.status = status])
  <2>1. row'[cur[p]].status = status /\ \A k \in Jobs \ {cur[p]} : row'[k] = row[k]
    BY <1>1, <1>4, StatusWrote
  <2>2. row[cur[p]].status \in Indexable /\ (p \in Workers => row[cur[p]].status = "completed")
    BY DEF Knows
  <2>3. p \in Workers \/ Clis # {}
    BY DEF Procs
  <2>4. \/ row'[cur[p]].status = row[cur[p]].status
        \/ <<row[cur[p]].status, row'[cur[p]].status>> \in Lifecycle!Edges \cup Late
    BY <2>1, <2>2, <2>3 DEF Lifecycle!Edges, Late, Indexable
  <2>5. Moves
    BY <2>1, <2>4 DEF Moves
  <2>6. QED
    BY <2>1, <2>5
<1>5. QED
  BY <1>3, <1>4 DEF WriteIndexStatus

LEMMA GivesUpMoves ==
    ASSUME TypeOK, NEW p \in Procs, Knows(p), IndexGivesUp(p)
    PROVE  Knows(p)' /\ Moves /\ Quiet
<1>1. Moves /\ \A k \in Jobs : row'[k].status = "indexed" => row[k].status = "indexed"
  BY IndexStatus DEF IndexGivesUp
<1>2. Return(p) /\ UNCHANGED copies
  BY DEF IndexGivesUp
<1>3. QED
  BY <1>1, <1>2, ReturnKnows DEF Quiet

\* retry-job, beside the process.
LEMMA RetryMoves ==
    ASSUME TypeOK, NEW j \in Jobs, RetryJob(j)
    PROVE  Moves /\ Quiet /\ \A p \in Procs : Knows(p) => Knows(p)'
<1>1. /\ row[j].status \in {"failed", "index_failed"} /\ asks \in Nat /\ asks' = asks + 1
      /\ Write(j, [row[j] EXCEPT !.status = IF row[j].status = "failed" THEN "retryable" ELSE "completed"])
      /\ UNCHANGED <<copies, pc, procVars>>
  <2>1. row[j] \in Row
    BY DEF TypeOK, DbTyped
  <2>2. QED
    BY <2>1 DEF RetryJob, TypeOK, CountersTyped, Ask, Row
<1>2. /\ row'[j].status = (IF row[j].status = "failed" THEN "retryable" ELSE "completed")
      /\ row'[j].crawler = row[j].crawler /\ \A k \in Jobs \ {j} : row'[k] = row[k]
  BY <1>1, StatusWrote
<1>3. Moves /\ Quiet
  BY <1>1, <1>2 DEF Moves, Quiet, Lifecycle!Edges
<1>4. ASSUME NEW p \in Procs, Knows(p) PROVE Knows(p)'
  <2>1. \A k \in Jobs : row[k].status \notin {"failed", "index_failed"} => row'[k] = row[k]
    BY <1>1, <1>2
  <2>2. pc[p] \notin Unassigned => cur[p] \in Jobs
    BY DEF TypeOK, ProcsTyped
  <2>3. todo[p] \cup found[p] \subseteq Jobs
    BY DEF TypeOK, ProcsTyped
  <2>4. asks' # 0
    BY <1>1
  <2>5. \A k \in Jobs : /\ row[k].status \in {"failed", "retryable"} => row'[k].status \in {"failed", "retryable"}
                        /\ row[k].status \in Indexable => row'[k].status \in Indexable
                        /\ row'[k].status = "indexed" => row[k].status = "indexed"
    BY <1>1, <1>2 DEF Indexable
  <2>6. QED
    BY <1>1, <1>4, <2>1, <2>2, <2>3, <2>4, <2>5 DEF Knows, Unassigned, procVars
<1>5. QED
  BY <1>3, <1>4

\* Every step of the only process but the end of an index transaction.
LEMMA KnowsStep ==
    ASSUME TypeOK, LocksHeld, Alone, \A p \in Procs : Knows(p), Next
    PROVE  /\ \A p \in Procs : Knows(p)'
           /\ Moves
           /\ \/ Quiet
              \/ \E p \in Procs, status \in {"indexed", "index_failed"} : IndexCommits(p, status)
<1> DEFINE Commits(p) == \E status \in {"indexed", "index_failed"} : IndexCommits(p, status)
           Goal(p) == Knows(p)' /\ Moves /\ (Quiet \/ Commits(p))
<1>1. ASSUME NEW p \in Procs, Knows(p)', UNCHANGED <<row, copies>> PROVE Goal(p)
  BY <1>1, Unwritten
<1>2. ASSUME NEW p \in Procs, Knows(p)', Moves, Quiet PROVE Goal(p)
  BY <1>2
<1>3. ASSUME NEW p \in Procs, Return(p), UNCHANGED <<row, copies>> PROVE Goal(p)
  <2>1. Knows(p)'
    BY <1>3, ReturnKnows
  <2>2. QED
    BY <1>1, <1>3, <2>1
<1>4. ASSUME NEW p \in Procs, Commits(p) PROVE Goal(p)
  <2>1. PICK status \in {"indexed", "index_failed"} : IndexCommits(p, status)
    BY <1>4
  <2>2. pc[p] = "insert" /\ WriteIndexStatus(p, status) /\ Return(p)
    BY <2>1 DEF IndexCommits
  <2>3. Moves /\ Knows(p)'
    BY <2>2, IndexStatus, ReturnKnows
  <2>4. QED
    BY <1>4, <2>3
<1> HIDE DEF Goal
<1>5. ASSUME NEW p \in Procs, RunnerStep(p) PROVE Goal(p)
  <2>1. ASSUME Probe(p) \/ ProbeFindsLocked(p) \/ ProbeEnds(p) PROVE Goal(p)
    <3>1. Knows(p)' /\ UNCHANGED <<row, copies>>
      BY <2>1, ScanKnows
    <3>2. QED
      BY <1>1, <3>1
  <2>2. ASSUME TakeLock(p) PROVE Goal(p)
    <3>1. Picks(p)
      BY <2>2 DEF Picks
    <3>2. Knows(p)' /\ UNCHANGED <<row, copies>>
      BY <3>1, PickKnows
    <3>3. QED
      BY <1>1, <3>2
  <2>3. ASSUME OpenIndex(p) \/ DeleteSnapshots(p) PROVE Goal(p)
    <3>1. Knows(p)' /\ UNCHANGED <<row, copies>>
      BY <2>3, OpensKnows
    <3>2. QED
      BY <1>1, <3>1
  <2>4. ASSUME \/ RecoverCommits(p) \/ Begin(p) \/ IndexGivesUp(p)
               \/ \E outcome \in Outcomes : Record(p, outcome)
        PROVE  Goal(p)
    <3>1. Knows(p)' /\ Moves /\ Quiet
      BY <2>4, RecoverMoves, BeginMoves, GivesUpMoves, RecordMoves
    <3>2. QED
      BY <1>2, <3>1
  <2>5. ASSUME RefuseBegin(p) \/ RefuseIndex(p) PROVE Goal(p)
    <3>1. Return(p) /\ UNCHANGED <<row, copies>>
      BY <2>5 DEF RefuseBegin, RefuseIndex, dbVars
    <3>2. QED
      BY <1>3, <3>1
  <2>6. QED
    BY <1>4, <1>5, <2>1, <2>2, <2>3, <2>4, <2>5 DEF RunnerStep
<1>6. ASSUME NEW p \in Procs, Crawl(p) \/ IndexRollsBack(p) \/ Crash(p) PROVE Goal(p)
  <2>1. ASSUME Crawl(p) PROVE Goal(p)
    <3>1. Picks(p)
      BY <2>1 DEF Picks
    <3>2. Knows(p)' /\ UNCHANGED <<row, copies>>
      BY <3>1, PickKnows
    <3>3. QED
      BY <1>1, <3>2
  <2>2. ASSUME IndexRollsBack(p) \/ Crash(p) PROVE Goal(p)
    <3>1. Return(p) /\ UNCHANGED <<row, copies>>
      BY <2>2 DEF IndexRollsBack, Crash, dbVars
    <3>2. QED
      BY <1>3, <3>1
  <2>3. QED
    BY <1>6, <2>1, <2>2
<1>7. ASSUME NEW w \in Workers, WorkerStep(w) PROVE Goal(w)
  <2>1. w \in Procs /\ Knows(w)
    BY DEF Procs
  <2>2. ~WorkerFindsLocked(w)
    BY <2>1, NeverLocked DEF WorkerFindsLocked
  <2>3. ~Sync(w)
    BY <2>1 DEF Knows, Sync
  <2>4. ASSUME WorkerWakes(w) PROVE Goal(w)
    <3>1. Knows(w)' /\ UNCHANGED <<row, copies>>
      BY <2>1, <2>4, ScanKnows DEF WorkerWakes
    <3>2. QED
      BY <1>1, <2>1, <3>1
  <2>5. ASSUME Reconcile(w) \/ Select(w) \/ WorkerUnlocks(w) \/ PostSucceeded(w) PROVE Goal(w)
    <3>1. Picks(w)
      BY <2>1, <2>5 DEF Picks
    <3>2. Knows(w)' /\ UNCHANGED <<row, copies>>
      BY <2>1, <3>1, PickKnows
    <3>3. QED
      BY <1>1, <2>1, <3>2
  <2>6. ASSUME SkipCrawl(w) \/ PostConfigError(w) PROVE Goal(w)
    <3>1. Return(w) /\ UNCHANGED <<row, copies>>
      BY <2>6 DEF SkipCrawl, PostConfigError, dbVars
    <3>2. QED
      BY <1>3, <2>1, <3>1
  <2>7. ASSUME PostInfra(w) \/ PostFailed(w) PROVE Goal(w)
    <3>1. Knows(w)' /\ Moves /\ Quiet
      BY <2>1, <2>7, PostMoves
    <3>2. QED
      BY <1>2, <2>1, <3>1
  <2>8. QED
    BY <1>5, <1>7, <2>1, <2>2, <2>3, <2>4, <2>5, <2>6, <2>7 DEF WorkerStep
<1>8. ASSUME NEW c \in Clis, CliStep(c) \/ CliStart(c) PROVE Goal(c)
  <2>1. c \in Procs /\ Knows(c)
    BY DEF Procs
  <2>2. ASSUME CliRecovers(c) PROVE Goal(c)
    <3>1. Knows(c)' /\ UNCHANGED <<row, copies>>
      BY <2>1, <2>2, ScanKnows DEF CliRecovers
    <3>2. QED
      BY <1>1, <2>1, <3>1
  <2>3. ASSUME \/ CliRuns(c) \/ CliResets(c) \/ ResetProbes(c) \/ ResetReleases(c)
               \/ CliIndexes(c) \/ CliUnlocks(c)
        PROVE  Goal(c)
    <3>1. Picks(c)
      BY <2>1, <2>3 DEF Picks
    <3>2. Knows(c)' /\ UNCHANGED <<row, copies>>
      BY <2>1, <3>1, PickKnows
    <3>3. QED
      BY <1>1, <2>1, <3>2
  <2>4. ASSUME CliFindsLocked(c) \/ CliExits(c) \/ ResetRefused(c) PROVE Goal(c)
    <3>1. Return(c) /\ UNCHANGED <<row, copies>>
      BY <2>4 DEF CliFindsLocked, CliExits, ResetRefused, dbVars
    <3>2. QED
      BY <1>3, <2>1, <3>1
  <2>5. ASSUME ResetCommits(c) PROVE Goal(c)
    <3>1. Knows(c)' /\ Moves /\ Quiet
      BY <2>1, <2>5, ResetMoves
    <3>2. QED
      BY <1>2, <2>1, <3>1
  <2>6. QED
    BY <1>5, <1>8, <2>1, <2>2, <2>3, <2>4, <2>5 DEF CliStep, CliStart
<1>9. ASSUME NEW j \in Jobs, Clock(j) \/ RetryJob(j)
      PROVE  Moves /\ Quiet /\ \A p \in Procs : Knows(p)'
  <2>1. ASSUME Clock(j) PROVE Moves /\ Quiet /\ \A p \in Procs : Knows(p)'
    <3>1. UNCHANGED <<row, copies, pc, procVars, asks>>
      BY <2>1 DEF Clock, Age, Cool, FallSilent, dbVars, boundVars
    <3>2. QED
      BY <3>1, Unwritten DEF Knows, procVars
  <2>2. QED
    BY <1>9, <2>1, RetryMoves
<1>10. ASSUME NEW p \in Procs, Goal(p)
       PROVE  /\ \A q \in Procs : Knows(q)'
              /\ Moves
              /\ Quiet \/ \E q \in Procs : Commits(q)
  BY <1>10 DEF Alone, Goal
<1>11. QED
  BY <1>6, <1>7, <1>8, <1>9, <1>10 DEF Next, Procs

Lone == TypeOK /\ LocksHeld /\ \A p \in Procs : Knows(p)

LEMMA InitLone == Init => Lone
  BY InitType DEF Init, Lone, LocksHeld, Knows

LEMMA LoneStep == ASSUME Alone, Lone, [Next]_vars PROVE Lone'
<1>1. TypeOK' /\ LocksHeld'
  BY TypeStep, LocksHeldStep DEF Lone
<1>2. CASE UNCHANGED vars
  BY <1>1, <1>2 DEF Lone, Knows, vars, dbVars, procVars, boundVars
<1>3. CASE Next
  BY <1>1, <1>3, KnowsStep DEF Lone
<1>4. QED
  BY <1>2, <1>3

\* What is served of each job.
Served ==
    \A j \in Jobs : /\ \E v : copies[j] \subseteq {v}
                    /\ row[j].status = "indexed" => copies[j] # {}

LEMMA CommitServes ==
    ASSUME Lone, Served, NEW p \in Procs, NEW status \in {"indexed", "index_failed"},
           IndexCommits(p, status)
    PROVE  Served'
<1> USE DEF Lone
<1>1. pc[p] = "insert" /\ WriteIndexStatus(p, status) /\ gone[p] = copies[cur[p]]
  BY DEF IndexCommits, Knows
<1>2. cur[p] \in Jobs /\ copies \in [Jobs -> SUBSET Versions]
  BY <1>1, HasJob DEF TypeOK, DbTyped, Unassigned
<1>3. /\ \A k \in Jobs \ {cur[p]} : row'[k] = row[k]
      /\ status = "index_failed" => row'[cur[p]].status # "indexed"
  BY <1>1, IndexStatus
<1>4. \A k \in Jobs \ {cur[p]} : copies'[k] = copies[k]
  BY <1>2 DEF IndexCommits
<1>5. \/ \E v : copies'[cur[p]] = {v}
      \/ status = "index_failed" /\ copies'[cur[p]] = {}
  <2>1. CASE copies' = [copies EXCEPT ![cur[p]] = (@ \ gone[p]) \cup {CHOOSE v \in Unused(cur[p]) : TRUE}]
    BY <1>1, <1>2, <2>1
  <2>2. CASE status = "index_failed" /\ copies' = [copies EXCEPT ![cur[p]] = @ \ gone[p]]
    BY <1>1, <1>2, <2>2
  <2>3. QED
    BY <2>1, <2>2 DEF IndexCommits
<1>6. /\ \E v : copies'[cur[p]] \subseteq {v}
      /\ row'[cur[p]].status = "indexed" => copies'[cur[p]] # {}
  BY <1>3, <1>5
<1>7. ASSUME NEW k \in Jobs \ {cur[p]}
      PROVE  /\ \E v : copies'[k] \subseteq {v}
             /\ row'[k].status = "indexed" => copies'[k] # {}
  BY <1>3, <1>4, <1>7 DEF Served
<1>8. QED
  BY <1>6, <1>7 DEF Served

LEMMA ServedStep == ASSUME Alone, Lone, Served, [Next]_vars PROVE Served'
<1>1. ASSUME Quiet PROVE Served'
  BY <1>1 DEF Quiet, Served
<1>2. CASE UNCHANGED vars
  BY <1>1, <1>2 DEF Quiet, vars, dbVars
<1>3. CASE Next
  BY <1>1, <1>3, KnowsStep, CommitServes DEF Lone
<1>4. QED
  BY <1>2, <1>3

\* A worker or an operator who acts alone indexes each capture once, however often it
\* crashes, an index transaction rolls back or retry-job makes it index again: an index
\* transaction deletes all that an earlier one has left (DELETE FROM snapshots).
THEOREM IndexedOnce == ASSUME Alone PROVE Spec => []ServedOnce
<1>1. Init => Lone /\ Served
  <2>1. ASSUME Init PROVE Served
    BY <2>1 DEF Init, Served
  <2>2. QED
    BY <2>1, InitLone
<1>2. ASSUME Lone, Served PROVE ServedOnce
  <2>1. ASSUME NEW j \in Jobs PROVE Cardinality(copies[j]) <= 1
    <3>1. PICK v : copies[j] \subseteq {v}
      BY <1>2 DEF Served
    <3>2. IsFiniteSet({v}) /\ Cardinality({v}) = 1
      BY FS_Singleton
    <3>3. QED
      BY <3>1, <3>2, FS_Subset
  <2>2. QED
    BY <1>2, <2>1 DEF ServedOnce, Served
<1>3. QED
  BY <1>1, <1>2, LoneStep, ServedStep, PTL DEF Spec

\* Nor does it crawl again what is completed or indexed: whatever a crash, a stale scan or
\* an operator's retry-job makes of the rows in between.
THEOREM CapturesStay == ASSUME Alone PROVE Spec => CapturesAreKept
<1> DEFINE Keeps == \A j \in Jobs : row[j].status \in {"completed", "indexed"}
                                       => row'[j].status \notin {"running", "retryable"}
<1>1. ASSUME Lone, [Next]_vars PROVE Keeps \/ UNCHANGED row
  <2>1. CASE UNCHANGED vars
    BY <2>1 DEF vars, dbVars
  <2>2. CASE Next
    <3>1. Moves
      BY <1>1, <2>2, KnowsStep DEF Lone
    <3>2. QED
      BY <3>1 DEF Moves, Late, Lifecycle!Edges
  <2>3. QED
    BY <1>1, <2>1, <2>2
<1>2. [][Keeps]_row <=> CapturesAreKept
  BY DEF CapturesAreKept
<1> HIDE DEF Keeps
<1>3. QED
  BY <1>1, <1>2, InitLone, LoneStep, PTL DEF Spec

\* A worker that acts alone, with no operator to ask for anything, moves the jobs along the
\* documented lifecycle and nowhere else.
THEOREM LoneWorkerFollows ==
    ASSUME Alone, Clis = {}, MaxAsks = 0
    PROVE  Spec => FollowsLifecycle
<1> DEFINE NoAsk == asks = 0
<1>1. Init => Lone /\ NoAsk /\ Lifecycle!Init
  <2>1. ASSUME Init PROVE Lifecycle!Init
    BY <2>1 DEF Init, Lifecycle!Init
  <2>2. QED
    BY <2>1, InitLone DEF Init
<1>2. ASSUME NoAsk, [Next]_vars PROVE NoAsk'
  <2>1. CASE UNCHANGED vars
    BY <1>2, <2>1 DEF vars, boundVars
  <2>2. CASE Next
    <3>1. \A w \in Workers : WorkerStep(w) => UNCHANGED asks
      BY DEF WorkerStep, RunnerStep, Probe, ProbeFindsLocked, ProbeEnds, RecoverCommits, TakeLock, Begin,
             RefuseBegin, Record, OpenIndex, RefuseIndex, DeleteSnapshots, IndexGivesUp, IndexCommits,
             WorkerWakes, Reconcile, Select, SkipCrawl, WorkerFindsLocked, Sync, WorkerUnlocks,
             PostInfra, PostConfigError, PostFailed, PostSucceeded, Acquire, Release, boundVars
    <3>2. \A p \in Procs : Crawl(p) \/ IndexRollsBack(p) \/ Crash(p) => UNCHANGED asks
      BY DEF Crawl, IndexRollsBack, Crash, boundVars
    <3>3. \A j \in Jobs : ~RetryJob(j) /\ (Clock(j) => UNCHANGED asks)
      BY <1>2 DEF RetryJob, Ask, Clock, Age, Cool, FallSilent, boundVars
    <3>4. QED
      BY <1>2, <2>2, <3>1, <3>2, <3>3 DEF Next
  <2>3. QED
    BY <1>2, <2>1, <2>2
<1> DEFINE status == [j \in Jobs |-> row[j].status]
<1>3. ASSUME Lone, NoAsk, [Next]_vars PROVE [Lifecycle!Next]_status
  <2>1. CASE UNCHANGED vars
    BY <2>1 DEF vars, dbVars
  <2>2. CASE Next
    <3>1. Moves
      BY <1>3, <2>2, KnowsStep DEF Lone
    <3>2. QED
      BY <1>3, <3>1 DEF Moves, Late, Lifecycle!Next
  <2>3. QED
    BY <1>3, <2>1, <2>2
<1>4. FollowsLifecycle <=> Lifecycle!Init /\ [][Lifecycle!Next]_status
  BY DEF FollowsLifecycle, Lifecycle!Spec
<1> HIDE DEF status, NoAsk
<1>5. QED
  BY <1>1, <1>2, <1>3, <1>4, LoneStep, PTL DEF Spec
=============================================================================
