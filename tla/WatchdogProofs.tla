--------------------------- MODULE WatchdogProofs ---------------------------
(***************************************************************************)
(* Theorems about the two watchdogs, for any jobs and limits, whatever the  *)
(* worker, the operator and the other watchdog do, and wherever runs die.   *)
(***************************************************************************)
EXTENDS Watchdog, TLAPS, WellFoundedInduction, FiniteSetTheorems

\* The assumptions, one constant at a time.
LEMMA Constants ==
    /\ Jobs \subseteq Nat /\ NoJob \notin Jobs /\ IsFiniteSet(Jobs) /\ Fresh \subseteq Jobs
    /\ MinStreak \in Nat \ {0} /\ Window \in Nat \ {0}
    /\ MaxRecoveries \in Nat /\ MaxStarts \in Nat /\ MinRunning \in Nat
    /\ LaunchBound \in Nat /\ FaultBound \in Nat /\ DayBound \in Nat
BY JobsAssumption, LimitsAssumption DEF NoJob

\* ORDER BY has a first row.
LEMMA LowestInSet ==
    ASSUME NEW S, S \subseteq Jobs, S # {}
    PROVE  Lowest(S) \in S
<1>1. PICK m \in S : \A q \in S : ~(<<q, m>> \in OpToRel(<, Nat))
    BY NatLessThanWellFounded, WFMin, Constants
<1>2. \A q \in S : ~(q < m)
    BY <1>1, Constants DEF OpToRel
<1>3. \A q \in S : m <= q
    BY <1>2, Constants
<1> QED BY <1>3 DEF Lowest

-----------------------------------------------------------------------------
(* Type correctness, part by part.                                         *)

RowsOK ==
    /\ status \in [Jobs -> Pending \cup {"running", "done"}]
    /\ age \in [Jobs -> {"unset", "recent", "old"}]
    /\ open \subseteq Jobs

CrawlsOK ==
    /\ host \in [Jobs -> Hosts \cup {"none"}]
    /\ pace \in [Jobs -> {"unknown", "good", "slow", "silent"}]
    /\ crawling \subseteq {j \in Jobs : Held(j)} /\ gained \subseteq Jobs
    /\ workerUp \in BOOLEAN

LedgerOK == ledger \in [Jobs -> Entry]

CountsOK ==
    /\ launches \in Nat /\ faults \in Nat /\ days \in Nat
    /\ acted \in [Jobs -> Nat] /\ lost \in [Jobs -> Nat] /\ useless \in [Jobs -> Nat]

LEMMA Parts ==
    /\ TypeOK <=> RowsOK /\ CrawlsOK /\ RTyped /\ STyped /\ LedgerOK /\ CountsOK
    /\ TypeOK' <=> RowsOK' /\ CrawlsOK' /\ RTyped' /\ STyped' /\ LedgerOK' /\ CountsOK'
BY DEF TypeOK, RowsOK, CrawlsOK, LedgerOK, CountsOK

\* What a step leaves alone keeps its type.
LEMMA Frames ==
    /\ RowsOK /\ UNCHANGED rows => RowsOK'
    /\ CrawlsOK /\ UNCHANGED crawls => CrawlsOK'
    /\ RTyped /\ UNCHANGED r => RTyped'
    /\ STyped /\ UNCHANGED s => STyped'
    /\ LedgerOK /\ UNCHANGED ledger => LedgerOK'
    /\ CountsOK /\ UNCHANGED <<bounds, history>> => CountsOK'
<1>1. RowsOK /\ UNCHANGED rows => RowsOK'
    BY DEF RowsOK, rows
<1>2. CrawlsOK /\ UNCHANGED crawls => CrawlsOK'
    BY DEF CrawlsOK, crawls, Held
<1>3. RTyped /\ UNCHANGED r => RTyped'
    BY DEF RTyped
<1>4. STyped /\ UNCHANGED s => STyped'
    BY DEF STyped
<1>5. LedgerOK /\ UNCHANGED ledger => LedgerOK'
    BY DEF LedgerOK
<1>6. CountsOK /\ UNCHANGED <<bounds, history>> => CountsOK'
    BY DEF CountsOK, bounds, history
<1> QED BY <1>1, <1>2, <1>3, <1>4, <1>5, <1>6

\* A run starts with nothing read.
LEMMA IdleTyped == (r' = RIdle => RTyped') /\ (s' = SIdle => STyped')
<1>1. r' = RIdle => RTyped'
    BY Constants DEF RIdle, RTyped, RPcs
<1>2. s' = SIdle => STyped'
    BY DEF SIdle, STyped
<1> QED BY <1>1, <1>2

\* A runner starts, or a row is corrected by whoever finds its lock held.
LEMMA LaunchTyped ==
    ASSUME TypeOK, NEW j \in Jobs, NEW where \in Hosts, Launch(j, where), UNCHANGED <<workerUp, faults, days, history>>
    PROVE  RowsOK' /\ CrawlsOK' /\ CountsOK'
<1> USE Parts
<1>1. RowsOK'
    BY DEF Launch, CanLaunch, RowsOK
<1>2. CrawlsOK'
    BY DEF Launch, CanLaunch, CrawlsOK, Held, Hosts
<1>3. CountsOK'
    BY Constants DEF Launch, CanLaunch, CountsOK, history
<1> QED BY <1>1, <1>2, <1>3

\* A crawl goes with its runner.
LEMMA KilledTyped ==
    ASSUME TypeOK, NEW js, Killed(js), UNCHANGED <<pace, gained>>, workerUp' \in BOOLEAN
    PROVE  CrawlsOK'
BY Parts DEF Killed, CrawlsOK, Held

\* The worker and the crawls.
LEMMA WorkerTyped ==
    ASSUME TypeOK, WorkerStep
    PROVE  TypeOK'
<1> USE Parts
<1>1. Waiting # {} => Lowest(Waiting) \in Jobs
    BY LowestInSet DEF Waiting
<1>2. CASE WorkerTakes
  <2>1. RowsOK' /\ CrawlsOK' /\ CountsOK'
      BY <1>1, <1>2, LaunchTyped DEF WorkerTakes, Hosts
  <2> QED BY <1>2, <2>1, Frames DEF WorkerTakes
<1>3. CASE WorkerSyncs
  <2>1. RowsOK'
      BY <1>1, <1>3 DEF WorkerSyncs, RowsOK
  <2> QED BY <1>3, <2>1, Frames DEF WorkerSyncs
<1>4. ASSUME NEW j \in Jobs, WorkerHeals(j)
      PROVE  TypeOK'
  <2>1. RowsOK'
      BY <1>4 DEF WorkerHeals, RowsOK, Pending
  <2> QED BY <1>4, <2>1, Frames DEF WorkerHeals
<1> QED BY <1>2, <1>3, <1>4 DEF WorkerStep

LEMMA CrawlTyped ==
    ASSUME TypeOK, NEW j \in Jobs, RunnerStep(j) \/ LogStep(j) \/ FallsSilent(j) \/ Ages(j)
    PROVE  TypeOK'
<1> USE Parts
<1>1. CASE CrawlExits(j)
  <2>1. CrawlsOK'
      BY <1>1 DEF CrawlExits, CrawlsOK, Held
  <2> QED BY <1>1, <2>1, Frames DEF CrawlExits
<1>2. ASSUME NEW result \in {"retryable", "done"}, RunnerEnds(j, result)
      PROVE  TypeOK'
  <2>1. RowsOK' /\ CrawlsOK'
      BY <1>2 DEF RunnerEnds, RowsOK, CrawlsOK, Held, Pending
  <2> QED BY <1>2, <2>1, Frames DEF RunnerEnds
<1>3. ASSUME NEW p \in {"unknown", "good", "slow", "silent"}, LogShows(j, p)
      PROVE  TypeOK'
  <2>1. CrawlsOK'
      BY <1>3 DEF LogShows, CrawlsOK, Held
  <2> QED BY <1>3, <2>1, Frames DEF LogShows
<1>4. CASE Gains(j)
  <2>1. CrawlsOK' /\ CountsOK'
      BY <1>4 DEF Gains, CrawlsOK, CountsOK, Held, bounds
  <2>2. UNCHANGED rows
      BY <1>4 DEF Gains
  <2> QED BY <1>4, <2>1, <2>2, Frames DEF Gains
<1>5. CASE FallsSilent(j)
  <2>1. CrawlsOK'
      BY <1>5 DEF FallsSilent, CrawlsOK, Held
  <2> QED BY <1>5, <2>1, Frames DEF FallsSilent
<1>6. CASE Ages(j)
  <2>1. RowsOK'
      BY <1>6 DEF Ages, RowsOK
  <2> QED BY <1>6, <2>1, Frames DEF Ages
<1> QED BY <1>1, <1>2, <1>3, <1>4, <1>5, <1>6 DEF RunnerStep, LogStep

\* Processes that die, the days, an operator.
LEMMA MishapTyped ==
    ASSUME TypeOK, Mishap
    PROVE  TypeOK'
<1> USE Parts
<1>1. CASE WorkerDies
  <2>1. CrawlsOK'
      BY <1>1, KilledTyped DEF WorkerDies
  <2>2. CountsOK'
      BY <1>1 DEF WorkerDies, Fault, CountsOK, history
  <2> QED BY <1>1, <2>1, <2>2, Frames DEF WorkerDies
<1>2. CASE RDies
  <2>1. r.pc \in {"mark", "restart", "record"} => r.job \in Jobs
      BY DEF RTyped
  <2>2. CountsOK'
      BY <1>2, <2>1 DEF RDies, Fault, Aborted, CountsOK
  <2>3. UNCHANGED <<rows, crawls, s, ledger>> /\ r' = RIdle
      BY <1>2 DEF RDies
  <2> QED BY <2>2, <2>3, IdleTyped, Frames
<1>3. CASE SDies
  <2>1. CountsOK'
      BY <1>3 DEF SDies, Fault, CountsOK, history
  <2> QED BY <1>3, <2>1, IdleTyped, Frames DEF SDies
<1>4. CASE DayPasses
  <2>1. LedgerOK'
      BY <1>4 DEF DayPasses, LedgerOK, Entry
  <2>2. CountsOK'
    <3>1. days' = days + 1 /\ acted' = [j \in Jobs |-> 0] /\ UNCHANGED <<launches, faults, lost, useless>>
        BY <1>4 DEF DayPasses
    <3>2. acted' \in [Jobs -> Nat] /\ days' \in Nat
        BY <3>1 DEF CountsOK
    <3> QED BY <3>1, <3>2 DEF CountsOK
  <2> QED BY <1>4, <2>1, <2>2, Frames DEF DayPasses
<1>5. ASSUME NEW probed \in SUBSET Jobs, RProbesLocks(probed)
      PROVE  TypeOK'
  <2>1. RTyped'
      BY <1>5 DEF RProbesLocks, RStep, RTyped, RPcs
  <2>2. CountsOK'
      BY <1>5 DEF RProbesLocks, Fault, CountsOK, history
  <2> QED BY <1>5, <2>1, <2>2, Frames DEF RProbesLocks
<1>6. ASSUME NEW j \in Jobs, RunnerDies(j)
      PROVE  TypeOK'
  <2>1. CrawlsOK'
      BY <1>6, KilledTyped DEF RunnerDies, CrawlsOK
  <2>2. CountsOK'
      BY <1>6 DEF RunnerDies, Fault, CountsOK, history
  <2> QED BY <1>6, <2>1, <2>2, Frames DEF RunnerDies
<1>7. ASSUME NEW j \in Jobs, OperatorRuns(j)
      PROVE  TypeOK'
  <2>1. RowsOK' /\ CrawlsOK' /\ CountsOK'
      BY <1>7, LaunchTyped DEF OperatorRuns, Hosts
  <2> QED BY <1>7, <2>1, Frames DEF OperatorRuns
<1> QED BY <1>1, <1>2, <1>3, <1>4, <1>5, <1>6, <1>7 DEF Mishap

\* vps-worker-auto-start.
LEMMA StarterTyped ==
    ASSUME TypeOK, StarterStep
    PROVE  TypeOK'
<1> USE Parts
<1>1. CASE SWakes
  <2>1. STyped'
      BY <1>1 DEF SWakes, SStep, STyped
  <2> QED BY <1>1, <2>1, Frames DEF SWakes
<1>2. CASE SCounts
  <2>1. Cardinality(Running) \in Nat /\ Cardinality(Waiting) \in Nat
      BY FS_Subset, FS_CardinalityType, Constants DEF Running, Waiting
  <2>2. crawling \subseteq Jobs
      BY DEF CrawlsOK
  <2>3. STyped'
      BY <1>2, <2>1, <2>2 DEF SCounts, SStep, STyped
  <2> QED BY <1>2, <2>3, Frames DEF SCounts
<1>3. CASE SLoads
  <2>1. STyped'
      BY <1>3 DEF SLoads, SStep, STyped, Running
  <2> QED BY <1>3, <2>1, Frames DEF SLoads
<1>4. CASE SReconciles
  <2> DEFINE running == IF s.running > Cardinality(s.todo) THEN s.running - Cardinality(s.todo) ELSE 0
             pending == s.pending + Cardinality(s.todo)
  <2>1. Cardinality(s.todo) \in Nat /\ s.running \in Nat /\ s.pending \in Nat
      BY FS_Subset, FS_CardinalityType, Constants DEF STyped
  <2>2. STyped'
    <3>1. running \in Nat /\ pending \in Nat
        BY <2>1
    <3>2. s' = [s EXCEPT !.pc = "start", !.todo = {}, !.running = running, !.pending = pending]
        BY <1>4 DEF SReconciles, SStep
    <3> HIDE DEF running, pending
    <3> QED BY <3>1, <3>2 DEF STyped
  <2>3. RowsOK'
      BY <1>4 DEF SReconciles, RowsOK, STyped, Pending
  <2> QED BY <1>4, <2>2, <2>3, Frames DEF SReconciles
<1>5. CASE SStarts
  <2>1. CrawlsOK'
      BY <1>5 DEF SStarts, CrawlsOK, Held
  <2> QED BY <1>5, <2>1, IdleTyped, Frames DEF SStarts, SStep
<1>6. CASE SLeaves
    BY <1>6, IdleTyped, Frames DEF SLeaves, SStep
<1> QED BY <1>1, <1>2, <1>3, <1>4, <1>5, <1>6 DEF StarterStep

\* vps-crawl-auto-recover: what a survey picks is a job.
LEMMA SurveyTyped ==
    ASSUME TypeOK, RFindsStalled \/ RFindsDegraded \/ RFindsRoom \/ RFindsNothing
    PROVE  TypeOK'
<1> USE Parts
<1>1. LogsThat({"silent"}) \subseteq Jobs /\ Candidates \subseteq Jobs /\ LogsThat({"good", "slow"}) \subseteq Jobs
    BY DEF LogsThat, Running, Candidates, LongSlow
<1>2. LedgerOK' /\ UNCHANGED <<rows, crawls, s, bounds, history>>
  <2>1. \A j \in Jobs : Streak(j) \in 0 .. MinStreak
      BY Constants DEF Streak, LedgerOK, Entry
  <2>2. /\ ledger' = [j \in Jobs |-> [ledger[j] EXCEPT !.streak = Streak(j)]]
        /\ UNCHANGED <<rows, crawls, s, bounds, history>>
      BY DEF RFindsStalled, RFindsDegraded, RFindsRoom, RFindsNothing, Surveyed
  <2> QED BY <2>1, <2>2 DEF LedgerOK, Entry
<1>3. RTyped'
  <2>1. CASE RFindsStalled
    <3>1. Lowest(LogsThat({"silent"})) \in Jobs
        BY <1>1, <2>1, LowestInSet DEF RFindsStalled
    <3> QED BY <2>1, <3>1 DEF RFindsStalled, Surveyed, RStep, RTyped, RPcs
  <2>2. CASE RFindsDegraded
    <3>1. Lowest(Candidates) \in Jobs
        BY <1>1, <2>2, LowestInSet DEF RFindsDegraded
    <3> QED BY <1>1, <2>2, <3>1 DEF RFindsDegraded, Surveyed, RStep, RTyped, RPcs
  <2>3. CASE RFindsRoom
      BY <2>3 DEF RFindsRoom, Surveyed, RStep, RTyped, RPcs
  <2>4. CASE RFindsNothing
    <3>1. r' = [RIdle EXCEPT !.held = {}, !.seen = {}]
        BY <2>4 DEF RFindsNothing, Surveyed, RStep
    <3>2. r' = RIdle
        BY <3>1 DEF RIdle
    <3> QED BY <3>2, IdleTyped
  <2> QED BY <2>1, <2>2, <2>3, <2>4
<1> QED BY <1>2, <1>3, Frames

LEMMA RecoverTyped ==
    ASSUME TypeOK, RecoverStep
    PROVE  TypeOK'
<1> USE Parts
<1>1. CASE RProbesLocks({})
  <2>1. Mishap
      BY <1>1 DEF Mishap
  <2> QED BY <2>1, MishapTyped
<1>2. CASE RSyncsHeld
  <2>1. crawling \subseteq Jobs
      BY DEF CrawlsOK
  <2>2. RTyped'
      BY <1>2, <2>1 DEF RSyncsHeld, RStep, RTyped, RPcs
  <2>3. RowsOK'
      BY <1>2 DEF RSyncsHeld, RowsOK, RTyped
  <2> QED BY <1>2, <2>2, <2>3, Frames DEF RSyncsHeld
<1>3. CASE RSyncsVisible
  <2>1. RTyped'
      BY <1>3 DEF RSyncsVisible, RStep, RTyped, RPcs
  <2>2. RowsOK'
      BY <1>3 DEF RSyncsVisible, RowsOK
  <2> QED BY <1>3, <2>1, <2>2, Frames DEF RSyncsVisible
<1>4. CASE RDeclines
    BY <1>4, IdleTyped, Frames DEF RDeclines, RStep
<1>5. CASE RDecides
  <2>1. r.job \in Jobs /\ r.pc = "decide"
      BY <1>5 DEF RDecides, RStep, RTyped
  <2>2. Detected(r.job) \in {"none", "worker", "unit", "unknown"}
      BY <2>1 DEF Detected, CrawlsOK, Hosts
  <2> DEFINE pages == CASE pace[r.job] = "unknown" -> "unknown"
                        [] pace[r.job] # "unknown" /\ r.job \in gained -> "enough"
                        [] pace[r.job] # "unknown" /\ r.job \notin gained -> "few"
  <2>3. pages \in {"unknown", "few", "enough"}
      OBVIOUS
  <2>4. r' = [r EXCEPT !.pc = "stop", !.fresh = {}, !.kind = Detected(r.job), !.pages = pages]
      BY <1>5 DEF RDecides, RStep
  <2> HIDE DEF pages
  <2>5. RTyped'
      BY <2>1, <2>2, <2>3, <2>4 DEF RTyped, RPcs
  <2> QED BY <1>5, <2>5, Frames DEF RDecides
<1>6. CASE RStops
  <2>1. r.job \in Jobs
      BY <1>6 DEF RStops, RStep, RTyped
  <2>2. RTyped'
      BY <1>6 DEF RStops, RStep, RTyped, RPcs
  <2>3. CrawlsOK'
      BY <1>6, KilledTyped DEF RStops, CrawlsOK
  <2>4. CountsOK'
      BY <1>6, <2>1 DEF RStops, CountsOK, bounds
  <2> QED BY <1>6, <2>2, <2>3, <2>4, Frames DEF RStops
<1>7. CASE RHeals
  <2>1. RTyped'
      BY <1>7 DEF RHeals, RStep, RTyped, RPcs
  <2>2. RowsOK'
      BY <1>7 DEF RHeals, RowsOK, Pending
  <2> QED BY <1>7, <2>1, <2>2, Frames DEF RHeals
<1>8. CASE RMarks
  <2>1. RTyped'
      BY <1>8 DEF RMarks, RStep, RTyped, RPcs
  <2>2. RowsOK'
      BY <1>8 DEF RMarks, RowsOK, Pending
  <2> QED BY <1>8, <2>1, <2>2, Frames DEF RMarks
<1>9. CASE RRestarts
  <2>1. RTyped'
      BY <1>9 DEF RRestarts, RStep, RTyped, RPcs
  <2>2. CrawlsOK'
      BY <1>9 DEF RRestarts, CrawlsOK, Held
  <2> QED BY <1>9, <2>1, <2>2, Frames DEF RRestarts
<1>10. CASE RRestartsUnit \/ RSpawns
  <2>1. RTyped'
      BY <1>10 DEF RRestartsUnit, RSpawns, RStep, RTyped, RPcs
  <2>2. r.job \in Jobs
      BY <1>10 DEF RRestartsUnit, RSpawns, RStep, RTyped
  <2>3. UNCHANGED <<workerUp, s, ledger, faults, days, history>> /\ (Launch(r.job, "unit") \/ Unlaunched)
      BY <1>10 DEF RRestartsUnit, RSpawns
  <2>4. CASE Launch(r.job, "unit")
      BY <2>1, <2>2, <2>3, <2>4, LaunchTyped, Frames DEF Hosts
  <2>5. CASE Unlaunched
      BY <2>1, <2>3, <2>5, Frames DEF Unlaunched, crawls, bounds
  <2> QED BY <2>3, <2>4, <2>5
<1>11. CASE RUnitGone
  <2>1. r.job \in Jobs
      BY <1>11 DEF RUnitGone, RStep, RTyped
  <2>2. CountsOK'
      BY <1>11, <2>1 DEF RUnitGone, Aborted, CountsOK, bounds
  <2> QED BY <1>11, <2>2, IdleTyped, Frames DEF RUnitGone, RStep
<1>12. CASE RRecords
  <2>1. r.job \in Jobs /\ r.pages \in {"unknown", "few", "enough"}
      BY <1>12 DEF RRecords, RStep, RTyped
  <2>2. Chained(r.job) \in 0 .. Window /\ ledger[r.job].recoveries + 1 \in Nat
      BY <2>1, Constants DEF Chained, LedgerOK, Entry
  <2>3. LedgerOK'
      BY <1>12, <2>1, <2>2 DEF RRecords, LedgerOK, Entry
  <2>4. CrawlsOK'
      BY <1>12 DEF RRecords, CrawlsOK, Held
  <2> QED BY <1>12, <2>3, <2>4, IdleTyped, Frames DEF RRecords, RStep
<1>13. ASSUME NEW j \in Jobs, RFills(j)
       PROVE  TypeOK'
  <2>1. RTyped'
      BY <1>13 DEF RFills, RStep, RTyped, RPcs
  <2> QED BY <1>13, <2>1, Frames DEF RFills
<1>14. CASE RFillsNothing
    BY <1>14, IdleTyped, Frames DEF RFillsNothing, RStep
<1>15. CASE RRecordsStart
  <2>1. r.job \in Jobs
      BY <1>15 DEF RRecordsStart, RStep, RTyped
  <2>2. ledger[r.job].starts + 1 \in Nat
      BY <2>1 DEF LedgerOK, Entry
  <2>3. LedgerOK'
      BY <1>15, <2>1, <2>2 DEF RRecordsStart, LedgerOK, Entry
  <2> QED BY <1>15, <2>3, IdleTyped, Frames DEF RRecordsStart, RStep
<1> QED BY <1>1, <1>2, <1>3, <1>4, <1>5, <1>6, <1>7, <1>8, <1>9, <1>10, <1>11, <1>12, <1>13, <1>14, <1>15,
          SurveyTyped DEF RecoverStep

LEMMA TypeInit == Init => TypeOK
<1> SUFFICES ASSUME Init PROVE TypeOK
    OBVIOUS
<1>1. RTyped /\ STyped
    BY DEF Init, RIdle, SIdle, RTyped, STyped, RPcs
<1>2. LedgerOK
    BY Constants DEF Init, LedgerOK, Entry
<1>3. RowsOK /\ CrawlsOK
    BY Constants DEF Init, RowsOK, CrawlsOK, Pending
<1>4. CountsOK
    BY <1>2 DEF Init, CountsOK, LedgerOK, Entry
<1> QED BY <1>1, <1>2, <1>3, <1>4, Parts

LEMMA TypeStep == TypeOK /\ [Next]_vars => TypeOK'
<1>1. ASSUME TypeOK, UNCHANGED vars
      PROVE  TypeOK'
    BY <1>1, Parts, Frames DEF vars
<1> QED BY <1>1, WorkerTyped, CrawlTyped, MishapTyped, StarterTyped, RecoverTyped DEF Next

\* Every variable has its type, and a crawl process has a runner, whatever is stopped, killed,
\* launched or reconciled by whom.
THEOREM TypeCorrect == Spec => []TypeOK
BY TypeInit, TypeStep, PTL DEF Spec

-----------------------------------------------------------------------------
(* The caps.  A run reads the ledger when it decides, acts three steps       *)
(* later and records that at its end: the invariant says what it owes.       *)

Acting == {"stop", "mark", "restart", "record"}

\* What allowed the run to act still holds: the days forget entries, and only it adds any.
Decided ==
    r.pc \in Acting =>
        /\ ledger[r.job].recoveries < MaxRecoveries
        /\ r.pages = "few" => ledger[r.job].chain < Window
        /\ r.pages = "enough" => r.job \in gained

\* The run has acted on j and not recorded it.
Owed(j) == IF r.job = j /\ r.pc \in {"mark", "restart", "record"} THEN 1 ELSE 0

\* Every action of the day is recorded, owed or lost; the records keep to the cap.
ActsCounted ==
    \A j \in Jobs : /\ acted[j] <= ledger[j].recoveries + lost[j] + Owed(j)
                    /\ ledger[j].recoveries <= MaxRecoveries

\* So is every action since the job last gained pages, as an entry of its chain.
Chain(j) == IF j \in gained THEN 0 ELSE ledger[j].chain

ChainCounted == \A j \in Jobs : useless[j] <= Chain(j) + lost[j] + (IF Looked THEN Owed(j) ELSE 0)

Caps == Decided /\ ActsCounted /\ ChainCounted

\* Steps of others, and steps of a run that acts on nothing.
LEMMA CapsKept ==
    ASSUME TypeOK, Caps, UNCHANGED <<ledger, gained, acted, lost, useless>>,
           \/ UNCHANGED r
           \/ r.pc \notin Acting /\ r'.pc \notin Acting
           \/ r.pc \in Acting \ {"stop"} /\ \E pc \in Acting \ {"stop"} : r' = [r EXCEPT !.pc = pc]
    PROVE  Caps'
<1> USE DEF Caps, Decided, ActsCounted, ChainCounted, Owed, Chain, Looked, Acting
<1>1. CASE UNCHANGED r
    BY <1>1
<1>2. CASE r.pc \notin Acting /\ r'.pc \notin Acting
    BY <1>2
<1>3. ASSUME NEW pc \in Acting \ {"stop"}, r.pc \in Acting \ {"stop"}, r' = [r EXCEPT !.pc = pc]
      PROVE  Caps'
  <2>1. r'.pc = pc /\ r'.job = r.job /\ r'.pages = r.pages
      BY <1>3 DEF TypeOK, RTyped
  <2> QED BY <1>3, <2>1
<1> QED BY <1>1, <1>2, <1>3

LEMMA CapsOthers ==
    ASSUME TypeOK, Caps,
           \/ WorkerStep \/ StarterStep \/ WorkerDies \/ SDies
           \/ \E j \in Jobs : RunnerStep(j) \/ FallsSilent(j) \/ Ages(j) \/ RunnerDies(j) \/ OperatorRuns(j)
           \/ \E j \in Jobs, p \in {"unknown", "good", "slow", "silent"} : LogShows(j, p)
    PROVE  Caps'
<1>1. UNCHANGED <<r, ledger, acted, lost, useless>>
    BY DEF WorkerStep, WorkerTakes, WorkerSyncs, WorkerHeals, StarterStep, SWakes, SCounts, SLoads, SReconciles,
       SStarts, SLeaves, WorkerDies, SDies, RunnerStep, CrawlExits, RunnerEnds, FallsSilent, Ages, RunnerDies,
       OperatorRuns, LogShows, history
<1>2. UNCHANGED gained
    BY DEF WorkerStep, WorkerTakes, WorkerSyncs, WorkerHeals, StarterStep, SWakes, SCounts, SLoads, SReconciles,
       SStarts, SLeaves, WorkerDies, SDies, RunnerStep, CrawlExits, RunnerEnds, FallsSilent, Ages, RunnerDies,
       OperatorRuns, LogShows, Launch, crawls
<1> QED BY <1>1, <1>2, CapsKept

LEMMA CapsGains ==
    ASSUME TypeOK, Caps, NEW j \in Jobs, Gains(j)
    PROVE  Caps'
<1>1. /\ UNCHANGED <<r, ledger, acted, lost>> /\ gained' = gained \cup {j}
      /\ useless' = [useless EXCEPT ![j] = 0]
    BY DEF Gains
<1>2. ActsCounted'
    BY <1>1 DEF Caps, ActsCounted, Owed
<1>3. Decided'
    BY <1>1 DEF Caps, Decided
<1>4. ASSUME NEW k \in Jobs
      PROVE  useless'[k] <= Chain(k)' + lost'[k] + (IF Looked' THEN Owed(k)' ELSE 0)
  <2>1. CASE k = j
      BY <1>1, <2>1 DEF TypeOK, Chain, Owed
  <2>2. CASE k # j
    <3>1. useless'[k] = useless[k] /\ Chain(k)' = Chain(k) /\ Owed(k)' = Owed(k)
        BY <1>1, <2>2 DEF TypeOK, Chain, Owed
    <3>2. Owed(k) # 0 => Looked' = Looked
        BY <1>1, <2>2 DEF Looked, Owed
    <3> QED BY <1>1, <3>1, <3>2 DEF Caps, ChainCounted
  <2> QED BY <2>1, <2>2
<1> QED BY <1>2, <1>3, <1>4 DEF Caps, ChainCounted

LEMMA CapsDay ==
    ASSUME TypeOK, Caps, DayPasses
    PROVE  Caps'
<1>1. /\ UNCHANGED <<r, gained, lost, useless>> /\ acted' = [j \in Jobs |-> 0]
      /\ ledger' = [j \in Jobs |-> [ledger[j] EXCEPT !.recoveries = 0, !.starts = 0]]
    BY DEF DayPasses, crawls
<1>2. \A j \in Jobs : ledger'[j].recoveries = 0 /\ ledger'[j].chain = ledger[j].chain
    BY ZenonT(60), <1>1 DEF TypeOK, Entry
<1>3. Decided'
  <2> SUFFICES ASSUME r.pc \in Acting
               PROVE  /\ ledger'[r.job].recoveries < MaxRecoveries
                      /\ r.pages = "few" => ledger'[r.job].chain < Window
                      /\ r.pages = "enough" => r.job \in gained
      BY <1>1 DEF Decided
  <2>1. r.job \in Jobs /\ ledger[r.job].recoveries \in Nat
      BY DEF TypeOK, RTyped, Entry, Acting
  <2>2. /\ ledger[r.job].recoveries < MaxRecoveries
        /\ r.pages = "few" => ledger[r.job].chain < Window
        /\ r.pages = "enough" => r.job \in gained
      BY DEF Caps, Decided
  <2>3. 0 < MaxRecoveries
      BY <2>1, <2>2, Constants
  <2>4. ledger'[r.job].recoveries = 0 /\ ledger'[r.job].chain = ledger[r.job].chain
      BY <1>2, <2>1
  <2> QED BY <2>2, <2>3, <2>4
<1>4. ActsCounted'
  <2> SUFFICES ASSUME NEW j \in Jobs
               PROVE  acted'[j] <= ledger'[j].recoveries + lost'[j] + Owed(j)' /\ ledger'[j].recoveries <= MaxRecoveries
      BY DEF ActsCounted
  <2>1. acted'[j] = 0 /\ lost'[j] \in Nat /\ ledger'[j].recoveries = 0
      BY <1>1, <1>2 DEF TypeOK
  <2>2. Owed(j)' \in {0, 1}
      BY DEF Owed
  <2> QED BY <2>1, <2>2, Constants
<1>5. ChainCounted'
    BY <1>1, <1>2 DEF Caps, ChainCounted, Chain, Looked, Owed
<1> QED BY <1>3, <1>4, <1>5 DEF Caps

\* A survey only writes streaks.
LEMMA CapsSurvey ==
    ASSUME TypeOK, Caps, RFindsStalled \/ RFindsDegraded \/ RFindsRoom \/ RFindsNothing
    PROVE  Caps'
<1>1. /\ UNCHANGED <<gained, acted, lost, useless>>
      /\ ledger' = [j \in Jobs |-> [ledger[j] EXCEPT !.streak = Streak(j)]]
      /\ r.pc = "survey" /\ r'.pc \in {"decide", "fill", "idle"}
  <2>1. /\ UNCHANGED <<gained, acted, lost, useless>>
        /\ ledger' = [j \in Jobs |-> [ledger[j] EXCEPT !.streak = Streak(j)]]
        /\ r.pc = "survey"
      BY DEF RFindsStalled, RFindsDegraded, RFindsRoom, RFindsNothing, Surveyed, RStep, crawls, history
  <2>2. r'.pc \in {"decide", "fill", "idle"}
      BY ZenonT(60) DEF RFindsStalled, RFindsDegraded, RFindsRoom, RFindsNothing, Surveyed, RStep, RIdle, TypeOK, RTyped
  <2> QED BY <2>1, <2>2
<1>2. \A j \in Jobs : ledger'[j].recoveries = ledger[j].recoveries /\ ledger'[j].chain = ledger[j].chain
    BY <1>1 DEF TypeOK, Entry
<1>3. \A j \in Jobs : Owed(j) = 0 /\ Owed(j)' = 0
    BY <1>1 DEF Owed
<1>4. Decided'
    BY <1>1 DEF Decided, Acting
<1>5. ActsCounted'
    BY <1>1, <1>2, <1>3 DEF Caps, ActsCounted
<1>6. ChainCounted'
    BY <1>1, <1>2, <1>3 DEF Caps, ChainCounted, Chain
<1> QED BY <1>4, <1>5, <1>6 DEF Caps

\* The run is allowed to act.
LEMMA CapsDecides ==
    ASSUME TypeOK, Caps, RDecides
    PROVE  Caps'
<1>1. /\ r.pc = "decide" /\ r.job \in Jobs /\ UNCHANGED <<ledger, gained, acted, lost, useless>>
      /\ r'.pc = "stop" /\ r'.job = r.job
    BY DEF RDecides, RStep, TypeOK, RTyped, crawls, history
<1>2. /\ r'.pages = "few" => pace[r.job] # "unknown" /\ r.job \notin gained
      /\ r'.pages = "enough" => r.job \in gained
    BY DEF RDecides, RStep, TypeOK, RTyped
<1>3. ~Refused(r.job, Detected(r.job))
    BY DEF RDecides
<1>4. ledger[r.job].recoveries \in Nat /\ ledger[r.job].chain \in Nat
    BY <1>1 DEF TypeOK, Entry
<1>5. ledger[r.job].recoveries < MaxRecoveries
    BY <1>3, <1>4, Constants DEF Refused
<1>6. r'.pages = "few" => ledger[r.job].chain < Window
    BY <1>2, <1>3, <1>4, Constants DEF Refused, CircuitOpen
<1>7. Decided'
    BY <1>1, <1>2, <1>5, <1>6 DEF Decided
<1>8. \A j \in Jobs : Owed(j) = 0 /\ Owed(j)' = 0
    BY <1>1 DEF Owed
<1> QED BY <1>1, <1>7, <1>8 DEF Caps, ActsCounted, ChainCounted, Chain

\* It acts.
LEMMA CapsStops ==
    ASSUME TypeOK, Caps, RStops
    PROVE  Caps'
<1>1. /\ r.pc = "stop" /\ r.job \in Jobs /\ UNCHANGED <<ledger, gained, lost>>
      /\ r'.pc = "mark" /\ r'.job = r.job /\ r'.pages = r.pages
      /\ acted' = [acted EXCEPT ![r.job] = @ + 1]
      /\ useless' = [useless EXCEPT ![r.job] = IF Looked THEN @ + 1 ELSE @]
    BY DEF RStops, RStep, TypeOK, RTyped
<1>2. /\ Looked' = Looked
      /\ \A j \in Jobs : Owed(j) = 0 /\ Owed(j)' = IF j = r.job THEN 1 ELSE 0
    BY <1>1 DEF Looked, Owed
<1>3. \A j \in Jobs : acted'[j] = acted[j] + Owed(j)' /\ useless'[j] = useless[j] + (IF Looked THEN Owed(j)' ELSE 0)
    BY <1>1, <1>2 DEF TypeOK
<1>4. Decided'
    BY <1>1 DEF Caps, Decided, Acting
<1>5. \A j \in Jobs : /\ acted[j] \in Nat /\ lost[j] \in Nat /\ useless[j] \in Nat
                      /\ ledger[j].recoveries \in Nat /\ Chain(j) \in Nat
    BY DEF TypeOK, Entry, Chain
<1>6. ActsCounted'
    BY <1>1, <1>2, <1>3, <1>5 DEF Caps, ActsCounted
<1>7. ChainCounted'
    BY <1>1, <1>2, <1>3, <1>5 DEF Caps, ChainCounted, Chain
<1> QED BY <1>4, <1>6, <1>7 DEF Caps

\* It ends without a record of what it did.
LEMMA CapsLost ==
    ASSUME TypeOK, Caps, RUnitGone \/ RDies
    PROVE  Caps'
<1>1. /\ UNCHANGED <<ledger, gained, acted, useless>> /\ r'.pc = "idle"
      /\ IF r.pc \in {"mark", "restart", "record"} THEN Aborted(r.job) ELSE UNCHANGED lost
    BY DEF RUnitGone, RDies, RStep, RIdle, crawls, history
<1>2. r.pc \in {"mark", "restart", "record"} => r.job \in Jobs
    BY DEF TypeOK, RTyped
<1>3. \A j \in Jobs : lost'[j] = lost[j] + Owed(j) /\ Owed(j)' = 0
    BY <1>1, <1>2 DEF Aborted, Owed, TypeOK
<1>4. \A j \in Jobs : /\ acted[j] \in Nat /\ lost[j] \in Nat /\ useless[j] \in Nat /\ Owed(j) \in {0, 1}
                      /\ ledger[j].recoveries \in Nat /\ Chain(j) \in Nat
    BY DEF TypeOK, Entry, Chain, Owed
<1>5. Decided'
    BY <1>1 DEF Decided, Acting
<1>6. ActsCounted'
    BY <1>1, <1>3, <1>4 DEF Caps, ActsCounted
<1>7. ChainCounted'
    BY <1>1, <1>3, <1>4 DEF Caps, ChainCounted, Chain
<1> QED BY <1>5, <1>6, <1>7 DEF Caps

\* It records it.
LEMMA CapsRecords ==
    ASSUME TypeOK, Caps, RRecords
    PROVE  Caps'
<1>1. /\ r.pc = "record" /\ r.job \in Jobs /\ r.pages \in {"unknown", "few", "enough"} /\ r'.pc = "idle"
      /\ ledger' = [ledger EXCEPT ![r.job].recoveries = @ + 1, ![r.job].chain = Chained(r.job)]
      /\ gained' = IF r.pages = "enough" THEN gained \ {r.job} ELSE gained
      /\ UNCHANGED <<acted, lost, useless>>
    BY DEF RRecords, RStep, RIdle, TypeOK, RTyped, history
<1>2. /\ ledger[r.job].recoveries < MaxRecoveries
      /\ r.pages = "few" => ledger[r.job].chain < Window
      /\ r.pages = "enough" => r.job \in gained
    BY <1>1 DEF Caps, Decided, Acting
<1>3. \A j \in Jobs : /\ acted[j] \in Nat /\ lost[j] \in Nat /\ useless[j] \in Nat
                      /\ ledger[j].recoveries \in Nat /\ ledger[j].chain \in Nat
    BY DEF TypeOK, Entry
<1>4. \A j \in Jobs : Owed(j)' = 0 /\ Owed(j) = IF j = r.job THEN 1 ELSE 0
    BY <1>1 DEF Owed
<1>5. /\ ledger'[r.job].recoveries = ledger[r.job].recoveries + 1
      /\ ledger'[r.job].chain = Chained(r.job)
      /\ \A j \in Jobs \ {r.job} : ledger'[j] = ledger[j]
    BY <1>1 DEF TypeOK, Entry
<1>6. Decided'
    BY <1>1 DEF Decided, Acting
<1>7. ActsCounted'
  <2> SUFFICES ASSUME NEW j \in Jobs
               PROVE  acted[j] <= ledger'[j].recoveries + lost[j] + Owed(j)' /\ ledger'[j].recoveries <= MaxRecoveries
      BY <1>1 DEF ActsCounted
  <2>1. acted[j] <= ledger[j].recoveries + lost[j] + Owed(j) /\ ledger[j].recoveries <= MaxRecoveries
      BY DEF Caps, ActsCounted
  <2>2. acted[j] \in Nat /\ lost[j] \in Nat /\ ledger[j].recoveries \in Nat /\ Owed(j)' = 0
      BY <1>3, <1>4
  <2>3. CASE j = r.job
    <3>1. ledger'[j].recoveries = ledger[j].recoveries + 1 /\ Owed(j) = 1 /\ ledger[j].recoveries < MaxRecoveries
        BY <1>2, <1>4, <1>5, <2>3
    <3> QED BY <2>1, <2>2, <3>1, Constants
  <2>4. CASE j # r.job
    <3>1. ledger'[j].recoveries = ledger[j].recoveries /\ Owed(j) = 0
        BY <1>4, <1>5, <2>4
    <3> QED BY <2>1, <2>2, <3>1, Constants
  <2> QED BY <2>3, <2>4
<1>8. ASSUME NEW j \in Jobs
      PROVE  useless[j] <= Chain(j)' + lost[j]
  <2>1. useless[j] <= Chain(j) + lost[j] + (IF Looked THEN Owed(j) ELSE 0)
      BY DEF Caps, ChainCounted
  <2>2. CASE j # r.job
    <3>1. ledger'[j] = ledger[j] /\ (j \in gained' <=> j \in gained) /\ Owed(j) = 0
      <4>1. j \in gained' <=> j \in gained
          BY <1>1, <2>2
      <4> QED BY <1>4, <1>5, <2>2, <4>1
    <3>2. Chain(j)' = Chain(j)
        BY <3>1 DEF Chain
    <3>3. Chain(j) \in Nat
        BY <1>3 DEF Chain
    <3>4. (IF Looked THEN Owed(j) ELSE 0) = 0
        BY <3>1
    <3> QED BY <1>3, <2>1, <3>2, <3>3, <3>4
  <2>3. CASE j = r.job /\ r.pages = "unknown"
      BY <1>1, <1>3, <1>5, <2>1, <2>3 DEF Chain, Chained, Looked
  <2>4. CASE j = r.job /\ r.pages = "enough"
      BY <1>1, <1>2, <1>3, <1>4, <1>5, <2>1, <2>4 DEF Chain, Chained, Looked
  <2>5. CASE j = r.job /\ r.pages = "few"
      BY <1>1, <1>2, <1>3, <1>4, <1>5, <2>1, <2>5, Constants DEF Chain, Chained, Looked
  <2> QED BY <1>1, <2>2, <2>3, <2>4, <2>5
<1>9. ChainCounted'
  <2> SUFFICES ASSUME NEW j \in Jobs
               PROVE  useless[j] <= Chain(j)' + lost[j] + (IF Looked' THEN Owed(j)' ELSE 0)
      BY <1>1 DEF ChainCounted
  <2>1. useless[j] <= Chain(j)' + lost[j]
      BY <1>8
  <2>2. Chain(j)' \in Nat
    <3>1. Chained(r.job) \in Nat
        BY <1>1, <1>3, Constants DEF Chained
    <3>2. ledger'[j].chain \in Nat
        BY <1>3, <1>5, <3>1
    <3> QED BY <3>2 DEF Chain
  <2>3. (IF Looked' THEN Owed(j)' ELSE 0) = 0
      BY <1>4
  <2> QED BY <1>3, <2>1, <2>2, <2>3
<1> QED BY <1>6, <1>7, <1>9 DEF Caps

LEMMA CapsRecordsStart ==
    ASSUME TypeOK, Caps, RRecordsStart
    PROVE  Caps'
<1>1. /\ r.pc = "started" /\ r.job \in Jobs /\ r'.pc = "idle"
      /\ ledger' = [ledger EXCEPT ![r.job].starts = @ + 1]
      /\ UNCHANGED <<gained, acted, lost, useless>>
    BY DEF RRecordsStart, RStep, RIdle, TypeOK, RTyped, history, crawls
<1>2. \A j \in Jobs : ledger'[j].recoveries = ledger[j].recoveries /\ ledger'[j].chain = ledger[j].chain
    BY <1>1 DEF TypeOK, Entry
<1>3. \A j \in Jobs : Owed(j) = 0 /\ Owed(j)' = 0
    BY <1>1 DEF Owed
<1>4. Decided'
    BY <1>1 DEF Decided, Acting
<1>5. ActsCounted'
    BY <1>1, <1>2, <1>3 DEF Caps, ActsCounted
<1>6. ChainCounted'
    BY <1>1, <1>2, <1>3 DEF Caps, ChainCounted, Chain
<1> QED BY <1>4, <1>5, <1>6 DEF Caps

\* The other steps of a run: before it decides, when it starts a job, and between its
\* action and the record of it.
LEMMA CapsRuns ==
    ASSUME TypeOK, Caps,
           \/ RSyncsHeld \/ RSyncsVisible \/ RDeclines \/ RHeals \/ RMarks \/ RRestarts \/ RRestartsUnit
           \/ RFillsNothing \/ RSpawns \/ \E j \in Jobs : RFills(j)
           \/ \E probed \in SUBSET Jobs : RProbesLocks(probed)
    PROVE  Caps'
<1>1. UNCHANGED <<ledger, gained, acted, lost, useless>>
    BY DEF RSyncsHeld, RSyncsVisible, RDeclines, RHeals, RMarks, RRestarts, RRestartsUnit, RFillsNothing, RSpawns,
       RFills, RProbesLocks, Launch, Unlaunched, crawls, history
<1>2. CASE RHeals \/ RMarks \/ RRestarts \/ RRestartsUnit
  <2>1. r.pc \in Acting \ {"stop"} /\ \E pc \in Acting \ {"stop"} : r' = [r EXCEPT !.pc = pc]
      BY <1>2 DEF RHeals, RMarks, RRestarts, RRestartsUnit, RStep, Acting
  <2> QED BY <1>1, <2>1, CapsKept
<1>3. CASE ~(RHeals \/ RMarks \/ RRestarts \/ RRestartsUnit)
  <2>1. r.pc \notin Acting
      BY <1>3 DEF RSyncsHeld, RSyncsVisible, RDeclines, RFillsNothing, RSpawns, RFills, RProbesLocks, RStep, Acting
  <2>2. r'.pc \notin Acting
    <3>1. \/ r' = RIdle
          \/ r'.pc \in {"visible", "survey", "started", "spawn", "sync"}
        BY ZenonT(60), <1>3 DEF RSyncsHeld, RSyncsVisible, RDeclines, RFillsNothing, RSpawns, RFills, RProbesLocks, RStep,
           TypeOK, RTyped
    <3> QED BY <3>1 DEF RIdle, Acting
  <2> QED BY <1>1, <2>1, <2>2, CapsKept
<1> QED BY <1>2, <1>3

\* A job that was recovered days ago starts with the one entry of its chain.
LEMMA CapsInit == Init => Caps
<1> SUFFICES ASSUME Init PROVE Caps
    OBVIOUS
<1>1. TypeOK
    BY TypeInit
<1>2. r.pc = "idle" /\ \A j \in Jobs : Owed(j) = 0
    BY DEF Init, RIdle, Owed
<1>3. \A j \in Jobs : /\ acted[j] = 0 /\ lost[j] = 0 /\ ledger[j].recoveries = 0
                      /\ useless[j] = Chain(j) /\ Chain(j) \in Nat
    BY <1>1, Constants DEF Init, Chain, TypeOK, Entry
<1> QED BY <1>2, <1>3, Constants DEF Caps, Decided, ActsCounted, ChainCounted, Acting

LEMMA CapsStep == TypeOK /\ Caps /\ [Next]_vars => Caps'
<1> SUFFICES ASSUME TypeOK, Caps, [Next]_vars PROVE Caps'
    OBVIOUS
<1>1. CASE UNCHANGED vars
    BY <1>1, CapsKept DEF vars, crawls, history
<1>2. CASE RecoverStep
  <2>1. RProbesLocks({}) => \E probed \in SUBSET Jobs : RProbesLocks(probed)
      OBVIOUS
  <2> QED BY <1>2, <2>1, CapsRuns, CapsSurvey, CapsDecides, CapsStops, CapsLost, CapsRecords, CapsRecordsStart
          DEF RecoverStep
<1>3. CASE StarterStep \/ WorkerStep
    BY <1>3, CapsOthers
<1>4. CASE Mishap
    BY <1>4, CapsOthers, CapsLost, CapsDay, CapsRuns DEF Mishap
<1>5. ASSUME NEW j \in Jobs, RunnerStep(j) \/ LogStep(j) \/ FallsSilent(j) \/ Ages(j)
      PROVE  Caps'
    BY <1>5, CapsOthers, CapsGains DEF LogStep
<1> QED BY <1>1, <1>2, <1>3, <1>4, <1>5 DEF Next

LEMMA CapsGiven == TypeOK /\ Caps => RecoveriesCapped
<1> SUFFICES ASSUME TypeOK, Caps, NEW j \in Jobs
             PROVE  acted[j] <= MaxRecoveries + lost[j] /\ useless[j] <= Window + lost[j]
    BY DEF RecoveriesCapped
<1>1. /\ acted[j] <= ledger[j].recoveries + lost[j] + Owed(j) /\ ledger[j].recoveries <= MaxRecoveries
      /\ useless[j] <= Chain(j) + lost[j] + (IF Looked THEN Owed(j) ELSE 0)
    BY DEF Caps, ActsCounted, ChainCounted
<1>2. /\ acted[j] \in Nat /\ lost[j] \in Nat /\ useless[j] \in Nat
      /\ ledger[j].recoveries \in Nat /\ ledger[j].chain \in 0 .. Window
    BY DEF TypeOK, Entry
<1>3. Owed(j) \in {0, 1} /\ Chain(j) \in 0 .. Window
    BY <1>2, Constants DEF Owed, Chain
<1>4. Owed(j) = 1 => ledger[j].recoveries < MaxRecoveries
    BY DEF Owed, Caps, Decided, Acting
<1>5. Owed(j) = 1 /\ Looked => Chain(j) < Window
  <2> SUFFICES ASSUME Owed(j) = 1, Looked PROVE Chain(j) < Window
      OBVIOUS
  <2>1. /\ r.job = j
        /\ r.pages = "few" => ledger[j].chain < Window
        /\ r.pages = "enough" => j \in gained
      BY DEF Owed, Caps, Decided, Acting
  <2>2. CASE r.pages = "few"
      BY <2>1, <2>2 DEF Looked, Chain
  <2>3. CASE r.pages = "enough"
      BY <2>1, <2>3, Constants DEF Chain
  <2> QED BY <2>2, <2>3 DEF Looked
<1>6. acted[j] <= MaxRecoveries + lost[j]
    BY <1>1, <1>2, <1>3, <1>4, Constants
<1>7. useless[j] <= Window + lost[j]
    BY <1>1, <1>2, <1>3, <1>5, Constants
<1> QED BY <1>6, <1>7

\* Wherever runs die and whatever gains pages in between, the recovery watchdog interferes with
\* a job at most MaxRecoveries times a day and Window times without progress, plus the runs that
\* were cut short before they recorded what they had done.
THEOREM CapsHold == Spec => []RecoveriesCapped
<1>1. TypeOK /\ Caps /\ [Next]_vars => (TypeOK /\ Caps)'
    BY TypeStep, CapsStep
<1>2. Init => TypeOK /\ Caps
    BY TypeInit, CapsInit
<1> QED BY <1>1, <1>2, CapsGiven, PTL DEF Spec
=============================================================================
