---------------------------- MODULE HotPathsProofs ----------------------------
(***************************************************************************)
(* For every set of annual jobs, and every value of the watchdog's caps:   *)
(* the type invariant of the hot paths, and that the watchdog applies no   *)
(* more recoveries in a day than its caps allow, but for those that it     *)
(* died of before it had saved its state.                                  *)
(***************************************************************************)
EXTENDS HotPaths, SequenceTheorems, WellFoundedInduction, TLAPS

-----------------------------------------------------------------------------
(* Rows, the worker and its crawls.                                        *)

Statuses == Pending \cup {"running", "done"}

RowsTyped ==
    /\ status \in [Jobs -> Statuses]
    /\ tagged \subseteq Jobs /\ started \subseteq Jobs /\ cooling \subseteq Jobs /\ made \subseteq Jobs
    /\ cold \in BOOLEAN

\* A worker that does something is up, and knows for which job.
WorkerTyped ==
    /\ crawl \in [Jobs -> {"none", "cold", "root"}]
    /\ worker \in [up : BOOLEAN, pc : {"idle", "tier", "launch"}, job : Jobs \cup {NoJob}]
    /\ worker.pc # "idle" => worker.up /\ worker.job \in Jobs
    /\ \A j \in Jobs : crawl[j] # "none" => worker.up

TierTyped ==
    tier \in [Callers -> [pc : {"idle", "run"}, repair : SUBSET Jobs, bind : SUBSET Jobs, ok : BOOLEAN]]

\* The watchdog's observations, in its file and in its run.
Observations == [Jobs -> [key : {"none", "job", "next_job"}, runs : 0 .. ConfirmRuns]]

WdTyped ==
    /\ obs \in Observations
    /\ wd = [pc |-> wd.pc, running |-> wd.running, hit |-> wd.hit, bad |-> wd.bad, todo |-> wd.todo,
             stopped |-> wd.stopped, ok |-> wd.ok, obs |-> wd.obs]
    /\ wd.pc \in {"idle", "stop", "unmount", "tier", "tiering", "recover", "check"}
    /\ wd.todo \subseteq wd.bad /\ wd.bad \subseteq Jobs
    /\ wd.pc # "idle" => wd.obs \in Observations

MountsTyped == mounts \in [Jobs -> Seq({"good", "stale"})]

LEMMA LowestIn ==
    ASSUME NEW S, S \subseteq Jobs, S # {}
    PROVE  Lowest(S) \in S
<1>1. S \subseteq Nat
  BY JobsAssumption
<1>2. PICK m \in S : \A n \in S : <<n, m>> \notin OpToRel(<, Nat)
  BY <1>1, NatLessThanWellFounded, WFMin
<1>3. \A n \in S : m <= n
  <2>1. \A n \in S : ~(n < m)
    BY <1>1, <1>2 DEF OpToRel
  <2> QED BY <1>1, <2>1
<1> QED BY <1>3 DEF Lowest

LEMMA ItemIn ==
    ASSUME TierTyped, NEW c \in Callers, Handles(c)
    PROVE  Item(c) \in Jobs
<1>1. tier[c].repair \cup tier[c].bind \subseteq Jobs /\ tier[c].repair \cup tier[c].bind # {}
  BY DEF TierTyped, Handles
<1> QED BY <1>1, LowestIn DEF Item

LEMMA RowsStep == ASSUME RowsTyped, WorkerTyped, TierTyped, [Next]_vars PROVE RowsTyped'
<1> USE DEF RowsTyped
<1>1. CASE BaseFails
  BY <1>1 DEF BaseFails, rows
<1>2. ASSUME NEW j \in Jobs, CoolsDown(j) \/ Retags(j) PROVE RowsTyped'
  BY <1>2 DEF CoolsDown, Retags, disks
<1>3. ASSUME NEW j \in Jobs, NEW result \in {"done", "retryable", "infra"}, CrawlEnds(j, result) PROVE RowsTyped'
  <2>1. status' \in [Jobs -> Statuses]
    BY <1>3 DEF CrawlEnds, Statuses, Pending
  <2> QED BY <1>3, <2>1 DEF CrawlEnds, disks
<1>4. ASSUME NEW c \in Callers, TierBinds(c) PROVE RowsTyped'
  <2>1. Item(c) \in Jobs
    BY <1>4, ItemIn DEF TierBinds
  <2> QED BY <1>4, <2>1 DEF TierBinds, rows
<1>5. CASE WorkerLaunches
  <2>1. worker.job \in Jobs
    BY <1>5 DEF WorkerLaunches, WorkerTyped
  <2>2. status' \in [Jobs -> Statuses]
    <3>1. \/ status' = [status EXCEPT ![worker.job] = "retryable"]
          \/ status' = [status EXCEPT ![worker.job] = "running"]
      BY <1>5 DEF WorkerLaunches
    <3> QED BY <3>1 DEF Statuses, Pending
  <2>3. /\ tagged' \subseteq tagged /\ started' = started \cup {worker.job}
        /\ cooling' \subseteq cooling \cup {worker.job} /\ made' = made \cup {worker.job} /\ cold' = cold
    BY <1>5 DEF WorkerLaunches
  <2> QED BY <2>1, <2>2, <2>3
<1>6. CASE WorkerHeals \/ StarterStarts \/ WdRecovers
  <2>1. \E S : status' = [j \in Jobs |-> IF j \in S THEN "retryable" ELSE status[j]]
    BY <1>6 DEF WorkerHeals, StarterStarts, WdRecovers
  <2>2. UNCHANGED <<tagged, started, cooling, made, cold>>
    BY <1>6 DEF WorkerHeals, StarterStarts, WdRecovers, disks
  <2> QED BY <2>1, <2>2 DEF Statuses, Pending
<1>7. CASE WdBase
  BY <1>7 DEF WdBase, rows
<1>8. CASE UNCHANGED <<status, tagged, started, cooling, made, cold>>
  BY <1>8
<1>9. \/ BaseFails \/ WorkerLaunches \/ WorkerHeals \/ StarterStarts \/ WdRecovers \/ WdBase
      \/ \E j \in Jobs : \/ CoolsDown(j) \/ Retags(j)
                         \/ \E result \in {"done", "retryable", "infra"} : CrawlEnds(j, result)
      \/ \E c \in Callers : TierBinds(c)
      \/ UNCHANGED <<status, tagged, started, cooling, made, cold>>
  BY DEF Next, vars, rows, disks, WorkerStep, WatchdogStep, TierStep, Crawling, CooldownPasses, DayPasses,
         TierUnmounts, WorkerTakes, WorkerTiered, WorkerDies, WdLooks, WdDecides, WdStops, WdTiers, WdTiered,
         WdEnds, WdUnmounts, WdCannotStop, WdDies
<1> QED BY <1>1, <1>2, <1>3, <1>4, <1>5, <1>6, <1>7, <1>8, <1>9

LEMMA WorkerTypedStep == ASSUME RowsTyped, WorkerTyped, [Next]_vars PROVE WorkerTyped'
<1> USE DEF WorkerTyped
<1>1. ASSUME NEW j \in Jobs, NEW result, CrawlEnds(j, result) PROVE WorkerTyped'
  BY <1>1 DEF CrawlEnds
<1>2. CASE WorkerTakes
  <2>1. Lowest(Eligible) \in Jobs
    <3>1. Eligible \subseteq Jobs /\ Eligible # {}
      BY <1>2 DEF WorkerTakes, Eligible, Waiting
    <3> QED BY <3>1, LowestIn
  <2>2. PICK pc \in {"tier", "launch"} : worker' = [worker EXCEPT !.pc = pc, !.job = Lowest(Eligible)]
    BY <1>2 DEF WorkerTakes
  <2>3. worker.up /\ crawl' = crawl
    BY <1>2 DEF WorkerTakes, Free
  <2> QED BY <2>1, <2>2, <2>3
<1>3. CASE WorkerTiered
  <2>1. PICK pc \in {"launch", "idle"} : worker' = [worker EXCEPT !.pc = pc]
    BY <1>3 DEF WorkerTiered
  <2>2. worker.pc = "tier" /\ crawl' = crawl
    BY <1>3 DEF WorkerTiered
  <2> QED BY <2>1, <2>2
<1>4. CASE WorkerLaunches
  <2>1. worker.up /\ worker' = [worker EXCEPT !.pc = "idle"]
    BY <1>4 DEF WorkerLaunches
  <2>2. crawl' \in [Jobs -> {"none", "cold", "root"}]
    BY <1>4 DEF WorkerLaunches
  <2> QED BY <2>1, <2>2
<1>5. CASE WorkerGone
  BY <1>5 DEF WorkerGone, Stopped
<1>6. CASE UNCHANGED <<worker, crawl>>
  BY <1>6
<1>7. CASE worker' = [worker EXCEPT !.up = TRUE] /\ crawl' = crawl
  BY <1>7
<1>8. \/ WorkerTakes \/ WorkerTiered \/ WorkerLaunches \/ WorkerGone
      \/ \E j \in Jobs, result \in {"done", "retryable", "infra"} : CrawlEnds(j, result)
      \/ UNCHANGED <<worker, crawl>>
      \/ worker' = [worker EXCEPT !.up = TRUE] /\ crawl' = crawl
  BY DEF Next, vars, WorkerStep, WatchdogStep, TierStep, Crawling, BaseFails, CooldownPasses, DayPasses, CoolsDown,
         Retags, TierUnmounts, TierBinds, WorkerHeals, WorkerDies, StarterStarts, WdLooks, WdDecides, WdStops,
         WdBase, WdTiers, WdTiered, WdRecovers, WdEnds, WdUnmounts, WdCannotStop, WdDies
<1> QED BY <1>1, <1>2, <1>3, <1>4, <1>5, <1>6, <1>7, <1>8

-----------------------------------------------------------------------------
(* Mounts and the tiering script.                                          *)

LEMMA TierTypedStep == ASSUME RowsTyped, TierTyped, [Next]_vars PROVE TierTyped'
<1> DEFINE Run == [pc : {"idle", "run"}, repair : SUBSET Jobs, bind : SUBSET Jobs, ok : BOOLEAN]
<1>1. TIdle \in Run
  BY DEF TIdle
<1>2. ASSUME NEW c \in Callers, NEW r \in Run, tier' = [tier EXCEPT ![c] = r] PROVE TierTyped'
  BY <1>2 DEF TierTyped
<1>3. ASSUME NEW c \in Callers, NEW allow, Plans(c, allow) PROVE TierTyped'
  <2>1. Repairable(allow) \subseteq Jobs /\ {j \in tagged : ~Mounted(j)} \subseteq Jobs
    BY DEF Repairable, RowsTyped
  <2>2. [TIdle EXCEPT !.pc = "run", !.ok = FALSE] \in Run
    BY DEF TIdle
  <2>3. \E r \in Run : tier' = [tier EXCEPT ![c] = r]
    BY <1>3, <2>1, <2>2 DEF Plans
  <2> QED BY <1>2, <2>3
<1>4. ASSUME NEW c \in Callers, TierUnmounts(c) \/ TierBinds(c) PROVE TierTyped'
  <2>1. Item(c) \in Jobs
    BY <1>4, ItemIn DEF TierUnmounts, TierBinds
  <2>2. tier[c] \in Run
    BY DEF TierTyped
  <2>3. CASE TierUnmounts(c)
    <3>1. \/ tier' = [tier EXCEPT ![c].repair = tier[c].repair \ {Item(c)}, ![c].bind = tier[c].bind \cup {Item(c)}]
          \/ tier' = [tier EXCEPT ![c].repair = tier[c].repair \ {Item(c)}, ![c].ok = FALSE]
      BY <2>3 DEF TierUnmounts
    <3> QED BY <2>1, <2>2, <3>1 DEF TierTyped
  <2>4. CASE TierBinds(c)
    <3>1. PICK able : tier' = [tier EXCEPT ![c].bind = tier[c].bind \ {Item(c)}, ![c].ok = tier[c].ok /\ able]
      BY <2>4 DEF TierBinds
    <3> QED BY <2>1, <2>2, <3>1 DEF TierTyped
  <2> QED BY <1>4, <2>3, <2>4
<1>5. CASE WorkerTakes
  <2>1. Plans("worker", FALSE) \/ tier' = tier
    BY <1>5 DEF WorkerTakes
  <2> QED BY <1>3, <2>1 DEF TierTyped, Callers
<1>6. CASE WdTiers
  BY <1>3, <1>6 DEF WdTiers, Callers
<1>7. CASE \E c \in Callers : tier' = [tier EXCEPT ![c] = TIdle]
  BY <1>1, <1>2, <1>7
<1>8. CASE tier' = tier
  BY <1>8 DEF TierTyped
<1>9. \/ WorkerTakes \/ WdTiers
      \/ \E c \in Callers : TierUnmounts(c) \/ TierBinds(c)
      \/ \E c \in Callers : tier' = [tier EXCEPT ![c] = TIdle]
      \/ tier' = tier
  BY DEF Next, vars, Callers, WorkerStep, WatchdogStep, TierStep, Crawling, BaseFails, CooldownPasses, DayPasses,
         CoolsDown, Retags, CrawlEnds, WorkerTiered, WorkerLaunches, WorkerHeals, WorkerDies, WorkerGone,
         StarterStarts, WdLooks, WdDecides, WdStops, WdBase, WdTiered, WdRecovers, WdEnds, WdUnmounts,
         WdCannotStop, WdDies
<1> QED BY <1>4, <1>5, <1>6, <1>7, <1>8, <1>9

LEMMA MountsTypedStep == ASSUME TierTyped, MountsTyped, [Next]_vars PROVE MountsTyped'
<1> DEFINE Kinds == {"good", "stale"}
<1>1. ASSUME NEW j \in Jobs, Mounted(j), mounts' = Unmounted(j) PROVE MountsTyped'
  <2>1. mounts[j] \in Seq(Kinds) /\ Len(mounts[j]) \in Nat /\ Len(mounts[j]) # 0
    BY <1>1, EmptySeq, LenProperties DEF MountsTyped, Mounted
  <2>2. SubSeq(mounts[j], 1, Len(mounts[j]) - 1) \in Seq(Kinds)
    BY <2>1, SubSeqProperties
  <2> QED BY <1>1, <2>2 DEF MountsTyped, Unmounted
<1>2. ASSUME NEW j \in Jobs, mounts' = Bound(j) PROVE MountsTyped'
  <2>1. mounts[j] \in Seq(Kinds) /\ Append(mounts[j], "good") \in Seq(Kinds)
    BY AppendProperties DEF MountsTyped
  <2> QED BY <1>2, <2>1 DEF MountsTyped, Bound
<1>3. CASE BaseFails
  <2>1. ASSUME NEW j \in Jobs PROVE [i \in DOMAIN mounts[j] |-> "stale"] \in Seq(Kinds)
    <3>1. mounts[j] \in Seq(Kinds) /\ DOMAIN mounts[j] = 1 .. Len(mounts[j]) /\ Len(mounts[j]) \in Nat
      BY LenProperties DEF MountsTyped
    <3> QED BY <3>1, IsASeq
  <2>2. mounts' = [j \in Jobs |-> [i \in DOMAIN mounts[j] |-> "stale"]]
    BY <1>3 DEF BaseFails
  <2> QED BY <2>1, <2>2 DEF MountsTyped
<1>4. ASSUME NEW c \in Callers, TierUnmounts(c) \/ TierBinds(c) PROVE MountsTyped'
  <2>1. Item(c) \in Jobs
    BY <1>4, ItemIn DEF TierUnmounts, TierBinds
  <2>2. \/ Mounted(Item(c)) /\ mounts' = Unmounted(Item(c))
        \/ mounts' = Bound(Item(c))
        \/ mounts' = mounts
    BY <1>4 DEF TierUnmounts, TierBinds
  <2> QED BY <1>1, <1>2, <2>1, <2>2 DEF MountsTyped
<1>5. ASSUME NEW j \in Jobs, WdUnmounts(j) PROVE MountsTyped'
  <2>1. (Mounted(j) /\ mounts' = Unmounted(j)) \/ mounts' = mounts
    BY <1>5 DEF WdUnmounts
  <2> QED BY <1>1, <2>1 DEF MountsTyped
<1>6. CASE mounts' = mounts
  BY <1>6 DEF MountsTyped
<1>7. \/ BaseFails
      \/ \E c \in Callers : TierUnmounts(c) \/ TierBinds(c)
      \/ \E j \in Jobs : WdUnmounts(j)
      \/ mounts' = mounts
  BY DEF Next, vars, disks, WorkerStep, WatchdogStep, TierStep, Crawling, CooldownPasses, DayPasses, CoolsDown,
         Retags, CrawlEnds, WorkerTakes, WorkerTiered, WorkerLaunches, WorkerHeals, WorkerDies, StarterStarts,
         WdLooks, WdDecides, WdStops, WdBase, WdTiers, WdTiered, WdRecovers, WdEnds, WdCannotStop, WdDies
<1> QED BY <1>3, <1>4, <1>5, <1>6, <1>7

-----------------------------------------------------------------------------
(* The watchdog.                                                           *)

LEMMA ObservedTyped == ASSUME WdTyped PROVE Observed \in Observations
<1>1. ConfirmRuns \in Nat \ {0}
  BY LimitsAssumption
<1>2. \A j \in Jobs : obs[j].runs \in 0 .. ConfirmRuns /\ Key(j) \in {"job", "next_job"}
  BY DEF WdTyped, Observations, Key
<1>3. ASSUME NEW j \in Jobs
      PROVE  (IF obs[j].key # Key(j) THEN 1 ELSE IF obs[j].runs < ConfirmRuns THEN obs[j].runs + 1 ELSE ConfirmRuns)
               \in 0 .. ConfirmRuns
  BY <1>1, <1>2
<1>4. 0 \in 0 .. ConfirmRuns
  BY <1>1
<1> QED BY <1>2, <1>3, <1>4 DEF Observed, Observations

\* Between its decision and its end a run of the watchdog keeps what it has decided.
LEMMA WdActs ==
    ASSUME WdTyped, [Next]_vars
    PROVE  \/ WdLooks \/ WdDecides \/ WdEnds \/ WdDies
           \/ UNCHANGED <<wd, obs>>
           \/ /\ obs' = obs /\ wd.pc # "idle"
              /\ wd'.pc \in {"unmount", "tier", "tiering", "recover", "check"}
              /\ wd'.todo \subseteq wd.todo /\ wd'.bad = wd.bad /\ wd'.obs = wd.obs
              /\ wd' = [pc |-> wd'.pc, running |-> wd'.running, hit |-> wd'.hit, bad |-> wd'.bad, todo |-> wd'.todo,
                        stopped |-> wd'.stopped, ok |-> wd'.ok, obs |-> wd'.obs]
<1> DEFINE w == [pc |-> wd.pc, running |-> wd.running, hit |-> wd.hit, bad |-> wd.bad, todo |-> wd.todo,
                 stopped |-> wd.stopped, ok |-> wd.ok, obs |-> wd.obs]
<1>1. wd = w
  BY DEF WdTyped
<1>2. ASSUME NEW j \in Jobs, WdUnmounts(j)
      PROVE  /\ obs' = obs /\ wd.pc # "idle"
             /\ wd' = [w EXCEPT !.todo = wd.todo \ {j}, !.ok = wd.ok /\ Mounted(j)]
             /\ wd.pc = "unmount"
  BY <1>1, <1>2 DEF WdUnmounts, state
<1>3. CASE WdStops \/ WdCannotStop \/ WdBase \/ WdTiers \/ WdTiered \/ WdRecovers
  <2>1. /\ obs' = obs /\ wd.pc # "idle"
        /\ \E pc \in {"unmount", "tier", "tiering", "recover", "check"} :
             \/ wd' = [wd EXCEPT !.pc = pc]
             \/ wd' = [wd EXCEPT !.pc = pc, !.stopped = TRUE]
             \/ wd' = [wd EXCEPT !.pc = pc, !.ok = FALSE]
    BY <1>3 DEF WdStops, WdCannotStop, WdBase, WdTiers, WdTiered, WdRecovers, state
  <2> QED BY <1>1, <2>1
<1>4. \/ WdLooks \/ WdDecides \/ WdEnds \/ WdDies
      \/ UNCHANGED <<wd, obs>>
      \/ \E j \in Jobs : WdUnmounts(j)
      \/ WdStops \/ WdCannotStop \/ WdBase \/ WdTiers \/ WdTiered \/ WdRecovers
  BY DEF Next, vars, state, WorkerStep, WatchdogStep, TierStep, Crawling, BaseFails, CooldownPasses, DayPasses,
         CoolsDown, Retags, CrawlEnds, TierUnmounts, TierBinds, WorkerTakes, WorkerTiered, WorkerLaunches,
         WorkerHeals, WorkerDies, StarterStarts
<1> QED BY <1>2, <1>3, <1>4

LEMMA WdTypedStep == ASSUME WdTyped, [Next]_vars PROVE WdTyped'
<1>1. CASE WdLooks
  BY <1>1, ObservedTyped DEF WdLooks, WdTyped
<1>2. CASE WdDecides
  <2>1. Confirmed \subseteq Jobs /\ obs' = obs
    BY <1>2 DEF WdDecides, Confirmed, state
  <2>2. wd' = [pc |-> "stop", running |-> Running, hit |-> {j \in Running : Stale(j)}, bad |-> Confirmed,
               todo |-> Confirmed, stopped |-> FALSE, ok |-> TRUE, obs |-> Observed]
    BY <1>2 DEF WdDecides
  <2>3. Observed \in Observations
    BY ObservedTyped
  <2> HIDE DEF Confirmed, Observed
  <2> QED BY <2>1, <2>2, <2>3 DEF WdTyped
<1>3. CASE WdEnds
  BY <1>3 DEF WdEnds, WdTyped, WIdle
<1>4. CASE WdDies
  BY <1>4 DEF WdDies, WdTyped, WIdle, state
<1>5. CASE UNCHANGED <<wd, obs>>
  BY <1>5 DEF WdTyped
<1>6. ASSUME /\ obs' = obs /\ wd.pc # "idle"
             /\ wd'.pc \in {"unmount", "tier", "tiering", "recover", "check"}
             /\ wd'.todo \subseteq wd.todo /\ wd'.bad = wd.bad /\ wd'.obs = wd.obs
             /\ wd' = [pc |-> wd'.pc, running |-> wd'.running, hit |-> wd'.hit, bad |-> wd'.bad, todo |-> wd'.todo,
                       stopped |-> wd'.stopped, ok |-> wd'.ok, obs |-> wd'.obs]
      PROVE  WdTyped'
  BY <1>6 DEF WdTyped
<1> QED BY <1>1, <1>2, <1>3, <1>4, <1>5, <1>6, WdActs

Typed == RowsTyped /\ WorkerTyped /\ TierTyped /\ MountsTyped /\ WdTyped

LEMMA InitTyped == Init => Typed
<1> SUFFICES ASSUME Init PROVE Typed
  OBVIOUS
<1>1. RowsTyped
  BY DEF Init, RowsTyped, Statuses, Pending
<1>2. WorkerTyped
  BY DEF Init, WorkerTyped
<1>3. TierTyped
  BY DEF Init, TierTyped, TIdle
<1>4. MountsTyped
  <2>1. <<>> \in Seq({"good", "stale"}) /\ <<"good">> \in Seq({"good", "stale"})
    OBVIOUS
  <2> QED BY <2>1 DEF Init, MountsTyped
<1>5. WdTyped
  <2>1. 0 \in 0 .. ConfirmRuns
    BY LimitsAssumption
  <2> QED BY <2>1 DEF Init, WdTyped, Observations, WIdle
<1> QED BY <1>1, <1>2, <1>3, <1>4, <1>5 DEF Typed

LEMMA StepTyped == Typed /\ [Next]_vars => Typed'
  BY RowsStep, WorkerTypedStep, TierTypedStep, MountsTypedStep, WdTypedStep DEF Typed

\* Every part of the state is well formed (TypeOK), a job is only crawled while the
\* worker is up, and the watchdog unmounts no other paths than those it confirmed.
THEOREM TypeCorrect == Spec => []TypeOK
<1>1. Typed => TypeOK
  BY DEF Typed, RowsTyped, WorkerTyped, TierTyped, MountsTyped, WdTyped, Statuses, Observations, TypeOK
<1> QED BY <1>1, InitTyped, StepTyped, PTL DEF Spec

-----------------------------------------------------------------------------
(* The caps.                                                               *)

Busy == wd.pc # "idle"
CountsIn == [Jobs -> Nat]

\* A run that is under way was below the caps when it decided; its recovery is
\* applied, and not in the ledger yet.
Counts ==
    /\ ledger = [all |-> ledger.all, of |-> ledger.of, recent |-> ledger.recent]
    /\ applied = [all |-> applied.all, of |-> applied.of, lost |-> applied.lost]
    /\ ledger.all \in Nat /\ applied.all \in Nat /\ applied.lost \in Nat
    /\ ledger.of \in CountsIn /\ applied.of \in CountsIn
    /\ ledger.all <= MaxRecoveries
    /\ IF Busy THEN ledger.all < MaxRecoveries /\ applied.all <= ledger.all + applied.lost + 1
               ELSE applied.all <= ledger.all + applied.lost
    /\ \A j \in Jobs :
         /\ ledger.of[j] <= MaxPerJob
         /\ IF Busy /\ j \in wd.bad
            THEN ledger.of[j] < MaxPerJob /\ applied.of[j] <= ledger.of[j] + applied.lost + 1
            ELSE applied.of[j] <= ledger.of[j] + applied.lost

\* What is known of the counts only depends on the run's decision.
LEMMA CountsKept ==
    ASSUME Counts, UNCHANGED <<ledger, applied>>, Busy' = Busy, Busy => wd'.bad = wd.bad
    PROVE  Counts'
BY DEF Counts, Busy

LEMMA CountsStep == ASSUME WdTyped, Counts, [Next]_vars PROVE Counts'
<1>1. /\ MaxRecoveries \in Nat /\ MaxPerJob \in Nat
      /\ ledger.all \in Nat /\ applied.all \in Nat /\ applied.lost \in Nat
      /\ ledger.of \in CountsIn /\ applied.of \in CountsIn
      /\ ledger = [all |-> ledger.all, of |-> ledger.of, recent |-> ledger.recent]
      /\ applied = [all |-> applied.all, of |-> applied.of, lost |-> applied.lost]
  BY LimitsAssumption DEF Counts
<1>2. \A j \in Jobs : ledger.of[j] \in Nat /\ applied.of[j] \in Nat
  BY <1>1 DEF CountsIn
<1>3. CASE DayPasses
  <2>1. /\ ledger' = [all |-> 0, of |-> [j \in Jobs |-> 0], recent |-> FALSE]
        /\ applied' = [all |-> 0, of |-> [j \in Jobs |-> 0], lost |-> 0] /\ wd' = wd /\ ~Busy
    BY <1>3 DEF DayPasses, Busy
  <2> QED BY <1>1, <2>1 DEF Counts, Busy, CountsIn
<1>4. CASE CooldownPasses
  <2>1. /\ ledger'.all = ledger.all /\ ledger'.of = ledger.of /\ applied' = applied /\ wd' = wd
        /\ ledger' = [all |-> ledger'.all, of |-> ledger'.of, recent |-> ledger'.recent]
    BY <1>1, <1>4 DEF CooldownPasses
  <2> QED BY <2>1 DEF Counts, Busy
<1>5. CASE WdDecides
  <2>1. /\ ledger' = ledger /\ wd.pc = "idle" /\ wd'.pc = "stop" /\ wd'.bad = Confirmed
        /\ applied' = Counted(applied, Confirmed) /\ Allowed(Confirmed)
    BY <1>5 DEF WdDecides, state
  <2>2. /\ ledger.all < MaxRecoveries /\ \A j \in Confirmed : ledger.of[j] < MaxPerJob
        /\ Confirmed \subseteq Jobs
    BY <2>1 DEF Allowed, Confirmed
  <2>3. /\ applied'.all = applied.all + 1 /\ applied'.lost = applied.lost
        /\ applied'.of = [j \in Jobs |-> IF j \in Confirmed THEN applied.of[j] + 1 ELSE applied.of[j]]
        /\ applied' = [all |-> applied'.all, of |-> applied'.of, lost |-> applied'.lost]
    BY <1>1, <2>1 DEF Counted
  <2>4. /\ applied.all <= ledger.all + applied.lost
        /\ \A j \in Jobs : applied.of[j] <= ledger.of[j] + applied.lost
    BY <1>1, <1>2, <2>1 DEF Counts, Busy
  <2> HIDE DEF Confirmed
  <2>5. applied'.of \in CountsIn
    BY <1>1, <1>2, <2>3 DEF CountsIn
  <2>6. ASSUME NEW j \in Jobs
        PROVE  /\ ledger.of[j] <= MaxPerJob /\ (j \in Confirmed => ledger.of[j] < MaxPerJob)
               /\ applied'.of[j] <= ledger.of[j] + applied.lost + (IF j \in Confirmed THEN 1 ELSE 0)
    <3>1. ledger.of[j] <= MaxPerJob /\ applied.of[j] <= ledger.of[j] + applied.lost
      BY <2>4 DEF Counts
    <3>2. applied'.of[j] = IF j \in Confirmed THEN applied.of[j] + 1 ELSE applied.of[j]
      BY <2>3
    <3> QED BY <1>1, <1>2, <2>2, <3>1, <3>2
  <2>7. /\ ledger.all <= MaxRecoveries /\ ledger.all < MaxRecoveries
        /\ applied'.all <= ledger.all + applied.lost + 1
    BY <1>1, <2>2, <2>3, <2>4
  <2> QED BY <1>1, <2>1, <2>3, <2>5, <2>6, <2>7 DEF Counts, Busy
<1>6. CASE WdEnds
  <2>1. /\ applied' = applied /\ wd.pc # "idle" /\ wd'.pc = "idle"
        /\ ledger' = [Counted(ledger, wd.bad) EXCEPT !.recent = TRUE]
    BY <1>6 DEF WdEnds, WIdle
  <2>2. /\ ledger'.all = ledger.all + 1
        /\ ledger'.of = [j \in Jobs |-> IF j \in wd.bad THEN ledger.of[j] + 1 ELSE ledger.of[j]]
        /\ ledger' = [all |-> ledger'.all, of |-> ledger'.of, recent |-> ledger'.recent]
    BY <1>1, <2>1 DEF Counted
  <2>3. ledger'.of \in CountsIn
    BY <1>2, <2>2 DEF CountsIn
  <2>4. ASSUME NEW j \in Jobs
        PROVE  ledger'.of[j] <= MaxPerJob /\ applied.of[j] <= ledger'.of[j] + applied.lost
    <3>1. /\ ledger.of[j] <= MaxPerJob
          /\ IF j \in wd.bad
             THEN ledger.of[j] < MaxPerJob /\ applied.of[j] <= ledger.of[j] + applied.lost + 1
             ELSE applied.of[j] <= ledger.of[j] + applied.lost
      BY <2>1 DEF Counts, Busy
    <3>2. ledger'.of[j] = IF j \in wd.bad THEN ledger.of[j] + 1 ELSE ledger.of[j]
      BY <2>2
    <3> QED BY <1>1, <1>2, <3>1, <3>2
  <2>5. ledger'.all \in Nat /\ ledger'.all <= MaxRecoveries /\ applied.all <= ledger'.all + applied.lost
    <3>1. ledger.all < MaxRecoveries /\ applied.all <= ledger.all + applied.lost + 1
      BY <2>1 DEF Counts, Busy
    <3> QED BY <1>1, <2>2, <3>1
  <2> QED BY <1>1, <2>1, <2>2, <2>3, <2>4, <2>5 DEF Counts, Busy
<1>7. CASE WdDies
  <2>1. /\ ledger' = ledger /\ wd.pc # "idle" /\ wd'.pc = "idle"
        /\ applied' = [applied EXCEPT !.lost = applied.lost + 1]
    BY <1>7 DEF WdDies, WIdle, state
  <2>2. /\ applied'.all = applied.all /\ applied'.of = applied.of /\ applied'.lost = applied.lost + 1
        /\ applied' = [all |-> applied'.all, of |-> applied'.of, lost |-> applied'.lost]
    BY <1>1, <2>1
  <2>3. /\ ledger.all <= MaxRecoveries
        /\ applied.all <= ledger.all + applied.lost + 1
        /\ \A j \in Jobs : /\ ledger.of[j] <= MaxPerJob
                           /\ \/ applied.of[j] <= ledger.of[j] + applied.lost + 1
                              \/ applied.of[j] <= ledger.of[j] + applied.lost
    BY <2>1 DEF Counts, Busy
  <2>4. /\ \A j \in Jobs : applied.of[j] <= ledger.of[j] + (applied.lost + 1)
        /\ applied.all <= ledger.all + (applied.lost + 1)
    BY <1>1, <1>2, <2>3
  <2> QED BY <1>1, <2>1, <2>2, <2>3, <2>4 DEF Counts, Busy
<1>8. CASE UNCHANGED <<wd, ledger, applied>>
  BY <1>8, CountsKept DEF Busy
<1>9. ASSUME UNCHANGED <<ledger, applied>>, wd.pc # "idle", wd'.pc # "idle", wd'.bad = wd.bad PROVE Counts'
  BY <1>9, CountsKept DEF Busy
<1>10. CASE WdLooks
  BY <1>8, <1>10 DEF WdLooks
<1>11. \/ DayPasses \/ CooldownPasses
       \/ WdDecides \/ WdEnds \/ WdDies
       \/ UNCHANGED <<ledger, applied>>
  BY DEF Next, vars, state, WorkerStep, WatchdogStep, TierStep, Crawling, BaseFails, CoolsDown, Retags, CrawlEnds,
         TierUnmounts, TierBinds, WorkerTakes, WorkerTiered, WorkerLaunches, WorkerHeals, WorkerDies,
         StarterStarts, WdLooks, WdStops, WdBase, WdTiers, WdTiered, WdRecovers, WdUnmounts, WdCannotStop
<1> QED BY <1>3, <1>4, <1>5, <1>6, <1>7, <1>8, <1>9, <1>10, <1>11, WdActs

\* In a day no more recoveries are applied, of all jobs and of any one of them, than
\* the caps allow, but for those of a watchdog that died before it had saved its
\* state (RecoveriesCapped): the decision reads a ledger that only its own end writes.
THEOREM CapsHold == Spec => []RecoveriesCapped
<1>1. Init => WdTyped /\ Counts
  <2> SUFFICES ASSUME Init PROVE WdTyped /\ Counts
    OBVIOUS
  <2>1. WdTyped
    BY InitTyped DEF Typed
  <2>2. Counts
    BY LimitsAssumption DEF Init, Counts, Busy, WIdle, CountsIn
  <2> QED BY <2>1, <2>2
<1>2. WdTyped /\ Counts /\ [Next]_vars => WdTyped' /\ Counts'
  BY WdTypedStep, CountsStep
<1>3. Counts => RecoveriesCapped
  <2> SUFFICES ASSUME Counts PROVE RecoveriesCapped
    OBVIOUS
  <2>1. /\ MaxRecoveries \in Nat /\ MaxPerJob \in Nat
        /\ ledger.all \in Nat /\ applied.all \in Nat /\ applied.lost \in Nat
        /\ \A j \in Jobs : ledger.of[j] \in Nat /\ applied.of[j] \in Nat
    BY LimitsAssumption DEF Counts, CountsIn
  <2>2. applied.all <= MaxRecoveries + applied.lost
    BY <2>1 DEF Counts
  <2>3. ASSUME NEW j \in Jobs PROVE applied.of[j] <= MaxPerJob + applied.lost
    BY <2>1 DEF Counts
  <2> QED BY <2>2, <2>3 DEF RecoveriesCapped
<1> QED BY <1>1, <1>2, <1>3, PTL DEF Spec
=============================================================================
