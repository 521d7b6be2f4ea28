--------------------------- MODULE CrawlProofs ---------------------------
(***************************************************************************)
(* Theorems about what a job's crawl does, for any options, limits, pages   *)
(* and bounds: the archive_tool runs on one output directory (CrawlRun),    *)
(* and the capture of a fallback backend that such a run is given or falls  *)
(* back to (Frontier).  The two specifications share no variable.           *)
(***************************************************************************)
EXTENDS CrawlRun, Frontier, FunctionTheorems, FiniteSetTheorems, SequenceTheorems, WellFoundedInduction, TLAPS

\* The assumption, one constant at a time.
LEMMA Limits ==
    /\ InitialWorkers \in Nat /\ MinWorkers \in Nat /\ MaxReductions \in Nat /\ MaxRestarts \in Nat
    /\ MaxRotations \in Nat /\ MaxFreshFailures \in Nat /\ MaxTempDirs \in Nat
    /\ MaxStages \in Nat /\ MaxStages >= 1
    /\ DirBound \in Nat /\ QueueBound \in Nat
    /\ RunBound \in Nat /\ CrashBound \in Nat /\ LookBound \in Nat
BY LimitsAssumption, WorkersAssumption

\* What the steps say of directories: NoDir is a value of the variable dir.
LEMMA Directories == DirBound \in Nat /\ NoDir \in 0..DirBound /\ 0 \in 0..DirBound
BY Limits DEF NoDir

-----------------------------------------------------------------------------
(* Type correctness.                                                       *)

\* The newest directory of a set, if it has one.
LEMMA NewestInSet ==
    ASSUME NEW S
    PROVE  Newest(S) \in S \cup {NoDir}
BY DEF Newest

\* A state file that is loaded makes a state.
LEMMA LoadedState ==
    ASSUME TypeOK, NEW w \in Int
    PROVE  Loaded(w) \in CrawlState
<1>1. Fresh(w) \in CrawlState
    BY DEF Fresh, CrawlState
<1>2. ASSUME saved # None
      PROVE  [saved EXCEPT !.workers = Lower(@, w), !.dirs = @ \cap dirs] \in CrawlState
    BY <1>2 DEF TypeOK, DiskTyped, CrawlState, Lower
<1> QED BY <1>1, <1>2 DEF Loaded

\* New states, and states whose counters were reset or raised.
LEMMA FreshState ==
    /\ Fresh(1) \in CrawlState
    /\ Fresh(InitialWorkers) \in CrawlState
BY Limits DEF Fresh, CrawlState

LEMMA CountedState ==
    ASSUME NEW m \in CrawlState
    PROVE  /\ FreshBudget(m) \in CrawlState
           /\ [m EXCEPT !.workers = @ - 1, !.reductions = @ + 1] \in CrawlState
<1>1. FreshBudget(m) \in CrawlState
    BY DEF CrawlState, FreshBudget
<1>2. m.workers - 1 \in Int /\ m.reductions + 1 \in Nat
    BY DEF CrawlState
<1>3. [m EXCEPT !.workers = m.workers - 1, !.reductions = m.reductions + 1] \in CrawlState
    BY <1>2 DEF CrawlState
<1> QED BY <1>1, <1>3

\* A process that ends leaves well-formed variables.
LEMMA EndsTyped ==
    ASSUME TypeOK, NEW result \in {"failed", "pending", "stopped", "success"},
           ProcessEnds(result), opt' = opt,
           runs' \in Nat, crashes' \in Nat, looks' \in Nat
    PROVE  ProcessTyped' /\ ThreadsTyped'
<1>1. ProcessTyped'
    BY FreshState, Limits DEF TypeOK, ProcessTyped, ProcessEnds
<1>2. ThreadsTyped'
    <2>1. <<>> \in Seq(Messages)
        OBVIOUS
    <2> QED BY <2>1, Directories DEF TypeOK, ThreadsTyped, ProcessEnds
<1> QED BY <1>1, <1>2

\* The first run starts well formed: no state file, nothing on disk.
LEMMA TypeInit == Init => TypeOK
<1> SUFFICES ASSUME Init PROVE TypeOK
    OBVIOUS
<1>1. DiskTyped
    BY Directories DEF Init, DiskTyped
<1>2. ProcessTyped
    BY FreshState, Limits DEF Init, ProcessTyped
<1>3. ThreadsTyped
    <2>1. <<>> \in Seq(Messages)
        OBVIOUS
    <2> QED BY <2>1, Directories DEF Init, ThreadsTyped
<1> QED BY <1>1, <1>2, <1>3 DEF TypeOK

\* Each action of main(), the container, the monitor and the lookers keeps the types.
LEMMA TypeStep == TypeOK /\ [Next]_vars => TypeOK'
<1> SUFFICES ASSUME TypeOK, [Next]_vars PROVE TypeOK'
    OBVIOUS
<1> USE Directories DEF TypeOK, disk, loop, threads, container, bounds
<1>1. CASE Load
    <2>1. Loaded(InitialWorkers) \in CrawlState
        BY LoadedState, Limits DEF TypeOK
    <2>2. mem' \in CrawlState /\ saved' \in CrawlState \cup {None}
        BY <1>1, <2>1 DEF DiskTyped, CrawlState, Load, Save
    <2>3. DiskTyped'
        BY <1>1, <2>2 DEF DiskTyped, Load
    <2>4. ProcessTyped'
        BY <1>1, <2>2 DEF ProcessTyped, Load
    <2>5. ThreadsTyped'
        BY <1>1 DEF ThreadsTyped, Load
    <2> QED BY <2>3, <2>4, <2>5
<1>2. CASE FindResume
    <2>1. resume' \in 0..DirBound
        <3>1. NewestQueue \in (yaml \cap mem.dirs) \cup {NoDir}
            BY NewestInSet DEF NewestQueue
        <3>2. yaml \subseteq 0..DirBound /\ resume \in 0..DirBound
            BY DEF DiskTyped
        <3> QED BY <1>2, <3>1, <3>2 DEF FindResume
    <2>2. DiskTyped'
        BY <1>2, <2>1 DEF DiskTyped, FindResume
    <2>3. ProcessTyped'
        BY <1>2 DEF ProcessTyped, FindResume
    <2>4. ThreadsTyped'
        BY <1>2 DEF ThreadsTyped, FindResume
    <2> QED BY <2>2, <2>3, <2>4
<1>3. CASE Abort
    <2>1. DiskTyped'
        BY <1>3 DEF DiskTyped, Abort
    <2>2. \E result \in {"failed", "pending", "stopped", "success"} : ProcessEnds(result)
        BY <1>3 DEF ProcessTyped, Abort
    <2>3. opt' = opt /\ runs' \in Nat /\ crashes' \in Nat /\ looks' \in Nat
        BY <1>3 DEF ThreadsTyped, Abort
    <2> QED BY <2>1, <2>2, <2>3, EndsTyped
<1>4. CASE Consolidate
    <2>1. DiskTyped'
        BY <1>4 DEF DiskTyped, Consolidate, LinkWarcs
    <2>2. ProcessTyped'
        BY <1>4 DEF DiskTyped, ProcessTyped, Consolidate, LinkWarcs
    <2>3. ThreadsTyped'
        BY <1>4 DEF DiskTyped, ProcessTyped, ThreadsTyped, Messages, Consolidate, LinkWarcs
    <2> QED BY <2>1, <2>2, <2>3
<1>5. CASE \E d \in dirs : Discard(d)
    BY <1>5 DEF DiskTyped, ProcessTyped, ThreadsTyped, CrawlState, Messages, Discard
<1>6. CASE Forget
    <2>1. DiskTyped'
        BY <1>6, FreshState DEF DiskTyped, Forget, Save
    <2>2. ProcessTyped'
        BY <1>6, FreshState DEF ProcessTyped, Forget, Save
    <2>3. ThreadsTyped'
        BY <1>6 DEF ThreadsTyped, Forget
    <2> QED BY <2>1, <2>2, <2>3
<1>7. CASE RefuseZim
    <2>1. DiskTyped'
        BY <1>7 DEF DiskTyped, RefuseZim
    <2>2. \E result \in {"failed", "pending", "stopped", "success"} : ProcessEnds(result)
        BY <1>7 DEF ProcessTyped, RefuseZim
    <2>3. opt' = opt /\ runs' \in Nat /\ crashes' \in Nat /\ looks' \in Nat
        BY <1>7 DEF ThreadsTyped, RefuseZim
    <2> QED BY <2>1, <2>2, <2>3, EndsTyped
<1>8. CASE ChooseMode
    <2>1. FreshBudget(mem) \in CrawlState /\ Fresh(InitialWorkers) \in CrawlState
        BY FreshState, CountedState DEF ProcessTyped
    <2>2. mem' \in CrawlState /\ saved' \in CrawlState \cup {None}
        BY <1>8, <2>1 DEF DiskTyped, ProcessTyped, ChooseMode, Save
    <2>3. DiskTyped'
        BY <1>8, <2>2 DEF DiskTyped, ChooseMode
    <2>4. ProcessTyped'
        BY <1>8, <2>2 DEF ProcessTyped, ChooseMode
    <2>5. ThreadsTyped'
        BY <1>8 DEF ThreadsTyped, ChooseMode
    <2> QED BY <2>3, <2>4, <2>5
<1>9. CASE StartStage
    <2>1. ResumeFrom \in 0..DirBound
        <3>1. Newest(yaml \cap mem.dirs) \in (yaml \cap mem.dirs) \cup {NoDir}
            BY NewestInSet
        <3>2. \A d \in yaml : d \in 0..DirBound
            BY DEF DiskTyped
        <3> QED BY <3>1, <3>2 DEF DiskTyped, ResumeFrom, NewestQueue
    <2>2. DiskTyped'
        BY <1>9, <2>1 DEF DiskTyped, StartStage, StartContainer, ConfigOf
    <2>3. ProcessTyped'
        BY <1>9 DEF ProcessTyped, StartStage, StartContainer, ConfigOf
    <2>4. ThreadsTyped'
        BY <1>9 DEF ThreadsTyped, StartStage, StartContainer, ConfigOf
    <2> QED BY <2>2, <2>3, <2>4
<1>10. CASE StartFails
    BY <1>10 DEF DiskTyped, ProcessTyped, ThreadsTyped, CrawlState, Messages, StartFails
<1>11. CASE LoopEnds
    BY <1>11 DEF DiskTyped, ProcessTyped, ThreadsTyped, CrawlState, Messages, LoopEnds
<1>12. CASE MakeDir
    BY <1>12 DEF DiskTyped, ProcessTyped, ThreadsTyped, CrawlState, Messages, MakeDir
<1>13. CASE Capture
    <2>1. DiskTyped'
        BY <1>13 DEF NoDir, ThreadsTyped, DiskTyped, Capture, Noticed
    <2>2. ProcessTyped'
        BY <1>13 DEF DiskTyped, ProcessTyped, Capture, Noticed
    <2>3. ThreadsTyped'
        BY <1>13 DEF DiskTyped, ProcessTyped, ThreadsTyped, Messages, Capture, Noticed
    <2> QED BY <2>1, <2>2, <2>3
<1>14. CASE WriteQueue
    <2>1. DiskTyped'
        BY <1>14 DEF NoDir, ThreadsTyped, DiskTyped, WriteQueue
    <2>2. ProcessTyped'
        BY <1>14 DEF DiskTyped, ProcessTyped, WriteQueue
    <2>3. ThreadsTyped'
        BY <1>14 DEF DiskTyped, ProcessTyped, ThreadsTyped, Messages, WriteQueue
    <2> QED BY <2>1, <2>2, <2>3
<1>15. CASE Exits
    <2>1. DiskTyped'
        BY <1>15 DEF DiskTyped, Exits, Exit
    <2>2. ProcessTyped'
        BY <1>15 DEF DiskTyped, ProcessTyped, Exits, Exit
    <2>3. ThreadsTyped'
        BY <1>15 DEF DiskTyped, ProcessTyped, ThreadsTyped, Messages, Exits, Exit
    <2> QED BY <2>1, <2>2, <2>3
<1>16. CASE \E m \in {"stalled", "threshold", "fatal"} : Post(m)
    BY <1>16 DEF DiskTyped, ProcessTyped, ThreadsTyped, CrawlState, Messages, Post
<1>17. CASE MonitorEnds
    BY <1>17 DEF DiskTyped, ProcessTyped, ThreadsTyped, CrawlState, Messages, MonitorEnds, MonitorAlive
<1>18. CASE Discover
    <2>1. mem' \in CrawlState /\ saved' \in CrawlState \cup {None}
        BY <1>18 DEF DiskTyped, ProcessTyped, CrawlState, Discover, Save
    <2>2. DiskTyped'
        BY <2>1, <1>18 DEF DiskTyped, Discover, Save
    <2>3. ProcessTyped'
        BY <2>1, <1>18 DEF DiskTyped, ProcessTyped, Discover, Save
    <2>4. ThreadsTyped'
        BY <2>1, <1>18 DEF DiskTyped, ProcessTyped, ThreadsTyped, Messages, Discover, Save
    <2> QED BY <2>2, <2>3, <2>4
<1>19. CASE Read
    BY <1>19 DEF DiskTyped, ProcessTyped, ThreadsTyped, CrawlState, Messages, Read
<1>20. CASE Reduce
    <2>1. [mem EXCEPT !.workers = @ - 1, !.reductions = @ + 1] \in CrawlState
        BY CountedState DEF ProcessTyped
    <2>2. DiskTyped'
        BY <1>20, <2>1 DEF DiskTyped, Reduce, StopToAdapt, StopContainer, Save
    <2>3. ProcessTyped'
        BY <1>20, <2>1 DEF ProcessTyped, Reduce, StopToAdapt, StopContainer, Save
    <2>4. ThreadsTyped'
        BY <1>20 DEF ThreadsTyped, Reduce, StopToAdapt, StopContainer
    <2> QED BY <2>2, <2>3, <2>4
<1>21. CASE Restart
    <2>1. mem' \in CrawlState /\ saved' \in CrawlState \cup {None}
        BY <1>21 DEF DiskTyped, ProcessTyped, CrawlState, Restart, StopToAdapt, StopContainer, Save
    <2>2. DiskTyped'
        BY <2>1, <1>21 DEF DiskTyped, Restart, StopToAdapt, StopContainer, Save
    <2>3. ProcessTyped'
        BY <2>1, <1>21 DEF DiskTyped, ProcessTyped, Restart, StopToAdapt, StopContainer, Save
    <2>4. ThreadsTyped'
        BY <2>1, <1>21 DEF DiskTyped, ProcessTyped, ThreadsTyped, Messages, Restart, StopToAdapt, StopContainer, Save
    <2> QED BY <2>2, <2>3, <2>4
<1>22. CASE Rotate
    <2>1. mem' \in CrawlState /\ saved' \in CrawlState \cup {None}
        BY <1>22 DEF DiskTyped, ProcessTyped, CrawlState, Rotate, Save
    <2>2. DiskTyped'
        BY <2>1, <1>22 DEF DiskTyped, Rotate, Save
    <2>3. ProcessTyped'
        BY <2>1, <1>22 DEF DiskTyped, ProcessTyped, Rotate, Save
    <2>4. ThreadsTyped'
        BY <2>1, <1>22 DEF DiskTyped, ProcessTyped, ThreadsTyped, Messages, Rotate, Save
    <2> QED BY <2>2, <2>3, <2>4
<1>23. CASE GoOn
    BY <1>23 DEF DiskTyped, ProcessTyped, ThreadsTyped, CrawlState, Messages, GoOn
<1>24. CASE ContainerIsGone
    BY <1>24 DEF DiskTyped, ProcessTyped, ThreadsTyped, CrawlState, Messages, ContainerIsGone
<1>25. CASE EndStage
    <2>1. mem' \in CrawlState /\ saved' \in CrawlState \cup {None}
        BY <1>25, NewestInSet DEF DiskTyped, ProcessTyped, CrawlState, EndStage, DirOfStage, AddTempDir, Save
    <2>2. DiskTyped'
        BY <2>1, <1>25, NewestInSet DEF DiskTyped, EndStage, DirOfStage, AddTempDir, Save
    <2>3. ProcessTyped'
        BY <2>1, <1>25, NewestInSet DEF DiskTyped, ProcessTyped, EndStage, DirOfStage, AddTempDir, Save
    <2>4. ThreadsTyped'
        BY <2>1, <1>25, NewestInSet DEF DiskTyped, ProcessTyped, ThreadsTyped, Messages, EndStage, DirOfStage, AddTempDir, Save
    <2> QED BY <2>2, <2>3, <2>4
<1>26. CASE Succeed
    BY <1>26 DEF DiskTyped, ProcessTyped, ThreadsTyped, CrawlState, Messages, Succeed
<1>27. CASE TryAdapted
    BY <1>27 DEF DiskTyped, ProcessTyped, ThreadsTyped, CrawlState, Messages, TryAdapted, BackOff, NextStage
<1>28. CASE TryAgain
    BY <1>28 DEF DiskTyped, ProcessTyped, ThreadsTyped, CrawlState, Messages, TryAgain, CountAttempt, BackOff, NextStage
<1>29. CASE GiveUp
    BY <1>29 DEF DiskTyped, ProcessTyped, ThreadsTyped, CrawlState, Messages, GiveUp
<1>30. CASE FallBack
    <2>1. CASE made < DirBound /\ made' = made + 1
        <3>1. made + 1 \in 0..DirBound /\ made + 1 \in 1..DirBound
            BY <2>1 DEF DiskTyped
        <3>2. DiskTyped'
            BY <1>30, <2>1, <3>1 DEF DiskTyped, FallBack
        <3>3. ProcessTyped'
            BY <1>30, <2>1, FreshState DEF ProcessTyped, FallBack, ProcessEnds
        <3>4. ThreadsTyped'
            <4>1. <<>> \in Seq(Messages)
                OBVIOUS
            <4> QED BY <1>30, <2>1, <4>1 DEF ThreadsTyped, FallBack, ProcessEnds
        <3> QED BY <3>2, <3>3, <3>4
    <2>2. CASE ProcessEnds("failed") /\ UNCHANGED <<made, stable, captured>>
        <3>1. DiskTyped'
            BY <1>30, <2>2 DEF DiskTyped, FallBack
        <3>2. opt' = opt /\ runs' \in Nat /\ crashes' \in Nat /\ looks' \in Nat
            BY <1>30 DEF ThreadsTyped, FallBack
        <3> QED BY <2>2, <3>1, <3>2, EndsTyped
    <2> QED BY <1>30, <2>1, <2>2 DEF FallBack
<1>31. CASE Build
    BY <1>31 DEF DiskTyped, ProcessTyped, ThreadsTyped, CrawlState, Messages, Build, BuildZim
<1>32. CASE SkipBuild
    BY <1>32 DEF DiskTyped, ProcessTyped, ThreadsTyped, CrawlState, Messages, SkipBuild
<1>33. CASE CleanUp
    <2>1. DiskTyped'
        BY <1>33 DEF DiskTyped, CleanUp
    <2>2. \E result \in {"failed", "pending", "stopped", "success"} : ProcessEnds(result)
        BY <1>33 DEF ProcessTyped, CleanUp
    <2>3. opt' = opt /\ runs' \in Nat /\ crashes' \in Nat /\ looks' \in Nat
        BY <1>33 DEF ThreadsTyped, CleanUp
    <2> QED BY <2>1, <2>2, <2>3, EndsTyped
<1>34. CASE Finish
    <2>1. DiskTyped'
        BY <1>34 DEF DiskTyped, Finish
    <2>2. \E result \in {"failed", "pending", "stopped", "success"} : ProcessEnds(result)
        BY <1>34 DEF ProcessTyped, Finish
    <2>3. opt' = opt /\ runs' \in Nat /\ crashes' \in Nat /\ looks' \in Nat
        BY <1>34 DEF ThreadsTyped, Finish
    <2> QED BY <2>1, <2>2, <2>3, EndsTyped
<1>35. CASE Kill
    <2>1. DiskTyped'
        BY <1>35 DEF DiskTyped, Kill
    <2>2. \E result \in {"failed", "pending", "stopped", "success"} : ProcessEnds(result)
        BY <1>35 DEF ProcessTyped, Kill
    <2>3. opt' = opt /\ runs' \in Nat /\ crashes' \in Nat /\ looks' \in Nat
        BY <1>35 DEF ThreadsTyped, Kill
    <2> QED BY <2>1, <2>2, <2>3, EndsTyped
<1>36. CASE LookAt
    <2>1. Loaded(1) \in CrawlState /\ Fresh(1) \in CrawlState
        BY LoadedState, FreshState DEF TypeOK
    <2>2. DiskTyped'
        BY <1>36, <2>1 DEF DiskTyped, LookAt
    <2>3. ProcessTyped'
        BY <1>36 DEF ProcessTyped, LookAt
    <2>4. ThreadsTyped'
        BY <1>36 DEF ThreadsTyped, LookAt
    <2> QED BY <2>2, <2>3, <2>4
<1>37. CASE UNCHANGED vars
    BY <1>37 DEF DiskTyped, ProcessTyped, ThreadsTyped, CrawlState, Messages, vars
<1> QED BY <1>1, <1>2, <1>3, <1>4, <1>5, <1>6, <1>7, <1>8, <1>9, <1>10, <1>11, <1>12, <1>13, <1>14, <1>15, <1>16, <1>17, <1>18, <1>19, <1>20, <1>21, <1>22, <1>23, <1>24, <1>25, <1>26, <1>27, <1>28, <1>29, <1>30, <1>31, <1>32, <1>33, <1>34, <1>35, <1>36, <1>37 DEF Next, Main, Fail, Container, Monitor

\* Every reachable state is well formed (the variables of main(), the files of
\* the output directory, the monitor's queue).
THEOREM TypeCorrect == Spec => []TypeOK
BY TypeInit, TypeStep, PTL DEF Spec

-----------------------------------------------------------------------------
(* The number of containers.                                               *)

Preparing == pc \in {"off", "find", "consolidate", "discard", "mode"}

WithinBudget(m) == m.reductions <= MaxReductions /\ m.restarts <= MaxRestarts

\* The container of this attempt is yet to be started.
Owed == pc = "stage" \/ (pc \in {"ended", "decide"} /\ status = "adapting")

\* Every container but that of the current attempt was started by an attempt
\* that counted or by an adaptation, which the state counts.
Counted ==
    /\ Preparing => started = 0 /\ adapts = 0 /\ attempt = 1
    /\ attempt <= MaxStages
    /\ WithinBudget(mem) /\ (saved # None => WithinBudget(saved))
    /\ adapts <= mem.reductions + mem.restarts
    /\ started <= attempt + adapts
    /\ Owed => started < attempt + adapts

\* Before the first run nothing is started and nothing is owed.
LEMMA CountedInit == Init => Counted
BY Limits DEF Init, Counted, Preparing, WithinBudget, Owed, Fresh

\* A container is paid for before it starts: by a stage, a reduction or a restart.
LEMMA CountedStep == TypeOK /\ Counted /\ [Next]_vars => Counted'
<1> SUFFICES ASSUME TypeOK, Counted, [Next]_vars PROVE Counted'
    OBVIOUS
<1>a. /\ attempt \in Nat /\ adapts \in Nat /\ started \in Nat
      /\ mem \in CrawlState /\ (saved # None => saved \in CrawlState)
    BY DEF TypeOK, DiskTyped, ProcessTyped
<1> USE <1>a, Limits DEF Counted, Preparing, WithinBudget, Owed, CrawlState, disk, loop, threads,
        container, bounds
<1>1. CASE Load
    BY <1>1 DEF Load, Save, Loaded, Fresh
<1>2. CASE FindResume
    BY <1>2 DEF FindResume, NewestQueue
<1>3. CASE Abort
    BY <1>3 DEF Abort, ProcessEnds, Fresh
<1>4. CASE Consolidate
    BY <1>4 DEF Consolidate, LinkWarcs
<1>5. CASE \E d \in dirs : Discard(d)
    BY <1>5 DEF Discard
<1>6. CASE Forget
    BY <1>6 DEF Forget, Save, Fresh
<1>7. CASE RefuseZim
    BY <1>7 DEF RefuseZim, ProcessEnds, Fresh
<1>8. CASE ChooseMode
    <2>1. WithinBudget(FreshBudget(mem)) /\ WithinBudget(Fresh(InitialWorkers))
        BY DEF FreshBudget, Fresh
    <2>2. WithinBudget(mem') /\ (saved' # None => WithinBudget(saved'))
        BY <1>8, <2>1 DEF ChooseMode, Save
    <2>3. adapts' = 0 /\ mem' \in CrawlState
        BY <1>8, FreshState, CountedState DEF ChooseMode, Save
    <2> QED BY <1>8, <2>2, <2>3 DEF ChooseMode
<1>9. CASE StartStage
    BY <1>9 DEF StartStage, StartContainer, ConfigOf, ResumeFrom, NewestQueue
<1>10. CASE StartFails
    BY <1>10 DEF StartFails
<1>11. CASE LoopEnds
    BY <1>11 DEF LoopEnds
<1>12. CASE MakeDir
    BY <1>12 DEF MakeDir
<1>13. CASE Capture
    BY <1>13 DEF Capture, Noticed
<1>14. CASE WriteQueue
    BY <1>14 DEF WriteQueue
<1>15. CASE Exits
    BY <1>15 DEF Exits, Exit
<1>16. CASE \E m \in {"stalled", "threshold", "fatal"} : Post(m)
    BY <1>16 DEF Post
<1>17. CASE MonitorEnds
    BY <1>17 DEF MonitorEnds, MonitorAlive
<1>18. CASE Discover
    BY <1>18 DEF Discover, Save
<1>19. CASE Read
    BY <1>19 DEF Read
<1>20. CASE Reduce
    BY <1>20 DEF Reduce, StopToAdapt, StopContainer, Save, CanReduce
<1>21. CASE Restart
    BY <1>21 DEF Restart, StopToAdapt, StopContainer, Save, CanRestart
<1>22. CASE Rotate
    BY <1>22 DEF Rotate, Save
<1>23. CASE GoOn
    BY <1>23 DEF GoOn
<1>24. CASE ContainerIsGone
    BY <1>24 DEF ContainerIsGone
<1>25. CASE EndStage
    BY <1>25 DEF EndStage, DirOfStage, AddTempDir, Save
<1>26. CASE Succeed
    BY <1>26 DEF Succeed
<1>27. CASE TryAdapted
    BY <1>27 DEF TryAdapted, BackOff, NextStage
<1>28. CASE TryAgain
    BY <1>28 DEF TryAgain, CountAttempt, BackOff, NextStage
<1>29. CASE GiveUp
    BY <1>29 DEF GiveUp
<1>30. CASE FallBack
    BY <1>30 DEF FallBack, ProcessEnds, Fresh
<1>31. CASE Build
    BY <1>31 DEF Build, BuildZim
<1>32. CASE SkipBuild
    BY <1>32 DEF SkipBuild
<1>33. CASE CleanUp
    BY <1>33 DEF CleanUp, ProcessEnds, Fresh
<1>34. CASE Finish
    BY <1>34 DEF Finish, ProcessEnds, Fresh
<1>35. CASE Kill
    BY <1>35 DEF Kill, ProcessEnds, Fresh
<1>36. CASE LookAt
    <2>1. WithinBudget(Loaded(1)) /\ WithinBudget(Fresh(1))
        BY DEF Loaded, Fresh
    <2>2. saved' # None => WithinBudget(saved')
        BY <1>36, <2>1 DEF LookAt
    <2> QED BY <1>36, <2>2 DEF LookAt
<1>37. CASE UNCHANGED vars
    BY <1>37 DEF vars
<1> QED BY <1>1, <1>2, <1>3, <1>4, <1>5, <1>6, <1>7, <1>8, <1>9, <1>10, <1>11, <1>12, <1>13, <1>14, <1>15, <1>16, <1>17, <1>18, <1>19, <1>20, <1>21, <1>22, <1>23, <1>24, <1>25, <1>26, <1>27, <1>28, <1>29, <1>30, <1>31, <1>32, <1>33, <1>34, <1>35, <1>36, <1>37 DEF Next, Main, Fail, Container, Monitor

\* However often the strategies adapt a crawl, one run starts a bounded number
\* of containers (the stage loop of main(), attempt_worker_reduction and
\* attempt_container_restart, over any history of runs that share a state file).
THEOREM ContainersHeld == Spec => []ContainersBounded
<1>1. TypeOK /\ Counted => ContainersBounded
    BY Limits DEF TypeOK, ProcessTyped, CrawlState, Counted, WithinBudget, ContainersBounded
<1>2. Spec => []Counted
    BY CountedInit, CountedStep, TypeCorrect, PTL DEF Spec
<1> QED BY <1>1, <1>2, TypeCorrect, PTL

-----------------------------------------------------------------------------
(* The captures.                                                           *)

\* A container runs only while the stage loop watches it, and a capture lost
\* from the state is either in warcs/ or in the directory of that container.
Kept ==
    /\ Preparing => box = "none" /\ dir = NoDir
    /\ box = "up" => pc \in {"crawl", "handle"}
    /\ warc \subseteq dirs
    /\ dir # NoDir => dir \in dirs
    /\ pc \in {"find", "consolidate", "discard"} => warc \subseteq mem.dirs
    /\ pc = "discard" => warc \subseteq stable
    /\ "cleanup" \notin opt => captured \subseteq warc \cup stable
    /\ "overwrite" \notin opt /\ pc # "off" =>
          warc \subseteq mem.dirs \cup stable
                    \cup (IF pc \in {"crawl", "handle", "ended"} THEN {dir} ELSE {})

\* Before the first run there is no capture to lose.
LEMMA KeptInit == Init => Kept
BY DEF Init, Kept, Preparing

\* Each action keeps what is captured where the next reader looks for it.
LEMMA KeptStep == TypeOK /\ Kept /\ [Next]_vars => Kept'
<1> SUFFICES ASSUME TypeOK, Kept, [Next]_vars PROVE Kept'
    OBVIOUS
<1>a. NoDir \notin dirs /\ mem \in CrawlState
    BY DEF TypeOK, DiskTyped, ProcessTyped, NoDir
<1> USE <1>a DEF Kept, Preparing, CrawlState, disk, loop, threads, container, bounds
<1>1. CASE Load
    BY <1>1 DEF Load, Save, Loaded, Fresh
<1>2. CASE FindResume
    BY <1>2 DEF FindResume, NewestQueue
<1>3. CASE Abort
    BY <1>3 DEF Abort, ProcessEnds
<1>4. CASE Consolidate
    BY <1>4 DEF Consolidate, LinkWarcs
<1>5. CASE \E d \in dirs : Discard(d)
    BY <1>5 DEF Discard
<1>6. CASE Forget
    BY <1>6 DEF Forget, Save, Fresh
<1>7. CASE RefuseZim
    BY <1>7 DEF RefuseZim, ProcessEnds
<1>8. CASE ChooseMode
    BY <1>8 DEF ChooseMode, Save, FreshBudget, Fresh
<1>9. CASE StartStage
    BY <1>9 DEF StartStage, StartContainer, ConfigOf, ResumeFrom, NewestQueue
<1>10. CASE StartFails
    BY <1>10 DEF StartFails
<1>11. CASE LoopEnds
    BY <1>11 DEF LoopEnds
<1>12. CASE MakeDir
    BY <1>12 DEF MakeDir
<1>13. CASE Capture
    BY <1>13 DEF Capture, Noticed
<1>14. CASE WriteQueue
    BY <1>14 DEF WriteQueue
<1>15. CASE Exits
    BY <1>15 DEF Exits, Exit
<1>16. CASE \E m \in {"stalled", "threshold", "fatal"} : Post(m)
    BY <1>16 DEF Post
<1>17. CASE MonitorEnds
    BY <1>17 DEF MonitorEnds, MonitorAlive
<1>18. CASE Discover
    BY <1>18 DEF Discover, Save
<1>19. CASE Read
    BY <1>19 DEF Read
<1>20. CASE Reduce
    BY <1>20 DEF Reduce, StopToAdapt, StopContainer, Save
<1>21. CASE Restart
    BY <1>21 DEF Restart, StopToAdapt, StopContainer, Save
<1>22. CASE Rotate
    BY <1>22 DEF Rotate, Save
<1>23. CASE GoOn
    BY <1>23 DEF GoOn
<1>24. CASE ContainerIsGone
    BY <1>24 DEF ContainerIsGone
<1>25. CASE EndStage
    BY <1>25 DEF EndStage, DirOfStage, AddTempDir, Save
<1>26. CASE Succeed
    BY <1>26 DEF Succeed
<1>27. CASE TryAdapted
    BY <1>27 DEF TryAdapted, BackOff, NextStage
<1>28. CASE TryAgain
    BY <1>28 DEF TryAgain, CountAttempt, BackOff, NextStage
<1>29. CASE GiveUp
    BY <1>29 DEF GiveUp
<1>30. CASE FallBack
    BY <1>30 DEF FallBack, ProcessEnds
<1>31. CASE Build
    BY <1>31 DEF Build, BuildZim
<1>32. CASE SkipBuild
    BY <1>32 DEF SkipBuild
<1>33. CASE CleanUp
    BY <1>33 DEF CleanUp, ProcessEnds
<1>34. CASE Finish
    BY <1>34 DEF Finish, ProcessEnds
<1>35. CASE Kill
    BY <1>35 DEF Kill, ProcessEnds
<1>36. CASE LookAt
    BY <1>36 DEF LookAt
<1>37. CASE UNCHANGED vars
    BY <1>37 DEF vars
<1> QED BY <1>1, <1>2, <1>3, <1>4, <1>5, <1>6, <1>7, <1>8, <1>9, <1>10, <1>11, <1>12, <1>13, <1>14, <1>15, <1>16, <1>17, <1>18, <1>19, <1>20, <1>21, <1>22, <1>23, <1>24, <1>25, <1>26, <1>27, <1>28, <1>29, <1>30, <1>31, <1>32, <1>33, <1>34, <1>35, <1>36, <1>37 DEF Next, Main, Fail, Container, Monitor

\* Kept needs the types only, so it is an invariant as soon as TypeOK is.
LEMMA Keeps == Spec => []Kept
BY KeptInit, KeptStep, TypeCorrect, PTL DEF Spec

\* No kill, failure or reset of stale state loses a capture (consolidate_warcs
\* before cleanup_temp_dirs in _reset_stale_crawl_state), however many temp
\* directories, runs and kills there are.
THEOREM CapturesKept == Spec => []CapturesSurvive
<1>1. Kept => CapturesSurvive
    BY DEF Kept, CapturesSurvive
<1> QED BY <1>1, Keeps, PTL

\* The final build finds every capture, whatever main() lost on the way
\* (add_temp_dir at the end of a stage, discover_temp_dirs at the next start).
THEOREM BuildIsComplete == Spec => []BuildSeesEveryCapture
<1>1. Kept => BuildSeesEveryCapture
    BY DEF Kept, BuildSeesEveryCapture
<1> QED BY <1>1, Keeps, PTL

-----------------------------------------------------------------------------
(* The queue of a fallback capture: its operators on sequences.            *)

\* A finite set of numbers has as many ranks as members, so its members in
\* order are just its members.
LEMMA InOrderHas ==
    ASSUME NEW K, K \subseteq Nat, IsFiniteSet(K)
    PROVE  /\ InOrder(K) \in Seq(K)
           /\ \A i \in K : \E k \in DOMAIN InOrder(K) : InOrder(K)[k] = i
<1> DEFINE n == Cardinality(K)
           upTo(i) == {j \in K : j <= i}
           rank == [i \in K |-> Cardinality(upTo(i))]
<1>1. n \in Nat
  BY FS_CardinalityType
<1>2. ASSUME NEW i \in K
      PROVE  /\ IsFiniteSet(upTo(i)) /\ Cardinality(upTo(i)) \in 1..n /\ i \in upTo(i)
  <2>1. upTo(i) \subseteq K /\ i \in upTo(i)
    OBVIOUS
  <2>2. IsFiniteSet(upTo(i)) /\ Cardinality(upTo(i)) <= n /\ Cardinality(upTo(i)) \in Nat
    BY <2>1, FS_Subset, FS_CardinalityType
  <2>3. Cardinality(upTo(i)) # 0
    BY <2>1, <2>2, FS_EmptySet
  <2> HIDE DEF upTo, n
  <2> QED BY <1>1, <2>1, <2>2, <2>3
<1>3. ASSUME NEW i \in K, NEW j \in K, rank[i] = rank[j], i <= j PROVE i = j
  <2>1. upTo(i) \subseteq upTo(j)
    <3>1. \A e \in K : e <= i => e <= j
      BY <1>3
    <3> QED BY <3>1
  <2>2. upTo(i) = upTo(j)
    <3>1. Cardinality(upTo(i)) = Cardinality(upTo(j))
      BY <1>3
    <3> QED BY <1>2, <2>1, <3>1, FS_Subset
  <2>3. j <= i
    BY <1>2, <2>2
  <2> QED BY <1>3, <2>3
<1>4. rank \in Injection(K, 1..n)
  <2>1. rank \in [K -> 1..n]
    BY <1>2
  <2>2. \A i, j \in K : rank[i] = rank[j] => i = j
    <3>1. \A i, j \in K : i <= j \/ j <= i
      OBVIOUS
    <3> HIDE DEF rank
    <3> QED BY <1>3, <3>1
  <2> QED BY <2>1, <2>2 DEF Injection, IsInjective
<1>5. rank \in Surjection(K, 1..n)
  <2>1. IsFiniteSet(1..n) /\ Cardinality(1..n) = n
    BY <1>1, FS_Interval
  <2> QED BY <1>4, <2>1, FS_Injection
<1>6. \A i \in K : rank[i] = Cardinality({j \in K : j <= i}) /\ rank[i] \in 1..n
  BY <1>2
<1>7. InOrder(K) = [k \in 1..n |-> CHOOSE i \in K : Cardinality({j \in K : j <= i}) = k]
  BY DEF InOrder
<1> HIDE DEF rank, n, upTo
<1>8. ASSUME NEW k \in 1..n PROVE InOrder(K)[k] \in K /\ rank[InOrder(K)[k]] = k
  <2>1. PICK i \in K : rank[i] = k
    BY <1>5 DEF Surjection
  <2>2. Cardinality({j \in K : j <= i}) = k
    BY <1>6, <2>1
  <2>3. InOrder(K)[k] = CHOOSE l \in K : Cardinality({j \in K : j <= l}) = k
    BY <1>7
  <2>4. InOrder(K)[k] \in K /\ Cardinality({j \in K : j <= InOrder(K)[k]}) = k
    BY <2>2, <2>3, Zenon
  <2> QED BY <1>6, <2>4
<1>9. DOMAIN InOrder(K) = 1..n
  BY <1>7
<1>10. InOrder(K) \in Seq(K)
  <2>1. InOrder(K) \in [1..n -> K]
    BY <1>7, <1>8, <1>9
  <2> QED BY <1>1, <2>1
<1>11. ASSUME NEW i \in K PROVE InOrder(K)[rank[i]] = i
  <2>1. InOrder(K)[rank[i]] \in K /\ rank[InOrder(K)[rank[i]]] = rank[i]
    BY <1>6, <1>8
  <2> QED BY <1>4, <2>1 DEF Injection, IsInjective
<1> QED BY <1>6, <1>9, <1>10, <1>11

\* A subsequence has just what the sequence has at the places picked.
LEMMA PickedHas ==
    ASSUME NEW S, NEW s \in Seq(S), NEW K, K \subseteq DOMAIN s
    PROVE  /\ Picked(s, K) \in Seq({s[i] : i \in K})
           /\ ToSet(Picked(s, K)) = {s[i] : i \in K}
<1>1. K \subseteq Nat /\ IsFiniteSet(K)
  <2>1. Len(s) \in Nat /\ DOMAIN s = 1..Len(s)
    BY LenProperties
  <2>2. IsFiniteSet(1..Len(s))
    BY <2>1, FS_Interval
  <2> QED BY <2>1, <2>2, FS_Subset
<1> DEFINE o == InOrder(K)
           n == Len(o)
<1>2. /\ n \in Nat /\ DOMAIN o = 1..n /\ \A k \in 1..n : o[k] \in K
      /\ \A i \in K : \E k \in 1..n : o[k] = i
  <2>1. o \in Seq(K)
    BY <1>1, InOrderHas
  <2>2. n \in Nat /\ DOMAIN o = 1..n
    BY <2>1, LenProperties
  <2> QED BY <1>1, <2>1, <2>2, InOrderHas, ElementOfSeq
<1>3. Picked(s, K) = [k \in 1..n |-> s[o[k]]]
  BY <1>2 DEF Picked
<1> HIDE DEF n, o
<1>4. Picked(s, K) \in [1..n -> {s[i] : i \in K}]
  BY <1>2, <1>3
<1>5. ToSet(Picked(s, K)) = {s[i] : i \in K}
  <2>1. DOMAIN Picked(s, K) = 1..n /\ \A k \in 1..n : Picked(s, K)[k] = s[o[k]]
    BY <1>3
  <2>2. ToSet(Picked(s, K)) = {s[o[k]] : k \in 1..n}
    BY <2>1 DEF ToSet
  <2> QED BY <1>2, <2>2
<1> QED BY <1>2, <1>4, <1>5

\* Concatenation, tail and append, as sets of what they hold.
LEMMA ConcatHas ==
    ASSUME NEW S, NEW s \in Seq(S), NEW t \in Seq(S)
    PROVE  s \o t \in Seq(S) /\ ToSet(s \o t) = ToSet(s) \cup ToSet(t)
<1> DEFINE c == s \o t
<1>1. /\ c \in Seq(S) /\ Len(c) = Len(s) + Len(t)
      /\ \A i \in 1..Len(s) + Len(t) : c[i] = IF i <= Len(s) THEN s[i] ELSE t[i - Len(s)]
  BY ConcatProperties
<1>2. /\ Len(s) \in Nat /\ Len(t) \in Nat /\ DOMAIN s = 1..Len(s) /\ DOMAIN t = 1..Len(t)
      /\ DOMAIN c = 1..Len(c)
  BY <1>1, LenProperties
<1> HIDE DEF c
<1>3. ASSUME NEW i \in DOMAIN s PROVE i \in DOMAIN c /\ c[i] = s[i]
  BY <1>1, <1>2
<1>4. ASSUME NEW i \in DOMAIN t PROVE Len(s) + i \in DOMAIN c /\ c[Len(s) + i] = t[i]
  BY <1>1, <1>2
<1>5. ASSUME NEW i \in DOMAIN c PROVE c[i] \in ToSet(s) \cup ToSet(t)
  <2>1. CASE i <= Len(s)
    BY <1>1, <1>2, <2>1 DEF ToSet
  <2>2. CASE ~(i <= Len(s))
    <3>1. i - Len(s) \in DOMAIN t /\ c[i] = t[i - Len(s)]
      BY <1>1, <1>2, <2>2
    <3> QED BY <3>1 DEF ToSet
  <2> QED BY <2>1, <2>2
<1>6. ToSet(c) = ToSet(s) \cup ToSet(t)
  BY <1>3, <1>4, <1>5 DEF ToSet
<1> QED BY <1>1, <1>6 DEF c

LEMMA TailHas ==
    ASSUME NEW S, NEW s \in Seq(S), s # <<>>
    PROVE  /\ Head(s) \in S /\ Tail(s) \in Seq(S) /\ Head(s) \in ToSet(s)
           /\ ToSet(s) = {Head(s)} \cup ToSet(Tail(s))
<1>1. /\ Head(s) \in S /\ Tail(s) \in Seq(S) /\ Len(Tail(s)) = Len(s) - 1
      /\ \A i \in 1..Len(Tail(s)) : Tail(s)[i] = s[i + 1]
  BY HeadTailProperties
<1>2. /\ Len(s) \in Nat \ {0} /\ DOMAIN s = 1..Len(s) /\ DOMAIN Tail(s) = 1..Len(Tail(s))
      /\ Head(s) = s[1]
  BY <1>1, LenProperties, EmptySeq
<1> DEFINE t == Tail(s)
           h == Head(s)
<1> HIDE DEF t, h
<1>3. ASSUME NEW i \in DOMAIN t PROVE i + 1 \in DOMAIN s /\ t[i] = s[i + 1]
  BY <1>1, <1>2 DEF t
<1>4. ASSUME NEW i \in DOMAIN s, i # 1 PROVE i - 1 \in DOMAIN t /\ s[i] = t[i - 1]
  BY <1>1, <1>2, <1>4 DEF t
<1>5. 1 \in DOMAIN s /\ s[1] = h
  BY <1>2 DEF h
<1>6. ToSet(s) = {h} \cup ToSet(t)
  BY <1>3, <1>4, <1>5 DEF ToSet
<1>7. h \in ToSet(s)
  BY <1>5 DEF ToSet
<1> QED BY <1>1, <1>6, <1>7 DEF t, h

LEMMA AppendHas ==
    ASSUME NEW S, NEW s \in Seq(S), NEW x \in S
    PROVE  /\ Append(s, x) \in Seq(S)
           /\ \A i \in DOMAIN Append(s, x) : (i \in DOMAIN s /\ Append(s, x)[i] = s[i]) \/ Append(s, x)[i] = x
<1>1. Append(s, x) \in Seq(S) /\ Len(Append(s, x)) = Len(s) + 1 /\ Len(s) \in Nat
  BY LenProperties
<1>2. DOMAIN Append(s, x) = 1..Len(s) + 1 /\ DOMAIN s = 1..Len(s)
  BY <1>1, LenProperties
<1>3. \A i \in 1..Len(s) : Append(s, x)[i] = s[i]
  OBVIOUS
<1>4. Append(s, x)[Len(s) + 1] = x
  OBVIOUS
<1>5. \A i \in 1..Len(s) + 1 : i \in 1..Len(s) \/ i = Len(s) + 1
  BY <1>1
<1> QED BY <1>1, <1>2, <1>3, <1>4, <1>5

-----------------------------------------------------------------------------
(* The inductive invariant of a fallback capture.                          *)

\* The assumptions, one constant at a time.
FallbackGiven ==
    /\ Urls \subseteq Nat /\ SeedLists \subseteq Seq(Urls) /\ InScope \subseteq Urls
    /\ \A u \in Urls : Links[u] \subseteq Urls /\ IsFiniteSet(Links[u])
    /\ SeedAttempts \in Nat \ {0} /\ DiscoveredAttempts \in Nat \ {0} /\ CurlAttempts \in Nat \ {0}
    /\ MaxRedirects \in Nat

LEMMA Settings == FallbackGiven
  BY UrlsAssumption, FetchLimits DEF FallbackGiven

\* What is in hand is an attempt, or Nothing, which has the same fields.
AttemptRecord == [url : Nat, hop : Nat, attempt : Nat, redirects : Nat, curl : BOOLEAN]
AttemptShaped == at \in AttemptRecord

\* No URL that was seen is forgotten while the capture goes well: it was tried,
\* is being tried or is in the queue, and the links of every HTML page were seen.
Current == IF Busy THEN {at.url} ELSE {}
PagesSeen(rs, S) == \A i \in DOMAIN rs : rs[i].html => Links[rs[i].url] \cap InScope \subseteq S
NothingForgotten ==
    exit # "failed" =>
        /\ seen \subseteq tried \cup ToSet(queue) \cup Current
        /\ PagesSeen(records, seen) /\ PagesSeen(found, seen)
        /\ exit # "running" => ~Busy /\ queue = <<>>
        /\ exit = "ok" => HasHtml(records)

\* Requests are counted by the attempts and the redirects of the two transports.
RequestsCounted ==
    ~Browser /\ Busy =>
        /\ at.hop \in InScope /\ (at.curl => at.url \in seeds)
        /\ requests <= (IF at.curl THEN SeedAttempts + MaxRedirects ELSE 0)
                        + (at.attempt - 1) + at.redirects

FrontierInv == FrontierTypeOK /\ AttemptShaped /\ NothingForgotten /\ RequestsCounted

\* Enqueueing the links of a page adds just those in scope, none twice to seen.
LEMMA EnqueueKeeps ==
    ASSUME FrontierTypeOK, NEW u \in Urls, Enqueue(u)
    PROVE  /\ queue' \in Seq(InScope) /\ seen' \subseteq InScope /\ seen \subseteq seen'
           /\ seen' = seen \cup NewLinks(u) /\ ToSet(queue') = ToSet(queue) \cup NewLinks(u)
           /\ Links[u] \cap InScope \subseteq seen'
<1> DEFINE N == NewLinks(u)
<1>1. N \subseteq InScope /\ N \subseteq Nat /\ IsFiniteSet(N)
  <2>1. N \subseteq Links[u] /\ N \subseteq InScope
    BY DEF NewLinks
  <2> QED BY <2>1, Settings, FS_Subset DEF FallbackGiven
<1> DEFINE o == InOrder(N)
<1>2. o \in Seq(N) /\ \A i \in N : \E k \in DOMAIN o : o[k] = i
  <2> HIDE DEF N
  <2> QED BY <1>1, InOrderHas
<1>3. o \in Seq(InScope)
  <2> HIDE DEF N, o
  <2> QED BY <1>1, <1>2, SeqMonotonic
<1>4. ToSet(o) = N
  <2>1. DOMAIN o = 1..Len(o) /\ \A k \in 1..Len(o) : o[k] \in N
    <3> HIDE DEF N, o
    <3> QED BY <1>2, LenProperties, ElementOfSeq
  <2> HIDE DEF N, o
  <2> QED BY <1>2, <2>1 DEF ToSet
<1>5. queue' = queue \o o /\ seen' = seen \cup N
  BY DEF Enqueue
<1>6. queue \in Seq(InScope) /\ seen \subseteq InScope
  BY DEF FrontierTypeOK
<1> HIDE DEF o
<1>7. queue' \in Seq(InScope) /\ ToSet(queue') = ToSet(queue) \cup N
  BY <1>3, <1>4, <1>5, <1>6, ConcatHas
<1>8. Links[u] \cap InScope \subseteq seen'
  BY <1>5 DEF NewLinks
<1> QED BY <1>1, <1>5, <1>6, <1>7, <1>8

\* A request raises the saturating count by one at most.
LEMMA RequestKeeps ==
    ASSUME FrontierTypeOK, Request
    PROVE  requests' \in 0..RequestBound + 1 /\ requests' <= requests + 1
<1>1. RequestBound \in Nat /\ requests \in 0..RequestBound + 1
  BY Settings DEF FrontierTypeOK, RequestBound, FallbackGiven
<1> HIDE DEF RequestBound
<1> QED BY <1>1 DEF Request

\* The queue starts with every seed in scope.
LEMMA InitHolds == FrontierInit => FrontierInv
<1> SUFFICES ASSUME FrontierInit PROVE FrontierInv
  OBVIOUS
<1>1. PICK s \in SeedLists :
         LET allowed == {i \in DOMAIN s : s[i] \in InScope}
             firsts == {i \in allowed : \A j \in 1..(i - 1) : s[j] # s[i]}
         IN /\ queue = Picked(s, IF Browser THEN firsts ELSE allowed)
            /\ seen = {s[i] : i \in allowed}
            /\ seeds = seen
  BY DEF FrontierInit
<1> DEFINE allowed == {i \in DOMAIN s : s[i] \in InScope}
           firsts == {i \in allowed : \A j \in 1..(i - 1) : s[j] # s[i]}
           K == IF Browser THEN firsts ELSE allowed
<1>2. queue = Picked(s, K) /\ seen = {s[i] : i \in allowed} /\ seeds = seen
  BY <1>1
<1>3. s \in Seq(Urls) /\ K \subseteq DOMAIN s /\ K \subseteq allowed
  BY Settings DEF FallbackGiven
<1>4. {s[i] : i \in K} = {s[i] : i \in allowed}
  <2>1. CASE ~Browser
    BY <2>1
  <2>2. CASE Browser
    <3>1. ASSUME NEW i \in allowed PROVE \E j \in firsts : s[j] = s[i]
      <4> DEFINE Same == {j \in allowed : s[j] = s[i]}
      <4>1. Same \subseteq Nat /\ i \in Same /\ DOMAIN s = 1..Len(s) /\ Len(s) \in Nat
        BY <1>3, LenProperties
      <4>2. PICK j \in Same : \A k \in Same : ~(k < j)
        <5>1. PICK j \in Same : \A k \in Same : <<k, j>> \notin OpToRel(<, Nat)
          <6> HIDE DEF Same
          <6> QED BY <4>1, NatLessThanWellFounded, WFMin
        <5> QED BY <4>1, <5>1 DEF OpToRel
      <4>3. j \in allowed /\ s[j] = s[i] /\ j \in 1..Len(s)
        BY <4>1
      <4>4. ASSUME NEW k \in 1..(j - 1), s[k] = s[j] PROVE FALSE
        <5>1. k \in 1..Len(s) /\ k < j
          BY <4>1, <4>3
        <5>2. k \in Same
          BY <4>1, <4>3, <4>4, <5>1
        <5> QED BY <4>2, <5>1, <5>2
      <4> QED BY <4>3, <4>4
    <3> HIDE DEF allowed
    <3> QED BY <2>2, <3>1
  <2> QED BY <2>1, <2>2
<1> HIDE DEF K
<1>5. Picked(s, K) \in Seq(seen) /\ ToSet(queue) = seen
  <2>1. Picked(s, K) \in Seq({s[i] : i \in K}) /\ ToSet(Picked(s, K)) = {s[i] : i \in K}
    BY <1>3, PickedHas
  <2> QED BY <1>2, <1>4, <2>1
<1>6. seen \subseteq InScope
  BY <1>2
<1>7. queue \in Seq(InScope)
  BY <1>2, <1>5, <1>6, SeqMonotonic
<1>8. /\ backend \in {"http_warc", "playwright_warc"} /\ at = Nothing /\ tried = {} /\ requests = 0
      /\ found = <<>> /\ records = <<>> /\ failed = 0 /\ exit = "running"
  BY DEF FrontierInit
<1>9. FrontierTypeOK
  <2>1. RequestBound \in Nat
    BY Settings DEF RequestBound, FallbackGiven
  <2> HIDE DEF RequestBound
  <2>2. requests \in 0..RequestBound + 1
    BY <1>8, <2>1
  <2>3. found \in Seq([url : Urls, html : BOOLEAN]) /\ records \in Seq([url : Urls, html : BOOLEAN])
    BY <1>8, EmptySeq
  <2> QED BY <1>2, <1>5, <1>6, <1>7, <1>8, <2>2, <2>3 DEF FrontierTypeOK, Busy
<1>10. AttemptShaped /\ RequestsCounted
  BY <1>8 DEF AttemptShaped, AttemptRecord, Nothing, RequestsCounted, Busy
<1>11. NothingForgotten
  <2>1. \A S : PagesSeen(<<>>, S)
    BY DEF PagesSeen
  <2> QED BY <1>5, <1>8, <2>1 DEF NothingForgotten
<1> QED BY <1>9, <1>10, <1>11 DEF FrontierInv

\* The end of a capture leaves nothing in hand.
LEMMA EndTyped == ASSUME at' = Nothing PROVE ~Busy' /\ AttemptShaped'
  BY DEF Nothing, Busy, AttemptShaped, AttemptRecord

\* What has ended was in hand, hence seen.
LEMMA UrlsTried ==
    ASSUME FrontierInv, Busy, NEW u, u = at.url, EndOf(u)
    PROVE  tried' \subseteq seen /\ tried' = tried \cup {u} /\ at' = Nothing
  BY DEF FrontierInv, FrontierTypeOK, EndOf

\* Each step of either backend keeps the types.
LEMMA FallbackTypeStep == ASSUME FrontierInv, [FrontierNext]_frontierVars PROVE FrontierTypeOK' /\ AttemptShaped'
<1>0. /\ FrontierTypeOK /\ AttemptShaped /\ FallbackGiven /\ RequestBound \in Nat
      /\ queue \in Seq(InScope) /\ seen \subseteq InScope /\ seeds \subseteq seen
      /\ ToSet(queue) \subseteq seen /\ tried \subseteq seen
      /\ found \in Seq([url : Urls, html : BOOLEAN]) /\ records \in Seq([url : Urls, html : BOOLEAN])
      /\ failed \in Nat /\ failed + 1 \in Nat
  BY Settings DEF FrontierInv, FrontierTypeOK, RequestBound, FallbackGiven
<1> USE DEF Fetching, Visiting, Running
<1>1. CASE Take
  <2>1. /\ queue # <<>> /\ queue' = Tail(queue) /\ requests' = 0
        /\ at' = [url |-> Head(queue), hop |-> Head(queue), attempt |-> 1, redirects |-> 0, curl |-> FALSE]
        /\ UNCHANGED <<backend, seen, seeds, tried, found, records, failed, exit>>
    BY <1>1 DEF Take
  <2>2. /\ Head(queue) \in InScope /\ Tail(queue) \in Seq(InScope)
        /\ Head(queue) \in ToSet(queue) /\ ToSet(Tail(queue)) \subseteq ToSet(queue)
    BY <1>0, <2>1, TailHas
  <2>3. Head(queue) \in seen /\ Head(queue) \in Urls /\ Head(queue) \in Nat
    BY <1>0, <2>2 DEF FallbackGiven
  <2>4. AttemptShaped'
    BY <2>1, <2>3 DEF AttemptShaped, AttemptRecord
  <2>5. at'.url \in seen' /\ at'.hop \in Urls /\ at'.curl \in BOOLEAN /\ at'.attempt \in 1..Attempts'
        /\ at'.redirects \in 0..MaxRedirects
    BY <1>0, <2>1, <2>3 DEF Attempts, FallbackGiven
  <2>6. requests' \in 0..RequestBound + 1
    BY <1>0, <2>1
  <2> QED BY <1>0, <2>1, <2>2, <2>4, <2>5, <2>6 DEF FrontierTypeOK
<1>2. CASE Respond
  <2>1. PICK html \in BOOLEAN :
          /\ records' = Append(records, [url |-> at.hop, html |-> html])
          /\ IF html THEN Enqueue(at.hop) ELSE UNCHANGED <<queue, seen>>
    BY <1>2 DEF Respond
  <2>2. Busy /\ EndOf(at.url) /\ Request /\ UNCHANGED <<backend, seeds, found, failed, exit>> /\ at.hop \in Urls
    BY <1>0, <1>2 DEF Respond, FrontierTypeOK
  <2>3. /\ queue' \in Seq(InScope) /\ seen' \subseteq InScope /\ seen \subseteq seen'
        /\ ToSet(queue') \subseteq seen'
    BY <1>0, <2>1, <2>2, EnqueueKeeps
  <2>4. records' \in Seq([url : Urls, html : BOOLEAN])
    BY <1>0, <2>1, <2>2, AppendHas
  <2> QED BY <1>0, <2>2, <2>3, <2>4, UrlsTried, EndTyped, RequestKeeps DEF FrontierTypeOK
<1>3. CASE FetchAgain
  <2> DEFINE h == IF at.curl THEN at.hop ELSE at.url
  <2>1. /\ Busy /\ Request /\ at.attempt < Attempts
        /\ at' = [at EXCEPT !.attempt = @ + 1, !.hop = h]
        /\ UNCHANGED <<backend, queue, seen, seeds, tried, found, records, failed, exit>>
    BY <1>3 DEF FetchAgain
  <2>2. at \in [url : Nat, hop : Nat, attempt : Nat, redirects : Nat, curl : BOOLEAN]
    BY <1>0 DEF AttemptShaped, AttemptRecord
  <2>3. /\ at.url \in seen /\ at.hop \in Urls /\ at.url \in Urls /\ at.attempt \in 1..Attempts
        /\ at.redirects \in 0..MaxRedirects
    BY <1>0, <2>1 DEF FrontierTypeOK, FallbackGiven
  <2>4. h \in Urls /\ h \in Nat
    BY <1>0, <2>3 DEF FallbackGiven
  <2> HIDE DEF h
  <2>5. /\ at' \in [url : Nat, hop : Nat, attempt : Nat, redirects : Nat, curl : BOOLEAN]
        /\ at'.url = at.url /\ at'.hop = h /\ at'.attempt = at.attempt + 1
        /\ at'.redirects = at.redirects /\ at'.curl = at.curl
    <3> DEFINE b == [at EXCEPT !.attempt = at.attempt + 1]
    <3>1. /\ b \in AttemptRecord /\ b.url = at.url /\ b.attempt = at.attempt + 1
          /\ b.redirects = at.redirects /\ b.curl = at.curl
      BY <2>2 DEF AttemptRecord
    <3>2. at' = [b EXCEPT !.hop = h]
      BY <2>1
    <3> HIDE DEF b
    <3> QED BY <2>4, <3>1, <3>2 DEF AttemptRecord
  <2>6. Attempts' = Attempts /\ Attempts \in Nat
    BY <1>0, <2>1, <2>5 DEF Attempts, FallbackGiven
  <2>7. at'.attempt \in 1..Attempts' /\ at'.curl \in BOOLEAN
    BY <2>1, <2>2, <2>3, <2>5, <2>6
  <2> QED BY <1>0, <2>1, <2>3, <2>4, <2>5, <2>7, RequestKeeps DEF FrontierTypeOK, AttemptShaped, AttemptRecord
<1>4. CASE SwitchToCurl
  <2>1. /\ Busy /\ Request
        /\ at' = [url |-> at.url, hop |-> at.url, attempt |-> 1, redirects |-> 0, curl |-> TRUE]
        /\ UNCHANGED <<backend, queue, seen, seeds, tried, found, records, failed, exit>>
    BY <1>4 DEF SwitchToCurl
  <2>2. at.url \in seen /\ at.url \in Urls /\ at.url \in Nat
    BY <1>0, <2>1 DEF FrontierTypeOK, FallbackGiven
  <2>3. /\ at'.url = at.url /\ at'.hop = at.url /\ at'.curl = TRUE /\ at'.attempt \in 1..Attempts'
        /\ at'.redirects \in 0..MaxRedirects
    BY <1>0, <2>1 DEF Attempts, FallbackGiven
  <2>4. AttemptShaped'
    BY <2>1, <2>2 DEF AttemptShaped, AttemptRecord
  <2> QED BY <1>0, <2>1, <2>2, <2>3, <2>4, RequestKeeps DEF FrontierTypeOK
<1>5. CASE GiveUpUrl
  <2>1. /\ Busy /\ failed' = failed + 1 /\ EndOf(at.url) /\ Request
        /\ UNCHANGED <<backend, queue, seen, seeds, found, records, exit>>
    BY <1>5 DEF GiveUpUrl
  <2> QED BY <1>0, <2>1, UrlsTried, EndTyped, RequestKeeps DEF FrontierTypeOK
<1>6. CASE FollowRedirect
  <2>1. PICK target \in InScope : at' = [at EXCEPT !.hop = target, !.redirects = @ + 1]
    BY <1>6 DEF FollowRedirect
  <2>2. /\ Busy /\ Request /\ at.redirects < MaxRedirects
        /\ UNCHANGED <<backend, queue, seen, seeds, tried, found, records, failed, exit>>
    BY <1>6 DEF FollowRedirect
  <2>3. at \in [url : Nat, hop : Nat, attempt : Nat, redirects : Nat, curl : BOOLEAN]
    BY <1>0 DEF AttemptShaped, AttemptRecord
  <2>4. target \in Urls /\ target \in Nat
    BY <1>0 DEF FallbackGiven
  <2>5. /\ at' \in [url : Nat, hop : Nat, attempt : Nat, redirects : Nat, curl : BOOLEAN]
        /\ at'.url = at.url /\ at'.hop = target /\ at'.attempt = at.attempt
        /\ at'.redirects = at.redirects + 1 /\ at'.curl = at.curl
    <3> DEFINE b == [at EXCEPT !.hop = target]
    <3>1. /\ b \in AttemptRecord /\ b.url = at.url /\ b.hop = target /\ b.attempt = at.attempt
          /\ b.redirects = at.redirects /\ b.curl = at.curl
      BY <2>3, <2>4 DEF AttemptRecord
    <3>2. at' = [b EXCEPT !.redirects = b.redirects + 1]
      BY <2>1, <3>1
    <3> HIDE DEF b
    <3> QED BY <3>1, <3>2 DEF AttemptRecord
  <2>6. /\ at.url \in seen /\ at.attempt \in 1..Attempts /\ at.redirects \in 0..MaxRedirects /\ at.curl \in BOOLEAN
    BY <1>0, <2>2 DEF FrontierTypeOK
  <2>7. Attempts' = Attempts /\ at'.redirects \in 0..MaxRedirects
    BY <1>0, <2>2, <2>5, <2>6 DEF Attempts, FallbackGiven
  <2> QED BY <1>0, <2>2, <2>4, <2>5, <2>6, <2>7, RequestKeeps DEF FrontierTypeOK, AttemptShaped, AttemptRecord
<1>7. CASE RefuseRedirect
  <2>1. /\ Busy /\ failed' = failed + 1 /\ EndOf(at.url) /\ Request
        /\ UNCHANGED <<backend, queue, seen, seeds, found, records, exit>>
    BY <1>7 DEF RefuseRedirect
  <2> QED BY <1>0, <2>1, UrlsTried, EndTyped, RequestKeeps DEF FrontierTypeOK
<1>8. CASE AbortCapture
  <2>1. /\ Busy /\ at' = Nothing /\ exit' = "failed" /\ Request
        /\ records' = records \/ records' = Append(records, [url |-> at.hop, html |-> TRUE])
        /\ UNCHANGED <<backend, queue, seen, seeds, tried, found, failed>>
    BY <1>8 DEF AbortCapture
  <2>2. [url |-> at.hop, html |-> TRUE] \in [url : Urls, html : BOOLEAN]
    BY <1>0, <2>1 DEF FrontierTypeOK
  <2>3. records' \in Seq([url : Urls, html : BOOLEAN])
    <3> DEFINE page == [url |-> at.hop, html |-> TRUE]
    <3>1. page \in [url : Urls, html : BOOLEAN] /\ (records' = records \/ records' = Append(records, page))
      BY <2>1, <2>2
    <3> HIDE DEF page
    <3>2. Append(records, page) \in Seq([url : Urls, html : BOOLEAN])
      BY <1>0, <3>1, AppendHas
    <3> QED BY <1>0, <3>1, <3>2
  <2> QED BY <1>0, <2>1, <2>3, EndTyped, RequestKeeps DEF FrontierTypeOK
<1>9. CASE Visit
  <2>1. PICK reached \in Urls, html \in BOOLEAN :
          /\ found' = Append(found, [url |-> reached, html |-> html])
          /\ IF html THEN Enqueue(reached) ELSE UNCHANGED <<queue, seen>>
    BY <1>9 DEF Visit
  <2>2. Busy /\ EndOf(at.url) /\ Request /\ UNCHANGED <<backend, seeds, records, failed, exit>>
    BY <1>9 DEF Visit
  <2>3. /\ queue' \in Seq(InScope) /\ seen' \subseteq InScope /\ seen \subseteq seen'
        /\ ToSet(queue') \subseteq seen'
    BY <1>0, <2>1, EnqueueKeeps
  <2>4. found' \in Seq([url : Urls, html : BOOLEAN])
    BY <1>0, <2>1, AppendHas
  <2> QED BY <1>0, <2>2, <2>3, <2>4, UrlsTried, EndTyped, RequestKeeps DEF FrontierTypeOK
<1>10. CASE VisitFails
  <2>1. UNCHANGED <<queue, seen>> \/ \E reached \in Urls : Enqueue(reached)
    BY <1>10 DEF VisitFails
  <2>2. /\ Busy /\ failed' = failed + 1 /\ EndOf(at.url) /\ Request
        /\ UNCHANGED <<backend, seeds, found, records, exit>>
    BY <1>10 DEF VisitFails
  <2>3. /\ queue' \in Seq(InScope) /\ seen' \subseteq InScope /\ seen \subseteq seen'
        /\ ToSet(queue') \subseteq seen'
    BY <1>0, <2>1, EnqueueKeeps
  <2> QED BY <1>0, <2>2, <2>3, UrlsTried, EndTyped, RequestKeeps DEF FrontierTypeOK
<1>11. CASE ContainerDies
  <2>1. /\ exit' = "failed" /\ at' = Nothing
        /\ UNCHANGED <<backend, queue, seen, seeds, tried, requests, found, records, failed>>
    BY <1>11 DEF ContainerDies
  <2> QED BY <1>0, <2>1, EndTyped DEF FrontierTypeOK
<1>12. CASE WriteRecord
  <2>1. /\ found # <<>> /\ found' = Tail(found)
        /\ \/ records' = Append(records, Head(found)) /\ failed' = failed
           \/ failed' = failed + 1 /\ records' = records
        /\ UNCHANGED <<backend, queue, seen, seeds, at, tried, requests, exit>>
    BY <1>12 DEF WriteRecord
  <2>2. /\ found' \in Seq([url : Urls, html : BOOLEAN])
        /\ records' \in Seq([url : Urls, html : BOOLEAN])
    <3> DEFINE page == Head(found)
    <3>1. page \in [url : Urls, html : BOOLEAN] /\ Tail(found) \in Seq([url : Urls, html : BOOLEAN])
      BY <1>0, <2>1, TailHas
    <3>2. records' = records \/ records' = Append(records, page)
      BY <2>1
    <3> HIDE DEF page
    <3>3. Append(records, page) \in Seq([url : Urls, html : BOOLEAN])
      BY <1>0, <3>1, AppendHas
    <3> QED BY <1>0, <2>1, <3>1, <3>2, <3>3
  <2>3. Busy' = Busy /\ Attempts' = Attempts /\ failed' \in Nat
    BY <1>0, <2>1 DEF Busy, Attempts
  <2> QED BY <1>0, <2>1, <2>2, <2>3 DEF FrontierTypeOK, AttemptShaped
<1>13. CASE Done \/ WriteManifest \/ WriteFails \/ Written \/ UNCHANGED frontierVars
  <2>1. /\ UNCHANGED <<backend, queue, seen, seeds, at, tried, requests, found, records, failed>>
        /\ exit' \in {"writing", "ok", "failed"} \cup {exit}
    BY <1>13 DEF Done, WriteManifest, WriteFails, Written, frontierVars
  <2>2. Busy' = Busy /\ Attempts' = Attempts /\ exit \in {"running", "writing", "ok", "failed"}
    BY <1>0, <2>1 DEF Busy, Attempts, FrontierTypeOK
  <2> QED BY <1>0, <2>1, <2>2 DEF FrontierTypeOK, AttemptShaped
<1> QED
  BY <1>1, <1>2, <1>3, <1>4, <1>5, <1>6, <1>7, <1>8, <1>9, <1>10, <1>11, <1>12, <1>13 DEF FrontierNext

-----------------------------------------------------------------------------
(* Nothing is forgotten.                                                   *)

\* Records whose links were seen: one more of them, more seen, one fewer.
LEMMA PagesAppended ==
    ASSUME NEW T, NEW rs \in Seq(T), NEW page \in T, NEW S, PagesSeen(rs, S),
           page.html => Links[page.url] \cap InScope \subseteq S
    PROVE  PagesSeen(Append(rs, page), S)
<1>1. \A i \in DOMAIN Append(rs, page) :
         (i \in DOMAIN rs /\ Append(rs, page)[i] = rs[i]) \/ Append(rs, page)[i] = page
  BY AppendHas
<1> QED BY <1>1 DEF PagesSeen

LEMMA PagesLater ==
    ASSUME NEW rs, NEW S, NEW T, S \subseteq T, PagesSeen(rs, S) PROVE PagesSeen(rs, T)
  BY DEF PagesSeen

LEMMA PagesTail ==
    ASSUME NEW T, NEW rs \in Seq(T), NEW S, PagesSeen(rs, S), rs # <<>>
    PROVE  /\ PagesSeen(Tail(rs), S)
           /\ Head(rs).html => Links[Head(rs).url] \cap InScope \subseteq S
<1>1. /\ Tail(rs) \in Seq(T) /\ Len(Tail(rs)) = Len(rs) - 1
      /\ \A i \in 1..Len(Tail(rs)) : Tail(rs)[i] = rs[i + 1]
  BY HeadTailProperties
<1>2. /\ Len(rs) \in Nat \ {0} /\ DOMAIN rs = 1..Len(rs) /\ DOMAIN Tail(rs) = 1..Len(Tail(rs))
      /\ Head(rs) = rs[1]
  BY <1>1, LenProperties, EmptySeq
<1> DEFINE t == Tail(rs)
<1> HIDE DEF t
<1>3. \A i \in DOMAIN t : i + 1 \in DOMAIN rs /\ t[i] = rs[i + 1]
  BY <1>1, <1>2 DEF t
<1>4. PagesSeen(t, S)
  BY <1>3 DEF PagesSeen
<1>5. 1 \in DOMAIN rs
  BY <1>2
<1> QED BY <1>2, <1>4, <1>5 DEF PagesSeen, t

\* What a step that ends a capture and queues the links of at most one page does.
\* A URL that leaves the hand has been tried.
LEMMA EndForgetsNothing ==
    ASSUME FrontierInv, Busy, EndOf(at.url), exit' = exit, NEW u \in Urls,
           Enqueue(u) \/ UNCHANGED <<queue, seen>>,
           PagesSeen(records', seen'), PagesSeen(found', seen')
    PROVE  NothingForgotten'
<1>1. FrontierTypeOK /\ NothingForgotten
  BY DEF FrontierInv
<1>2. SUFFICES ASSUME exit # "failed"
               PROVE  /\ seen' \subseteq tried' \cup ToSet(queue')
                      /\ exit = "running"
  BY <1>1 DEF NothingForgotten
<1>3. exit = "running" /\ seen \subseteq tried \cup ToSet(queue) \cup {at.url}
  BY <1>1, <1>2 DEF NothingForgotten, Current
<1>4. tried' = tried \cup {at.url}
  BY DEF EndOf
<1>5. CASE Enqueue(u)
  <2>1. seen' = seen \cup NewLinks(u) /\ ToSet(queue') = ToSet(queue) \cup NewLinks(u)
    BY <1>1, <1>5, EnqueueKeeps
  <2> QED BY <1>3, <1>4, <2>1
<1>6. CASE UNCHANGED <<queue, seen>>
  BY <1>3, <1>4, <1>6
<1> QED BY <1>5, <1>6

\* Each step of either backend forgets nothing, unless it fails.
LEMMA ForgottenStep == ASSUME FrontierInv, [FrontierNext]_frontierVars PROVE NothingForgotten'
<1> SUFFICES ASSUME exit' # "failed" PROVE NothingForgotten'
  BY DEF NothingForgotten
<1>0. /\ FrontierTypeOK /\ NothingForgotten /\ FallbackGiven
      /\ found \in Seq([url : Urls, html : BOOLEAN]) /\ records \in Seq([url : Urls, html : BOOLEAN])
      /\ Busy => at.hop \in Urls
  BY Settings DEF FrontierInv, FrontierTypeOK
<1> USE DEF Fetching, Visiting, Running
<1>1. CASE Take
  <2>1. /\ exit = "running" /\ queue # <<>> /\ ~Busy /\ queue' = Tail(queue)
        /\ at' = [url |-> Head(queue), hop |-> Head(queue), attempt |-> 1, redirects |-> 0, curl |-> FALSE]
        /\ UNCHANGED <<backend, seen, seeds, tried, found, records, failed, exit>>
    BY <1>1 DEF Take
  <2>2. ToSet(queue) = {Head(queue)} \cup ToSet(Tail(queue))
    BY <1>0, <2>1, TailHas DEF FrontierTypeOK
  <2>3. Busy' /\ at'.url = Head(queue)
    <3>1. at'.attempt = 1 /\ Nothing.attempt = 0 /\ at'.url = Head(queue)
      BY <2>1 DEF Nothing
    <3> QED BY <3>1 DEF Busy
  <2>4. seen \subseteq tried \cup ToSet(queue) /\ PagesSeen(records, seen) /\ PagesSeen(found, seen)
    BY <1>0, <2>1 DEF NothingForgotten, Current
  <2> QED BY <2>1, <2>2, <2>3, <2>4 DEF NothingForgotten, Current
<1>2. CASE Respond
  <2>1. PICK html \in BOOLEAN :
          /\ records' = Append(records, [url |-> at.hop, html |-> html])
          /\ IF html THEN Enqueue(at.hop) ELSE UNCHANGED <<queue, seen>>
    BY <1>2 DEF Respond
  <2>2. Busy /\ EndOf(at.url) /\ UNCHANGED <<found, exit>> /\ at.hop \in Urls
    BY <1>0, <1>2 DEF Respond
  <2>3. seen \subseteq seen' /\ (html => Links[at.hop] \cap InScope \subseteq seen')
    BY <1>0, <2>1, <2>2, EnqueueKeeps
  <2>4. PagesSeen(records, seen') /\ PagesSeen(found', seen')
    BY <1>0, <2>2, <2>3, PagesLater DEF NothingForgotten
  <2> DEFINE page == [url |-> at.hop, html |-> html]
  <2>5. /\ page \in [url : Urls, html : BOOLEAN] /\ records' = Append(records, page)
        /\ page.html => Links[page.url] \cap InScope \subseteq seen'
    BY <2>1, <2>2, <2>3
  <2> HIDE DEF page
  <2>6. PagesSeen(records', seen')
    BY <1>0, <2>4, <2>5, PagesAppended
  <2> QED BY <2>1, <2>2, <2>4, <2>6, EndForgetsNothing
<1>3. CASE FetchAgain \/ SwitchToCurl \/ FollowRedirect
  <2>1. Busy /\ UNCHANGED <<queue, seen, tried, found, records, exit>>
    BY <1>3 DEF FetchAgain, SwitchToCurl, FollowRedirect
  <2>2. at'.url = at.url /\ at' # Nothing
    <3>0. at \in AttemptRecord /\ at.attempt \in Nat \ {0}
      <4>1. at \in AttemptRecord /\ at.attempt \in 1..Attempts
        BY <2>1 DEF FrontierInv, AttemptShaped, FrontierTypeOK
      <4> QED BY <4>1 DEF AttemptRecord
    <3>1. CASE FetchAgain
      <4>1. PICK h : at' = [at EXCEPT !.attempt = @ + 1, !.hop = h]
        BY <3>1 DEF FetchAgain
      <4>2. at'.url = at.url /\ at'.attempt = at.attempt + 1
        BY <3>0, <4>1 DEF AttemptRecord
      <4>3. Nothing.attempt = 0
        BY DEF Nothing
      <4> QED BY <3>0, <4>2, <4>3
    <3>2. CASE SwitchToCurl
      <4>1. at'.url = at.url /\ at'.attempt = 1
        BY <3>2 DEF SwitchToCurl
      <4>2. Nothing.attempt = 0
        BY DEF Nothing
      <4> QED BY <4>1, <4>2
    <3>3. CASE FollowRedirect
      <4>1. PICK h : at' = [at EXCEPT !.hop = h, !.redirects = @ + 1]
        BY <3>3 DEF FollowRedirect
      <4>2. at'.url = at.url /\ at'.attempt = at.attempt
        BY <3>0, <4>1 DEF AttemptRecord
      <4>3. Nothing.attempt = 0
        BY DEF Nothing
      <4> QED BY <3>0, <4>2, <4>3
    <3> QED BY <1>3, <3>1, <3>2, <3>3
  <2>3. Busy' /\ Current' = Current
    BY <2>1, <2>2 DEF Busy, Current
  <2> QED BY <1>0, <2>1, <2>3 DEF NothingForgotten
<1>4. CASE GiveUpUrl \/ RefuseRedirect
  <2>1. Busy /\ EndOf(at.url) /\ UNCHANGED <<queue, seen, found, records, exit>> /\ at.hop \in Urls
    BY <1>0, <1>4 DEF GiveUpUrl, RefuseRedirect
  <2>2. PagesSeen(records', seen') /\ PagesSeen(found', seen')
    BY <1>0, <2>1 DEF NothingForgotten
  <2> QED BY <2>1, <2>2, EndForgetsNothing
<1>5. CASE Visit
  <2>1. PICK reached \in Urls, html \in BOOLEAN :
          /\ found' = Append(found, [url |-> reached, html |-> html])
          /\ IF html THEN Enqueue(reached) ELSE UNCHANGED <<queue, seen>>
    BY <1>5 DEF Visit
  <2>2. Busy /\ EndOf(at.url) /\ UNCHANGED <<records, exit>>
    BY <1>5 DEF Visit
  <2>3. seen \subseteq seen' /\ (html => Links[reached] \cap InScope \subseteq seen')
    BY <1>0, <2>1, EnqueueKeeps
  <2>4. PagesSeen(found, seen') /\ PagesSeen(records', seen')
    BY <1>0, <2>2, <2>3, PagesLater DEF NothingForgotten
  <2> DEFINE page == [url |-> reached, html |-> html]
  <2>5. /\ page \in [url : Urls, html : BOOLEAN] /\ found' = Append(found, page)
        /\ page.html => Links[page.url] \cap InScope \subseteq seen'
    BY <2>1, <2>3
  <2> HIDE DEF page
  <2>6. PagesSeen(found', seen')
    BY <1>0, <2>4, <2>5, PagesAppended
  <2> QED BY <2>1, <2>2, <2>4, <2>6, EndForgetsNothing
<1>6. CASE VisitFails
  <2>1. PICK reached \in Urls : UNCHANGED <<queue, seen>> \/ Enqueue(reached)
    <3>1. Busy => at.hop \in Urls
      BY <1>0
    <3> QED BY <1>6, <3>1 DEF VisitFails
  <2>2. Busy /\ EndOf(at.url) /\ UNCHANGED <<found, records, exit>>
    BY <1>6 DEF VisitFails
  <2>3. seen \subseteq seen'
    BY <1>0, <2>1, EnqueueKeeps
  <2>4. PagesSeen(records', seen') /\ PagesSeen(found', seen')
    BY <1>0, <2>2, <2>3, PagesLater DEF NothingForgotten
  <2> QED BY <2>1, <2>2, <2>4, EndForgetsNothing
<1>7. CASE Done \/ WriteManifest
  <2>1. /\ exit = "running" /\ ~Busy /\ queue = <<>>
        /\ UNCHANGED <<queue, seen, at, tried, found, records>>
        /\ exit' = "ok" => HasHtml(records)
    BY <1>7 DEF Done, WriteManifest
  <2>2. Busy' = Busy /\ Current' = Current
    BY <2>1 DEF Busy, Current
  <2> QED BY <1>0, <2>1, <2>2 DEF NothingForgotten
<1>8. CASE WriteRecord
  <2>1. /\ found # <<>> /\ found' = Tail(found) /\ exit = "writing"
        /\ records' = Append(records, Head(found)) \/ records' = records
        /\ UNCHANGED <<queue, seen, at, tried, exit>>
    BY <1>8 DEF WriteRecord
  <2>2. PagesSeen(records, seen) /\ PagesSeen(found, seen)
    BY <1>0, <2>1 DEF NothingForgotten
  <2>3. /\ PagesSeen(Tail(found), seen)
        /\ Head(found).html => Links[Head(found).url] \cap InScope \subseteq seen
    BY <1>0, <2>1, <2>2, PagesTail
  <2>4. PagesSeen(records', seen)
    <3>1. Head(found) \in [url : Urls, html : BOOLEAN]
      BY <1>0, <2>1, TailHas
    <3> DEFINE page == Head(found)
    <3> HIDE DEF page
    <3>2. PagesSeen(Append(records, page), seen)
      BY <1>0, <2>2, <2>3, <3>1, PagesAppended DEF page
    <3> QED BY <2>1, <2>2, <3>2 DEF page
  <2>5. Busy' = Busy /\ Current' = Current
    BY <2>1 DEF Busy, Current
  <2> QED BY <1>0, <2>1, <2>3, <2>4, <2>5 DEF NothingForgotten
<1>9. CASE Written
  <2>1. /\ exit = "writing" /\ exit' = "ok" /\ HasHtml(records)
        /\ UNCHANGED <<queue, seen, at, tried, found, records>>
    BY <1>9 DEF Written
  <2>2. Busy' = Busy /\ Current' = Current
    BY <2>1 DEF Busy, Current
  <2> QED BY <1>0, <2>1, <2>2 DEF NothingForgotten
<1>10. CASE UNCHANGED frontierVars
  <2>1. UNCHANGED <<queue, seen, at, tried, found, records, exit>>
    BY <1>10 DEF frontierVars
  <2>2. Busy' = Busy /\ Current' = Current
    BY <2>1 DEF Busy, Current
  <2> QED BY <1>0, <2>1, <2>2 DEF NothingForgotten
<1>11. ~(AbortCapture \/ ContainerDies \/ WriteFails)
  BY DEF AbortCapture, ContainerDies, WriteFails
<1> QED BY <1>1, <1>2, <1>3, <1>4, <1>5, <1>6, <1>7, <1>8, <1>9, <1>10, <1>11 DEF FrontierNext

-----------------------------------------------------------------------------
(* The requests of http_warc.                                              *)

\* What the invariant says while a URL is in hand.
LEMMA CountedNow ==
    ASSUME FrontierInv, ~Browser, Busy
    PROVE  /\ at.url \in seen /\ at.url \in InScope /\ at.hop \in InScope
           /\ at \in AttemptRecord /\ at.attempt \in 1..Attempts /\ at.redirects \in 0..MaxRedirects
           /\ at.curl => at.url \in seeds
           /\ requests \in Nat
           /\ requests <= (IF at.curl THEN SeedAttempts + MaxRedirects ELSE 0) + (at.attempt - 1) + at.redirects
<1>1. at.url \in seen /\ seen \subseteq InScope /\ at.attempt \in 1..Attempts /\ at.redirects \in 0..MaxRedirects
  BY DEF FrontierInv, FrontierTypeOK
<1>2. requests \in Nat
  <2>1. RequestBound \in Nat /\ requests \in 0..RequestBound + 1
    BY Settings DEF FrontierInv, FrontierTypeOK, RequestBound, FallbackGiven
  <2> HIDE DEF RequestBound
  <2> QED BY <2>1
<1> QED BY <1>1, <1>2 DEF FrontierInv, RequestsCounted, AttemptShaped

\* A request is an attempt begun or a redirect followed.
LEMMA CountedRequestsStep == ASSUME FrontierInv, [FrontierNext]_frontierVars PROVE RequestsCounted'
<1> SUFFICES ASSUME ~Browser', Busy' PROVE RequestsCounted'
  BY DEF RequestsCounted
<1>0. FrontierTypeOK /\ FallbackGiven /\ (Request => requests' <= requests + 1)
  BY Settings, RequestKeeps DEF FrontierInv
<1> USE DEF Fetching, Running
<1>1. CASE Take
  <2>1. /\ queue # <<>> /\ requests' = 0
        /\ at' = [url |-> Head(queue), hop |-> Head(queue), attempt |-> 1, redirects |-> 0, curl |-> FALSE]
    BY <1>1 DEF Take
  <2>2. Head(queue) \in InScope
    BY <1>0, <2>1, TailHas DEF FrontierTypeOK
  <2> QED BY <2>1, <2>2 DEF RequestsCounted
<1>2. CASE FetchAgain
  <2> DEFINE h == IF at.curl THEN at.hop ELSE at.url
             b == [at EXCEPT !.attempt = at.attempt + 1]
  <2>1. /\ Busy /\ ~Browser /\ Request /\ at' = [b EXCEPT !.hop = h] /\ UNCHANGED seeds
    BY <1>2 DEF FetchAgain
  <2>2. /\ b.url = at.url /\ b.attempt = at.attempt + 1 /\ b.redirects = at.redirects
        /\ b.curl = at.curl /\ b \in AttemptRecord
    BY <2>1, CountedNow DEF AttemptRecord
  <2>3. h \in InScope
    BY <2>1, CountedNow
  <2> HIDE DEF b, h
  <2>4. at'.url = at.url /\ at'.hop = h /\ at'.attempt = at.attempt + 1 /\ at'.redirects = at.redirects
        /\ at'.curl = at.curl
    BY <2>1, <2>2 DEF AttemptRecord
  <2>5. requests' <= requests + 1 /\ requests' \in Nat
    <3>1. RequestBound \in Nat
      BY <1>0 DEF RequestBound, FallbackGiven
    <3>2. requests' \in 0..RequestBound + 1 /\ requests' <= requests + 1
      BY <1>0, <2>1, RequestKeeps
    <3> HIDE DEF RequestBound
    <3> QED BY <3>1, <3>2
  <2>6. at.attempt \in Nat /\ at.redirects \in Nat /\ MaxRedirects \in Nat /\ SeedAttempts \in Nat
    BY <1>0, <2>1, CountedNow DEF AttemptRecord, FallbackGiven
  <2>7. requests' <= (IF at.curl THEN SeedAttempts + MaxRedirects ELSE 0) + at.attempt + at.redirects
    BY <2>1, <2>5, <2>6, CountedNow
  <2>8. at'.attempt - 1 = at.attempt
    BY <2>4, <2>6
  <2>9. requests' <= (IF at'.curl THEN SeedAttempts + MaxRedirects ELSE 0) + (at'.attempt - 1) + at'.redirects
    BY <2>4, <2>7, <2>8
  <2>10. at'.curl => at'.url \in seeds'
    BY <2>1, <2>4, CountedNow
  <2> QED BY <2>3, <2>4, <2>9, <2>10 DEF RequestsCounted
<1>3. CASE SwitchToCurl
  <2>1. /\ Busy /\ ~Browser /\ Request /\ at.attempt = Attempts /\ ~at.curl /\ at.url \in seeds
        /\ at' = [url |-> at.url, hop |-> at.url, attempt |-> 1, redirects |-> 0, curl |-> TRUE]
        /\ UNCHANGED seeds
    BY <1>3 DEF SwitchToCurl
  <2>2. /\ at'.url = at.url /\ at'.hop = at.url /\ at'.attempt = 1 /\ at'.redirects = 0 /\ at'.curl = TRUE
        /\ at.attempt = SeedAttempts
    BY <2>1 DEF Attempts
  <2>3. requests' <= requests + 1 /\ requests' \in Nat
    <3>1. RequestBound \in Nat
      BY <1>0 DEF RequestBound, FallbackGiven
    <3>2. requests' \in 0..RequestBound + 1 /\ requests' <= requests + 1
      BY <1>0, <2>1, RequestKeeps
    <3> HIDE DEF RequestBound
    <3> QED BY <3>1, <3>2
  <2>4. /\ requests \in Nat /\ requests <= 0 + (at.attempt - 1) + at.redirects /\ at.redirects \in 0..MaxRedirects
        /\ MaxRedirects \in Nat /\ SeedAttempts \in Nat
    BY <1>0, <2>1, CountedNow DEF FallbackGiven
  <2>5. requests' <= SeedAttempts + MaxRedirects
    BY <2>2, <2>3, <2>4
  <2>6. at'.hop \in InScope
    BY <2>1, <2>2, CountedNow
  <2>7. requests' <= (IF at'.curl THEN SeedAttempts + MaxRedirects ELSE 0) + (at'.attempt - 1) + at'.redirects
    BY <2>2, <2>4, <2>5
  <2> QED BY <2>1, <2>2, <2>6, <2>7 DEF RequestsCounted
<1>4. CASE FollowRedirect
  <2>1. PICK target \in InScope : at' = [at EXCEPT !.hop = target, !.redirects = @ + 1]
    BY <1>4 DEF FollowRedirect
  <2> DEFINE b == [at EXCEPT !.hop = target]
  <2>2. Busy /\ ~Browser /\ Request /\ UNCHANGED seeds
    BY <1>4 DEF FollowRedirect
  <2>3. /\ b.url = at.url /\ b.hop = target /\ b.attempt = at.attempt /\ b.redirects = at.redirects
        /\ b.curl = at.curl /\ DOMAIN b = {"url", "hop", "attempt", "redirects", "curl"}
    BY <2>2, CountedNow DEF AttemptRecord
  <2>4. at' = [b EXCEPT !.redirects = b.redirects + 1]
    BY <2>1, <2>3
  <2> HIDE DEF b
  <2>5. at'.url = at.url /\ at'.hop = target /\ at'.attempt = at.attempt
        /\ at'.redirects = at.redirects + 1 /\ at'.curl = at.curl
    BY <2>3, <2>4
  <2>6. requests' <= requests + 1 /\ requests' \in Nat
    <3>1. RequestBound \in Nat
      BY <1>0 DEF RequestBound, FallbackGiven
    <3>2. requests' \in 0..RequestBound + 1 /\ requests' <= requests + 1
      BY <1>0, <2>2, RequestKeeps
    <3> HIDE DEF RequestBound
    <3> QED BY <3>1, <3>2
  <2>7. at.attempt \in Nat /\ at.redirects \in Nat /\ MaxRedirects \in Nat /\ SeedAttempts \in Nat
    BY <1>0, <2>2, CountedNow DEF AttemptRecord, FallbackGiven
  <2>8. requests' <= (IF at.curl THEN SeedAttempts + MaxRedirects ELSE 0) + (at.attempt - 1) + (at.redirects + 1)
    BY <2>2, <2>6, <2>7, CountedNow
  <2>9. requests' <= (IF at'.curl THEN SeedAttempts + MaxRedirects ELSE 0) + (at'.attempt - 1) + at'.redirects
    BY <2>5, <2>8
  <2>10. at'.curl => at'.url \in seeds'
    BY <2>2, <2>5, CountedNow
  <2> QED BY <2>5, <2>9, <2>10 DEF RequestsCounted
<1>5. CASE UNCHANGED <<backend, at, seeds, requests>>
  <2>1. Busy /\ ~Browser
    BY <1>5 DEF Busy, Browser
  <2> QED BY <1>5, <2>1 DEF FrontierInv, RequestsCounted
<1>6. \/ Take \/ FetchAgain \/ SwitchToCurl \/ FollowRedirect
      \/ UNCHANGED <<backend, at, seeds, requests>>
  <2>1. at' # Nothing
    BY DEF Busy
  <2> QED BY <2>1 DEF FrontierNext, Respond, GiveUpUrl, RefuseRedirect, AbortCapture, Done, Visit, VisitFails, ContainerDies,
                      WriteManifest, WriteRecord, WriteFails, Written, EndOf, frontierVars
<1> QED BY <1>1, <1>2, <1>3, <1>4, <1>5, <1>6

-----------------------------------------------------------------------------
(* The theorems.                                                           *)

LEMMA FallbackHolds == FrontierSpec => []FrontierInv
<1>1. FrontierInv /\ [FrontierNext]_frontierVars => FrontierInv'
  <2> SUFFICES ASSUME FrontierInv, [FrontierNext]_frontierVars PROVE FrontierInv'
    OBVIOUS
  <2> QED BY FallbackTypeStep, ForgottenStep, CountedRequestsStep DEF FrontierInv
<1> QED BY InitHolds, <1>1, PTL DEF FrontierSpec

\* At the end the queue and the hand are empty: what was seen was tried.
LEMMA CompleteAtEnd == ASSUME FrontierInv PROVE CaptureComplete
<1> SUFFICES ASSUME exit = "ok"
             PROVE  /\ HasHtml(records) /\ seeds \subseteq tried
                    /\ \A i \in DOMAIN records :
                          records[i].html => Links[records[i].url] \cap InScope \subseteq tried
  BY DEF CaptureComplete
<1>1. /\ seen \subseteq tried \cup ToSet(queue) \cup Current /\ PagesSeen(records, seen)
      /\ ~Busy /\ queue = <<>> /\ HasHtml(records)
  BY DEF FrontierInv, NothingForgotten
<1>2. ToSet(<<>>) = {}
  BY DEF ToSet
<1>3. seen \subseteq tried /\ seeds \subseteq seen
  BY <1>1, <1>2 DEF Current, FrontierInv, FrontierTypeOK
<1> QED BY <1>1, <1>3 DEF PagesSeen

\* The attempts of both transports and their redirects add up to the bound.
LEMMA BoundedAlways == ASSUME FrontierInv PROVE RequestsBounded
<1> SUFFICES ASSUME ~Browser, Busy
             PROVE  /\ at.hop \in InScope
                    /\ requests <= IF at.url \in seeds THEN RequestBound ELSE DiscoveredAttempts + MaxRedirects
  BY DEF RequestsBounded
<1>1. /\ at.hop \in InScope /\ at.attempt \in 1..Attempts /\ at.redirects \in 0..MaxRedirects
      /\ at.curl => at.url \in seeds
      /\ requests \in Nat
      /\ requests <= (IF at.curl THEN SeedAttempts + MaxRedirects ELSE 0) + (at.attempt - 1) + at.redirects
  BY CountedNow
<1>2. /\ SeedAttempts \in Nat /\ DiscoveredAttempts \in Nat /\ CurlAttempts \in Nat /\ MaxRedirects \in Nat
  BY Settings DEF FallbackGiven
<1>3. CASE at.curl
  <2>1. at.attempt \in 1..CurlAttempts /\ at.url \in seeds
    BY <1>1, <1>3 DEF Attempts
  <2> QED BY <1>1, <1>2, <1>3, <2>1 DEF RequestBound
<1>4. CASE ~at.curl /\ at.url \in seeds
  <2>1. at.attempt \in 1..SeedAttempts
    BY <1>1, <1>4 DEF Attempts
  <2> QED BY <1>1, <1>2, <1>4, <2>1 DEF RequestBound
<1>5. CASE ~at.curl /\ at.url \notin seeds
  <2>1. at.attempt \in 1..DiscoveredAttempts
    BY <1>1, <1>5 DEF Attempts
  <2> QED BY <1>1, <1>2, <1>5, <2>1
<1> QED BY <1>3, <1>4, <1>5

\* The state is well formed, and what is queued or tried was seen and is in scope
\* (http_warc_backend.run_http_warc_capture, playwright_warc_capture.js).
THEOREM FallbackTypeCorrect == FrontierSpec => []FrontierTypeOK
<1>1. FrontierInv => FrontierTypeOK
  BY DEF FrontierInv
<1> QED BY <1>1, FallbackHolds, PTL

\* A capture that ends with exit code 0 has tried every seed in scope and every
\* link in scope of every HTML page in its WARC, for any graph of links.
THEOREM FallbackComplete == FrontierSpec => []CaptureComplete
<1>1. FrontierInv => CaptureComplete
  BY CompleteAtEnd
<1> QED BY <1>1, FallbackHolds, PTL

\* http_warc requests what is in scope, and no URL more often than its attempts and
\* redirects allow (_fetch_with_retries, _curl_fetch_with_retries).
THEOREM FallbackBounded == FrontierSpec => []RequestsBounded
<1>1. FrontierInv => RequestsBounded
  BY BoundedAlways
<1> QED BY <1>1, FallbackHolds, PTL
=============================================================================
