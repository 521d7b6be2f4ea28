-------------------------- MODULE WarcStoreProofs --------------------------
(***************************************************************************)
(* Theorems about the WARC files of one job, for any processes, commands    *)
(* and bounds.                                                              *)
(***************************************************************************)
EXTENDS WarcStore, TLAPS, WellFoundedInduction, FiniteSetTheorems

\* The assumptions, one constant at a time.
LEMMA Constants ==
    /\ DirBound \in Nat /\ NameBound \in Nat /\ CaptureBound \in Nat
    /\ CommandBound \in Nat /\ FaultBound \in Nat
    /\ Adopted \in Nat /\ Adopted <= DirBound /\ Adopted <= CaptureBound
    /\ Worker \notin Operators
BY BoundsAssumption, ProcsAssumption, AdoptedAssumption DEF Dirs

\* Temp directories and names in warcs/ are different paths.
LEMMA PathKinds ==
    /\ Dirs \subseteq Nat \ {0} /\ Names \subseteq Nat \ {0} /\ Paths \subseteq Nat \ {0}
    /\ Dirs \cap Names = {} /\ Dirs \cup Names = Paths
    /\ Nowhere = 0 /\ Nowhere \notin Paths
BY Constants DEF Dirs, Names, Paths, Nowhere

-----------------------------------------------------------------------------
(* The least path of a set, and the next free name.                        *)

\* sorted() has a first element.
LEMMA FirstInSet ==
    ASSUME NEW S, S \subseteq Nat, S # {}
    PROVE  First(S) \in S /\ \A q \in S : First(S) <= q
<1>1. PICK m \in S : \A q \in S : ~(<<q, m>> \in OpToRel(<, Nat))
    BY NatLessThanWellFounded, WFMin
<1>2. \A q \in S : ~(q < m)
    BY <1>1 DEF OpToRel
<1>3. \A q \in S : m <= q
    BY <1>2
<1> QED BY <1>3 DEF First

\* A number after the highest one in use.
LEMMA NextIsNumber ==
    ASSUME TypeOK
    PROVE  NextName \in Int /\ \A d \in Dirs : manifest[d] # Nowhere => manifest[d] < NextName
<1> DEFINE used == {n \in Names : HasData(n)} \cup ({manifest[d] : d \in Dirs} \ {Nowhere})
           top == DirBound + NameBound
           below == {top - n : n \in used}
<1>1. \A n \in used : n \in Names
    BY DEF TypeOK, Nowhere
<1>2. \A n \in Names : n \in Nat /\ top - n \in Nat
    BY Constants DEF Names
<1> HIDE DEF used
<1>3. ASSUME used # {}
      PROVE  \E n \in used : \A m \in used : m <= n
  <2>1. below \subseteq Nat /\ below # {}
      BY <1>1, <1>2, <1>3
  <2>2. PICK l \in below : \A k \in below : ~(<<k, l>> \in OpToRel(<, Nat))
      BY <2>1, NatLessThanWellFounded, WFMin
  <2>3. \A k \in below : ~(k < l)
      BY <2>1, <2>2 DEF OpToRel
  <2>4. PICK n \in used : l = top - n
      OBVIOUS
  <2>5. \A m \in used : m <= n
    <3> TAKE m \in used
    <3>1. top - m \in below
        OBVIOUS
    <3>2. ~(top - m < top - n)
        BY <2>3, <2>4, <3>1
    <3> QED BY <3>2, <1>1, <1>2, Constants
  <2> QED BY <2>5
<1>4. ASSUME used # {}
      PROVE  /\ (CHOOSE n \in used : \A m \in used : m <= n) \in Nat
             /\ \A m \in used : m <= CHOOSE n \in used : \A k \in used : k <= n
    BY <1>1, <1>2, <1>3, <1>4
<1>5. NextName = IF used = {} THEN DirBound + 1
                 ELSE 1 + CHOOSE n \in used : \A m \in used : m <= n
    BY DEF NextName, used
<1>6. NextName \in Int
    BY <1>4, <1>5, Constants
<1>7. \A m \in used : m < NextName
  <2> SUFFICES ASSUME NEW m \in used PROVE m < NextName
      OBVIOUS
  <2>1. m <= (CHOOSE n \in used : \A k \in used : k <= n) /\ m \in Nat
      BY <1>1, <1>2, <1>4
  <2> QED BY <1>4, <1>5, <2>1
<1>8. \A d \in Dirs : manifest[d] # Nowhere => manifest[d] \in used
    BY DEF used
<1> QED BY <1>6, <1>7, <1>8

-----------------------------------------------------------------------------
(* Type correctness.                                                       *)

\* The locals of a process.
Local ==
    [pc : {"idle", "link", "rewrite", "forget", "delete", "discover", "insert", "crawl", "render"},
     task : {"none", "index", "consolidate", "cleanup", "reset", "stale"},
     todo : SUBSET Dirs, map : [Dirs -> Names \cup {Nowhere}], next : Int,
     at : Paths \cup {Nowhere}, aim : SUBSET Paths, rewrite : BOOLEAN]

LEMMA RestTyped == Rest \in Local
BY PathKinds DEF Rest, Local, Nowhere

\* The sets that commands start from are sets of temp directories.
LEMMA TempSets ==
    ASSUME TypeOK
    PROVE  /\ TempDirs \subseteq Dirs /\ TempWarcs \subseteq Dirs /\ Tracked \subseteq Dirs
           /\ Discovered \subseteq Paths /\ Dirs \subseteq Paths
BY PathKinds DEF TempDirs, TempWarcs, Tracked, Discovered

LEMMA ConsolidatingTyped ==
    ASSUME TypeOK, NEW task \in {"index", "consolidate", "cleanup", "reset", "stale"},
           NEW sources \in SUBSET Dirs, NEW aim \in SUBSET Paths, NEW rewrite \in BOOLEAN
    PROVE  Consolidating(task, sources, aim, rewrite) \in Local
BY RestTyped, NextIsNumber DEF TypeOK, Consolidating, Local

\* The source and the stable name of a link.
LEMMA LinkTyped ==
    ASSUME TypeOK, NEW p \in Procs, Linking(p)
    PROVE  /\ Source(p) \in proc[p].todo /\ Source(p) \in Dirs /\ Dest(p) \in Names
           /\ proc[p] \in Local
<1>1. proc[p] \in Local
    BY DEF TypeOK, Local
<1>2. proc[p].todo \subseteq Dirs /\ proc[p].todo # {}
    BY <1>1 DEF Local, Linking
<1>3. proc[p].todo \subseteq Nat
    BY <1>2, PathKinds
<1> QED BY <1>1, <1>2, <1>3, FirstInSet DEF Source, Linking

LEMMA TypeInit == Init => TypeOK
<1> SUFFICES ASSUME Init PROVE TypeOK
    OBVIOUS
<1>1. born \in Seq(Dirs)
  <2>1. Cardinality(1..Adopted) \in Nat
      BY FS_Interval, Constants
  <2>2. born \in [1..Cardinality(1..Adopted) -> 1..Adopted]
      BY DEF Init, SetToSeqs
  <2>3. 1..Adopted \subseteq Dirs
      BY Constants DEF Dirs
  <2>4. born \in [1..Cardinality(1..Adopted) -> Dirs]
      BY <2>2, <2>3
  <2> QED BY <2>1, <2>4
<1>2. /\ node \in [Paths -> Paths \cup {Nowhere}]
      /\ file \in [Paths -> SUBSET Captures]
  <2>1. \A q \in Paths : q <= Adopted => {q} \subseteq Captures
      BY PathKinds, Constants DEF Captures
  <2> QED BY <2>1 DEF Init
<1>3. listed \subseteq Dirs
    BY Constants DEF Init, Dirs
<1>4. proc \in [Procs -> Local]
    BY RestTyped DEF Init
<1> QED BY <1>1, <1>2, <1>3, <1>4, Constants DEF Init, TypeOK, Local

\* A consolidation keeps its locals well formed.
LEMMA TypeLink ==
    ASSUME TypeOK, NEW p \in Procs, Reuse(p) \/ Link(p) \/ LinkFails(p) \/ Dump(p)
    PROVE  TypeOK'
<1>1. proc \in [Procs -> Local] /\ proc[p] \in Local
    BY DEF TypeOK, Local
<1>2. CASE Reuse(p)
  <2>1. [proc[p] EXCEPT !.todo = @ \ {Source(p)}] \in Local
      BY <1>1 DEF Local
  <2>2. proc' = [proc EXCEPT ![p] = [proc[p] EXCEPT !.todo = @ \ {Source(p)}]]
      BY <1>2 DEF Reuse
  <2>3. proc' \in [Procs -> Local]
      BY <1>1, <2>1, <2>2
  <2> QED BY <1>2, <2>3 DEF Reuse, TypeOK, Local, disk, db, bounds, asked
<1>3. CASE Link(p)
  <2> DEFINE d == Source(p)
             rest == proc[p].todo \ {d}
             map == [proc[p].map EXCEPT ![d] = Dest(p)]
             next == IF Dest(p) = proc[p].next THEN proc[p].next + 1 ELSE proc[p].next
             r == [proc[p] EXCEPT !.todo = rest, !.map = map, !.next = next]
  <2>1. d \in Dirs /\ Dest(p) \in Names /\ node[d] \in Paths
      BY <1>3, LinkTyped, PathKinds DEF Link, TypeOK, Exists
  <2>2. rest \in SUBSET Dirs /\ map \in [Dirs -> Names \cup {Nowhere}] /\ next \in Int
      BY <1>1, <2>1 DEF Local
  <2>3. r \in Local
    <3> HIDE DEF rest, map, next
    <3> QED BY <1>1, <2>2 DEF Local
  <2>4. proc' = [proc EXCEPT ![p] = r]
      BY <1>3 DEF Link
  <2>5. proc' \in [Procs -> Local]
      BY <1>1, <2>3, <2>4
  <2>6. node' \in [Paths -> Paths \cup {Nowhere}]
      BY <1>3, <2>1, PathKinds DEF Link, TypeOK
  <2> QED BY <1>3, <2>5, <2>6 DEF Link, TypeOK, Local, db, bounds, asked
<1>4. CASE LinkFails(p)
  <2>1. [Rest EXCEPT !.pc = "discover"] \in Local
      BY RestTyped DEF Local
  <2>2. proc' \in [Procs -> Local]
      BY <1>4, <2>1, RestTyped DEF LinkFails, Abandon, TypeOK, Local
  <2>3. faults' \in 0..FaultBound
      BY <1>4, Constants DEF LinkFails, Fault, TypeOK
  <2> QED BY <1>4, <2>2, <2>3 DEF LinkFails, Abandon, TypeOK, Local, disk, asked
<1>5. CASE Dump(p)
  <2>1. [Rest EXCEPT !.pc = "discover"] \in Local
      BY RestTyped DEF Local
  <2>2. \A l \in {"rewrite", "forget", "delete"} : [proc[p] EXCEPT !.pc = l] \in Local
      BY <1>1 DEF Local
  <2>3. \E r \in Local : proc' = [proc EXCEPT ![p] = r]
      BY <1>5, <2>1, <2>2, RestTyped DEF Dump
  <2>4. proc' \in [Procs -> Local]
      BY <1>1, <2>3
  <2>5. manifest' \in [Dirs -> Names \cup {Nowhere}]
      BY <1>1, <1>5 DEF Dump, Local
  <2> QED BY <1>5, <2>4, <2>5 DEF Dump, TypeOK, Local, db, bounds, asked
<1> QED BY <1>2, <1>3, <1>4, <1>5

\* So do rewriting and deleting.
LEMMA TypeDelete ==
    ASSUME TypeOK, NEW p \in Procs,
           Rewrite(p) \/ Forget(p) \/ Delete(p) \/ DeleteFails(p) \/ Deleted(p)
    PROVE  TypeOK'
<1>0. proc \in [Procs -> Local]
    BY DEF TypeOK, Local
<1>1. proc[p] \in Local
    BY DEF TypeOK, Local
<1>2. \A l \in {"forget", "delete"} : [proc[p] EXCEPT !.pc = l] \in Local
    BY <1>1 DEF Local
<1>3. \A d : [proc[p] EXCEPT !.aim = proc[p].aim \ {d}] \in Local
    BY <1>1 DEF Local
<1>4. CASE Rewrite(p)
  <2>1. proc' \in [Procs -> Local]
      BY <1>0, <1>2, <1>4, RestTyped DEF Rewrite, Return, Goto
  <2>2. \A r \in rows : /\ r[1] \in Captures /\ r[2] \in Paths
                        /\ r[2] \in Dirs => manifest[r[2]] \in Names \cup {Nowhere}
      BY DEF TypeOK
  <2>3. Mapped(rows) \subseteq Captures \X Paths
    <3> SUFFICES ASSUME NEW m \in Mapped(rows) PROVE m \in Captures \X Paths
        OBVIOUS
    <3>1. PICK r \in rows :
              m = <<r[1], IF r[2] \in Dirs /\ manifest[r[2]] # Nowhere THEN manifest[r[2]] ELSE r[2]>>
        BY DEF Mapped
    <3> DEFINE q == IF r[2] \in Dirs /\ manifest[r[2]] # Nowhere THEN manifest[r[2]] ELSE r[2]
    <3>2. r[1] \in Captures /\ r[2] \in Paths
        BY <2>2
    <3>3. r[2] \in Dirs /\ manifest[r[2]] # Nowhere => manifest[r[2]] \in Names
        BY <2>2
    <3>4. q \in Paths
        BY <3>2, <3>3, Names \subseteq Paths DEF Paths
    <3> QED BY <3>1, <3>2, <3>4
  <2> QED BY <1>4, <2>1, <2>3 DEF Rewrite, TypeOK, Local, disk, bounds, asked
<1>5. CASE Forget(p)
  <2>1. proc' \in [Procs -> Local]
      BY <1>2, <1>5 DEF Forget, Goto, TypeOK, Local
  <2> QED BY <1>5, <2>1 DEF Forget, TypeOK, Local, db, bounds, asked
<1>6. CASE Delete(p)
  <2>1. PICK d \in proc[p].aim :
            /\ node' = [node EXCEPT ![d] = Nowhere]
            /\ proc' = [proc EXCEPT ![p] = [proc[p] EXCEPT !.aim = proc[p].aim \ {d}]]
      BY <1>6 DEF Delete
  <2>2. proc' \in [Procs -> Local]
      BY <1>0, <1>3, <2>1
  <2>3. node' \in [Paths -> Paths \cup {Nowhere}]
      BY <2>1 DEF TypeOK
  <2> QED BY <1>6, <2>2, <2>3 DEF Delete, TypeOK, Local, db, bounds, asked
<1>7. CASE DeleteFails(p)
  <2>1. PICK d \in proc[p].aim :
            \/ proc' = [proc EXCEPT ![p] = Rest]
            \/ proc' = [proc EXCEPT ![p] = [proc[p] EXCEPT !.aim = proc[p].aim \ {d}]]
      BY <1>7 DEF DeleteFails, Return
  <2>2. proc' \in [Procs -> Local]
      BY <1>0, <1>3, <2>1, RestTyped
  <2>3. faults' \in 0..FaultBound
      BY <1>7, Constants DEF DeleteFails, Fault, TypeOK
  <2> QED BY <1>7, <2>2, <2>3 DEF DeleteFails, TypeOK, Local, disk, db, asked
<1>8. CASE Deleted(p)
  <2>1. [Rest EXCEPT !.pc = "crawl"] \in Local
      BY RestTyped DEF Local
  <2>2. proc' \in [Procs -> Local]
      BY <1>8, <2>1, RestTyped DEF Deleted, TypeOK, Local
  <2> QED BY <1>8, <2>2 DEF Deleted, TypeOK, Local, db, bounds, asked
<1> QED BY <1>4, <1>5, <1>6, <1>7, <1>8

\* The commands of operators.
LEMMA TypeCommands ==
    ASSUME TypeOK, NEW p \in Operators, ConsolidateWarcs(p) \/ CleanupJob(p) \/ ResetCrawlState(p)
    PROVE  TypeOK'
<1>1. proc \in [Procs -> Local] /\ p \in Procs
    BY DEF TypeOK, Local, Procs
<1>2. /\ TempDirs \in SUBSET Paths /\ TempWarcs \in SUBSET Dirs /\ {} \in SUBSET Paths
      /\ (InTemp(rows) # {}) \in BOOLEAN
    BY TempSets
<1>3. ASSUME Ask("consolidate") \/ Ask("cleanup") \/ Ask("reset")
      PROVE  commands' \in 0..CommandBound /\ ran' \subseteq Commands \cup {"fallback", "overlap"}
    BY <1>3, Constants DEF Ask, TypeOK
<1>4. ASSUME NEW l \in {"rewrite", "forget", "delete"}, NEW task \in {"cleanup", "reset"}
      PROVE  [Rest EXCEPT !.pc = l, !.task = task, !.aim = TempDirs] \in Local
    BY <1>2, RestTyped DEF Local
<1>5. CASE ConsolidateWarcs(p)
  <2>1. proc' \in [Procs -> Local]
      BY <1>1, <1>2, <1>5, ConsolidatingTyped DEF ConsolidateWarcs
  <2> QED BY <1>3, <1>5, <2>1 DEF ConsolidateWarcs, TypeOK, Local, disk, db
<1>6. CASE CleanupJob(p)
  <2>1. proc' \in [Procs -> Local]
      BY <1>1, <1>2, <1>4, <1>6, ConsolidatingTyped DEF CleanupJob
  <2> QED BY <1>3, <1>6, <2>1 DEF CleanupJob, TypeOK, Local, disk, db
<1>7. CASE ResetCrawlState(p)
  <2>1. proc' \in [Procs -> Local]
      BY <1>1, <1>2, <1>4, <1>7, ConsolidatingTyped DEF ResetCrawlState
  <2> QED BY <1>3, <1>7, <2>1 DEF ResetCrawlState, TypeOK, Local, disk, db
<1> QED BY <1>5, <1>6, <1>7

\* Indexing, and processes that die.
LEMMA TypeIndex ==
    ASSUME TypeOK, NEW p \in Procs,
           IndexJob(p) \/ Discover(p) \/ DiscoverFails(p) \/ Insert(p) \/ Crash(p)
    PROVE  TypeOK'
<1>1. proc \in [Procs -> Local] /\ proc[p] \in Local
    BY DEF TypeOK, Local
<1>2. CASE IndexJob(p)
  <2>1. [Rest EXCEPT !.pc = "discover"] \in Local
      BY RestTyped DEF Local
  <2>2. proc' \in [Procs -> Local]
      BY <1>1, <1>2, <2>1, TempSets, ConsolidatingTyped DEF IndexJob
  <2>3. commands' \in 0..CommandBound /\ ran' \subseteq Commands \cup {"fallback", "overlap"}
      BY <1>2, Constants DEF IndexJob, Ask, TypeOK, asked
  <2> QED BY <1>2, <2>2, <2>3 DEF IndexJob, TypeOK, Local, disk, db, asked
<1>3. CASE Discover(p)
  <2>1. [proc[p] EXCEPT !.pc = "insert", !.aim = Discovered] \in Local
      BY <1>1, TempSets DEF Local
  <2>2. proc' \in [Procs -> Local]
      BY <1>1, <1>3, <2>1 DEF Discover
  <2> QED BY <1>3, <2>2 DEF Discover, TypeOK, Local, disk, db, bounds, asked
<1>4. CASE DiscoverFails(p)
  <2>1. proc' \in [Procs -> Local]
      BY <1>1, <1>4, RestTyped DEF DiscoverFails, Return
  <2>2. faults' \in 0..FaultBound
      BY <1>4, Constants DEF DiscoverFails, Fault, TypeOK
  <2> QED BY <1>4, <2>1, <2>2 DEF DiscoverFails, TypeOK, Local, disk, asked
<1>5. CASE Insert(p)
  <2>1. proc' \in [Procs -> Local]
      BY <1>1, <1>5, RestTyped DEF Insert, Return
  <2>2. rows' \subseteq Captures \X Paths
      BY <1>1, <1>5 DEF Insert, RowsOf, Local
  <2> QED BY <1>5, <2>1, <2>2 DEF Insert, TypeOK, Local, disk, bounds, asked
<1>6. CASE Crash(p)
  <2>1. proc' \in [Procs -> Local]
      BY <1>1, <1>6, RestTyped DEF Crash, Return
  <2>2. faults' \in 0..FaultBound
      BY <1>6, Constants DEF Crash, Fault, TypeOK
  <2> QED BY <1>6, <2>1, <2>2 DEF Crash, TypeOK, Local, disk, asked
<1> QED BY <1>2, <1>3, <1>4, <1>5, <1>6

\* The crawl writes captures to its own directory, or to the name it picked.
LEMMA TypeCrawl ==
    ASSUME TypeOK, CrawlStarts \/ NewDir \/ Capture \/ CrawlEnds \/ FallbackPicks \/ FallbackWrites
    PROVE  TypeOK'
<1>1. Worker \in Procs /\ proc \in [Procs -> Local] /\ proc[Worker] \in Local
    BY DEF TypeOK, Local, Procs
<1>2. Recorded \subseteq Dirs
    BY TempSets DEF Recorded, TypeOK
<1>3. made < CaptureBound => made + 1 \in Captures /\ made + 1 \in 0..CaptureBound
    BY Constants DEF TypeOK, Captures
<1>4. CASE CrawlStarts
  <2>1. /\ [Rest EXCEPT !.pc = "crawl", !.todo = TempDirs] \in Local
        /\ [Rest EXCEPT !.pc = "delete", !.task = "stale", !.aim = TempDirs] \in Local
      BY <1>1, RestTyped, TempSets DEF Local
  <2>2. TempWarcs \in SUBSET Dirs /\ TempDirs \in SUBSET Paths /\ FALSE \in BOOLEAN
      BY TempSets
  <2>3. proc' \in [Procs -> Local]
      BY <1>1, <1>4, <2>1, <2>2, ConsolidatingTyped DEF CrawlStarts
  <2> QED BY <1>4, <2>3, TempSets DEF CrawlStarts, TypeOK, Local
<1>5. CASE NewDir
  <2>1. PICK d \in Dirs \ ToSet(born) :
            /\ node' = [node EXCEPT ![d] = d]
            /\ born' = Append(born, d)
            /\ proc' = [proc EXCEPT ![Worker] = [proc[Worker] EXCEPT !.at = d, !.todo = Recorded]]
      BY <1>5 DEF NewDir
  <2>2. d \in Paths /\ [proc[Worker] EXCEPT !.at = d, !.todo = Recorded] \in Local
      BY <1>1, <1>2, PathKinds DEF Local
  <2>3. proc' \in [Procs -> Local] /\ node' \in [Paths -> Paths \cup {Nowhere}]
      BY <1>1, <2>1, <2>2 DEF TypeOK
  <2>4. born' \in Seq(Dirs)
      BY <2>1 DEF TypeOK
  <2> QED BY <1>2, <1>5, <2>3, <2>4 DEF NewDir, Record, TypeOK, Local, db, bounds, asked
<1>6. CASE Capture
  <2>1. file' \in [Paths -> SUBSET Captures]
      BY <1>1, <1>3, <1>6 DEF Capture, TypeOK, Local
  <2> QED BY <1>3, <1>6, <2>1 DEF Capture, TypeOK, db, bounds, asked
<1>7. CASE CrawlEnds
  <2>1. proc' \in [Procs -> Local]
      BY <1>1, <1>7, RestTyped DEF CrawlEnds, Return
  <2> QED BY <1>2, <1>7, <2>1 DEF CrawlEnds, Record, TypeOK, Local, bounds, asked
<1>8. CASE FallbackPicks
  <2>1. [proc[Worker] EXCEPT !.pc = "render", !.at = NextName] \in Local
      BY <1>1, <1>8, PathKinds DEF FallbackPicks, Local
  <2>2. proc' \in [Procs -> Local]
      BY <1>1, <1>8, <2>1 DEF FallbackPicks
  <2> QED BY <1>2, <1>8, <2>2 DEF FallbackPicks, Record, TypeOK, Local, db, bounds, asked
<1>9. CASE FallbackWrites
  <2>1. proc' \in [Procs -> Local]
      BY <1>1, <1>9, RestTyped DEF FallbackWrites, Return
  <2> DEFINE n == proc[Worker].at
             f == IF Exists(n) THEN node[n] ELSE n
  <2>2. /\ node' = [node EXCEPT ![n] = f]
        /\ \/ made < CaptureBound /\ made' = made + 1 /\ file' = [file EXCEPT ![f] = {made + 1}]
           \/ made' = made /\ file' = [file EXCEPT ![f] = {}]
      BY <1>9 DEF FallbackWrites
  <2>3. n \in Paths \cup {Nowhere}
      BY <1>1 DEF Local
  <2>4. node' \in [Paths -> Paths \cup {Nowhere}]
      BY <2>2, <2>3 DEF TypeOK, Exists
  <2>5. file' \in [Paths -> SUBSET Captures] /\ made' \in 0..CaptureBound
    <3> HIDE DEF n, f
    <3>1. file \in [Paths -> SUBSET Captures] /\ made \in 0..CaptureBound
        BY DEF TypeOK
    <3>2. made < CaptureBound => {made + 1} \in SUBSET Captures /\ made + 1 \in 0..CaptureBound
        BY <1>3
    <3>3. \A s \in SUBSET Captures : [file EXCEPT ![f] = s] \in [Paths -> SUBSET Captures]
        BY <3>1
    <3> QED BY <2>2, <3>1, <3>2, <3>3
  <2> QED BY <1>9, <2>1, <2>4, <2>5 DEF FallbackWrites, TypeOK, Local, bounds, asked
<1> QED BY <1>4, <1>5, <1>6, <1>7, <1>8, <1>9

LEMMA TypeStep == TypeOK /\ [Next]_vars => TypeOK'
<1> SUFFICES ASSUME TypeOK, [Next]_vars PROVE TypeOK'
    OBVIOUS
<1>1. CASE RetryJob
    BY <1>1, Constants DEF RetryJob, Ask, TypeOK, disk
<1>2. CASE UNCHANGED vars
    BY <1>2 DEF vars, disk, db, bounds, asked, TypeOK
<1> QED BY <1>1, <1>2, TypeLink, TypeDelete, TypeCommands, TypeIndex, TypeCrawl DEF Next

\* Every variable keeps its type (WarcStore), whatever the bounds and commands are.
THEOREM TypeCorrect == Spec => []TypeOK
<1>1. QED BY TypeInit, TypeStep, PTL DEF Spec

-----------------------------------------------------------------------------
(* Links.  Every entry of a manifest, written or still in a process that    *)
(* consolidates, leads to the file of its own source: ManifestSound says    *)
(* this of the written one, and needs it of the others.                     *)

SoundIn(m, n) == \A d \in Dirs : m[d] # Nowhere => m[d] \in Names /\ n[m[d]] = d

\* The locals of a process when the paths lead to the files n.
GoodIn(r, n) ==
    /\ SoundIn(r.map, n)
    /\ r.pc \in {"link", "rewrite", "forget", "delete"} => r.aim \subseteq Dirs
    /\ IF r.pc = "render" THEN r.at \in Names ELSE r.at \in Dirs \cup {Nowhere}

\* Only a crawl that fell back renders.
Marked == \A p \in Procs : Is(p, "render") => "fallback" \in ran

Shape ==
    /\ \A d \in Dirs : node[d] \in {Nowhere, d}
    /\ SoundIn(manifest, node)
    /\ \A p \in Procs : GoodIn(proc[p], node)
    /\ Marked

\* Names in warcs/ that have a file keep it.
NamesStay == \A n \in Names : Exists(n) => node'[n] = node[n]

LEMMA ShapeInit == Init => Shape
<1> SUFFICES ASSUME Init PROVE Shape
    OBVIOUS
<1>1. \A d \in Dirs : node[d] \in {Nowhere, d}
    BY PathKinds DEF Init
<1>2. SoundIn(manifest, node)
    BY DEF Init, SoundIn
<1>3. GoodIn(Rest, node)
    BY DEF Rest, GoodIn, SoundIn
<1>4. Marked
    BY DEF Init, Marked, Is, Rest
<1> QED BY <1>1, <1>2, <1>3, <1>4 DEF Init, Shape

\* What was sound stays sound while the names keep their files.
LEMMA SoundStays ==
    ASSUME NEW m, SoundIn(m, node), NamesStay
    PROVE  SoundIn(m, node')
BY PathKinds DEF SoundIn, NamesStay, Exists

LEMMA GoodStays ==
    ASSUME NEW r, GoodIn(r, node), NamesStay
    PROVE  GoodIn(r, node')
BY SoundStays DEF GoodIn

\* New locals that hold no directory to delete and no path of a crawl.
LEMMA RestGood ==
    ASSUME NEW n, NEW l \in {"idle", "link", "rewrite", "forget", "delete", "discover", "insert", "crawl"},
           NEW r, r.map = Rest.map, r.pc = l, r.at = Nowhere, r.aim \subseteq Dirs
    PROVE  GoodIn(r, n)
BY DEF GoodIn, SoundIn, Rest

LEMMA ConsolidatingGood ==
    ASSUME TypeOK, Shape, NEW task, NEW sources, NEW aim \in SUBSET Dirs, NEW rewrite
    PROVE  GoodIn(Consolidating(task, sources, aim, rewrite), node)
BY DEF GoodIn, Shape, Consolidating, Rest

\* The file that a link leads to, and the manifest with the new entry.
LEMMA LinkMade ==
    ASSUME TypeOK, Shape, NEW p \in Procs, Link(p)
    PROVE  /\ Source(p) \in Dirs /\ Dest(p) \in Names
           /\ node[Source(p)] = Source(p)
           /\ node' = [node EXCEPT ![Dest(p)] = Source(p)]
           /\ node[Dest(p)] \in {Nowhere, Source(p)}
           /\ NamesStay
<1>1. Source(p) \in Dirs /\ Dest(p) \in Names
    BY LinkTyped DEF Link
<1>2. node[Source(p)] = Source(p)
    BY <1>1 DEF Link, Shape, Exists
<1>3. /\ node' = [node EXCEPT ![Dest(p)] = Source(p)]
      /\ node[Dest(p)] \in {Nowhere, Source(p)}
    BY <1>2 DEF Link
<1>4. NamesStay
    BY <1>1, <1>3, PathKinds DEF NamesStay, Exists, TypeOK
<1> QED BY <1>1, <1>2, <1>3, <1>4

\* Only links, deletions, new directories and the fallback's file change paths.
LEMMA OthersKeepPaths ==
    ASSUME [Next]_vars
    PROVE  \/ node' = node
           \/ \E p \in Procs : Link(p) \/ Delete(p)
           \/ NewDir \/ FallbackWrites
<1>1. ASSUME NEW p \in Operators, ConsolidateWarcs(p) \/ CleanupJob(p) \/ ResetCrawlState(p)
      PROVE  node' = node
    BY <1>1 DEF ConsolidateWarcs, CleanupJob, ResetCrawlState, disk
<1>2. ASSUME NEW p \in Procs,
             \/ Reuse(p) \/ LinkFails(p) \/ Dump(p)
             \/ Rewrite(p) \/ Forget(p) \/ DeleteFails(p) \/ Deleted(p)
      PROVE  node' = node
    BY <1>2 DEF Reuse, LinkFails, Dump, Rewrite, Forget, DeleteFails, Deleted, disk
<1>3. ASSUME NEW p \in Procs,
             IndexJob(p) \/ Discover(p) \/ DiscoverFails(p) \/ Insert(p) \/ Crash(p)
      PROVE  node' = node
    BY <1>3 DEF IndexJob, Discover, DiscoverFails, Insert, Crash, disk
<1>4. RetryJob \/ CrawlStarts \/ Capture \/ CrawlEnds \/ FallbackPicks => node' = node
    BY DEF RetryJob, CrawlStarts, Capture, CrawlEnds, FallbackPicks, disk
<1>5. UNCHANGED vars => node' = node
    BY DEF vars, disk
<1> QED BY <1>1, <1>2, <1>3, <1>4, <1>5 DEF Next

LEMMA PathsStep ==
    ASSUME TypeOK, Shape, [Next]_vars
    PROVE  NamesStay /\ \A d \in Dirs : node'[d] \in {Nowhere, d}
<1>1. CASE node' = node
    BY <1>1 DEF NamesStay, Shape
<1>2. ASSUME NEW p \in Procs, Link(p)
      PROVE  NamesStay /\ \A d \in Dirs : node'[d] \in {Nowhere, d}
  <2>1. node \in [Paths -> Paths \cup {Nowhere}] /\ \A d \in Dirs : node[d] \in {Nowhere, d}
      BY DEF TypeOK, Shape
  <2> QED BY <1>2, <2>1, LinkMade, PathKinds
<1>3. ASSUME NEW p \in Procs, Delete(p)
      PROVE  NamesStay /\ \A d \in Dirs : node'[d] \in {Nowhere, d}
  <2>1. proc[p].aim \subseteq Dirs
      BY <1>3 DEF Delete, Is, Shape, GoodIn
  <2>2. PICK d \in Dirs : node' = [node EXCEPT ![d] = Nowhere]
      BY <1>3, <2>1 DEF Delete
  <2> QED BY <2>2, PathKinds DEF NamesStay, Shape, TypeOK
<1>4. CASE NewDir
  <2>1. PICK d \in Dirs : node' = [node EXCEPT ![d] = d]
      BY <1>4 DEF NewDir
  <2> QED BY <2>1, PathKinds DEF NamesStay, Shape, TypeOK
<1>5. CASE FallbackWrites
  <2> DEFINE n == proc[Worker].at
  <2>1. n \in Names
      BY <1>5 DEF FallbackWrites, Is, Shape, GoodIn, Procs
  <2>2. node' = [node EXCEPT ![n] = IF Exists(n) THEN node[n] ELSE n]
      BY <1>5 DEF FallbackWrites
  <2> QED BY <2>1, <2>2, PathKinds DEF NamesStay, Exists, Shape, TypeOK
<1> QED BY <1>1, <1>2, <1>3, <1>4, <1>5, OthersKeepPaths

\* The manifest is only ever replaced by what a process has loaded and added to.
LEMMA ManifestStep ==
    ASSUME TypeOK, Shape, [Next]_vars, NamesStay
    PROVE  SoundIn(manifest', node')
<1>1. ASSUME NEW p \in Procs, Dump(p)
      PROVE  SoundIn(manifest', node')
    BY <1>1, SoundStays DEF Dump, Shape, GoodIn
<1>2. CASE manifest' = manifest
    BY <1>2, SoundStays DEF Shape
<1>3. ASSUME NEW p \in Operators, ConsolidateWarcs(p) \/ CleanupJob(p) \/ ResetCrawlState(p)
      PROVE  manifest' = manifest
    BY <1>3 DEF ConsolidateWarcs, CleanupJob, ResetCrawlState, disk
<1>4. ASSUME NEW p \in Procs,
             \/ Reuse(p) \/ Link(p) \/ LinkFails(p)
             \/ Rewrite(p) \/ Forget(p) \/ Delete(p) \/ DeleteFails(p) \/ Deleted(p)
      PROVE  manifest' = manifest
    BY <1>4 DEF Reuse, Link, LinkFails, Rewrite, Forget, Delete, DeleteFails, Deleted, disk
<1>5. ASSUME NEW p \in Procs,
             IndexJob(p) \/ Discover(p) \/ DiscoverFails(p) \/ Insert(p) \/ Crash(p)
      PROVE  manifest' = manifest
    BY <1>5 DEF IndexJob, Discover, DiscoverFails, Insert, Crash, disk
<1>6. \/ RetryJob \/ CrawlStarts \/ NewDir \/ Capture \/ CrawlEnds \/ FallbackPicks \/ FallbackWrites
      \/ UNCHANGED vars
      => manifest' = manifest
    BY DEF RetryJob, CrawlStarts, NewDir, Capture, CrawlEnds, FallbackPicks, FallbackWrites, disk, vars
<1> QED BY <1>1, <1>2, <1>3, <1>4, <1>5, <1>6 DEF Next

\* A step of one process: its new locals have to be good, the others stay so.
LEMMA OneGood ==
    ASSUME TypeOK, Shape, NamesStay, NEW p \in Procs, NEW r, GoodIn(r, node'),
           proc' = [proc EXCEPT ![p] = r]
    PROVE  \A q \in Procs : GoodIn(proc'[q], node')
BY GoodStays DEF Shape, TypeOK

\* Processes that end or go on to another phase.
LEMMA PhasesGood ==
    ASSUME TypeOK, Shape, NEW p \in Procs, NEW n
    PROVE  /\ GoodIn(Rest, n)
           /\ \A l \in {"discover", "crawl"} : GoodIn([Rest EXCEPT !.pc = l], n)
           /\ \A l \in {"rewrite", "forget", "delete"} :
                Is(p, "link") \/ Is(p, "rewrite") \/ Is(p, "forget")
                    => GoodIn([proc[p] EXCEPT !.pc = l], node)
<1>1. Rest \in Local /\ proc[p] \in Local
    BY RestTyped DEF TypeOK, Local
<1>2. GoodIn(Rest, n)
    BY DEF GoodIn, SoundIn, Rest
<1>3. \A l \in {"discover", "crawl"} : GoodIn([Rest EXCEPT !.pc = l], n)
    BY DEF GoodIn, SoundIn, Rest
<1>4. GoodIn(proc[p], node)
    BY DEF Shape
<1>5. ASSUME NEW l \in {"rewrite", "forget", "delete"},
             Is(p, "link") \/ Is(p, "rewrite") \/ Is(p, "forget")
      PROVE  GoodIn([proc[p] EXCEPT !.pc = l], node)
    BY <1>1, <1>4, <1>5 DEF GoodIn, Is, Local
<1> QED BY <1>2, <1>3, <1>5

LEMMA GoodLink ==
    ASSUME TypeOK, Shape, NamesStay, NEW p \in Procs,
           Reuse(p) \/ Link(p) \/ LinkFails(p) \/ Dump(p)
    PROVE  \A q \in Procs : GoodIn(proc'[q], node')
<1>1. proc[p] \in Local /\ GoodIn(proc[p], node)
    BY DEF TypeOK, Local, Shape
<1>2. CASE Reuse(p)
  <2> DEFINE rest == proc[p].todo \ {Source(p)}
             r == [proc[p] EXCEPT !.todo = rest]
  <2>1. proc' = [proc EXCEPT ![p] = r]
      BY <1>2 DEF Reuse
  <2>2. r.map = proc[p].map /\ r.pc = proc[p].pc /\ r.aim = proc[p].aim /\ r.at = proc[p].at
    <3> HIDE DEF rest
    <3> QED BY <1>1 DEF Local
  <2>3. GoodIn(r, node)
    <3> HIDE DEF r
    <3> QED BY <1>1, <2>2 DEF GoodIn
  <2> QED BY <2>1, <2>3, GoodStays, OneGood
<1>3. CASE Link(p)
  <2> DEFINE d == Source(p)
             rest == proc[p].todo \ {d}
             map == [proc[p].map EXCEPT ![d] = Dest(p)]
             next == IF Dest(p) = proc[p].next THEN proc[p].next + 1 ELSE proc[p].next
             r == [proc[p] EXCEPT !.todo = rest, !.map = map, !.next = next]
  <2>1. proc' = [proc EXCEPT ![p] = r]
      BY <1>3 DEF Link
  <2>2. r.map = map /\ r.pc = proc[p].pc /\ r.aim = proc[p].aim /\ r.at = proc[p].at
    <3> HIDE DEF rest, map, next
    <3> QED BY <1>1 DEF Local
  <2>3. SoundIn(proc[p].map, node')
      BY <1>1, SoundStays DEF GoodIn
  <2>4. d \in Dirs /\ Dest(p) \in Names /\ node'[Dest(p)] = d
      BY <1>3, LinkMade, PathKinds DEF TypeOK
  <2>5. SoundIn(map, node')
      BY <1>1, <2>3, <2>4 DEF SoundIn, Local
  <2>6. GoodIn(r, node')
    <3> HIDE DEF r, map
    <3> QED BY <1>1, <2>2, <2>5 DEF GoodIn
  <2> QED BY <2>1, <2>6, OneGood
<1>4. CASE LinkFails(p)
  <2>1. \E r : GoodIn(r, node') /\ proc' = [proc EXCEPT ![p] = r]
      BY <1>4, PhasesGood DEF LinkFails, Abandon
  <2> QED BY <2>1, OneGood
<1>5. CASE Dump(p)
  <2>1. node' = node
      BY <1>5 DEF Dump
  <2>2. \E r : GoodIn(r, node') /\ proc' = [proc EXCEPT ![p] = r]
      BY <1>5, <2>1, PhasesGood DEF Dump
  <2> QED BY <2>2, OneGood
<1> QED BY <1>2, <1>3, <1>4, <1>5

LEMMA GoodDelete ==
    ASSUME TypeOK, Shape, NamesStay, NEW p \in Procs,
           Rewrite(p) \/ Forget(p) \/ Delete(p) \/ DeleteFails(p) \/ Deleted(p)
    PROVE  \A q \in Procs : GoodIn(proc'[q], node')
<1>1. proc[p] \in Local /\ GoodIn(proc[p], node)
    BY DEF TypeOK, Local, Shape
<1>2. ASSUME NEW d
      PROVE  GoodIn([proc[p] EXCEPT !.aim = proc[p].aim \ {d}], node)
  <2> DEFINE aim == proc[p].aim \ {d}
             r == [proc[p] EXCEPT !.aim = aim]
  <2>1. r.map = proc[p].map /\ r.pc = proc[p].pc /\ r.aim = aim /\ r.at = proc[p].at
    <3> HIDE DEF aim
    <3> QED BY <1>1 DEF Local
  <2>2. GoodIn(r, node)
    <3> HIDE DEF r
    <3> QED BY <1>1, <2>1 DEF GoodIn
  <2> QED BY <2>2
<1>3. CASE Rewrite(p)
  <2>1. \E r : GoodIn(r, node) /\ proc' = [proc EXCEPT ![p] = r]
      BY <1>3, PhasesGood DEF Rewrite, Return, Goto
  <2> QED BY <2>1, GoodStays, OneGood
<1>4. CASE Forget(p)
  <2>1. \E r : GoodIn(r, node) /\ proc' = [proc EXCEPT ![p] = r]
      BY <1>4, PhasesGood DEF Forget, Goto
  <2> QED BY <2>1, GoodStays, OneGood
<1>5. CASE Delete(p)
  <2>1. \E r : GoodIn(r, node) /\ proc' = [proc EXCEPT ![p] = r]
      BY <1>2, <1>5 DEF Delete
  <2> QED BY <2>1, GoodStays, OneGood
<1>6. CASE DeleteFails(p)
  <2>1. \E r : GoodIn(r, node) /\ proc' = [proc EXCEPT ![p] = r]
      BY <1>2, <1>6, PhasesGood DEF DeleteFails, Return
  <2> QED BY <2>1, GoodStays, OneGood
<1>7. CASE Deleted(p)
  <2>1. \E r : GoodIn(r, node) /\ proc' = [proc EXCEPT ![p] = r]
      BY <1>7, PhasesGood DEF Deleted
  <2> QED BY <2>1, GoodStays, OneGood
<1> QED BY <1>3, <1>4, <1>5, <1>6, <1>7

LEMMA GoodCommands ==
    ASSUME TypeOK, Shape, NamesStay, NEW p \in Operators,
           ConsolidateWarcs(p) \/ CleanupJob(p) \/ ResetCrawlState(p)
    PROVE  \A q \in Procs : GoodIn(proc'[q], node')
<1>1. p \in Procs
    BY DEF Procs
<1>2. ASSUME NEW l \in {"rewrite", "forget", "delete"}, NEW task
      PROVE  GoodIn([Rest EXCEPT !.pc = l, !.task = task, !.aim = TempDirs], node)
    BY DEF GoodIn, SoundIn, Rest, TempDirs
<1>3. TempDirs \in SUBSET Dirs /\ {} \in SUBSET Dirs
    BY DEF TempDirs
<1>4. CASE ConsolidateWarcs(p)
  <2>1. \E r : GoodIn(r, node) /\ proc' = [proc EXCEPT ![p] = r]
      BY <1>3, <1>4, ConsolidatingGood DEF ConsolidateWarcs
  <2> QED BY <1>1, <2>1, GoodStays, OneGood
<1>5. CASE CleanupJob(p)
  <2>1. \E r : GoodIn(r, node) /\ proc' = [proc EXCEPT ![p] = r]
      BY <1>2, <1>3, <1>5, ConsolidatingGood DEF CleanupJob
  <2> QED BY <1>1, <2>1, GoodStays, OneGood
<1>6. CASE ResetCrawlState(p)
  <2>1. \E r : GoodIn(r, node) /\ proc' = [proc EXCEPT ![p] = r]
      BY <1>2, <1>3, <1>6, ConsolidatingGood DEF ResetCrawlState
  <2> QED BY <1>1, <2>1, GoodStays, OneGood
<1> QED BY <1>4, <1>5, <1>6

LEMMA GoodIndex ==
    ASSUME TypeOK, Shape, NamesStay, NEW p \in Procs,
           IndexJob(p) \/ Discover(p) \/ DiscoverFails(p) \/ Insert(p) \/ Crash(p)
    PROVE  \A q \in Procs : GoodIn(proc'[q], node')
<1>1. proc[p] \in Local /\ GoodIn(proc[p], node) /\ {} \in SUBSET Dirs
    BY DEF TypeOK, Local, Shape
<1>2. CASE IndexJob(p)
  <2>1. \E r : GoodIn(r, node) /\ proc' = [proc EXCEPT ![p] = r]
      BY <1>1, <1>2, PhasesGood, ConsolidatingGood DEF IndexJob
  <2> QED BY <2>1, GoodStays, OneGood
<1>3. CASE Discover(p)
  <2> DEFINE r == [proc[p] EXCEPT !.pc = "insert", !.aim = Discovered]
  <2>1. r.map = proc[p].map /\ r.pc = "insert" /\ r.at = proc[p].at
      BY <1>1 DEF Local
  <2>2. proc[p].pc = "discover" /\ proc' = [proc EXCEPT ![p] = r]
      BY <1>3 DEF Discover, Is
  <2>3. GoodIn(r, node)
    <3> HIDE DEF r
    <3> QED BY <1>1, <2>1, <2>2 DEF GoodIn
  <2> QED BY <2>2, <2>3, GoodStays, OneGood
<1>4. CASE DiscoverFails(p) \/ Insert(p) \/ Crash(p)
  <2>1. proc' = [proc EXCEPT ![p] = Rest]
      BY <1>4 DEF DiscoverFails, Insert, Crash, Return
  <2> QED BY <2>1, PhasesGood, OneGood
<1> QED BY <1>2, <1>3, <1>4

LEMMA GoodCrawl ==
    ASSUME TypeOK, Shape, NamesStay,
           CrawlStarts \/ NewDir \/ Capture \/ CrawlEnds \/ FallbackPicks \/ FallbackWrites
    PROVE  \A q \in Procs : GoodIn(proc'[q], node')
<1>1. /\ Worker \in Procs /\ proc[Worker] \in Local /\ GoodIn(proc[Worker], node)
      /\ TempDirs \in SUBSET Dirs
    BY DEF TypeOK, Local, Shape, Procs, TempDirs
<1>2. CASE CrawlStarts
  <2>1. GoodIn([Rest EXCEPT !.pc = "crawl", !.todo = TempDirs], node)
      BY DEF GoodIn, SoundIn, Rest
  <2>2. GoodIn([Rest EXCEPT !.pc = "delete", !.task = "stale", !.aim = TempDirs], node)
      BY <1>1 DEF GoodIn, SoundIn, Rest
  <2>3. \E r : GoodIn(r, node) /\ proc' = [proc EXCEPT ![Worker] = r]
      BY <1>1, <1>2, <2>1, <2>2, ConsolidatingGood DEF CrawlStarts
  <2> QED BY <1>1, <2>3, GoodStays, OneGood
<1>3. CASE NewDir
  <2>1. PICK d \in Dirs :
            proc' = [proc EXCEPT ![Worker] = [proc[Worker] EXCEPT !.at = d, !.todo = Recorded]]
      BY <1>3 DEF NewDir
  <2>2. proc[Worker].pc = "crawl"
      BY <1>3 DEF NewDir, Is
  <2>3. GoodIn([proc[Worker] EXCEPT !.at = d, !.todo = Recorded], node)
      BY <1>1, <2>2 DEF GoodIn, Local
  <2> QED BY <1>1, <2>1, <2>3, GoodStays, OneGood
<1>4. CASE Capture
    BY <1>4, GoodStays DEF Capture, Shape
<1>5. CASE CrawlEnds \/ FallbackWrites
  <2>1. proc' = [proc EXCEPT ![Worker] = Rest]
      BY <1>5 DEF CrawlEnds, FallbackWrites, Return
  <2> QED BY <1>1, <2>1, PhasesGood, OneGood
<1>6. CASE FallbackPicks
  <2> DEFINE r == [proc[Worker] EXCEPT !.pc = "render", !.at = NextName]
  <2>1. r.map = proc[Worker].map /\ r.pc = "render" /\ r.at = NextName
      BY <1>1 DEF Local
  <2>2. NextName \in Names /\ proc' = [proc EXCEPT ![Worker] = r]
      BY <1>6 DEF FallbackPicks
  <2>3. GoodIn(r, node)
    <3> HIDE DEF r
    <3> QED BY <1>1, <2>1, <2>2 DEF GoodIn
  <2> QED BY <1>1, <2>2, <2>3, GoodStays, OneGood
<1> QED BY <1>2, <1>3, <1>4, <1>5, <1>6

\* The history of commands only grows.
LEMMA RanGrows == ASSUME [Next]_vars PROVE ran \subseteq ran'
<1>1. ASSUME NEW p \in Operators, ConsolidateWarcs(p) \/ CleanupJob(p) \/ ResetCrawlState(p)
      PROVE  ran \subseteq ran'
    BY <1>1 DEF ConsolidateWarcs, CleanupJob, ResetCrawlState, Ask
<1>2. ASSUME NEW p \in Procs,
             \/ Reuse(p) \/ Link(p) \/ LinkFails(p) \/ Dump(p)
             \/ Rewrite(p) \/ Forget(p) \/ Delete(p) \/ DeleteFails(p) \/ Deleted(p)
      PROVE  ran' = ran
    BY <1>2 DEF Reuse, Link, LinkFails, Dump, Rewrite, Forget, Delete, DeleteFails, Deleted, bounds, asked
<1>3. ASSUME NEW p \in Procs,
             IndexJob(p) \/ Discover(p) \/ DiscoverFails(p) \/ Insert(p) \/ Crash(p)
      PROVE  ran \subseteq ran'
    BY <1>3 DEF IndexJob, Ask, Discover, DiscoverFails, Insert, Crash, bounds, asked
<1>4. \/ RetryJob \/ CrawlStarts \/ NewDir \/ Capture \/ CrawlEnds \/ FallbackPicks \/ FallbackWrites
      \/ UNCHANGED vars
      => ran \subseteq ran'
    BY DEF RetryJob, Ask, CrawlStarts, NewDir, Capture, CrawlEnds, FallbackPicks, FallbackWrites,
           bounds, asked, vars
<1> QED BY <1>1, <1>2, <1>3, <1>4 DEF Next

\* Locals of a process that does not render.
Quiet(r) == r.pc # "render"

\* Its new locals, when a process does not begin to render.
LEMMA OneMarked ==
    ASSUME TypeOK, Marked, ran \subseteq ran', NEW p \in Procs, NEW r,
           proc' = [proc EXCEPT ![p] = r], Quiet(r) \/ "fallback" \in ran'
    PROVE  Marked'
BY DEF TypeOK, Marked, Is, Quiet

LEMMA MarkedLink ==
    ASSUME TypeOK, Marked, ran \subseteq ran', NEW p \in Procs,
           \/ Reuse(p) \/ Link(p) \/ LinkFails(p) \/ Dump(p)
           \/ Rewrite(p) \/ Forget(p) \/ Delete(p) \/ DeleteFails(p) \/ Deleted(p)
    PROVE  Marked'
<1>1. proc[p] \in Local /\ Rest \in Local
    BY RestTyped DEF TypeOK, Local
<1>2. Quiet(Rest) /\ \A l \in {"discover", "crawl"} : Quiet([Rest EXCEPT !.pc = l])
    BY DEF Rest, Quiet
<1>3. \A l \in {"rewrite", "forget", "delete"} : Quiet([proc[p] EXCEPT !.pc = l])
    BY <1>1 DEF Local, Quiet
<1>4. ASSUME Reuse(p) \/ Link(p) \/ Delete(p) PROVE Marked'
  <2>1. proc[p].pc # "render"
      BY <1>4 DEF Reuse, Link, Linking, Delete, Is
  <2>2. /\ \A t : Quiet([proc[p] EXCEPT !.todo = t])
        /\ \A a : Quiet([proc[p] EXCEPT !.aim = a])
        /\ \A t, m, n : Quiet([proc[p] EXCEPT !.todo = t, !.map = m, !.next = n])
      BY <1>1, <2>1 DEF Local, Quiet
  <2>3. \E r : Quiet(r) /\ proc' = [proc EXCEPT ![p] = r]
    <3>1. CASE Reuse(p)
        BY <3>1, <2>2 DEF Reuse
    <3>2. CASE Link(p)
      <4> DEFINE t == proc[p].todo \ {Source(p)}
                 m == [proc[p].map EXCEPT ![Source(p)] = Dest(p)]
                 n == IF Dest(p) = proc[p].next THEN proc[p].next + 1 ELSE proc[p].next
      <4>1. proc' = [proc EXCEPT ![p] = [proc[p] EXCEPT !.todo = t, !.map = m, !.next = n]]
          BY <3>2 DEF Link
      <4> HIDE DEF t, m, n
      <4> QED BY <4>1, <2>2
    <3>3. CASE Delete(p)
        BY <3>3, <2>2 DEF Delete
    <3> QED BY <1>4, <3>1, <3>2, <3>3
  <2> QED BY <2>3, OneMarked
<1>5. ASSUME LinkFails(p) \/ Dump(p) PROVE Marked'
  <2>1. \E r : Quiet(r) /\ proc' = [proc EXCEPT ![p] = r]
      BY <1>2, <1>3, <1>5 DEF LinkFails, Abandon, Dump
  <2> QED BY <2>1, OneMarked
<1>6. ASSUME Rewrite(p) \/ Forget(p) \/ Deleted(p) PROVE Marked'
  <2>1. \E r : Quiet(r) /\ proc' = [proc EXCEPT ![p] = r]
      BY <1>2, <1>3, <1>6 DEF Rewrite, Forget, Deleted, Return, Goto
  <2> QED BY <2>1, OneMarked
<1>7. ASSUME DeleteFails(p) PROVE Marked'
  <2>1. \A a : Quiet([proc[p] EXCEPT !.aim = a])
      BY <1>1, <1>7 DEF DeleteFails, Is, Local, Quiet
  <2>2. \E r : Quiet(r) /\ proc' = [proc EXCEPT ![p] = r]
      BY <1>2, <1>7, <2>1 DEF DeleteFails, Return
  <2> QED BY <2>2, OneMarked
<1> QED BY <1>4, <1>5, <1>6, <1>7

LEMMA MarkedCommands ==
    ASSUME TypeOK, Marked, ran \subseteq ran', NEW p \in Procs,
           \/ ConsolidateWarcs(p) \/ CleanupJob(p) \/ ResetCrawlState(p)
           \/ IndexJob(p) \/ Discover(p) \/ DiscoverFails(p) \/ Insert(p) \/ Crash(p)
    PROVE  Marked'
<1>1. proc[p] \in Local
    BY DEF TypeOK, Local
<1>2. /\ Quiet(Rest) /\ Quiet([Rest EXCEPT !.pc = "discover"])
      /\ \A l \in {"rewrite", "forget", "delete"} : \A t, a :
             Quiet([Rest EXCEPT !.pc = l, !.task = t, !.aim = a])
      /\ \A t, s, a, w : Quiet(Consolidating(t, s, a, w))
    BY DEF Rest, Consolidating, Quiet
<1>3. \A a : Quiet([proc[p] EXCEPT !.pc = "insert", !.aim = a])
    BY <1>1 DEF Local, Quiet
<1>4. \E r : Quiet(r) /\ proc' = [proc EXCEPT ![p] = r]
  <2>1. CASE ConsolidateWarcs(p)
      BY <1>2, <2>1 DEF ConsolidateWarcs
  <2>2. CASE CleanupJob(p)
      BY <1>2, <2>2 DEF CleanupJob
  <2>3. CASE ResetCrawlState(p)
      BY <1>2, <2>3 DEF ResetCrawlState
  <2>4. CASE IndexJob(p)
      BY <1>2, <2>4 DEF IndexJob
  <2>5. CASE Discover(p)
      BY <1>3, <2>5 DEF Discover
  <2>6. CASE DiscoverFails(p) \/ Insert(p) \/ Crash(p)
      BY <1>2, <2>6 DEF DiscoverFails, Insert, Crash, Return
  <2> QED BY <2>1, <2>2, <2>3, <2>4, <2>5, <2>6
<1> QED BY <1>4, OneMarked

LEMMA MarkedCrawl ==
    ASSUME TypeOK, Marked, ran \subseteq ran',
           CrawlStarts \/ NewDir \/ Capture \/ CrawlEnds \/ FallbackPicks \/ FallbackWrites
    PROVE  Marked'
<1>1. Worker \in Procs /\ proc[Worker] \in Local
    BY DEF TypeOK, Local, Procs
<1>2. CASE Capture
    BY <1>2 DEF Capture, Marked, Is
<1>3. CASE CrawlStarts
  <2>1. /\ Quiet([Rest EXCEPT !.pc = "crawl", !.todo = TempDirs])
        /\ Quiet([Rest EXCEPT !.pc = "delete", !.task = "stale", !.aim = TempDirs])
        /\ \A t, s, a, w : Quiet(Consolidating(t, s, a, w))
      BY <1>1 DEF Rest, Consolidating, Local, Quiet
  <2>2. \E r : Quiet(r) /\ proc' = [proc EXCEPT ![Worker] = r]
      BY <1>3, <2>1 DEF CrawlStarts
  <2> QED BY <1>1, <2>2, OneMarked
<1>4. CASE NewDir
  <2>1. \A d, s : Quiet([proc[Worker] EXCEPT !.at = d, !.todo = s])
      BY <1>1, <1>4 DEF NewDir, Is, Local, Quiet
  <2>2. \E r : Quiet(r) /\ proc' = [proc EXCEPT ![Worker] = r]
      BY <1>4, <2>1 DEF NewDir
  <2> QED BY <1>1, <2>2, OneMarked
<1>5. CASE CrawlEnds \/ FallbackWrites
  <2>1. Quiet(Rest) /\ proc' = [proc EXCEPT ![Worker] = Rest]
      BY <1>5 DEF CrawlEnds, FallbackWrites, Return, Rest, Quiet
  <2> QED BY <1>1, <2>1, OneMarked
<1>6. CASE FallbackPicks
  <2>1. "fallback" \in ran' /\ \E r : proc' = [proc EXCEPT ![Worker] = r]
      BY <1>6 DEF FallbackPicks
  <2> QED BY <1>1, <2>1, OneMarked
<1> QED BY <1>2, <1>3, <1>4, <1>5, <1>6

LEMMA ShapeStep == TypeOK /\ Shape /\ [Next]_vars => Shape'
<1> SUFFICES ASSUME TypeOK, Shape, [Next]_vars PROVE Shape'
    OBVIOUS
<1>1. NamesStay /\ (\A d \in Dirs : node'[d] \in {Nowhere, d}) /\ SoundIn(manifest', node')
    BY PathsStep, ManifestStep
<1>2. ASSUME RetryJob \/ UNCHANGED vars
      PROVE  \A p \in Procs : GoodIn(proc'[p], node')
  <2>1. proc' = proc
      BY <1>2 DEF RetryJob, vars
  <2>2. \A p \in Procs : GoodIn(proc[p], node)
      BY DEF Shape
  <2> QED BY <1>1, <2>1, <2>2, GoodStays
<1>3. \A p \in Procs : GoodIn(proc'[p], node')
    BY <1>1, <1>2, GoodLink, GoodDelete, GoodCommands, GoodIndex, GoodCrawl DEF Next, Shape
<1>4. Marked'
  <2>1. RetryJob \/ UNCHANGED vars => proc' = proc
      BY DEF RetryJob, vars
  <2>2. Marked /\ ran \subseteq ran'
      BY RanGrows DEF Shape
  <2>3. proc' = proc => Marked'
      BY <2>2 DEF Marked, Is
  <2> QED BY <2>1, <2>2, <2>3, MarkedLink, MarkedCommands, MarkedCrawl DEF Next, Procs
<1> QED BY <1>1, <1>3, <1>4 DEF Shape

LEMMA Shaped == Spec => [](TypeOK /\ Shape)
<1>1. Init => TypeOK /\ Shape
    BY TypeInit, ShapeInit
<1>2. TypeOK /\ Shape /\ [Next]_vars => (TypeOK /\ Shape)'
    BY TypeStep, ShapeStep
<1> QED BY <1>1, <1>2, PTL DEF Spec

\* Whatever consolidations overlap, fail or lose each other's entries, and
\* whether or not crawls write below warcs/ themselves: each source in the
\* manifest has a stable file of its own (archive_storage.consolidate_warcs).
THEOREM ManifestAlwaysSound == Spec => []ManifestSound
<1>1. TypeOK /\ Shape => ManifestSound
    BY PathKinds DEF Shape, SoundIn, ManifestSound, Exists
<1> QED BY <1>1, Shaped, PTL

-----------------------------------------------------------------------------
(* Stable files.                                                           *)

\* Without a fallback, files are only ever appended to.
LEMMA FilesGrow ==
    ASSUME TypeOK, Shape, "fallback" \notin ran, [Next]_vars
    PROVE  \A f \in Paths : file[f] \subseteq file'[f]
<1>1. ~FallbackWrites
    BY DEF FallbackWrites, Is, Shape, Marked, Procs
<1>2. CASE Capture
    BY <1>2 DEF Capture, TypeOK
<1>3. CASE file' = file
    BY <1>3
<1>4. ASSUME NEW p \in Operators, ConsolidateWarcs(p) \/ CleanupJob(p) \/ ResetCrawlState(p)
      PROVE  file' = file
    BY <1>4 DEF ConsolidateWarcs, CleanupJob, ResetCrawlState, disk
<1>5. ASSUME NEW p \in Procs,
             \/ Reuse(p) \/ Link(p) \/ LinkFails(p) \/ Dump(p)
             \/ Rewrite(p) \/ Forget(p) \/ Delete(p) \/ DeleteFails(p) \/ Deleted(p)
      PROVE  file' = file
    BY <1>5 DEF Reuse, Link, LinkFails, Dump, Rewrite, Forget, Delete, DeleteFails, Deleted, disk
<1>6. ASSUME NEW p \in Procs,
             IndexJob(p) \/ Discover(p) \/ DiscoverFails(p) \/ Insert(p) \/ Crash(p)
      PROVE  file' = file
    BY <1>6 DEF IndexJob, Discover, DiscoverFails, Insert, Crash, disk
<1>7. RetryJob \/ CrawlStarts \/ NewDir \/ CrawlEnds \/ FallbackPicks \/ UNCHANGED vars => file' = file
    BY DEF RetryJob, CrawlStarts, NewDir, CrawlEnds, FallbackPicks, disk, vars
<1> QED BY <1>1, <1>2, <1>3, <1>4, <1>5, <1>6, <1>7 DEF Next

\* A name in warcs/ keeps its file and the file its captures until a crawl of
\* the job falls back (archive_storage._safe_link_or_copy).
THEOREM StableAppendOnly == Spec => StableIsAppendOnly
<1>1. TypeOK /\ Shape /\ [Next]_vars =>
        [\A n \in Names : Exists(n) /\ "fallback" \notin ran =>
             node'[n] = node[n] /\ file[node[n]] \subseteq file'[node[n]]]_vars
  <2> SUFFICES ASSUME TypeOK, Shape, [Next]_vars, NEW n \in Names, Exists(n), "fallback" \notin ran
               PROVE  node'[n] = node[n] /\ file[node[n]] \subseteq file'[node[n]]
      OBVIOUS
  <2>1. node'[n] = node[n]
      BY PathsStep DEF NamesStay
  <2>2. node[n] \in Paths
      BY PathKinds DEF TypeOK, Exists
  <2> QED BY <2>1, <2>2, FilesGrow
<1> QED BY <1>1, Shaped, PTL DEF Spec, StableIsAppendOnly

-----------------------------------------------------------------------------
(* No page that was ever captured is lost, until a crawl of the job falls   *)
(* back or somebody runs cleanup-job on it, whatever else operators do      *)
(* beside the worker, and whichever system calls fail.                      *)

Settled == {"completed", "indexed", "index_failed"}

\* Who may crawl and who may index in which status of the job.
CalmIn(p, r, s) ==
    /\ r.pc = "crawl" \/ r.task = "stale" => p = Worker /\ s = "running"
    /\ r.pc \in {"discover", "insert"} \/ r.task = "index" => s \in Settled
    /\ r.at # Nowhere => r.pc = "crawl"

Calm == \A p \in Procs : CalmIn(p, proc[p], status)

\* A directory that may go: it is gone, has no data, or a stable name leads to its WARC.
Safe(d, n, f) == n[d] = Nowhere \/ f[d] = {} \/ \E s \in Names : n[s] = d

\* What a process is about to delete: directories that were made before, that
\* no crawl writes to, and that are safe unless they are still to be linked.
CareIn(r, n, f, made0, at) ==
    r.pc \in {"link", "rewrite", "forget", "delete"} =>
        \A d \in r.aim :
            /\ d \in made0
            /\ d # at
            /\ Safe(d, n, f) \/ (r.pc = "link" /\ d \in r.todo)

Careful ==
    /\ \A d \in Dirs : node[d] # Nowhere => d \in ToSet(born)
    /\ proc[Worker].at # Nowhere => node[proc[Worker].at] = proc[Worker].at
    /\ \A p \in Procs : CareIn(proc[p], node, file, ToSet(born), proc[Worker].at)

-----------------------------------------------------------------------------
(* Statuses.                                                               *)

LEMMA CalmInit == Init => Calm
BY DEF Init, Calm, CalmIn, Rest

\* Processes that end leave no duty behind.
LEMMA RestCalm ==
    ASSUME NEW p, NEW s
    PROVE  CalmIn(p, Rest, s)
BY DEF CalmIn, Rest

\* A step of one process: no status that another one relies on may change.
LEMMA OneCalm ==
    ASSUME TypeOK, Calm, NEW p \in Procs, NEW r, proc' = [proc EXCEPT ![p] = r],
           CalmIn(p, r, status'),
           \/ status' = status
           \/ status \in Settled /\ status' \in Settled
           \/ status \in {"queued", "retryable"}
           \/ status = "running" /\ p = Worker
    PROVE  Calm'
<1> SUFFICES ASSUME NEW q \in Procs, q # p
             PROVE  CalmIn(q, proc[q], status')
    BY DEF Calm, TypeOK
<1>1. CalmIn(q, proc[q], status)
    BY DEF Calm
<1> QED BY <1>1 DEF CalmIn, Settled

LEMMA CalmLink ==
    ASSUME TypeOK, Calm, NEW p \in Procs, Reuse(p) \/ Link(p) \/ LinkFails(p) \/ Dump(p)
    PROVE  Calm'
<1>1. proc[p] \in Local /\ CalmIn(p, proc[p], status)
    BY DEF TypeOK, Local, Calm
<1>2. CASE Reuse(p)
  <2> DEFINE rest == proc[p].todo \ {Source(p)}
             r == [proc[p] EXCEPT !.todo = rest]
  <2>1. proc' = [proc EXCEPT ![p] = r] /\ status' = status
      BY <1>2 DEF Reuse, db
  <2>2. r.pc = proc[p].pc /\ r.task = proc[p].task /\ r.at = proc[p].at
    <3> HIDE DEF rest
    <3> QED BY <1>1 DEF Local
  <2>3. CalmIn(p, r, status)
    <3> HIDE DEF r
    <3> QED BY <1>1, <2>2 DEF CalmIn
  <2> QED BY <2>1, <2>3, OneCalm
<1>3. CASE Link(p)
  <2> DEFINE d == Source(p)
             rest == proc[p].todo \ {d}
             map == [proc[p].map EXCEPT ![d] = Dest(p)]
             next == IF Dest(p) = proc[p].next THEN proc[p].next + 1 ELSE proc[p].next
             r == [proc[p] EXCEPT !.todo = rest, !.map = map, !.next = next]
  <2>1. proc' = [proc EXCEPT ![p] = r] /\ status' = status
      BY <1>3 DEF Link, db
  <2>2. r.pc = proc[p].pc /\ r.task = proc[p].task /\ r.at = proc[p].at
    <3> HIDE DEF rest, map, next
    <3> QED BY <1>1 DEF Local
  <2>3. CalmIn(p, r, status)
    <3> HIDE DEF r
    <3> QED BY <1>1, <2>2 DEF CalmIn
  <2> QED BY <2>1, <2>3, OneCalm
<1>4. CASE LinkFails(p)
  <2>1. CASE proc[p].task = "index"
    <3>1. proc' = [proc EXCEPT ![p] = [Rest EXCEPT !.pc = "discover"]] /\ status' = status
        BY <1>4, <2>1 DEF LinkFails, Abandon
    <3>2. CalmIn(p, [Rest EXCEPT !.pc = "discover"], status)
        BY <1>1, <2>1 DEF CalmIn, Rest
    <3> QED BY <3>1, <3>2, OneCalm
  <2>2. CASE proc[p].task # "index"
    <3>1. proc' = [proc EXCEPT ![p] = Rest]
        BY <1>4, <2>2 DEF LinkFails, Abandon
    <3>2. status' = status \/ (status = "running" /\ p = Worker)
        BY <1>1, <1>4 DEF LinkFails, Abandon, CalmIn
    <3> QED BY <3>1, <3>2, RestCalm, OneCalm
  <2> QED BY <2>1, <2>2
<1>5. CASE Dump(p)
  <2>1. status' = status
      BY <1>5 DEF Dump, db
  <2>2. CASE proc[p].task = "index"
    <3>1. proc' = [proc EXCEPT ![p] = [Rest EXCEPT !.pc = "discover"]]
        BY <1>5, <2>2 DEF Dump
    <3>2. CalmIn(p, [Rest EXCEPT !.pc = "discover"], status)
        BY <1>1, <2>2 DEF CalmIn, Rest
    <3> QED BY <2>1, <3>1, <3>2, OneCalm
  <2>3. CASE proc[p].task # "index"
    <3>1. \A l \in {"rewrite", "forget", "delete"} : CalmIn(p, [proc[p] EXCEPT !.pc = l], status)
        BY <1>1, <1>5, <2>3 DEF CalmIn, Local, Dump, Is
    <3>2. \E r : CalmIn(p, r, status) /\ proc' = [proc EXCEPT ![p] = r]
        BY <1>5, <2>3, <3>1, RestCalm DEF Dump
    <3> QED BY <2>1, <3>2, OneCalm
  <2> QED BY <2>2, <2>3
<1> QED BY <1>2, <1>3, <1>4, <1>5

LEMMA CalmDelete ==
    ASSUME TypeOK, Calm, NEW p \in Procs,
           Rewrite(p) \/ Forget(p) \/ Delete(p) \/ DeleteFails(p) \/ Deleted(p)
    PROVE  Calm'
<1>1. proc[p] \in Local /\ CalmIn(p, proc[p], status)
    BY DEF TypeOK, Local, Calm
<1>2. status' = status
    BY DEF Rewrite, Forget, Delete, DeleteFails, Deleted, db
<1>3. ASSUME NEW l \in {"forget", "delete"}, Is(p, "rewrite") \/ Is(p, "forget")
      PROVE  CalmIn(p, [proc[p] EXCEPT !.pc = l], status)
    BY <1>1, <1>3 DEF CalmIn, Local, Is
<1>4. ASSUME NEW d
      PROVE  CalmIn(p, [proc[p] EXCEPT !.aim = proc[p].aim \ {d}], status)
    BY <1>1 DEF CalmIn, Local
<1>5. CASE Rewrite(p)
  <2>1. \E r : CalmIn(p, r, status) /\ proc' = [proc EXCEPT ![p] = r]
      BY <1>3, <1>5, RestCalm DEF Rewrite, Return, Goto
  <2> QED BY <1>2, <2>1, OneCalm
<1>6. CASE Forget(p)
  <2>1. \E r : CalmIn(p, r, status) /\ proc' = [proc EXCEPT ![p] = r]
      BY <1>3, <1>6 DEF Forget, Goto
  <2> QED BY <1>2, <2>1, OneCalm
<1>7. CASE Delete(p)
  <2>1. \E r : CalmIn(p, r, status) /\ proc' = [proc EXCEPT ![p] = r]
      BY <1>4, <1>7 DEF Delete
  <2> QED BY <1>2, <2>1, OneCalm
<1>8. CASE DeleteFails(p)
  <2>1. \E r : CalmIn(p, r, status) /\ proc' = [proc EXCEPT ![p] = r]
      BY <1>4, <1>8, RestCalm DEF DeleteFails, Return
  <2> QED BY <1>2, <2>1, OneCalm
<1>9. CASE Deleted(p)
  <2>1. proc[p].task = "stale" => CalmIn(p, [Rest EXCEPT !.pc = "crawl"], status)
      BY <1>1 DEF CalmIn, Rest
  <2>2. \E r : CalmIn(p, r, status) /\ proc' = [proc EXCEPT ![p] = r]
      BY <1>9, <2>1, RestCalm DEF Deleted
  <2> QED BY <1>2, <2>2, OneCalm
<1> QED BY <1>5, <1>6, <1>7, <1>8, <1>9

\* Commands that only consolidate or delete keep the status.
LEMMA CalmCommands ==
    ASSUME TypeOK, Calm, NEW p \in Operators,
           ConsolidateWarcs(p) \/ CleanupJob(p) \/ ResetCrawlState(p)
    PROVE  Calm'
<1>1. p \in Procs /\ status' = status
    BY DEF Procs, ConsolidateWarcs, CleanupJob, ResetCrawlState, db
<1>2. ASSUME NEW task \in {"consolidate", "cleanup", "reset"}, NEW sources, NEW aim, NEW rewrite
      PROVE  CalmIn(p, Consolidating(task, sources, aim, rewrite), status)
    BY DEF CalmIn, Consolidating, Rest
<1>3. ASSUME NEW l \in {"rewrite", "forget", "delete"}, NEW task \in {"cleanup", "reset"}
      PROVE  CalmIn(p, [Rest EXCEPT !.pc = l, !.task = task, !.aim = TempDirs], status)
    BY DEF CalmIn, Rest
<1>4. \E r : CalmIn(p, r, status) /\ proc' = [proc EXCEPT ![p] = r]
    BY <1>2, <1>3 DEF ConsolidateWarcs, CleanupJob, ResetCrawlState
<1> QED BY <1>1, <1>4, OneCalm

\* Indexing starts and ends in a settled status.
LEMMA CalmIndex ==
    ASSUME TypeOK, Calm, NEW p \in Procs,
           IndexJob(p) \/ Discover(p) \/ DiscoverFails(p) \/ Insert(p) \/ Crash(p)
    PROVE  Calm'
<1>1. proc[p] \in Local /\ CalmIn(p, proc[p], status)
    BY DEF TypeOK, Local, Calm
<1>2. CASE IndexJob(p)
  <2>1. status \in Settled /\ status' = status
      BY <1>2 DEF IndexJob, Settled, db
  <2>2. /\ CalmIn(p, [Rest EXCEPT !.pc = "discover"], status)
        /\ CalmIn(p, Consolidating("index", Tracked, {}, FALSE), status)
      BY <2>1 DEF CalmIn, Consolidating, Rest
  <2>3. \E r : CalmIn(p, r, status) /\ proc' = [proc EXCEPT ![p] = r]
      BY <1>2, <2>2 DEF IndexJob
  <2> QED BY <2>1, <2>3, OneCalm
<1>3. CASE Discover(p)
  <2>1. status' = status /\ proc[p].pc = "discover"
      BY <1>3 DEF Discover, Is, db
  <2>2. CalmIn(p, [proc[p] EXCEPT !.pc = "insert", !.aim = Discovered], status)
      BY <1>1, <2>1 DEF CalmIn, Local
  <2>3. \E r : CalmIn(p, r, status) /\ proc' = [proc EXCEPT ![p] = r]
      BY <1>3, <2>2 DEF Discover
  <2> QED BY <2>1, <2>3, OneCalm
<1>4. CASE DiscoverFails(p) \/ Insert(p)
  <2>1. status \in Settled /\ status' \in Settled
      BY <1>1, <1>4 DEF DiscoverFails, Insert, Is, CalmIn, Settled
  <2>2. proc' = [proc EXCEPT ![p] = Rest]
      BY <1>4 DEF DiscoverFails, Insert, Return
  <2> QED BY <2>1, <2>2, RestCalm, OneCalm
<1>5. CASE Crash(p)
  <2>1. status' = status \/ (status = "running" /\ p = Worker)
      BY <1>5 DEF Crash
  <2>2. proc' = [proc EXCEPT ![p] = Rest]
      BY <1>5 DEF Crash, Return
  <2> QED BY <2>1, <2>2, RestCalm, OneCalm
<1> QED BY <1>2, <1>3, <1>4, <1>5

\* Only the worker crawls, and the job is running while it does.
LEMMA CalmCrawl ==
    ASSUME TypeOK, Calm, CrawlStarts \/ NewDir \/ Capture \/ CrawlEnds
    PROVE  Calm'
<1>1. Worker \in Procs /\ proc[Worker] \in Local /\ CalmIn(Worker, proc[Worker], status)
    BY DEF TypeOK, Local, Calm, Procs
<1>2. CASE CrawlStarts
  <2>1. status \in {"queued", "retryable"} /\ status' = "running" /\ proc[Worker].pc = "idle"
      BY <1>2 DEF CrawlStarts, Is
  <2>2. CalmIn(Worker, [Rest EXCEPT !.pc = "crawl", !.todo = TempDirs], status')
      BY <2>1 DEF CalmIn, Rest, Settled
  <2>3. /\ CalmIn(Worker, [Rest EXCEPT !.pc = "delete", !.task = "stale", !.aim = TempDirs], status')
        /\ CalmIn(Worker, Consolidating("stale", TempWarcs, TempDirs, FALSE), status')
      BY <2>1 DEF CalmIn, Consolidating, Rest
  <2>4. \E r : CalmIn(Worker, r, status') /\ proc' = [proc EXCEPT ![Worker] = r]
      BY <1>2, <2>2, <2>3 DEF CrawlStarts
  <2> QED BY <1>1, <2>1, <2>4, OneCalm
<1>3. CASE NewDir
  <2>1. status' = status /\ proc[Worker].pc = "crawl"
      BY <1>3 DEF NewDir, Is, db
  <2>2. \A d, s : CalmIn(Worker, [proc[Worker] EXCEPT !.at = d, !.todo = s], status)
      BY <1>1, <2>1 DEF CalmIn, Local
  <2>3. \E r : CalmIn(Worker, r, status) /\ proc' = [proc EXCEPT ![Worker] = r]
      BY <1>3, <2>2 DEF NewDir
  <2> QED BY <1>1, <2>1, <2>3, OneCalm
<1>4. CASE Capture
    BY <1>4 DEF Capture, Calm, db
<1>5. CASE CrawlEnds
  <2>1. status = "running" /\ proc' = [proc EXCEPT ![Worker] = Rest]
      BY <1>1, <1>5 DEF CrawlEnds, Return, Is, CalmIn
  <2> QED BY <1>1, <2>1, RestCalm, OneCalm
<1> QED BY <1>2, <1>3, <1>4, <1>5

\* Steps of a job whose crawls use no fallback.
LEMMA NoFallback ==
    ASSUME Shape, [Next]_vars, "fallback" \notin ran'
    PROVE  ~FallbackPicks /\ ~FallbackWrites
<1>1. Marked /\ "fallback" \notin ran /\ Worker \in Procs
    BY RanGrows DEF Shape, Procs
<1> QED BY <1>1 DEF FallbackPicks, FallbackWrites, Marked, Is

LEMMA CalmStep ==
    ASSUME TypeOK, Shape, Calm, "fallback" \notin ran', [Next]_vars
    PROVE  Calm'
<1>1. CASE RetryJob
    BY <1>1 DEF RetryJob, Calm, CalmIn, Settled
<1>2. CASE UNCHANGED vars
    BY <1>2 DEF vars, db, Calm
<1> QED BY <1>1, <1>2, NoFallback, CalmLink, CalmDelete, CalmCommands, CalmIndex, CalmCrawl DEF Next

-----------------------------------------------------------------------------
(* What a step leaves as it is, for the processes that do not take it.     *)

LEMMA BornAppended ==
    ASSUME NEW b \in Seq(Dirs), NEW d \in Dirs
    PROVE  ToSet(Append(b, d)) = ToSet(b) \cup {d}
<1>1. DOMAIN Append(b, d) = 1..Len(b) + 1 /\ DOMAIN b = 1..Len(b) /\ Len(b) \in Nat
    OBVIOUS
<1>2. \A i \in 1..Len(b) : Append(b, d)[i] = b[i]
    OBVIOUS
<1>3. Append(b, d)[Len(b) + 1] = d
    OBVIOUS
<1>4. ToSet(Append(b, d)) \subseteq ToSet(b) \cup {d}
  <2> SUFFICES ASSUME NEW i \in 1..Len(b) + 1 PROVE Append(b, d)[i] \in ToSet(b) \cup {d}
      BY <1>1 DEF ToSet
  <2>1. CASE i \in 1..Len(b)
      BY <1>1, <1>2, <2>1 DEF ToSet
  <2>2. CASE i = Len(b) + 1
      BY <1>3, <2>2
  <2> QED BY <1>1, <2>1, <2>2
<1>5. \A i \in DOMAIN b : b[i] \in ToSet(Append(b, d))
  <2> SUFFICES ASSUME NEW i \in DOMAIN b PROVE b[i] \in ToSet(Append(b, d))
      OBVIOUS
  <2>1. i \in DOMAIN Append(b, d) /\ b[i] = Append(b, d)[i]
      BY <1>1, <1>2
  <2> QED BY <2>1 DEF ToSet
<1>6. d \in ToSet(Append(b, d))
  <2>1. Len(b) + 1 \in DOMAIN Append(b, d)
      BY <1>1
  <2> QED BY <1>3, <2>1 DEF ToSet
<1>7. ToSet(b) \subseteq ToSet(Append(b, d))
    BY <1>5 DEF ToSet
<1> QED BY <1>4, <1>6, <1>7

\* Everything but a new directory keeps the directories made so far.
LEMMA BornStep ==
    ASSUME TypeOK, [Next]_vars
    PROVE  NewDir \/ born' = born
<1>1. ASSUME NEW p \in Operators, ConsolidateWarcs(p) \/ CleanupJob(p) \/ ResetCrawlState(p)
      PROVE  born' = born
    BY <1>1 DEF ConsolidateWarcs, CleanupJob, ResetCrawlState, disk
<1>2. ASSUME NEW p \in Procs,
             \/ Reuse(p) \/ Link(p) \/ LinkFails(p) \/ Dump(p)
             \/ Rewrite(p) \/ Forget(p) \/ Delete(p) \/ DeleteFails(p) \/ Deleted(p)
      PROVE  born' = born
    BY <1>2 DEF Reuse, Link, LinkFails, Dump, Rewrite, Forget, Delete, DeleteFails, Deleted, disk
<1>3. ASSUME NEW p \in Procs,
             IndexJob(p) \/ Discover(p) \/ DiscoverFails(p) \/ Insert(p) \/ Crash(p)
      PROVE  born' = born
    BY <1>3 DEF IndexJob, Discover, DiscoverFails, Insert, Crash, disk
<1>4. \/ RetryJob \/ CrawlStarts \/ Capture \/ CrawlEnds \/ FallbackPicks \/ FallbackWrites
      \/ UNCHANGED vars
      => born' = born
    BY DEF RetryJob, CrawlStarts, Capture, CrawlEnds, FallbackPicks, FallbackWrites, disk, vars
<1> QED BY <1>1, <1>2, <1>3, <1>4 DEF Next

\* Captures are added by crawls, and rewritten by a fallback.
LEMMA CapturesStep ==
    ASSUME [Next]_vars
    PROVE  Capture \/ FallbackWrites \/ (file' = file /\ made' = made)
<1>1. ASSUME NEW p \in Operators, ConsolidateWarcs(p) \/ CleanupJob(p) \/ ResetCrawlState(p)
      PROVE  file' = file /\ made' = made
    BY <1>1 DEF ConsolidateWarcs, CleanupJob, ResetCrawlState, disk
<1>2. ASSUME NEW p \in Procs,
             \/ Reuse(p) \/ Link(p) \/ LinkFails(p) \/ Dump(p)
             \/ Rewrite(p) \/ Forget(p) \/ Delete(p) \/ DeleteFails(p) \/ Deleted(p)
      PROVE  file' = file /\ made' = made
    BY <1>2 DEF Reuse, Link, LinkFails, Dump, Rewrite, Forget, Delete, DeleteFails, Deleted, disk
<1>3. ASSUME NEW p \in Procs,
             IndexJob(p) \/ Discover(p) \/ DiscoverFails(p) \/ Insert(p) \/ Crash(p)
      PROVE  file' = file /\ made' = made
    BY <1>3 DEF IndexJob, Discover, DiscoverFails, Insert, Crash, disk
<1>4. RetryJob \/ CrawlStarts \/ NewDir \/ CrawlEnds \/ FallbackPicks \/ UNCHANGED vars
      => file' = file /\ made' = made
    BY DEF RetryJob, CrawlStarts, NewDir, CrawlEnds, FallbackPicks, disk, vars
<1> QED BY <1>1, <1>2, <1>3, <1>4 DEF Next

LEMMA FileStep ==
    ASSUME TypeOK, Shape, "fallback" \notin ran', [Next]_vars
    PROVE  Capture \/ (file' = file /\ made' = made)
BY CapturesStep, NoFallback

\* The others' view of a step: names keep their files, no directory that was
\* made before comes back, and only the one that is crawled gets captures.
Undisturbed ==
    /\ NamesStay
    /\ ToSet(born) \subseteq ToSet(born')
    /\ \A d \in Dirs : d \in ToSet(born) /\ node[d] = Nowhere => node'[d] = Nowhere
    /\ \A d \in Dirs : d # proc[Worker].at => file'[d] = file[d]

LEMMA OthersUndisturbed ==
    ASSUME TypeOK, Shape, "fallback" \notin ran', [Next]_vars
    PROVE  Undisturbed
<1>1. NamesStay
    BY PathsStep
<1>2. ToSet(born) \subseteq ToSet(born')
  <2>1. CASE NewDir
    <3>1. PICK d \in Dirs : born' = Append(born, d)
        BY <2>1 DEF NewDir
    <3> QED BY <3>1, BornAppended DEF TypeOK
  <2> QED BY <2>1, BornStep
<1>3. ASSUME NEW d \in Dirs, d \in ToSet(born), node[d] = Nowhere
      PROVE  node'[d] = Nowhere
  <2>1. ASSUME NEW p \in Procs, Link(p)
        PROVE  node'[d] = node[d]
      BY <2>1, LinkMade, PathKinds DEF TypeOK
  <2>2. ASSUME NEW p \in Procs, Delete(p)
        PROVE  node'[d] = Nowhere
    <3>1. PICK e : node' = [node EXCEPT ![e] = Nowhere]
        BY <2>2 DEF Delete
    <3> QED BY <1>3, <3>1, PathKinds DEF TypeOK
  <2>3. CASE NewDir
    <3>1. PICK e \in Dirs \ ToSet(born) : node' = [node EXCEPT ![e] = e]
        BY <2>3 DEF NewDir
    <3> QED BY <1>3, <3>1, PathKinds DEF TypeOK
  <2> QED BY <1>3, <2>1, <2>2, <2>3, OthersKeepPaths, NoFallback
<1>4. ASSUME NEW d \in Dirs, d # proc[Worker].at
      PROVE  file'[d] = file[d]
  <2>1. CASE Capture
      BY <1>4, <2>1, PathKinds DEF Capture, TypeOK
  <2> QED BY <2>1, FileStep
<1> QED BY <1>1, <1>2, <1>3, <1>4 DEF Undisturbed

-----------------------------------------------------------------------------
(* Directories about to be deleted.                                        *)

LEMMA CarefulInit == Init => Careful
<1> SUFFICES ASSUME Init PROVE Careful
    OBVIOUS
<1>1. 1..Adopted \subseteq ToSet(born)
  <2>1. IsFiniteSet(1..Adopted) /\ Cardinality(1..Adopted) = Adopted
      BY FS_Interval, Constants
  <2>2. born \in [1..Adopted -> 1..Adopted] /\ \A i, j \in 1..Adopted : i # j => born[i] # born[j]
      BY <2>1 DEF Init, SetToSeqs
  <2>3. born \in Injection(1..Adopted, 1..Adopted)
      BY <2>2 DEF Injection, IsInjective
  <2>4. born \in Surjection(1..Adopted, 1..Adopted)
      BY <2>1, <2>3, FS_Injection
  <2>5. \A d \in 1..Adopted : \E i \in DOMAIN born : born[i] = d
      BY <2>2, <2>4 DEF Surjection
  <2> QED BY <2>5 DEF ToSet
<1>2. \A d \in Dirs : node[d] # Nowhere => d \in ToSet(born)
    BY <1>1, PathKinds, Constants DEF Init
<1>3. \A p \in Procs : proc[p] = Rest
    BY DEF Init
<1>4. proc[Worker].at = Nowhere
    BY <1>3 DEF Procs, Rest
<1>5. \A p \in Procs : CareIn(proc[p], node, file, ToSet(born), proc[Worker].at)
    BY <1>3 DEF CareIn, Rest
<1> QED BY <1>2, <1>4, <1>5 DEF Careful

\* Safe directories stay safe, and what a process knows of its own stays true.
LEMMA SafeStays ==
    ASSUME Undisturbed, NEW d \in Dirs, d \in ToSet(born), d # proc[Worker].at, Safe(d, node, file)
    PROVE  Safe(d, node', file')
BY PathKinds DEF Undisturbed, NamesStay, Exists, Safe

LEMMA CareStays ==
    ASSUME Undisturbed, NEW r, GoodIn(r, node),
           CareIn(r, node, file, ToSet(born), proc[Worker].at)
    PROVE  CareIn(r, node', file', ToSet(born'), proc[Worker].at)
<1> SUFFICES ASSUME r.pc \in {"link", "rewrite", "forget", "delete"}, NEW d \in r.aim
             PROVE  /\ d \in ToSet(born') /\ d # proc[Worker].at
                    /\ Safe(d, node', file') \/ (r.pc = "link" /\ d \in r.todo)
    BY DEF CareIn
<1>1. d \in Dirs
    BY DEF GoodIn
<1>2. /\ d \in ToSet(born) /\ d # proc[Worker].at
      /\ Safe(d, node, file) \/ (r.pc = "link" /\ d \in r.todo)
    BY DEF CareIn
<1>3. d \in ToSet(born')
    BY <1>2 DEF Undisturbed
<1> QED BY <1>1, <1>2, <1>3, SafeStays

\* Processes that delete nothing need no care.
LEMMA RestCareful ==
    ASSUME NEW n, NEW f, NEW b, NEW a
    PROVE  /\ CareIn(Rest, n, f, b, a)
           /\ \A l \in {"discover", "crawl"} : CareIn([Rest EXCEPT !.pc = l], n, f, b, a)
BY DEF CareIn, Rest

\* A step of one process that goes on to nothing, or to what it took care of.
Minds(p, r) ==
    /\ proc' = [proc EXCEPT ![p] = r]
    /\ r.at \in {proc[p].at, Nowhere}
    /\ CareIn(r, node', file', ToSet(born'), proc[Worker].at)

LEMMA OneMinds ==
    ASSUME TypeOK, Shape, Shape', Careful, Undisturbed, NEW p \in Procs, NEW r, Minds(p, r)
    PROVE  /\ proc'[Worker].at \in {proc[Worker].at, Nowhere}
           /\ \A q \in Procs : CareIn(proc'[q], node', file', ToSet(born'), proc'[Worker].at)
<1>1. proc'[Worker].at \in {proc[Worker].at, Nowhere}
    BY DEF Minds, TypeOK, Procs
<1>2. \A q \in Procs : CareIn(proc'[q], node', file', ToSet(born'), proc[Worker].at)
  <2> SUFFICES ASSUME NEW q \in Procs
               PROVE  CareIn(proc'[q], node', file', ToSet(born'), proc[Worker].at)
      OBVIOUS
  <2>1. CASE q = p
      BY <2>1 DEF Minds, TypeOK
  <2>2. CASE q # p
    <3>1. proc'[q] = proc[q]
        BY <2>2 DEF Minds, TypeOK
    <3>2. GoodIn(proc[q], node) /\ CareIn(proc[q], node, file, ToSet(born), proc[Worker].at)
        BY DEF Shape, Careful
    <3> QED BY <3>1, <3>2, CareStays
  <2> QED BY <2>1, <2>2
<1>3. \A q \in Procs : GoodIn(proc'[q], node')
    BY DEF Shape
<1>4. Nowhere \notin Dirs
    BY PathKinds
<1>5. ASSUME NEW q \in Procs
      PROVE  CareIn(proc'[q], node', file', ToSet(born'), proc'[Worker].at)
    BY <1>1, <1>2, <1>3, <1>4 DEF CareIn, GoodIn
<1> QED BY <1>1, <1>5

\* A source that is linked, or was linked before, has a stable name.
LEMMA MindsLink ==
    ASSUME TypeOK, Shape, Careful, Undisturbed, NEW p \in Procs,
           Reuse(p) \/ Link(p) \/ LinkFails(p) \/ Dump(p)
    PROVE  \E r : Minds(p, r)
<1>1. /\ proc[p] \in Local /\ GoodIn(proc[p], node)
      /\ CareIn(proc[p], node, file, ToSet(born), proc[Worker].at)
    BY DEF TypeOK, Local, Shape, Careful
<1>2. CareIn(proc[p], node', file', ToSet(born'), proc[Worker].at)
    BY <1>1, CareStays
<1>3. CASE Reuse(p)
  <2> DEFINE d == Source(p)
             rest == proc[p].todo \ {d}
             r == [proc[p] EXCEPT !.todo = rest]
  <2>1. proc' = [proc EXCEPT ![p] = r]
      BY <1>3 DEF Reuse
  <2>2. r.pc = proc[p].pc /\ r.aim = proc[p].aim /\ r.at = proc[p].at /\ r.todo = rest
    <3> HIDE DEF rest
    <3> QED BY <1>1 DEF Local
  <2>3. Safe(d, node', file')
    <3>1. d \in Dirs
        BY <1>3, LinkTyped DEF Reuse
    <3>2. proc[p].map[d] # Nowhere
        BY <1>3 DEF Reuse, Reusable
    <3>3. proc[p].map[d] \in Names /\ node[proc[p].map[d]] = d
        BY <1>1, <3>1, <3>2 DEF GoodIn, SoundIn
    <3>4. node'[proc[p].map[d]] = d
        BY <3>1, <3>3, PathKinds DEF Undisturbed, NamesStay, Exists
    <3> QED BY <3>3, <3>4 DEF Safe
  <2>4. CareIn(r, node', file', ToSet(born'), proc[Worker].at)
    <3> HIDE DEF r, d
    <3> QED BY <1>2, <2>2, <2>3 DEF CareIn
  <2>5. Minds(p, r)
    <3> HIDE DEF r
    <3> QED BY <2>1, <2>2, <2>4 DEF Minds
  <2> QED BY <2>5
<1>4. CASE Link(p)
  <2> DEFINE d == Source(p)
             rest == proc[p].todo \ {d}
             map == [proc[p].map EXCEPT ![d] = Dest(p)]
             next == IF Dest(p) = proc[p].next THEN proc[p].next + 1 ELSE proc[p].next
             r == [proc[p] EXCEPT !.todo = rest, !.map = map, !.next = next]
  <2>1. proc' = [proc EXCEPT ![p] = r]
      BY <1>4 DEF Link
  <2>2. r.pc = proc[p].pc /\ r.aim = proc[p].aim /\ r.at = proc[p].at /\ r.todo = rest
    <3> HIDE DEF rest, map, next
    <3> QED BY <1>1 DEF Local
  <2>3. Safe(d, node', file')
    <3>1. Dest(p) \in Names /\ node'[Dest(p)] = d
        BY <1>4, LinkMade, PathKinds DEF TypeOK
    <3> QED BY <3>1 DEF Safe
  <2>4. CareIn(r, node', file', ToSet(born'), proc[Worker].at)
    <3> HIDE DEF r, d
    <3> QED BY <1>2, <2>2, <2>3 DEF CareIn
  <2>5. Minds(p, r)
    <3> HIDE DEF r
    <3> QED BY <2>1, <2>2, <2>4 DEF Minds
  <2> QED BY <2>5
<1>5. CASE LinkFails(p)
  <2>1. \E r \in {Rest, [Rest EXCEPT !.pc = "discover"]} : proc' = [proc EXCEPT ![p] = r]
      BY <1>5 DEF LinkFails, Abandon
  <2>2. Rest.at = Nowhere /\ [Rest EXCEPT !.pc = "discover"].at = Nowhere
      BY DEF Rest
  <2> QED BY <2>1, <2>2, RestCareful DEF Minds
<1>6. CASE Dump(p)
  <2>1. \/ \E r \in {Rest, [Rest EXCEPT !.pc = "discover"]} : proc' = [proc EXCEPT ![p] = r]
        \/ \E l \in {"rewrite", "forget", "delete"} :
               proc' = [proc EXCEPT ![p] = [proc[p] EXCEPT !.pc = l]]
      BY <1>6 DEF Dump
  <2>2. Rest.at = Nowhere /\ [Rest EXCEPT !.pc = "discover"].at = Nowhere
      BY DEF Rest
  <2>3. ASSUME NEW l \in {"rewrite", "forget", "delete"}
        PROVE  /\ CareIn([proc[p] EXCEPT !.pc = l], node', file', ToSet(born'), proc[Worker].at)
               /\ [proc[p] EXCEPT !.pc = l].at = proc[p].at
      BY <1>1, <1>2, <1>6 DEF Dump, Is, CareIn, Local
  <2> QED BY <2>1, <2>2, <2>3, RestCareful DEF Minds
<1> QED BY <1>3, <1>4, <1>5, <1>6

\* Going on to delete, and deleting, only shortens the list.
LEMMA MindsDelete ==
    ASSUME TypeOK, Shape, Careful, Undisturbed, NEW p \in Procs,
           Rewrite(p) \/ Forget(p) \/ Delete(p) \/ DeleteFails(p) \/ Deleted(p)
    PROVE  \E r : Minds(p, r)
<1>1. /\ proc[p] \in Local /\ GoodIn(proc[p], node)
      /\ CareIn(proc[p], node, file, ToSet(born), proc[Worker].at)
    BY DEF TypeOK, Local, Shape, Careful
<1>2. CareIn(proc[p], node', file', ToSet(born'), proc[Worker].at)
    BY <1>1, CareStays
<1>3. Rest.at = Nowhere /\ [Rest EXCEPT !.pc = "crawl"].at = Nowhere
    BY DEF Rest
<1>4. ASSUME NEW l \in {"forget", "delete"}, Is(p, "rewrite") \/ Is(p, "forget")
      PROVE  /\ CareIn([proc[p] EXCEPT !.pc = l], node', file', ToSet(born'), proc[Worker].at)
             /\ [proc[p] EXCEPT !.pc = l].at = proc[p].at
    BY <1>1, <1>2, <1>4 DEF Is, CareIn, Local
<1>5. ASSUME NEW d
      PROVE  /\ CareIn([proc[p] EXCEPT !.aim = proc[p].aim \ {d}],
                       node', file', ToSet(born'), proc[Worker].at)
             /\ [proc[p] EXCEPT !.aim = proc[p].aim \ {d}].at = proc[p].at
    BY <1>1, <1>2 DEF CareIn, Local
<1>6. CASE Rewrite(p)
    BY <1>3, <1>4, <1>6, RestCareful DEF Rewrite, Return, Goto, Minds
<1>7. CASE Forget(p)
    BY <1>4, <1>7 DEF Forget, Goto, Minds
<1>8. CASE Delete(p)
    BY <1>5, <1>8 DEF Delete, Minds
<1>9. CASE DeleteFails(p)
    BY <1>3, <1>5, <1>9, RestCareful DEF DeleteFails, Return, Minds
<1>10. CASE Deleted(p)
    BY <1>3, <1>10, RestCareful DEF Deleted, Minds
<1> QED BY <1>6, <1>7, <1>8, <1>9, <1>10

\* A reset starts when no crawl runs: its directories are all linked first,
\* except those without data.
LEMMA ResetCareful ==
    ASSUME TypeOK, Shape, Calm, Careful, status # "running",
           NEW task, NEW rewrite
    PROVE  /\ CareIn(Consolidating(task, TempWarcs, TempDirs, rewrite),
                     node, file, ToSet(born), proc[Worker].at)
           /\ TempWarcs = {} =>
                CareIn([Rest EXCEPT !.pc = "delete", !.task = task, !.aim = TempDirs],
                       node, file, ToSet(born), proc[Worker].at)
<1>1. proc[Worker].at = Nowhere
    BY DEF Calm, CalmIn, Procs
<1>2. ASSUME NEW d \in TempDirs
      PROVE  /\ d \in ToSet(born) /\ d # proc[Worker].at
             /\ Safe(d, node, file) \/ d \in TempWarcs
  <2>1. d \in Dirs /\ node[d] = d
      BY DEF TempDirs, Exists, Shape
  <2>2. d \in ToSet(born) /\ d # proc[Worker].at
      BY <1>1, <2>1, PathKinds DEF Careful
  <2>3. file[d] = {} \/ d \in TempWarcs
      BY <2>1, PathKinds DEF TempWarcs, HasData, Exists
  <2> QED BY <2>2, <2>3 DEF Safe
<1> QED BY <1>2 DEF CareIn, Consolidating, Rest

LEMMA MindsCommands ==
    ASSUME TypeOK, Shape, Calm, Careful, Undisturbed, "cleanup" \notin ran', NEW p \in Operators,
           ConsolidateWarcs(p) \/ CleanupJob(p) \/ ResetCrawlState(p)
    PROVE  \E r : Minds(p, r)
<1>1. ~CleanupJob(p)
    BY DEF CleanupJob, Ask
<1>2. CASE ConsolidateWarcs(p)
  <2>1. PICK rewrite \in BOOLEAN :
            proc' = [proc EXCEPT ![p] = Consolidating("consolidate", TempWarcs, {}, rewrite)]
      BY <1>2 DEF ConsolidateWarcs
  <2> DEFINE r == Consolidating("consolidate", TempWarcs, {}, rewrite)
  <2>2. CareIn(r, node', file', ToSet(born'), proc[Worker].at) /\ r.at = Nowhere
      BY DEF CareIn, Consolidating, Rest
  <2>3. Minds(p, r)
      BY <2>1, <2>2 DEF Minds
  <2> QED BY <2>3
<1>3. CASE ResetCrawlState(p)
  <2> DEFINE c == Consolidating("reset", TempWarcs, TempDirs, FALSE)
             e == [Rest EXCEPT !.pc = "delete", !.task = "reset", !.aim = TempDirs]
  <2>1. /\ status # "running"
        /\ \/ proc' = [proc EXCEPT ![p] = c]
           \/ TempWarcs = {} /\ proc' = [proc EXCEPT ![p] = e]
      BY <1>3 DEF ResetCrawlState
  <2>2. GoodIn(c, node) /\ GoodIn(e, node)
    <3>1. TempDirs \in SUBSET Dirs
        BY DEF TempDirs
    <3>2. GoodIn(e, node)
        BY <3>1 DEF GoodIn, SoundIn, Rest
    <3> QED BY <3>1, <3>2, ConsolidatingGood
  <2>3. c.at = Nowhere /\ e.at = Nowhere
      BY DEF Consolidating, Rest
  <2>4. /\ CareIn(c, node', file', ToSet(born'), proc[Worker].at)
        /\ TempWarcs = {} => CareIn(e, node', file', ToSet(born'), proc[Worker].at)
      BY <2>1, <2>2, ResetCareful, CareStays
  <2> QED BY <2>1, <2>3, <2>4 DEF Minds
<1> QED BY <1>1, <1>2, <1>3

LEMMA MindsIndex ==
    ASSUME TypeOK, Shape, Careful, Undisturbed, NEW p \in Procs,
           IndexJob(p) \/ Discover(p) \/ DiscoverFails(p) \/ Insert(p) \/ Crash(p)
    PROVE  \E r : Minds(p, r)
<1>1. proc[p] \in Local
    BY DEF TypeOK, Local
<1>2. Rest.at = Nowhere /\ [Rest EXCEPT !.pc = "discover"].at = Nowhere
    BY DEF Rest
<1>3. CASE IndexJob(p)
  <2>1. /\ CareIn(Consolidating("index", Tracked, {}, FALSE), node', file', ToSet(born'), proc[Worker].at)
        /\ Consolidating("index", Tracked, {}, FALSE).at = Nowhere
      BY DEF CareIn, Consolidating, Rest
  <2> QED BY <1>2, <1>3, <2>1, RestCareful DEF IndexJob, Minds
<1>4. CASE Discover(p)
  <2> DEFINE r == [proc[p] EXCEPT !.pc = "insert", !.aim = Discovered]
  <2>1. proc' = [proc EXCEPT ![p] = r]
      BY <1>4 DEF Discover
  <2>2. r.pc = "insert" /\ r.at = proc[p].at
      BY <1>1 DEF Local
  <2>3. Minds(p, r)
    <3> HIDE DEF r
    <3> QED BY <2>1, <2>2 DEF Minds, CareIn
  <2> QED BY <2>3
<1>5. CASE DiscoverFails(p) \/ Insert(p) \/ Crash(p)
  <2>1. proc' = [proc EXCEPT ![p] = Rest]
      BY <1>5 DEF DiscoverFails, Insert, Crash, Return
  <2> QED BY <1>2, <2>1, RestCareful DEF Minds
<1> QED BY <1>3, <1>4, <1>5

\* Resetting stale state is the worker's own first step, before it crawls.
LEMMA MindsCrawl ==
    ASSUME TypeOK, Shape, Calm, Careful, Undisturbed, CrawlStarts \/ CrawlEnds
    PROVE  \E r : Minds(Worker, r)
<1>1. Worker \in Procs /\ proc[Worker] \in Local
    BY DEF TypeOK, Local, Procs
<1>2. CASE CrawlEnds
  <2>1. proc' = [proc EXCEPT ![Worker] = Rest] /\ Rest.at = Nowhere
      BY <1>2 DEF CrawlEnds, Return, Rest
  <2> QED BY <2>1, RestCareful DEF Minds
<1>3. CASE CrawlStarts
  <2> DEFINE s == [Rest EXCEPT !.pc = "crawl", !.todo = TempDirs]
             c == Consolidating("stale", TempWarcs, TempDirs, FALSE)
             e == [Rest EXCEPT !.pc = "delete", !.task = "stale", !.aim = TempDirs]
  <2>1. /\ status # "running"
        /\ \/ proc' = [proc EXCEPT ![Worker] = s]
           \/ proc' = [proc EXCEPT ![Worker] = c]
           \/ TempWarcs = {} /\ proc' = [proc EXCEPT ![Worker] = e]
      BY <1>3 DEF CrawlStarts
  <2>2. GoodIn(c, node) /\ GoodIn(e, node)
    <3>1. TempDirs \in SUBSET Dirs
        BY DEF TempDirs
    <3>2. GoodIn(e, node)
        BY <3>1 DEF GoodIn, SoundIn, Rest
    <3> QED BY <3>1, <3>2, ConsolidatingGood
  <2>3. c.at = Nowhere /\ e.at = Nowhere /\ s.at = Nowhere /\ s.pc = "crawl"
      BY DEF Consolidating, Rest
  <2>4. /\ CareIn(c, node', file', ToSet(born'), proc[Worker].at)
        /\ TempWarcs = {} => CareIn(e, node', file', ToSet(born'), proc[Worker].at)
      BY <2>1, <2>2, ResetCareful, CareStays
  <2>5. CareIn(s, node', file', ToSet(born'), proc[Worker].at)
    <3> HIDE DEF s
    <3> QED BY <2>3 DEF CareIn
  <2> HIDE DEF s, c, e
  <2> QED BY <2>1, <2>3, <2>4, <2>5 DEF Minds
<1> QED BY <1>2, <1>3

\* No directory exists that was not made, and no one deletes the crawl's own.
LEMMA DirsStep ==
    ASSUME TypeOK, Shape, Calm, Careful, "fallback" \notin ran', [Next]_vars
    PROVE  /\ \A d \in Dirs : node'[d] # Nowhere => d \in ToSet(born')
           /\ ~NewDir /\ proc[Worker].at # Nowhere => node'[proc[Worker].at] = proc[Worker].at
<1> DEFINE at == proc[Worker].at
<1>1. ToSet(born) \subseteq ToSet(born')
    BY OthersUndisturbed DEF Undisturbed
<1>2. at # Nowhere => at \in Dirs /\ node[at] = at
    BY DEF Shape, GoodIn, Careful, Calm, CalmIn, Procs
<1>3. CASE node' = node
    BY <1>1, <1>2, <1>3 DEF Careful
<1>4. ASSUME NEW p \in Procs, Link(p)
      PROVE  \A d \in Dirs : node'[d] = node[d]
    BY <1>4, LinkMade, PathKinds DEF TypeOK
<1>5. ASSUME NEW p \in Procs, Delete(p)
      PROVE  /\ \A d \in Dirs : node'[d] # Nowhere => node[d] # Nowhere
             /\ at # Nowhere => node'[at] = at
  <2>1. PICK e \in proc[p].aim : node' = [node EXCEPT ![e] = Nowhere]
      BY <1>5 DEF Delete
  <2>2. e # at
      BY <1>5 DEF Delete, Is, Careful, CareIn
  <2> QED BY <1>2, <2>1, <2>2, PathKinds DEF TypeOK
<1>6. CASE NewDir
  <2>1. PICK e \in Dirs : node' = [node EXCEPT ![e] = e] /\ born' = Append(born, e)
      BY <1>6 DEF NewDir
  <2>2. ToSet(born') = ToSet(born) \cup {e}
      BY <2>1, BornAppended DEF TypeOK
  <2> QED BY <1>6, <2>1, <2>2, PathKinds DEF Careful, TypeOK
<1>7. ASSUME NEW p \in Procs, Link(p) \/ Delete(p)
      PROVE  /\ \A d \in Dirs : node'[d] # Nowhere => d \in ToSet(born')
             /\ at # Nowhere => node'[at] = at
    BY <1>1, <1>2, <1>4, <1>5, <1>7 DEF Careful
<1> QED BY <1>3, <1>6, <1>7, OthersKeepPaths, NoFallback

LEMMA CarefulStep ==
    ASSUME TypeOK, Shape, Calm, Careful, "fallback" \notin ran', "cleanup" \notin ran', [Next]_vars
    PROVE  Careful'
<1>1. Undisturbed /\ Shape'
    BY OthersUndisturbed, ShapeStep
<1>2. \A q \in Procs : CareIn(proc[q], node', file', ToSet(born'), proc[Worker].at)
    BY <1>1, CareStays DEF Shape, Careful
<1>3. ASSUME NEW p \in Procs, NEW r, Minds(p, r), ~NewDir
      PROVE  Careful'
    BY <1>1, <1>3, DirsStep, OneMinds DEF Careful
<1>4. ASSUME proc' = proc, ~NewDir
      PROVE  Careful'
    BY <1>2, <1>4, DirsStep DEF Careful
<1>5. CASE NewDir
  <2>1. PICK d \in Dirs \ ToSet(born) :
            /\ node' = [node EXCEPT ![d] = d]
            /\ proc' = [proc EXCEPT ![Worker] = [proc[Worker] EXCEPT !.at = d, !.todo = Recorded]]
      BY <1>5 DEF NewDir
  <2>2. /\ Worker \in Procs /\ proc'[Worker] = [proc[Worker] EXCEPT !.at = d, !.todo = Recorded]
        /\ \A q \in Procs : q # Worker => proc'[q] = proc[q]
      BY <2>1 DEF TypeOK, Procs
  <2>3. proc'[Worker].at = d /\ proc'[Worker].pc = "crawl"
      BY <1>5, <2>2 DEF NewDir, Is, TypeOK
  <2>4. node'[d] = d
      BY <2>1, PathKinds DEF TypeOK
  <2>5. \A q \in Procs : CareIn(proc[q], node', file', ToSet(born'), d)
      BY <1>2, <2>1 DEF Careful, CareIn
  <2>6. \A q \in Procs : CareIn(proc'[q], node', file', ToSet(born'), d)
      BY <2>2, <2>3, <2>5 DEF CareIn
  <2> QED BY <2>3, <2>4, <2>6, DirsStep DEF Careful
<1>6. CASE RetryJob \/ Capture \/ UNCHANGED vars
  <2>1. proc' = proc
      BY <1>6 DEF RetryJob, Capture, vars
  <2> QED BY <1>4, <1>5, <2>1
<1>7. CASE \E p \in Procs :
             \/ Reuse(p) \/ Link(p) \/ LinkFails(p) \/ Dump(p)
             \/ Rewrite(p) \/ Forget(p) \/ Delete(p) \/ DeleteFails(p) \/ Deleted(p)
             \/ IndexJob(p) \/ Discover(p) \/ DiscoverFails(p) \/ Insert(p) \/ Crash(p)
  <2>1. PICK p \in Procs : \E r : Minds(p, r)
      BY <1>1, <1>7, MindsLink, MindsDelete, MindsIndex
  <2> QED BY <1>3, <1>5, <2>1
<1>8. CASE \E p \in Operators : ConsolidateWarcs(p) \/ CleanupJob(p) \/ ResetCrawlState(p)
  <2>1. PICK p \in Operators : \E r : Minds(p, r)
      BY <1>1, <1>8, MindsCommands
  <2> QED BY <1>3, <1>5, <2>1 DEF Procs
<1>9. CASE CrawlStarts \/ CrawlEnds
  <2>1. (\E r : Minds(Worker, r)) /\ Worker \in Procs
      BY <1>1, <1>9, MindsCrawl DEF Procs
  <2> QED BY <1>3, <1>5, <2>1
<1> QED BY <1>5, <1>6, <1>7, <1>8, <1>9, NoFallback DEF Next

-----------------------------------------------------------------------------
(* Captures.                                                               *)

AllKept == \A c \in 1..made : Kept(c)

LEMMA KeptInit == Init => AllKept
<1> SUFFICES ASSUME Init, NEW c \in 1..made PROVE Kept(c)
    BY DEF AllKept
<1>1. c \in Paths /\ c <= Adopted /\ c # Nowhere
    BY Constants DEF Init, Paths, Dirs, Nowhere
<1> QED BY <1>1 DEF Init, Kept, Exists

LEMMA KeptStep ==
    ASSUME TypeOK, Shape, Calm, Careful, AllKept, "fallback" \notin ran', [Next]_vars
    PROVE  AllKept'
<1> USE DEF Exists
<1>1. made \in Nat
    BY DEF TypeOK
<1>2. NamesStay
    BY PathsStep
<1>3. ASSUME NEW p \in Procs, Delete(p)
      PROVE  AllKept'
  <2>1. PICK e \in proc[p].aim : node' = [node EXCEPT ![e] = Nowhere]
      BY <1>3 DEF Delete
  <2>2. e \in Dirs /\ Safe(e, node, file)
      BY <1>3 DEF Delete, Is, Shape, GoodIn, Careful, CareIn
  <2>3. file' = file /\ made' = made
      BY <1>3 DEF Delete
  <2> SUFFICES ASSUME NEW c \in 1..made
               PROVE  \E q \in Paths : node'[q] # Nowhere /\ c \in file[node'[q]]
      BY <2>3 DEF AllKept, Kept
  <2>4. PICK q \in Paths : node[q] # Nowhere /\ c \in file[node[q]]
      BY DEF AllKept, Kept
  <2>5. CASE q # e
      BY <2>1, <2>4, <2>5 DEF TypeOK
  <2>6. CASE q = e
    <3>1. node[e] = e /\ file[e] # {}
        BY <2>2, <2>4, <2>6 DEF Shape
    <3>2. PICK s \in Names : node[s] = e
        BY <2>2, <3>1, <2>4, <2>6 DEF Safe
    <3>3. s \in Paths /\ node'[s] = e /\ e # Nowhere
        BY <2>1, <2>2, <3>2, PathKinds DEF TypeOK
    <3> QED BY <2>4, <2>6, <3>1, <3>3
  <2> QED BY <2>5, <2>6
<1>4. CASE Capture
  <2> DEFINE at == proc[Worker].at
  <2>1. /\ at # Nowhere /\ node' = node /\ made' = made + 1
        /\ file' = [file EXCEPT ![at] = file[at] \cup {made + 1}]
      BY <1>4 DEF Capture
  <2>2. at \in Paths /\ node[at] = at
      BY <2>1, PathKinds DEF Careful, Shape, GoodIn, Procs
  <2> SUFFICES ASSUME NEW c \in 1..made + 1
               PROVE  \E q \in Paths : node[q] # Nowhere /\ c \in file'[node[q]]
      BY <2>1 DEF AllKept, Kept
  <2>3. CASE c = made + 1
      BY <2>1, <2>2, <2>3 DEF TypeOK
  <2>4. CASE c \in 1..made
    <3>1. PICK q \in Paths : node[q] # Nowhere /\ c \in file[node[q]]
        BY <2>4 DEF AllKept, Kept
    <3> QED BY <2>1, <3>1 DEF TypeOK
  <2> QED BY <1>1, <2>3, <2>4
<1>5. ASSUME file' = file, made' = made,
             \A q \in Paths : node[q] # Nowhere => node'[q] = node[q]
      PROVE  AllKept'
  <2> SUFFICES ASSUME NEW c \in 1..made
               PROVE  \E q \in Paths : node'[q] # Nowhere /\ c \in file[node'[q]]
      BY <1>5 DEF AllKept, Kept
  <2>1. PICK q \in Paths : node[q] # Nowhere /\ c \in file[node[q]]
      BY DEF AllKept, Kept
  <2> QED BY <1>5, <2>1
<1>6. ASSUME NEW p \in Procs, Link(p)
      PROVE  \A q \in Paths : node[q] # Nowhere => node'[q] = node[q]
    BY <1>6, LinkMade, PathKinds DEF TypeOK
<1>7. NewDir => \A q \in Paths : node[q] # Nowhere => node'[q] = node[q]
  <2> SUFFICES ASSUME NewDir PROVE \A q \in Paths : node[q] # Nowhere => node'[q] = node[q]
      OBVIOUS
  <2>1. PICK d \in Dirs : node' = [node EXCEPT ![d] = d]
      BY DEF NewDir
  <2>2. node[d] \in {Nowhere, d}
      BY DEF Shape
  <2> QED BY <2>1, <2>2 DEF TypeOK
<1> QED BY <1>3, <1>4, <1>5, <1>6, <1>7, FileStep, OthersKeepPaths, NoFallback

\* Every page ever captured stays in a WARC that some path leads to, whatever
\* operators consolidate, reset, index and retry beside the worker, whichever
\* calls fail and whoever is killed (archive_storage.consolidate_warcs,
\* utils.cleanup_temp_dirs): until a crawl falls back, or someone runs
\* cleanup-job.
THEOREM NothingIsLost == Spec => []NothingLost
<1> DEFINE Spared == {"cleanup", "fallback"} \cap ran = {}
           IInv == Spared => Calm /\ Careful /\ AllKept
<1>1. Init => TypeOK /\ Shape /\ IInv
    BY TypeInit, ShapeInit, CalmInit, CarefulInit, KeptInit
<1>2. TypeOK /\ Shape /\ IInv /\ [Next]_vars => (TypeOK /\ Shape /\ IInv)'
  <2> SUFFICES ASSUME TypeOK, Shape, IInv, [Next]_vars
               PROVE  TypeOK' /\ Shape' /\ (Spared' => (Calm /\ Careful /\ AllKept)')
      OBVIOUS
  <2>1. TypeOK' /\ Shape'
      BY TypeStep, ShapeStep
  <2>2. ASSUME Spared' PROVE (Calm /\ Careful /\ AllKept)'
    <3>1. "fallback" \notin ran' /\ "cleanup" \notin ran' /\ Spared
        BY <2>2, RanGrows
    <3> QED BY <3>1, CalmStep, CarefulStep, KeptStep
  <2> QED BY <2>1, <2>2
<1>3. IInv => NothingLost
    BY DEF NothingLost, AllKept
<1> QED BY <1>1, <1>2, <1>3, PTL DEF Spec

-----------------------------------------------------------------------------
(* The rows of the index.  What a step does to files, rows and to the       *)
(* paths that an indexing process has found.                                *)

\* Rows are inserted by an index, and rewritten by commands.
LEMMA RowsStep ==
    ASSUME [Next]_vars
    PROVE  rows' = rows \/ \E p \in Procs : Rewrite(p) \/ Insert(p)
<1>1. ASSUME NEW p \in Operators, ConsolidateWarcs(p) \/ CleanupJob(p) \/ ResetCrawlState(p)
      PROVE  rows' = rows
    BY <1>1 DEF ConsolidateWarcs, CleanupJob, ResetCrawlState, db
<1>2. ASSUME NEW p \in Procs,
             \/ Reuse(p) \/ Link(p) \/ LinkFails(p) \/ Dump(p)
             \/ Forget(p) \/ Delete(p) \/ DeleteFails(p) \/ Deleted(p)
      PROVE  rows' = rows
    BY <1>2 DEF Reuse, Link, LinkFails, Dump, Forget, Delete, DeleteFails, Deleted, db
<1>3. ASSUME NEW p \in Procs, IndexJob(p) \/ Discover(p) \/ DiscoverFails(p) \/ Crash(p)
      PROVE  rows' = rows
    BY <1>3 DEF IndexJob, Discover, DiscoverFails, Crash, db
<1>4. \/ RetryJob \/ CrawlStarts \/ NewDir \/ Capture \/ CrawlEnds \/ FallbackPicks \/ FallbackWrites
      \/ UNCHANGED vars
      => rows' = rows
    BY DEF RetryJob, CrawlStarts, NewDir, Capture, CrawlEnds, FallbackPicks, FallbackWrites, db, vars
<1> QED BY <1>1, <1>2, <1>3, <1>4 DEF Next

\* What linking a source changes in the locals.
LEMMA LinkKeeps ==
    ASSUME TypeOK, NEW p \in Procs, Reuse(p) \/ Link(p)
    PROVE  /\ proc' = [proc EXCEPT ![p] = proc'[p]]
           /\ proc[p].pc = "link" /\ proc'[p].pc = "link"
           /\ proc'[p].task = proc[p].task /\ proc'[p].rewrite = proc[p].rewrite
           /\ proc'[p].at = proc[p].at /\ proc'[p].aim = proc[p].aim
           /\ proc'[p].todo = proc[p].todo \ {Source(p)}
<1>1. proc[p] \in Local /\ proc[p].pc = "link" /\ proc \in [Procs -> Local]
    BY DEF TypeOK, Local, Reuse, Link, Linking, Is
<1> DEFINE d == Source(p)
           rest == proc[p].todo \ {d}
           map == [proc[p].map EXCEPT ![d] = Dest(p)]
           next == IF Dest(p) = proc[p].next THEN proc[p].next + 1 ELSE proc[p].next
<1>2. CASE Reuse(p)
  <2>1. proc' = [proc EXCEPT ![p] = [proc[p] EXCEPT !.todo = rest]]
      BY <1>2 DEF Reuse
  <2> HIDE DEF rest
  <2>2. /\ proc' = [proc EXCEPT ![p] = proc'[p]]
        /\ proc'[p].pc = "link"
        /\ proc'[p].task = proc[p].task /\ proc'[p].rewrite = proc[p].rewrite
        /\ proc'[p].at = proc[p].at /\ proc'[p].aim = proc[p].aim
        /\ proc'[p].todo = rest
      BY <1>1, <2>1 DEF Local
  <2> QED BY <1>1, <2>2 DEF rest
<1>3. CASE Link(p)
  <2>1. proc' = [proc EXCEPT ![p] = [proc[p] EXCEPT !.todo = rest, !.map = map, !.next = next]]
      BY <1>3 DEF Link
  <2> HIDE DEF rest, map, next
  <2>2. /\ proc' = [proc EXCEPT ![p] = proc'[p]]
        /\ proc'[p].pc = "link"
        /\ proc'[p].task = proc[p].task /\ proc'[p].rewrite = proc[p].rewrite
        /\ proc'[p].at = proc[p].at /\ proc'[p].aim = proc[p].aim
        /\ proc'[p].todo = rest
      BY <1>1, <2>1 DEF Local
  <2> QED BY <1>1, <2>2 DEF rest
<1> QED BY <1>2, <1>3

\* The commands that do not index begin by linking, rewriting or deleting.
LEMMA CommandsBegin ==
    ASSUME NEW p \in Operators, ConsolidateWarcs(p) \/ CleanupJob(p) \/ ResetCrawlState(p)
    PROVE  \E r : /\ proc' = [proc EXCEPT ![p] = r]
                  /\ r.pc \in {"link", "rewrite", "forget", "delete"}
<1>1. ASSUME NEW r, proc' = [proc EXCEPT ![p] = r], r.pc \in {"link", "rewrite", "forget", "delete"}
      PROVE  \E t : proc' = [proc EXCEPT ![p] = t] /\ t.pc \in {"link", "rewrite", "forget", "delete"}
    BY <1>1
<1>2. ASSUME NEW t, NEW u, NEW a, NEW w
      PROVE  Consolidating(t, u, a, w).pc = "link"
    BY DEF Consolidating, Rest
<1>3. ASSUME NEW l, NEW t, NEW a
      PROVE  [Rest EXCEPT !.pc = l, !.task = t, !.aim = a].pc = l
    BY DEF Rest
<1>4. CASE ConsolidateWarcs(p)
  <2>1. PICK w \in BOOLEAN :
          proc' = [proc EXCEPT ![p] = Consolidating("consolidate", TempWarcs, {}, w)]
      BY <1>4 DEF ConsolidateWarcs
  <2>2. Consolidating("consolidate", TempWarcs, {}, w).pc = "link"
      BY <1>2
  <2> QED BY <1>1, <2>1, <2>2
<1>5. CASE CleanupJob(p)
  <2> DEFINE l == IF InTemp(rows) # {} THEN "rewrite" ELSE "forget"
             w == InTemp(rows) # {}
             r == [Rest EXCEPT !.pc = l, !.task = "cleanup", !.aim = TempDirs]
             c == Consolidating("cleanup", TempWarcs, TempDirs, w)
  <2>1. proc' = [proc EXCEPT ![p] = r] \/ proc' = [proc EXCEPT ![p] = c]
      BY <1>5 DEF CleanupJob
  <2>2. r.pc = l /\ c.pc = "link"
      BY <1>2, <1>3
  <2>3. l \in {"rewrite", "forget"}
      OBVIOUS
  <2> HIDE DEF r, c, l
  <2> QED BY <1>1, <2>1, <2>2, <2>3
<1>6. CASE ResetCrawlState(p)
  <2> DEFINE r == [Rest EXCEPT !.pc = "delete", !.task = "reset", !.aim = TempDirs]
             c == Consolidating("reset", TempWarcs, TempDirs, FALSE)
  <2>1. proc' = [proc EXCEPT ![p] = r] \/ proc' = [proc EXCEPT ![p] = c]
      BY <1>6 DEF ResetCrawlState
  <2>2. r.pc = "delete" /\ c.pc = "link"
      BY <1>2 DEF Rest
  <2> HIDE DEF r, c
  <2> QED BY <1>1, <2>1, <2>2
<1> QED BY <1>4, <1>5, <1>6

\* Only Discover finds paths to insert.
LEMMA InsertStep ==
    ASSUME TypeOK, [Next]_vars, NEW p \in Procs, Is(p, "insert")'
    PROVE  proc'[p] = proc[p] \/ Discover(p)
<1>1. proc \in [Procs -> Local]
    BY DEF TypeOK, Local
<1>2. ASSUME NEW q \in Procs, NEW r, r.pc # "insert", proc' = [proc EXCEPT ![q] = r]
      PROVE  proc'[p] = proc[p]
    BY <1>1, <1>2 DEF Is
<1>3. ASSUME NEW q \in Procs, Reuse(q) \/ Link(q)
      PROVE  proc'[p] = proc[p]
    BY <1>2, <1>3, LinkKeeps
<1>4. ASSUME NEW q \in Procs, LinkFails(q) \/ Dump(q)
      PROVE  proc'[p] = proc[p]
  <2>1. proc' = [proc EXCEPT ![q] = proc'[q]] /\ proc'[q].pc # "insert"
      BY <1>1, <1>4 DEF LinkFails, Abandon, Dump, Rest, Local
  <2> QED BY <1>2, <2>1
<1>5. ASSUME NEW q \in Procs, Rewrite(q) \/ Forget(q) \/ Delete(q) \/ DeleteFails(q) \/ Deleted(q)
      PROVE  proc'[p] = proc[p]
  <2>1. proc' = [proc EXCEPT ![q] = proc'[q]] /\ proc'[q].pc # "insert"
      BY <1>1, <1>5 DEF Rewrite, Forget, Delete, DeleteFails, Deleted, Return, Goto, Is, Rest, Local
  <2> QED BY <1>2, <2>1
<1>6. ASSUME NEW q \in Procs, IndexJob(q) \/ DiscoverFails(q) \/ Insert(q) \/ Crash(q)
      PROVE  proc'[p] = proc[p]
  <2>1. proc' = [proc EXCEPT ![q] = proc'[q]] /\ proc'[q].pc # "insert"
    <3>1. CASE IndexJob(q)
        BY <1>1, <3>1 DEF IndexJob, Consolidating, Rest
    <3>2. CASE DiscoverFails(q) \/ Insert(q) \/ Crash(q)
        BY <1>1, <3>2 DEF DiscoverFails, Insert, Crash, Return, Rest
    <3> QED BY <1>6, <3>1, <3>2
  <2> QED BY <1>2, <2>1
<1>7. ASSUME NEW q \in Procs, Discover(q)
      PROVE  proc'[p] = proc[p] \/ Discover(p)
    BY <1>1, <1>7 DEF Discover
<1>8. ASSUME NEW q \in Operators, ConsolidateWarcs(q) \/ CleanupJob(q) \/ ResetCrawlState(q)
      PROVE  proc'[p] = proc[p]
  <2>1. q \in Procs
      BY DEF Procs
  <2> QED BY <1>2, <1>8, <2>1, CommandsBegin
<1>9. CASE CrawlStarts \/ NewDir \/ CrawlEnds \/ FallbackPicks \/ FallbackWrites
  <2>1. /\ Worker \in Procs /\ proc' = [proc EXCEPT ![Worker] = proc'[Worker]]
        /\ proc'[Worker].pc # "insert"
    <3>1. CASE CrawlStarts
        BY <1>1, <3>1 DEF CrawlStarts, Consolidating, Rest, Procs
    <3>2. CASE NewDir \/ FallbackPicks
      <4>1. proc[Worker].pc = "crawl" /\ Worker \in Procs
          BY <3>2 DEF NewDir, FallbackPicks, Is, Procs
      <4>2. CASE NewDir
        <5>1. PICK d : proc' = [proc EXCEPT ![Worker] = [proc[Worker] EXCEPT !.at = d, !.todo = Recorded]]
            BY <4>2 DEF NewDir
        <5> QED BY <1>1, <4>1, <5>1 DEF Local
      <4>3. CASE FallbackPicks
        <5>1. proc' = [proc EXCEPT ![Worker] = [proc[Worker] EXCEPT !.pc = "render", !.at = NextName]]
            BY <4>3 DEF FallbackPicks
        <5> QED BY <1>1, <4>1, <5>1 DEF Local
      <4> QED BY <3>2, <4>2, <4>3
    <3>3. CASE CrawlEnds \/ FallbackWrites
        BY <1>1, <3>3 DEF CrawlEnds, FallbackWrites, Return, Rest, Procs
    <3> QED BY <1>9, <3>1, <3>2, <3>3
  <2> QED BY <1>2, <2>1
<1>10. CASE RetryJob \/ Capture \/ UNCHANGED vars
    BY <1>10 DEF RetryJob, Capture, vars
<1> QED BY <1>3, <1>4, <1>5, <1>6, <1>7, <1>8, <1>9, <1>10 DEF Next

-----------------------------------------------------------------------------
(* A capture has one row: each is in one file only, and an index takes one  *)
(* path for each file.                                                      *)

FilesApart ==
    /\ \A p \in Paths : file[p] \subseteq 1..made
    /\ \A p, q \in Paths : p # q => file[p] \cap file[q] = {}

\* The paths that a process is about to insert, when the paths lead to the files n.
ApartIn(r, n) ==
    r.pc = "insert" => \A s \in r.aim \cap Names :
        /\ n[s] # Nowhere /\ n[s] \notin r.aim \cap Dirs
        /\ \A m \in r.aim \cap Names : n[m] = n[s] => m = s

OneRow == \A r, s \in rows : r[1] = s[1] => r = s

Apart == FilesApart /\ OneRow /\ \A p \in Procs : ApartIn(proc[p], node)

LEMMA ApartInit == Init => Apart
<1> SUFFICES ASSUME Init PROVE Apart
    OBVIOUS
<1>1. FilesApart
    BY Constants, PathKinds DEF Init, FilesApart
<1>2. OneRow
    BY DEF Init, OneRow
<1>3. \A p \in Procs : ApartIn(proc[p], node)
    BY DEF Init, ApartIn, Rest
<1> QED BY <1>1, <1>2, <1>3 DEF Apart

LEMMA FilesApartStep ==
    ASSUME TypeOK, Shape, FilesApart, [Next]_vars
    PROVE  FilesApart'
<1>1. /\ made \in Nat /\ file \in [Paths -> SUBSET Captures]
      /\ \A p \in Paths : file[p] \subseteq 1..made
      /\ \A p, q \in Paths : p # q => file[p] \cap file[q] = {}
    BY DEF TypeOK, FilesApart
<1>2. \A p \in Paths : made + 1 \notin file[p]
    BY <1>1
<1>3. 1..made \subseteq 1..(made + 1) /\ made + 1 \in 1..(made + 1)
    BY <1>1
<1>4. CASE Capture
  <2>1. PICK f \in Paths : file' = [file EXCEPT ![f] = file[f] \cup {made + 1}]
    <3>1. proc[Worker].at \in Paths
        BY <1>4, PathKinds DEF Capture, Is, Shape, GoodIn, Procs
    <3> QED BY <1>4, <3>1 DEF Capture
  <2>2. made' = made + 1
      BY <1>4 DEF Capture
  <2>3. \A p \in Paths : file'[p] \subseteq 1..made'
      BY <1>1, <1>3, <2>1, <2>2
  <2>4. \A p, q \in Paths : p # q => file'[p] \cap file'[q] = {}
      BY <1>1, <1>2, <2>1
  <2> QED BY <2>3, <2>4 DEF FilesApart
<1>5. CASE FallbackWrites
  <2>1. PICK f : /\ \/ made' = made + 1 /\ file' = [file EXCEPT ![f] = {made + 1}]
                    \/ made' = made /\ file' = [file EXCEPT ![f] = {}]
      BY <1>5 DEF FallbackWrites
  <2>2. \A p \in Paths : file'[p] \subseteq 1..made'
      BY <1>1, <1>3, <2>1
  <2>3. \A p, q \in Paths : p # q => file'[p] \cap file'[q] = {}
      BY <1>1, <1>2, <2>1
  <2> QED BY <2>2, <2>3 DEF FilesApart
<1>6. CASE file' = file /\ made' = made
    BY <1>6 DEF FilesApart
<1> QED BY <1>4, <1>5, <1>6, CapturesStep

\* Two paths of an index with the same capture are the same path.
LEMMA RowsOfApart ==
    ASSUME TypeOK, Shape, FilesApart, NEW p \in Procs, Is(p, "insert"), ApartIn(proc[p], node),
           NEW paths \in SUBSET proc[p].aim, \A q \in paths : Exists(q)
    PROVE  \A r, s \in RowsOf(paths) : r[1] = s[1] => r = s
<1>1. proc[p].aim \subseteq Paths
    BY DEF TypeOK
<1>2. SUFFICES ASSUME NEW c \in Captures, NEW q \in paths, NEW m \in paths,
                      c \in file[node[q]], c \in file[node[m]]
               PROVE  q = m
    BY DEF RowsOf
<1>3. node[q] \in Paths /\ node[m] \in Paths
    BY <1>1 DEF TypeOK, Exists
<1>4. node[q] = node[m]
    BY <1>2, <1>3 DEF FilesApart
<1>5. \A d \in Dirs : Exists(d) => node[d] = d
    BY DEF Shape, Exists
<1>6. Exists(q) /\ Exists(m) /\ q \in proc[p].aim /\ m \in proc[p].aim
    OBVIOUS
<1>7. \A s \in proc[p].aim \cap Names :
          /\ node[s] \notin proc[p].aim \cap Dirs
          /\ \A t \in proc[p].aim \cap Names : node[t] = node[s] => t = s
    BY DEF ApartIn, Is
<1>8. CASE q \in Names
    BY <1>1, <1>4, <1>5, <1>6, <1>7, <1>8, PathKinds
<1>9. CASE q \in Dirs
    BY <1>1, <1>4, <1>5, <1>6, <1>7, <1>9, PathKinds
<1> QED BY <1>1, <1>6, <1>8, <1>9, PathKinds

LEMMA OneRowStep ==
    ASSUME TypeOK, Shape, Apart, [Next]_vars
    PROVE  OneRow'
<1>1. ASSUME NEW p \in Procs, Insert(p)
      PROVE  OneRow'
  <2> DEFINE gone == {q \in proc[p].aim : ~Exists(q)}
             paths == {q \in proc[p].aim : \A g \in gone : q < g}
  <2>1. Is(p, "insert") /\ rows' = RowsOf(paths)
      BY <1>1 DEF Insert
  <2>2. proc[p].aim \subseteq Nat
      BY PathKinds DEF TypeOK
  <2>3. paths \in SUBSET proc[p].aim /\ \A q \in paths : Exists(q)
    <3>1. ASSUME NEW q \in paths, q \in gone
          PROVE  FALSE
      <4>1. q < q /\ q \in Nat
          BY <2>2, <3>1
      <4> QED BY <4>1
    <3> QED BY <3>1
  <2> HIDE DEF paths
  <2>4. \A r, s \in RowsOf(paths) : r[1] = s[1] => r = s
      BY <2>1, <2>3, RowsOfApart DEF Apart
  <2> QED BY <2>1, <2>4 DEF OneRow
<1>2. ASSUME NEW p \in Procs, Rewrite(p)
      PROVE  OneRow'
  <2>1. rows' = rows \/ rows' = Mapped(rows)
      BY <1>2 DEF Rewrite
  <2>2. \A r, s \in Mapped(rows) : r[1] = s[1] => r = s
      BY DEF Apart, OneRow, Mapped
  <2> QED BY <2>1, <2>2 DEF Apart, OneRow
<1>3. CASE rows' = rows
    BY <1>3 DEF Apart, OneRow
<1> QED BY <1>1, <1>2, <1>3, RowsStep

LEMMA ApartStep ==
    ASSUME TypeOK, Shape, Apart, [Next]_vars
    PROVE  Apart'
<1>1. ASSUME NEW p \in Procs, Is(p, "insert")'
      PROVE  ApartIn(proc'[p], node')
  <2>1. CASE proc'[p] = proc[p]
    <3>1. ApartIn(proc[p], node) /\ NamesStay
        BY PathsStep DEF Apart
    <3> QED BY <2>1, <3>1 DEF ApartIn, NamesStay, Exists
  <2>2. CASE Discover(p)
    <3>1. node' = node /\ proc'[p].aim = Discovered
        BY <2>2 DEF Discover, disk, TypeOK
    <3>2. Discovered \cap Names =
              {n \in Names : HasData(n) /\ \A m \in Names : node[m] = node[n] => n <= m}
        BY PathKinds DEF Discovered
    <3>3. \A d \in Discovered \cap Dirs : \A n \in Names : node[n] # d
      <4> SUFFICES ASSUME NEW d \in Discovered \cap Dirs PROVE \A n \in Names : node[n] # d
          OBVIOUS
      <4>1. d \in TempWarcs /\ \A n \in Names : node[n] # node[d]
          BY PathKinds DEF Discovered
      <4>2. node[d] = d
          BY <4>1 DEF TempWarcs, HasData, Exists, Shape
      <4> QED BY <4>1, <4>2
    <3>4. \A m, n \in Discovered \cap Names : node[m] = node[n] => m = n
      <4> SUFFICES ASSUME NEW m \in Discovered \cap Names, NEW n \in Discovered \cap Names,
                          node[m] = node[n]
                   PROVE  m = n
          OBVIOUS
      <4>1. m <= n /\ n <= m /\ m \in Nat /\ n \in Nat
          BY <3>2, PathKinds
      <4> QED BY <4>1
    <3>5. \A n \in Discovered \cap Names : node[n] # Nowhere
        BY <3>2 DEF HasData, Exists
    <3> QED BY <3>1, <3>3, <3>4, <3>5 DEF ApartIn
  <2> QED BY <1>1, <2>1, <2>2, InsertStep
<1>2. \A p \in Procs : ApartIn(proc'[p], node')
    BY <1>1 DEF ApartIn, Is
<1>3. FilesApart' /\ OneRow'
    BY FilesApartStep, OneRowStep DEF Apart
<1> QED BY <1>2, <1>3 DEF Apart

-----------------------------------------------------------------------------
(* The manifest passes verify-warc-manifest: only WARCs with data are       *)
(* linked, and until a crawl falls back no file loses its captures.         *)

FilledIn(r, f) == r.pc = "link" => \A d \in r.todo : f[d] # {}

Filled ==
    /\ \A n \in Names : Exists(n) => file[node[n]] # {}
    /\ \A p \in Procs : FilledIn(proc[p], file)

LEMMA FilledInit == Init => Filled
<1> SUFFICES ASSUME Init PROVE Filled
    OBVIOUS
<1>1. \A n \in Names : ~Exists(n)
    BY Constants DEF Init, Names, Paths, Dirs, Exists
<1>2. \A p \in Procs : FilledIn(proc[p], file)
    BY DEF Init, FilledIn, Rest
<1> QED BY <1>1, <1>2 DEF Filled

\* What is consolidated was among the WARCs with data when it began.
LEMMA SourcesStep ==
    ASSUME TypeOK, [Next]_vars, NEW p \in Procs, Is(p, "link")'
    PROVE  \/ proc[p].pc = "link" /\ proc'[p].todo \subseteq proc[p].todo
           \/ proc'[p].todo \subseteq TempWarcs
<1>1. proc \in [Procs -> Local]
    BY DEF TypeOK, Local
<1>2. ASSUME proc'[p] = proc[p]
      PROVE  proc[p].pc = "link" /\ proc'[p].todo \subseteq proc[p].todo
    BY <1>2 DEF Is
<1>3. ASSUME NEW q \in Procs, NEW r, proc' = [proc EXCEPT ![q] = r], r.pc # "link"
      PROVE  proc'[p] = proc[p]
    BY <1>1, <1>3 DEF Is
<1>4. ASSUME NEW q \in Procs, NEW t, NEW s \in SUBSET TempWarcs, NEW a, NEW w,
             proc' = [proc EXCEPT ![q] = Consolidating(t, s, a, w)]
      PROVE  proc'[p] = proc[p] \/ proc'[p].todo \subseteq TempWarcs
  <2>1. Consolidating(t, s, a, w).todo = s
      BY DEF Consolidating, Rest
  <2> QED BY <1>1, <1>4, <2>1
<1>5. Tracked \subseteq TempWarcs
    BY DEF Tracked
<1>6. ASSUME NEW q \in Procs, Reuse(q) \/ Link(q)
      PROVE  proc[p].pc = "link" /\ proc'[p].todo \subseteq proc[p].todo
  <2>1. CASE q = p
    <3>1. proc[p].pc = "link"
        BY <1>6, <2>1 DEF Reuse, Link, Linking, Is
    <3>2. proc'[p].todo = proc[p].todo \ {Source(p)}
        BY <1>1, <1>6, <2>1 DEF Reuse, Link, Local
    <3> QED BY <3>1, <3>2
  <2>2. CASE q # p
      BY <1>1, <1>2, <1>6, <2>2 DEF Reuse, Link
  <2> QED BY <2>1, <2>2
<1>7. ASSUME NEW q \in Procs, LinkFails(q) \/ Dump(q)
      PROVE  proc'[p] = proc[p]
  <2>1. proc' = [proc EXCEPT ![q] = proc'[q]] /\ proc'[q].pc # "link"
      BY <1>1, <1>7 DEF LinkFails, Abandon, Dump, Rest, Local
  <2> QED BY <1>3, <2>1
<1>8. ASSUME NEW q \in Procs, Rewrite(q) \/ Forget(q) \/ Delete(q) \/ DeleteFails(q) \/ Deleted(q)
      PROVE  proc'[p] = proc[p]
  <2>1. proc' = [proc EXCEPT ![q] = proc'[q]] /\ proc'[q].pc # "link"
      BY <1>1, <1>8 DEF Rewrite, Forget, Delete, DeleteFails, Deleted, Return, Goto, Is, Rest, Local
  <2> QED BY <1>3, <2>1
<1>9. ASSUME NEW q \in Procs, IndexJob(q)
      PROVE  proc'[p] = proc[p] \/ proc'[p].todo \subseteq TempWarcs
  <2>1. CASE proc' = [proc EXCEPT ![q] = [Rest EXCEPT !.pc = "discover"]]
    <3>1. [Rest EXCEPT !.pc = "discover"].pc # "link"
        BY DEF Rest
    <3> QED BY <1>3, <2>1, <3>1
  <2>2. CASE proc' = [proc EXCEPT ![q] = Consolidating("index", Tracked, {}, FALSE)]
      BY <1>4, <1>5, <2>2
  <2> QED BY <1>9, <2>1, <2>2 DEF IndexJob
<1>10. ASSUME NEW q \in Procs, Discover(q) \/ DiscoverFails(q) \/ Insert(q) \/ Crash(q)
       PROVE  proc'[p] = proc[p]
  <2>1. proc' = [proc EXCEPT ![q] = proc'[q]] /\ proc'[q].pc # "link"
      BY <1>1, <1>10 DEF Discover, DiscoverFails, Insert, Crash, Return, Rest, Local
  <2> QED BY <1>3, <2>1
<1>11. ASSUME NEW q \in Operators, ConsolidateWarcs(q) \/ CleanupJob(q) \/ ResetCrawlState(q)
       PROVE  proc'[p] = proc[p] \/ proc'[p].todo \subseteq TempWarcs
  <2>1. ASSUME NEW t, NEW a, NEW w, proc' = [proc EXCEPT ![q] = Consolidating(t, TempWarcs, a, w)]
        PROVE  proc'[p] = proc[p] \/ proc'[p].todo \subseteq TempWarcs
      BY <1>4, <2>1 DEF Procs
  <2>2. ASSUME NEW l \in {"rewrite", "forget", "delete"}, NEW t,
               proc' = [proc EXCEPT ![q] = [Rest EXCEPT !.pc = l, !.task = t, !.aim = TempDirs]]
        PROVE  proc'[p] = proc[p]
    <3>1. [Rest EXCEPT !.pc = l, !.task = t, !.aim = TempDirs].pc = l
        BY DEF Rest
    <3> QED BY <1>3, <2>2, <3>1 DEF Procs
  <2>3. CASE ConsolidateWarcs(q)
      BY <2>1, <2>3 DEF ConsolidateWarcs
  <2>4. CASE CleanupJob(q)
      BY <2>1, <2>2, <2>4 DEF CleanupJob
  <2>5. CASE ResetCrawlState(q)
      BY <2>1, <2>2, <2>5 DEF ResetCrawlState
  <2> QED BY <1>11, <2>3, <2>4, <2>5
<1>12. ASSUME CrawlStarts
       PROVE  proc'[p] = proc[p] \/ proc'[p].todo \subseteq TempWarcs
  <2>1. Worker \in Procs
      BY DEF Procs
  <2>2. CASE proc' = [proc EXCEPT ![Worker] = Consolidating("stale", TempWarcs, TempDirs, FALSE)]
      BY <1>4, <2>1, <2>2
  <2>3. CASE \/ proc' = [proc EXCEPT ![Worker] = [Rest EXCEPT !.pc = "crawl", !.todo = TempDirs]]
             \/ proc' = [proc EXCEPT ![Worker] =
                            [Rest EXCEPT !.pc = "delete", !.task = "stale", !.aim = TempDirs]]
    <3>1. /\ [Rest EXCEPT !.pc = "crawl", !.todo = TempDirs].pc # "link"
          /\ [Rest EXCEPT !.pc = "delete", !.task = "stale", !.aim = TempDirs].pc # "link"
        BY DEF Rest
    <3> QED BY <1>3, <2>1, <2>3, <3>1
  <2> QED BY <1>12, <2>2, <2>3 DEF CrawlStarts
<1>13. CASE NewDir \/ FallbackPicks
  <2>1. Worker \in Procs /\ proc[Worker].pc = "crawl"
      BY <1>13 DEF NewDir, FallbackPicks, Is, Procs
  <2>2. CASE NewDir
    <3>1. PICK d : proc' = [proc EXCEPT ![Worker] = [proc[Worker] EXCEPT !.at = d, !.todo = Recorded]]
        BY <2>2 DEF NewDir
    <3>2. [proc[Worker] EXCEPT !.at = d, !.todo = Recorded].pc # "link"
        BY <1>1, <2>1 DEF Local
    <3> QED BY <1>2, <1>3, <2>1, <3>1, <3>2
  <2>3. CASE FallbackPicks
    <3>1. [proc[Worker] EXCEPT !.pc = "render", !.at = NextName].pc # "link"
        BY <1>1, <2>1 DEF Local
    <3>2. proc' = [proc EXCEPT ![Worker] = [proc[Worker] EXCEPT !.pc = "render", !.at = NextName]]
        BY <2>3 DEF FallbackPicks
    <3> QED BY <1>2, <1>3, <2>1, <3>1, <3>2
  <2> QED BY <1>13, <2>2, <2>3
<1>14. CASE CrawlEnds \/ FallbackWrites
  <2>1. Worker \in Procs /\ proc' = [proc EXCEPT ![Worker] = Rest] /\ Rest.pc # "link"
      BY <1>14 DEF CrawlEnds, FallbackWrites, Return, Rest, Procs
  <2> QED BY <1>2, <1>3, <2>1
<1>15. CASE RetryJob \/ Capture \/ UNCHANGED vars
  <2>1. proc' = proc
      BY <1>15 DEF RetryJob, Capture, vars
  <2> QED BY <1>2, <2>1
<1> QED BY <1>2, <1>6, <1>7, <1>8, <1>9, <1>10, <1>11, <1>12, <1>13, <1>14, <1>15 DEF Next

LEMMA FilledStep ==
    ASSUME TypeOK, Shape, Filled, "fallback" \notin ran', [Next]_vars
    PROVE  Filled'
<1>1. "fallback" \notin ran
    BY RanGrows
<1>2. \A f \in Paths : file[f] \subseteq file'[f]
    BY <1>1, FilesGrow
<1>3. \A p \in Procs : FilledIn(proc'[p], file')
  <2> SUFFICES ASSUME NEW p \in Procs, Is(p, "link")', NEW d \in proc'[p].todo
               PROVE  file'[d] # {}
      BY DEF FilledIn, Is
  <2>1. CASE proc[p].pc = "link" /\ proc'[p].todo \subseteq proc[p].todo
    <3>1. d \in Dirs /\ file[d] # {}
        BY <2>1 DEF Filled, FilledIn, TypeOK
    <3> QED BY <1>2, <3>1, PathKinds
  <2>2. CASE proc'[p].todo \subseteq TempWarcs
    <3>1. d \in Dirs /\ HasData(d)
        BY <2>2 DEF TempWarcs
    <3>2. node[d] = d
        BY <3>1 DEF HasData, Exists, Shape
    <3> QED BY <1>2, <3>1, <3>2, PathKinds DEF HasData
  <2> QED BY <2>1, <2>2, SourcesStep
<1>4. ASSUME NEW n \in Names, node'[n] # Nowhere
      PROVE  file'[node'[n]] # {}
  <2>1. CASE Exists(n)
    <3>1. node'[n] = node[n] /\ node[n] \in Paths /\ file[node[n]] # {}
        BY <2>1, PathsStep, PathKinds DEF NamesStay, Filled, TypeOK, Exists
    <3> QED BY <1>2, <3>1
  <2>2. ASSUME NEW p \in Procs, Link(p), ~Exists(n)
        PROVE  file'[node'[n]] # {}
    <3>1. /\ Source(p) \in proc[p].todo /\ Source(p) \in Dirs
          /\ node' = [node EXCEPT ![Dest(p)] = Source(p)]
      <4>1. proc[p].todo # {} /\ proc[p].todo \subseteq Nat
          BY <2>2, PathKinds DEF Link, Linking, TypeOK
      <4> QED BY <2>2, <4>1, LinkMade, FirstInSet DEF Source
    <3>2. node'[n] = Source(p)
        BY <1>4, <2>2, <3>1 DEF Exists, TypeOK
    <3>3. file[Source(p)] # {}
        BY <2>2, <3>1 DEF Link, Linking, Is, Filled, FilledIn
    <3> QED BY <1>2, <3>1, <3>2, <3>3, PathKinds
  <2>3. ASSUME ~Exists(n), ~\E p \in Procs : Link(p)
        PROVE  FALSE
    <3>1. CASE NewDir
        BY <1>4, <2>3, <3>1, PathKinds DEF NewDir, Exists, TypeOK
    <3>2. ASSUME NEW p \in Procs, Delete(p)
          PROVE  FALSE
        BY <1>4, <2>3, <3>2, PathKinds DEF Delete, Exists, TypeOK
    <3> QED BY <1>4, <2>3, <3>1, <3>2, OthersKeepPaths, NoFallback DEF Exists
  <2> QED BY <2>1, <2>2, <2>3
<1> QED BY <1>3, <1>4 DEF Filled, Exists

-----------------------------------------------------------------------------
(* Every row leads to a WARC with its capture, also after paths were        *)
(* rewritten and temp directories deleted, as long as nobody resets, or     *)
(* indexes again.                                                           *)

Ended == {"indexed", "index_failed"}

\* The worker's phases go with the job's status; whoever cleans up does so
\* after the job has been indexed, and deletes only what no row leads to.
LedIn(p, r, s, rs) ==
    IF p = Worker
    THEN /\ r.pc \in {"crawl", "render"} \/ r.task = "stale" => s = "running"
         /\ r.pc \in {"discover", "insert"} \/ r.task = "index" => s = "completed"
         /\ r.pc \in {"link", "delete"} => r.task \in {"index", "stale"}
         /\ ~r.rewrite
         /\ r.pc \notin {"rewrite", "forget"}
    ELSE /\ r.pc \notin {"crawl", "render", "discover", "insert"}
         /\ r.task \in {"none", "consolidate", "cleanup"}
         /\ r.pc # "idle" => r.task # "none"
         /\ r.task = "cleanup" => s \in Ended
         /\ r.pc \in {"forget", "delete"} => r.task = "cleanup"
         /\ r.task = "cleanup" /\ (r.pc \in {"forget", "delete"} \/ (r.pc = "link" /\ ~r.rewrite))
                => InTemp(rs) = {}

Led ==
    /\ rows # {} => status \in Ended
    /\ \A r \in rows : Exists(r[2]) /\ r[1] \in file[node[r[2]]]
    /\ \A p \in Procs : LedIn(p, proc[p], status, rows)

LEMMA LedInit == Init => Led
BY DEF Init, Led, LedIn, Rest

LEMMA RestLed ==
    ASSUME NEW p, NEW s, NEW rs
    PROVE  LedIn(p, Rest, s, rs)
BY DEF LedIn, Rest

\* A step of one process: only the worker changes the status, before the job
\* has been indexed; and no step moves a row back below .tmp*.
LEMMA OneLed ==
    ASSUME TypeOK, Led, NEW p \in Procs, NEW r, proc' = [proc EXCEPT ![p] = r],
           LedIn(p, r, status', rows'),
           \/ status' = status /\ (InTemp(rows) = {} => InTemp(rows') = {})
           \/ p = Worker /\ status \notin Ended
    PROVE  \A q \in Procs : LedIn(q, proc'[q], status', rows')
<1> SUFFICES ASSUME NEW q \in Procs, q # p
             PROVE  LedIn(q, proc[q], status', rows')
    BY DEF TypeOK
<1>1. LedIn(q, proc[q], status, rows)
    BY DEF Led
<1>2. CASE q = Worker
  <2>1. status' = status
      BY <1>2
  <2> QED BY <1>1, <1>2, <2>1 DEF LedIn
<1>3. CASE q # Worker /\ status' = status /\ (InTemp(rows) = {} => InTemp(rows') = {})
    BY <1>1, <1>3 DEF LedIn
<1>4. CASE q # Worker /\ p = Worker /\ status \notin Ended
    BY <1>1, <1>4 DEF LedIn
<1> QED BY <1>2, <1>3, <1>4

LEMMA LedLink ==
    ASSUME TypeOK, Led, NEW p \in Procs, Reuse(p) \/ Link(p) \/ LinkFails(p) \/ Dump(p)
    PROVE  \A q \in Procs : LedIn(q, proc'[q], status', rows')
<1>1. proc[p] \in Local /\ LedIn(p, proc[p], status, rows)
    BY DEF TypeOK, Local, Led
<1>2. rows' = rows
    BY DEF Reuse, Link, LinkFails, Dump, db
<1>3. CASE Reuse(p) \/ Link(p)
  <2>1. status' = status
      BY <1>3 DEF Reuse, Link, db
  <2>2. LedIn(p, proc'[p], status, rows)
      BY <1>1, <1>3, LinkKeeps DEF LedIn
  <2> QED BY <1>2, <1>3, <2>1, <2>2, LinkKeeps, OneLed
<1>4. CASE LinkFails(p)
  <2>1. proc[p].pc = "link"
      BY <1>4 DEF LinkFails, Linking, Is
  <2>2. CASE proc[p].task = "index"
    <3>1. p = Worker /\ status = "completed"
        BY <1>1, <2>2 DEF LedIn
    <3>2. proc' = [proc EXCEPT ![p] = [Rest EXCEPT !.pc = "discover"]] /\ status' = status
        BY <1>4, <2>2 DEF LinkFails, Abandon
    <3>3. LedIn(p, [Rest EXCEPT !.pc = "discover"], status, rows)
        BY <3>1 DEF LedIn, Rest
    <3> QED BY <1>2, <3>2, <3>3, OneLed
  <2>3. CASE proc[p].task # "index"
    <3>1. proc' = [proc EXCEPT ![p] = Rest]
        BY <1>4, <2>3 DEF LinkFails, Abandon
    <3>2. status' = status \/ (status = "running" /\ p = Worker)
        BY <1>1, <1>4 DEF LinkFails, Abandon, LedIn
    <3> QED BY <1>2, <3>1, <3>2, RestLed, OneLed DEF Ended
  <2> QED BY <2>2, <2>3
<1>5. CASE Dump(p)
  <2>1. status' = status /\ proc[p].pc = "link"
      BY <1>5 DEF Dump, Is, db
  <2>2. CASE proc[p].task = "index"
    <3>1. p = Worker /\ status = "completed"
        BY <1>1, <2>2 DEF LedIn
    <3>2. proc' = [proc EXCEPT ![p] = [Rest EXCEPT !.pc = "discover"]]
        BY <1>5, <2>2 DEF Dump
    <3>3. LedIn(p, [Rest EXCEPT !.pc = "discover"], status, rows)
        BY <3>1 DEF LedIn, Rest
    <3> QED BY <1>2, <2>1, <3>2, <3>3, OneLed
  <2>3. CASE proc[p].task # "index" /\ proc[p].rewrite
    <3>1. proc' = [proc EXCEPT ![p] = [proc[p] EXCEPT !.pc = "rewrite"]]
        BY <1>5, <2>3 DEF Dump
    <3>2. LedIn(p, [proc[p] EXCEPT !.pc = "rewrite"], status, rows)
        BY <1>1, <2>1, <2>3 DEF LedIn, Local
    <3> QED BY <1>2, <2>1, <3>1, <3>2, OneLed
  <2>4. CASE proc[p].task = "consolidate" /\ ~proc[p].rewrite
    <3>1. proc' = [proc EXCEPT ![p] = Rest]
        BY <1>5, <2>4 DEF Dump
    <3> QED BY <1>2, <2>1, <3>1, RestLed, OneLed
  <2>5. CASE proc[p].task = "cleanup" /\ ~proc[p].rewrite
    <3>1. proc' = [proc EXCEPT ![p] = [proc[p] EXCEPT !.pc = "forget"]]
        BY <1>5, <2>5 DEF Dump
    <3>2. LedIn(p, [proc[p] EXCEPT !.pc = "forget"], status, rows)
        BY <1>1, <2>1, <2>5 DEF LedIn, Local
    <3> QED BY <1>2, <2>1, <3>1, <3>2, OneLed
  <2>6. CASE proc[p].task = "stale" /\ ~proc[p].rewrite
    <3>1. proc' = [proc EXCEPT ![p] = [proc[p] EXCEPT !.pc = "delete"]]
        BY <1>5, <2>6 DEF Dump
    <3>2. LedIn(p, [proc[p] EXCEPT !.pc = "delete"], status, rows)
        BY <1>1, <2>1, <2>6 DEF LedIn, Local
    <3> QED BY <1>2, <2>1, <3>1, <3>2, OneLed
  <2>7. proc[p].task \in {"index", "stale", "consolidate", "cleanup"}
      BY <1>1, <2>1 DEF LedIn
  <2> QED BY <2>2, <2>3, <2>4, <2>5, <2>6, <2>7
<1> QED BY <1>3, <1>4, <1>5

LEMMA LedDelete ==
    ASSUME TypeOK, Led, NEW p \in Procs,
           Rewrite(p) \/ Forget(p) \/ Delete(p) \/ DeleteFails(p) \/ Deleted(p)
    PROVE  \A q \in Procs : LedIn(q, proc'[q], status', rows')
<1>1. proc[p] \in Local /\ LedIn(p, proc[p], status, rows)
    BY DEF TypeOK, Local, Led
<1>2. status' = status
    BY DEF Rewrite, Forget, Delete, DeleteFails, Deleted, db
<1>3. CASE Rewrite(p)
  <2>1. proc[p].pc = "rewrite" /\ p # Worker /\ proc[p].task \in {"consolidate", "cleanup"}
      BY <1>1, <1>3 DEF Rewrite, Is, LedIn
  <2>2. rows' = rows \/ rows' = Mapped(rows)
      BY <1>3 DEF Rewrite
  <2>3. InTemp(rows) = {} => InTemp(rows') = {}
      BY <2>2, PathKinds DEF InTemp, Mapped
  <2>4. CASE proc' = [proc EXCEPT ![p] = Rest]
      BY <1>2, <2>3, <2>4, RestLed, OneLed
  <2>5. CASE proc' # [proc EXCEPT ![p] = Rest]
    <3>1. /\ proc' = [proc EXCEPT ![p] = [proc[p] EXCEPT !.pc = "forget"]]
          /\ proc[p].task = "cleanup" /\ InTemp(rows') = {}
        BY <1>3, <2>1, <2>5 DEF Rewrite, Return, Goto
    <3>2. LedIn(p, [proc[p] EXCEPT !.pc = "forget"], status, rows')
        BY <1>1, <2>1, <3>1 DEF LedIn, Local
    <3> QED BY <1>2, <2>3, <3>1, <3>2, OneLed
  <2> QED BY <2>4, <2>5
<1>4. rows' = rows \/ Rewrite(p)
    BY DEF Forget, Delete, DeleteFails, Deleted, db
<1>5. CASE Forget(p)
  <2>1. proc[p].pc = "forget" /\ proc' = [proc EXCEPT ![p] = [proc[p] EXCEPT !.pc = "delete"]]
      BY <1>5 DEF Forget, Is, Goto
  <2>2. LedIn(p, [proc[p] EXCEPT !.pc = "delete"], status, rows)
      BY <1>1, <2>1 DEF LedIn, Local
  <2>3. rows' = rows
      BY <1>5 DEF Forget, db
  <2> QED BY <1>2, <2>1, <2>2, <2>3, OneLed
<1>6. CASE Delete(p) \/ DeleteFails(p)
  <2>1. rows' = rows
      BY <1>6 DEF Delete, DeleteFails, db
  <2>2. \A d : LedIn(p, [proc[p] EXCEPT !.aim = proc[p].aim \ {d}], status, rows)
      BY <1>1 DEF LedIn, Local
  <2>3. \E r : LedIn(p, r, status, rows) /\ proc' = [proc EXCEPT ![p] = r]
      BY <1>6, <2>2, RestLed DEF Delete, DeleteFails, Return
  <2> QED BY <1>2, <2>1, <2>3, OneLed
<1>7. CASE Deleted(p)
  <2>1. rows' = rows
      BY <1>7 DEF Deleted, db
  <2>2. proc[p].task = "stale" => LedIn(p, [Rest EXCEPT !.pc = "crawl"], status, rows)
      BY <1>1 DEF LedIn, Rest
  <2>3. \E r : LedIn(p, r, status, rows) /\ proc' = [proc EXCEPT ![p] = r]
      BY <1>7, <2>2, RestLed DEF Deleted
  <2> QED BY <1>2, <2>1, <2>3, OneLed
<1> QED BY <1>3, <1>5, <1>6, <1>7

\* consolidate-warcs and cleanup-job; cleanup-job starts once the job has been indexed.
LEMMA LedCommands ==
    ASSUME TypeOK, Led, NEW p \in Operators, ConsolidateWarcs(p) \/ CleanupJob(p)
    PROVE  \A q \in Procs : LedIn(q, proc'[q], status', rows')
<1>1. p \in Procs /\ p # Worker /\ status' = status /\ rows' = rows
    BY Constants DEF Procs, ConsolidateWarcs, CleanupJob, db
<1>2. CASE ConsolidateWarcs(p)
  <2>1. \A w : LedIn(p, Consolidating("consolidate", TempWarcs, {}, w), status, rows)
      BY <1>1 DEF LedIn, Consolidating, Rest
  <2>2. \E r : LedIn(p, r, status, rows) /\ proc' = [proc EXCEPT ![p] = r]
      BY <1>2, <2>1 DEF ConsolidateWarcs
  <2> QED BY <1>1, <2>2, OneLed
<1>3. CASE CleanupJob(p)
  <2> DEFINE refs == InTemp(rows) # {}
             r == [Rest EXCEPT !.pc = IF refs THEN "rewrite" ELSE "forget",
                               !.task = "cleanup", !.aim = TempDirs]
             c == Consolidating("cleanup", TempWarcs, TempDirs, refs)
  <2>1. status \in Ended
      BY <1>3 DEF CleanupJob, Ended
  <2>2. LedIn(p, r, status, rows)
    <3>1. r.pc = (IF refs THEN "rewrite" ELSE "forget") /\ r.task = "cleanup"
        BY DEF Rest
    <3> QED BY <1>1, <2>1, <3>1 DEF LedIn
  <2>3. LedIn(p, c, status, rows)
    <3>1. c.pc = "link" /\ c.task = "cleanup" /\ c.rewrite = refs
        BY DEF Consolidating, Rest
    <3> QED BY <1>1, <2>1, <3>1 DEF LedIn
  <2>4. proc' = [proc EXCEPT ![p] = r] \/ proc' = [proc EXCEPT ![p] = c]
      BY <1>3 DEF CleanupJob
  <2> HIDE DEF r, c
  <2> QED BY <1>1, <2>2, <2>3, <2>4, OneLed
<1> QED BY <1>2, <1>3

\* Indexing by the worker, of a job that is completed.
LEMMA LedIndex ==
    ASSUME TypeOK, Led, NEW p \in Procs,
           \/ p = Worker /\ IndexJob(p)
           \/ Discover(p) \/ DiscoverFails(p) \/ Insert(p) \/ Crash(p)
    PROVE  \A q \in Procs : LedIn(q, proc'[q], status', rows')
<1>1. proc[p] \in Local /\ LedIn(p, proc[p], status, rows)
    BY DEF TypeOK, Local, Led
<1>2. CASE p = Worker /\ IndexJob(p)
  <2>1. status = "completed" /\ status' = status /\ rows' = rows
      BY <1>2 DEF IndexJob, db
  <2>2. /\ LedIn(p, [Rest EXCEPT !.pc = "discover"], status, rows)
        /\ LedIn(p, Consolidating("index", Tracked, {}, FALSE), status, rows)
      BY <1>2, <2>1 DEF LedIn, Consolidating, Rest
  <2>3. \E r : LedIn(p, r, status, rows) /\ proc' = [proc EXCEPT ![p] = r]
      BY <1>2, <2>2 DEF IndexJob
  <2> QED BY <2>1, <2>3, OneLed
<1>3. CASE Discover(p)
  <2>1. proc[p].pc = "discover" /\ status' = status /\ rows' = rows
      BY <1>3 DEF Discover, Is, db
  <2>2. LedIn(p, [proc[p] EXCEPT !.pc = "insert", !.aim = Discovered], status, rows)
      BY <1>1, <2>1 DEF LedIn, Local
  <2>3. \E r : LedIn(p, r, status, rows) /\ proc' = [proc EXCEPT ![p] = r]
      BY <1>3, <2>2 DEF Discover
  <2> QED BY <2>1, <2>3, OneLed
<1>4. CASE DiscoverFails(p) \/ Insert(p)
  <2>1. p = Worker /\ status \notin Ended
      BY <1>1, <1>4 DEF DiscoverFails, Insert, Is, LedIn, Ended
  <2>2. proc' = [proc EXCEPT ![p] = Rest]
      BY <1>4 DEF DiscoverFails, Insert, Return
  <2> QED BY <2>1, <2>2, RestLed, OneLed
<1>5. CASE Crash(p)
  <2>1. status' = status \/ (p = Worker /\ status \notin Ended)
      BY <1>5 DEF Crash, Ended
  <2>2. proc' = [proc EXCEPT ![p] = Rest] /\ rows' = rows
      BY <1>5 DEF Crash, Return
  <2> QED BY <2>1, <2>2, RestLed, OneLed
<1> QED BY <1>2, <1>3, <1>4, <1>5

LEMMA LedCrawl ==
    ASSUME TypeOK, Led,
           CrawlStarts \/ NewDir \/ Capture \/ CrawlEnds \/ FallbackPicks \/ FallbackWrites
    PROVE  \A q \in Procs : LedIn(q, proc'[q], status', rows')
<1>1. Worker \in Procs /\ proc[Worker] \in Local /\ LedIn(Worker, proc[Worker], status, rows)
    BY DEF TypeOK, Local, Led, Procs
<1>2. rows' = rows
    BY DEF CrawlStarts, NewDir, Capture, CrawlEnds, FallbackPicks, FallbackWrites, db
<1>3. CASE CrawlStarts
  <2>1. status \notin Ended /\ status' = "running"
      BY <1>3 DEF CrawlStarts, Ended
  <2>2. /\ LedIn(Worker, [Rest EXCEPT !.pc = "crawl", !.todo = TempDirs], status', rows)
        /\ LedIn(Worker, [Rest EXCEPT !.pc = "delete", !.task = "stale", !.aim = TempDirs], status', rows)
        /\ LedIn(Worker, Consolidating("stale", TempWarcs, TempDirs, FALSE), status', rows)
      BY <2>1 DEF LedIn, Consolidating, Rest
  <2>3. \E r : LedIn(Worker, r, status', rows) /\ proc' = [proc EXCEPT ![Worker] = r]
      BY <1>3, <2>2 DEF CrawlStarts
  <2> QED BY <1>1, <1>2, <2>1, <2>3, OneLed
<1>4. CASE NewDir
  <2>1. status' = status /\ proc[Worker].pc = "crawl"
      BY <1>4 DEF NewDir, Is, db
  <2>2. \A d, s : LedIn(Worker, [proc[Worker] EXCEPT !.at = d, !.todo = s], status, rows)
      BY <1>1, <2>1 DEF LedIn, Local
  <2>3. \E r : LedIn(Worker, r, status, rows) /\ proc' = [proc EXCEPT ![Worker] = r]
      BY <1>4, <2>2 DEF NewDir
  <2> QED BY <1>1, <1>2, <2>1, <2>3, OneLed
<1>5. CASE FallbackPicks
  <2>1. status' = status /\ status = "running"
      BY <1>1, <1>5 DEF FallbackPicks, Is, LedIn, db
  <2>2. LedIn(Worker, [proc[Worker] EXCEPT !.pc = "render", !.at = NextName], status, rows)
      BY <1>1, <2>1 DEF LedIn, Local
  <2>3. \E r : LedIn(Worker, r, status, rows) /\ proc' = [proc EXCEPT ![Worker] = r]
      BY <1>5, <2>2 DEF FallbackPicks
  <2> QED BY <1>1, <1>2, <2>1, <2>3, OneLed
<1>6. CASE CrawlEnds \/ FallbackWrites
  <2>1. status \notin Ended /\ proc' = [proc EXCEPT ![Worker] = Rest]
      BY <1>1, <1>6 DEF CrawlEnds, FallbackWrites, Return, Is, LedIn, Ended
  <2> QED BY <1>1, <1>2, <2>1, RestLed, OneLed
<1>7. CASE Capture
    BY <1>7 DEF Capture, Led, db
<1> QED BY <1>3, <1>4, <1>5, <1>6, <1>7

\* What happens to a job whose rows nobody resets or indexes again.
Tended == ran \subseteq {"consolidate", "cleanup", "fallback"}

LEMMA TendedStep ==
    ASSUME Tended', [Next]_vars
    PROVE  /\ ~RetryJob
           /\ \A p \in Operators : ~ResetCrawlState(p) /\ ~IndexJob(p)
<1>1. ~RetryJob
    BY DEF RetryJob, Ask, Tended
<1>2. ASSUME NEW p \in Operators
      PROVE  ~ResetCrawlState(p) /\ ~IndexJob(p)
  <2>1. p # Worker
      BY Constants
  <2>2. ~Ask("reset") /\ ~Ask("index")
      BY DEF Ask, Tended
  <2> QED BY <2>1, <2>2 DEF ResetCrawlState, IndexJob
<1> QED BY <1>1, <1>2

\* Paths that rows lead to, and the files there, stay.
LEMMA PathsOfRows ==
    ASSUME TypeOK, Shape, Led, [Next]_vars, NEW r \in rows
    PROVE  node'[r[2]] = node[r[2]] /\ file' = file
<1>1. status \in Ended /\ r[2] \in Paths /\ node[r[2]] # Nowhere /\ Worker \in Procs
    BY DEF Led, TypeOK, Exists, Procs
<1>2. proc[Worker].pc \notin {"crawl", "render"} /\ proc[Worker].task # "stale"
    BY <1>1 DEF Led, LedIn, Ended
<1>3. ~NewDir /\ ~Capture /\ ~FallbackWrites
    BY <1>2 DEF NewDir, Capture, FallbackWrites, Is
<1>4. file' = file
    BY <1>3, CapturesStep
<1>5. ASSUME NEW p \in Procs, Delete(p)
      PROVE  node'[r[2]] = node[r[2]]
  <2>1. proc[p].pc = "delete" /\ proc[p].aim \subseteq Dirs
      BY <1>5 DEF Delete, Is, Shape, GoodIn
  <2>2. p # Worker
      BY <1>1, <1>2, <2>1 DEF Led, LedIn, Ended
  <2>3. InTemp(rows) = {}
      BY <2>1, <2>2 DEF Led, LedIn
  <2>4. r[2] \notin Dirs
      BY <2>3 DEF InTemp
  <2> QED BY <1>5, <2>1, <2>4 DEF Delete, TypeOK
<1>6. ASSUME NEW p \in Procs, Link(p)
      PROVE  node'[r[2]] = node[r[2]]
    BY <1>1, <1>6, LinkMade DEF TypeOK
<1> QED BY <1>3, <1>4, <1>5, <1>6, OthersKeepPaths

LEMMA LedStep ==
    ASSUME TypeOK, Shape, Led, Tended', [Next]_vars
    PROVE  Led'
<1>1. \A p \in Procs : LedIn(p, proc'[p], status', rows')
  <2>1. CASE UNCHANGED vars
      BY <2>1 DEF vars, db, Led
  <2> QED BY <2>1, TendedStep, LedLink, LedDelete, LedCommands, LedIndex, LedCrawl DEF Next, Procs
<1>2. rows' # {} => status' \in Ended
  <2>1. ASSUME NEW p \in Procs, Insert(p)
        PROVE  status' \in Ended
      BY <2>1 DEF Insert, Ended
  <2>2. CASE status \in Ended /\ status' # status
    <3>1. ASSUME NEW p \in Procs, \/ Reuse(p) \/ Link(p) \/ LinkFails(p) \/ Dump(p)
                                  \/ Rewrite(p) \/ Forget(p) \/ Delete(p) \/ DeleteFails(p) \/ Deleted(p)
          PROVE  FALSE
      <4>1. proc[p].task = "stale" => p = Worker /\ status = "running"
          BY DEF Led, LedIn
      <4> QED BY <2>2, <3>1, <4>1 DEF Reuse, Link, LinkFails, Abandon, Dump, Rewrite, Forget, Delete,
                  DeleteFails, Deleted, Ended, db
    <3>2. ASSUME NEW p \in Procs, IndexJob(p) \/ Discover(p) \/ DiscoverFails(p) \/ Insert(p) \/ Crash(p)
          PROVE  status' \in Ended
        BY <2>2, <3>2 DEF IndexJob, Discover, DiscoverFails, Insert, Crash, Ended, db
    <3>3. ASSUME NEW p \in Operators, ConsolidateWarcs(p) \/ CleanupJob(p)
          PROVE  FALSE
        BY <2>2, <3>3 DEF ConsolidateWarcs, CleanupJob, db
    <3>4. CASE \/ CrawlStarts \/ NewDir \/ Capture \/ CrawlEnds \/ FallbackPicks \/ FallbackWrites
               \/ UNCHANGED vars
      <4>1. proc[Worker].pc \notin {"crawl", "render"}
          BY <2>2 DEF Led, LedIn, Procs, Ended
      <4> QED BY <2>2, <3>4, <4>1 DEF CrawlStarts, NewDir, Capture, CrawlEnds, FallbackPicks,
                  FallbackWrites, Is, Ended, vars, db
    <3> QED BY <3>1, <3>2, <3>3, <3>4, TendedStep DEF Next
  <2>3. rows # {} \/ rows' = {} \/ \E p \in Procs : Insert(p)
      BY RowsStep DEF Rewrite, Mapped
  <2> QED BY <2>1, <2>2, <2>3 DEF Led
<1>3. \A r \in rows' : node'[r[2]] # Nowhere /\ r[1] \in file'[node'[r[2]]]
  <2>1. \A r \in rows : /\ node[r[2]] # Nowhere /\ r[1] \in file[node[r[2]]]
                        /\ node'[r[2]] = node[r[2]] /\ file' = file
      BY PathsOfRows DEF Led, Exists
  <2>2. ASSUME NEW p \in Procs, Insert(p), NEW r \in rows'
        PROVE  node'[r[2]] # Nowhere /\ r[1] \in file'[node'[r[2]]]
    <3> DEFINE gone == {q \in proc[p].aim : ~Exists(q)}
               paths == {q \in proc[p].aim : \A g \in gone : q < g}
    <3>1. rows' = RowsOf(paths) /\ node' = node /\ file' = file
        BY <2>2 DEF Insert, disk
    <3>2. ASSUME NEW q \in paths
          PROVE  Exists(q)
      <4>1. q \in Nat
          BY PathKinds DEF TypeOK
      <4> QED BY <4>1
    <3> HIDE DEF paths
    <3>3. r[2] \in paths /\ r[1] \in file[node[r[2]]]
        BY <2>2, <3>1 DEF RowsOf
    <3> QED BY <3>1, <3>2, <3>3 DEF Exists
  <2>3. ASSUME NEW p \in Procs, Rewrite(p), NEW r \in Mapped(rows)
        PROVE  node'[r[2]] # Nowhere /\ r[1] \in file'[node'[r[2]]]
    <3>1. node' = node /\ file' = file
        BY <2>3 DEF Rewrite, disk
    <3>2. PICK s \in rows : r = <<s[1], IF s[2] \in Dirs /\ manifest[s[2]] # Nowhere
                                        THEN manifest[s[2]] ELSE s[2]>>
        BY DEF Mapped
    <3>3. CASE s[2] \in Dirs /\ manifest[s[2]] # Nowhere
      <4>1. node[manifest[s[2]]] = s[2] /\ node[s[2]] = s[2]
          BY <2>1, <3>3 DEF Shape, SoundIn
      <4> QED BY <2>1, <3>1, <3>2, <3>3, <4>1
    <3>4. CASE ~(s[2] \in Dirs /\ manifest[s[2]] # Nowhere)
        BY <2>1, <3>1, <3>2, <3>4
    <3> QED BY <3>3, <3>4
  <2>4. ASSUME NEW p \in Procs, Rewrite(p)
        PROVE  rows' \in {rows, Mapped(rows)}
      BY <2>4 DEF Rewrite
  <2> QED BY <2>1, <2>2, <2>3, <2>4, RowsStep
<1> QED BY <1>1, <1>2, <1>3 DEF Led, Exists

-----------------------------------------------------------------------------
(* While the worker is alone and nothing fails, the manifest knows every    *)
(* file in warcs/, or will when the running consolidation has written it.   *)

AloneIn(r, n, m) ==
    IF r.pc = "link"
    THEN /\ \A d \in r.todo : n[d] # Nowhere
         /\ \A s \in Names : n[s] # Nowhere => s < r.next /\ \E d \in Dirs : r.map[d] = s
    ELSE \A s \in Names : n[s] # Nowhere => \E d \in Dirs : m[d] = s

Alone ==
    /\ \A p \in Operators : Is(p, "idle")
    /\ AloneIn(proc[Worker], node, manifest)

LEMMA AloneInit == Init => Alone
<1> SUFFICES ASSUME Init PROVE Alone
    OBVIOUS
<1>1. \A n \in Names : node[n] = Nowhere
    BY Constants DEF Init, Names, Paths, Dirs
<1>2. \A p \in Procs : proc[p] = Rest
    BY DEF Init
<1> QED BY <1>1, <1>2 DEF Alone, AloneIn, Is, Rest, Procs

\* Consolidation starts from the manifest, and from a number above its names.
LEMMA ConsolidatingAlone ==
    ASSUME TypeOK, \A s \in Names : node[s] # Nowhere => \E d \in Dirs : manifest[d] = s,
           NEW sources \in SUBSET TempWarcs, NEW task, NEW aim, NEW rewrite
    PROVE  AloneIn(Consolidating(task, sources, aim, rewrite), node, manifest)
<1> DEFINE r == Consolidating(task, sources, aim, rewrite)
<1>1. r.pc = "link" /\ r.todo = sources /\ r.map = manifest /\ r.next = NextName
    BY DEF Consolidating, Rest
<1>2. \A d \in sources : node[d] # Nowhere
    BY DEF TempWarcs, HasData, Exists
<1>3. \A s \in Names : node[s] # Nowhere => s < NextName
    BY NextIsNumber, PathKinds
<1> QED BY <1>1, <1>2, <1>3 DEF AloneIn

\* No link of a worker that is alone fails.
LEMMA AloneLink ==
    ASSUME TypeOK, Shape, Alone, Worker \in Procs, faults' = 0,
           Reuse(Worker) \/ Link(Worker) \/ LinkFails(Worker)
    PROVE  AloneIn(proc'[Worker], node', manifest')
<1> DEFINE d == Source(Worker)
           r == proc[Worker]
<1>1. /\ r \in Local /\ r.pc = "link" /\ d \in r.todo /\ d \in Dirs
      /\ Dest(Worker) \in Names /\ Linking(Worker)
    BY LinkTyped DEF Reuse, Link, LinkFails, Linking, Is
<1>2. /\ \A e \in r.todo : node[e] # Nowhere
      /\ \A s \in Names : node[s] # Nowhere => s < r.next /\ \E e \in Dirs : r.map[e] = s
    BY <1>1 DEF Alone, AloneIn
<1>3. ~Reusable(Worker) => r.map[d] = Nowhere /\ Dest(Worker) = r.next
  <2>1. SoundIn(r.map, node)
      BY DEF Shape, GoodIn
  <2>2. r.map[d] # Nowhere => node[r.map[d]] = d /\ Dest(Worker) = r.map[d]
      BY <1>1, <2>1 DEF SoundIn, Dest
  <2> QED BY <1>1, <2>2, PathKinds DEF Reusable, Exists, Dest
<1>4. r.next \in Int /\ r.map \in [Dirs -> Names \cup {Nowhere}]
    BY <1>1 DEF Local
<1>5. CASE LinkFails(Worker)
  <2>1. Exists(d)
      BY <1>1, <1>2 DEF Exists
  <2>2. ~Fault
      BY DEF Fault, TypeOK
  <2>3. ~Reusable(Worker) /\ node[Dest(Worker)] # Nowhere
      BY <1>5, <2>1, <2>2 DEF LinkFails
  <2>4. r.next < r.next
      BY <1>1, <1>2, <1>3, <2>3
  <2> QED BY <1>4, <2>4
<1>6. CASE Reuse(Worker)
  <2> DEFINE rest == r.todo \ {d}
             t == [r EXCEPT !.todo = rest]
  <2>1. proc'[Worker] = t /\ node' = node
      BY <1>6 DEF Reuse, disk, TypeOK
  <2>2. t.pc = "link" /\ t.todo = rest /\ t.map = r.map /\ t.next = r.next
    <3> HIDE DEF rest
    <3> QED BY <1>1 DEF Local
  <2> HIDE DEF t, r
  <2> QED BY <1>2, <2>1, <2>2 DEF AloneIn
<1>7. CASE Link(Worker)
  <2> DEFINE rest == r.todo \ {d}
             map == [r.map EXCEPT ![d] = Dest(Worker)]
             next == IF Dest(Worker) = r.next THEN r.next + 1 ELSE r.next
             t == [r EXCEPT !.todo = rest, !.map = map, !.next = next]
  <2>1. proc'[Worker] = t /\ node' = [node EXCEPT ![Dest(Worker)] = d]
    <3>1. proc' = [proc EXCEPT ![Worker] = t]
        BY <1>7 DEF Link
    <3> QED BY <1>7, <3>1, LinkMade DEF TypeOK
  <2>2. t.pc = "link" /\ t.todo = rest /\ t.map = map /\ t.next = next
    <3> HIDE DEF rest, map, next
    <3> QED BY <1>1 DEF Local
  <2>3. r.map[d] = Nowhere /\ Dest(Worker) = r.next /\ next = r.next + 1
      BY <1>3, <1>7 DEF Link
  <2>4. \A e \in rest : node'[e] # Nowhere
    <3> SUFFICES ASSUME NEW e \in rest PROVE node'[e] # Nowhere
        OBVIOUS
    <3>1. e \in Dirs /\ node[e] # Nowhere
        BY <1>1, <1>2 DEF Local
    <3> QED BY <1>1, <2>1, <3>1, PathKinds DEF TypeOK
  <2>5. \A s \in Names : node'[s] # Nowhere => s < next /\ \E e \in Dirs : map[e] = s
    <3> SUFFICES ASSUME NEW s \in Names, node'[s] # Nowhere
                 PROVE  s < next /\ \E e \in Dirs : map[e] = s
        OBVIOUS
    <3>1. CASE s = Dest(Worker)
      <4>1. map[d] = s
          BY <1>1, <1>4, <3>1
      <4> QED BY <1>1, <1>4, <2>3, <3>1, <4>1
    <3>2. CASE s # Dest(Worker)
      <4>1. node[s] # Nowhere
          BY <2>1, <3>2, PathKinds DEF TypeOK
      <4>2. s < r.next /\ s \in Int
          BY <1>2, <4>1, PathKinds
      <4>3. PICK e \in Dirs : r.map[e] = s
          BY <1>2, <4>1
      <4>4. e # d /\ map[e] = s
          BY <1>4, <2>3, <4>3, PathKinds
      <4> QED BY <1>4, <2>3, <4>2, <4>4
    <3> QED BY <3>1, <3>2
  <2> HIDE DEF t, r, map, next, rest
  <2> QED BY <2>1, <2>2, <2>4, <2>5 DEF AloneIn
<1> QED BY <1>5, <1>6, <1>7

\* Without commands and faults only the worker takes steps.
LEMMA OnlyWorker ==
    ASSUME TypeOK, Shape, Alone, ran' = {}, faults' = 0, [Next]_vars
    PROVE  \/ Reuse(Worker) \/ Link(Worker) \/ LinkFails(Worker) \/ Dump(Worker)
           \/ Rewrite(Worker) \/ Forget(Worker) \/ Delete(Worker) \/ Deleted(Worker)
           \/ IndexJob(Worker) \/ Discover(Worker) \/ DiscoverFails(Worker) \/ Insert(Worker)
           \/ CrawlStarts \/ NewDir \/ Capture \/ CrawlEnds \/ UNCHANGED vars
<1>1. ~Fault /\ \A c : ~Ask(c)
    BY DEF Fault, Ask, TypeOK
<1>2. ASSUME NEW p \in Operators
      PROVE  /\ ~ConsolidateWarcs(p) /\ ~CleanupJob(p) /\ ~ResetCrawlState(p)
             /\ ~Reuse(p) /\ ~Link(p) /\ ~LinkFails(p) /\ ~Dump(p)
             /\ ~Rewrite(p) /\ ~Forget(p) /\ ~Delete(p) /\ ~DeleteFails(p) /\ ~Deleted(p)
             /\ ~IndexJob(p) /\ ~Discover(p) /\ ~DiscoverFails(p) /\ ~Insert(p) /\ ~Crash(p)
  <2>1. proc[p].pc = "idle" /\ p # Worker
      BY Constants DEF Alone, Is
  <2>2. ~ConsolidateWarcs(p) /\ ~CleanupJob(p) /\ ~ResetCrawlState(p) /\ ~IndexJob(p) /\ ~Crash(p)
      BY <1>1, <2>1 DEF ConsolidateWarcs, CleanupJob, ResetCrawlState, IndexJob, Crash
  <2>3. ~Reuse(p) /\ ~Link(p) /\ ~LinkFails(p) /\ ~Dump(p)
      BY <2>1 DEF Reuse, Link, LinkFails, Linking, Dump, Is
  <2>4. /\ ~Rewrite(p) /\ ~Forget(p) /\ ~Delete(p) /\ ~DeleteFails(p) /\ ~Deleted(p)
        /\ ~Discover(p) /\ ~DiscoverFails(p) /\ ~Insert(p)
      BY <2>1 DEF Rewrite, Forget, Delete, DeleteFails, Deleted, Discover, DiscoverFails, Insert, Is
  <2> QED BY <2>2, <2>3, <2>4
<1>3. ~RetryJob /\ ~Crash(Worker) /\ ~DeleteFails(Worker)
    BY <1>1 DEF RetryJob, Crash, DeleteFails
<1> QED BY <1>2, <1>3, NoFallback DEF Next, Procs

LEMMA AloneStep ==
    ASSUME TypeOK, Shape, Alone, ran' = {}, faults' = 0, [Next]_vars
    PROVE  Alone'
<1>1. Worker \in Procs /\ proc \in [Procs -> Local] /\ \A p \in Operators : p # Worker /\ p \in Procs
    BY Constants DEF TypeOK, Local, Procs
<1>2. \A p \in Operators : proc'[p] = proc[p]
    BY <1>1, OnlyWorker DEF Reuse, Link, LinkFails, Abandon, Dump, Rewrite, Forget, Delete, Deleted, IndexJob,
       Discover, DiscoverFails, Insert, CrawlStarts, NewDir, Capture, CrawlEnds, Return, Goto, vars
<1>3. AloneIn(proc'[Worker], node', manifest')
  <2>1. CASE Reuse(Worker) \/ Link(Worker) \/ LinkFails(Worker)
      BY <1>1, <2>1, AloneLink
  <2>2. CASE Dump(Worker)
    <3>1. /\ node' = node /\ manifest' = proc[Worker].map /\ proc[Worker].pc = "link"
        BY <2>2 DEF Dump, Is
    <3>2. proc'[Worker].pc # "link"
        BY <1>1, <2>2 DEF Dump, Rest, Local
    <3> QED BY <3>1, <3>2 DEF Alone, AloneIn
  <2>3. ASSUME \A s \in Names : node'[s] = node[s], manifest' = manifest,
               proc[Worker].pc # "link", proc'[Worker].pc # "link"
        PROVE  AloneIn(proc'[Worker], node', manifest')
      BY <2>3 DEF Alone, AloneIn
  <2>4. CASE Rewrite(Worker) \/ Forget(Worker) \/ Deleted(Worker)
    <3>1. node' = node /\ manifest' = manifest /\ proc[Worker].pc # "link"
        BY <2>4 DEF Rewrite, Forget, Deleted, Is, disk
    <3>2. proc'[Worker].pc # "link"
        BY <1>1, <2>4 DEF Rewrite, Forget, Deleted, Return, Goto, Rest, Local
    <3> QED BY <2>3, <3>1, <3>2
  <2>5. CASE Delete(Worker)
    <3>1. manifest' = manifest /\ proc[Worker].pc = "delete" /\ proc[Worker].aim \subseteq Dirs
        BY <1>1, <2>5 DEF Delete, Is, Shape, GoodIn
    <3>2. proc'[Worker].pc # "link"
        BY <1>1, <2>5, <3>1 DEF Delete, Local
    <3>3. \A s \in Names : node'[s] = node[s]
        BY <2>5, <3>1, PathKinds DEF Delete, TypeOK
    <3> QED BY <2>3, <3>1, <3>2, <3>3
  <2>6. CASE IndexJob(Worker)
    <3>1. /\ node' = node /\ manifest' = manifest /\ proc[Worker].pc = "idle"
          /\ Tracked \in SUBSET TempWarcs
        BY <2>6 DEF IndexJob, Is, disk, Tracked
    <3>2. AloneIn([Rest EXCEPT !.pc = "discover"], node, manifest)
        BY <3>1 DEF Alone, AloneIn, Rest
    <3>3. AloneIn(Consolidating("index", Tracked, {}, FALSE), node, manifest)
      <4>1. \A s \in Names : node[s] # Nowhere => \E d \in Dirs : manifest[d] = s
          BY <3>1 DEF Alone, AloneIn
      <4> QED BY <3>1, <4>1, ConsolidatingAlone
    <3>4. \/ proc'[Worker] = [Rest EXCEPT !.pc = "discover"]
          \/ proc'[Worker] = Consolidating("index", Tracked, {}, FALSE)
        BY <1>1, <2>6 DEF IndexJob
    <3> QED BY <3>1, <3>2, <3>3, <3>4
  <2>7. CASE Discover(Worker) \/ DiscoverFails(Worker) \/ Insert(Worker)
    <3>1. node' = node /\ manifest' = manifest /\ proc[Worker].pc # "link"
        BY <2>7 DEF Discover, DiscoverFails, Insert, Is, disk
    <3>2. proc'[Worker].pc # "link"
        BY <1>1, <2>7 DEF Discover, DiscoverFails, Insert, Return, Rest, Local
    <3> QED BY <2>3, <3>1, <3>2
  <2>8. CASE CrawlStarts
    <3>1. node' = node /\ manifest' = manifest /\ proc[Worker].pc = "idle"
        BY <2>8 DEF CrawlStarts, Is
    <3>2. /\ AloneIn([Rest EXCEPT !.pc = "crawl", !.todo = TempDirs], node, manifest)
          /\ AloneIn([Rest EXCEPT !.pc = "delete", !.task = "stale", !.aim = TempDirs], node, manifest)
        BY <3>1 DEF Alone, AloneIn, Rest
    <3>3. AloneIn(Consolidating("stale", TempWarcs, TempDirs, FALSE), node, manifest)
      <4>1. \A s \in Names : node[s] # Nowhere => \E d \in Dirs : manifest[d] = s
          BY <3>1 DEF Alone, AloneIn
      <4> QED BY <4>1, ConsolidatingAlone
    <3>4. \/ proc'[Worker] = [Rest EXCEPT !.pc = "crawl", !.todo = TempDirs]
          \/ proc'[Worker] = [Rest EXCEPT !.pc = "delete", !.task = "stale", !.aim = TempDirs]
          \/ proc'[Worker] = Consolidating("stale", TempWarcs, TempDirs, FALSE)
        BY <1>1, <2>8 DEF CrawlStarts
    <3> QED BY <3>1, <3>2, <3>3, <3>4
  <2>9. CASE NewDir
    <3>1. PICK d \in Dirs :
              /\ node' = [node EXCEPT ![d] = d]
              /\ proc' = [proc EXCEPT ![Worker] = [proc[Worker] EXCEPT !.at = d, !.todo = Recorded]]
        BY <2>9 DEF NewDir
    <3>2. manifest' = manifest /\ proc[Worker].pc = "crawl"
        BY <2>9 DEF NewDir, Is
    <3>3. proc'[Worker].pc # "link"
        BY <1>1, <3>1, <3>2 DEF Local
    <3>4. \A s \in Names : node'[s] = node[s]
        BY <3>1, PathKinds DEF TypeOK
    <3> QED BY <2>3, <3>2, <3>3, <3>4
  <2>10. CASE CrawlEnds
    <3>1. node' = node /\ manifest' = manifest /\ proc[Worker].pc = "crawl"
        BY <2>10 DEF CrawlEnds, Is
    <3>2. proc'[Worker].pc # "link"
        BY <1>1, <2>10 DEF CrawlEnds, Return, Rest
    <3> QED BY <2>3, <3>1, <3>2
  <2>11. CASE Capture \/ UNCHANGED vars
      BY <2>11 DEF Capture, vars, disk, Alone
  <2> QED BY <2>1, <2>2, <2>4, <2>5, <2>6, <2>7, <2>8, <2>9, <2>10, <2>11, OnlyWorker
<1> QED BY <1>2, <1>3 DEF Alone, Is

\* The count of faults only grows.
LEMMA FaultsGrow == ASSUME TypeOK, [Next]_vars, faults' = 0 PROVE faults = 0
<1>1. faults \in Nat /\ (Fault => faults' # 0)
    BY DEF TypeOK, Fault
<1>2. ASSUME NEW p \in Operators, ConsolidateWarcs(p) \/ CleanupJob(p) \/ ResetCrawlState(p)
      PROVE  faults' = faults
    BY <1>2 DEF ConsolidateWarcs, CleanupJob, ResetCrawlState
<1>3. ASSUME NEW p \in Procs,
             \/ Reuse(p) \/ Link(p) \/ LinkFails(p) \/ Dump(p)
             \/ Rewrite(p) \/ Forget(p) \/ Delete(p) \/ Deleted(p)
      PROVE  faults' = faults \/ Fault
    BY <1>3 DEF Reuse, Link, LinkFails, Dump, Rewrite, Forget, Delete, Deleted, bounds
<1>4. ASSUME NEW p \in Procs, IndexJob(p) \/ Discover(p) \/ DiscoverFails(p) \/ Insert(p)
      PROVE  faults' = faults \/ Fault
    BY <1>4 DEF IndexJob, Discover, DiscoverFails, Insert, bounds
<1>5. ASSUME NEW p \in Procs, DeleteFails(p) \/ Crash(p)
      PROVE  Fault
    BY <1>5 DEF DeleteFails, Crash
<1>6. \/ RetryJob \/ CrawlStarts \/ NewDir \/ Capture \/ CrawlEnds \/ FallbackPicks \/ FallbackWrites
      \/ UNCHANGED vars
      => faults' = faults
    BY DEF RetryJob, CrawlStarts, NewDir, Capture, CrawlEnds, FallbackPicks, FallbackWrites, bounds, vars
<1> QED BY <1>1, <1>2, <1>3, <1>4, <1>5, <1>6 DEF Next

-----------------------------------------------------------------------------
(* No capture is left out of the index: before crawls fall back, somebody   *)
(* cleans up, or a crawl starts while its state is being reset, every WARC  *)
(* with data has a name, is listed, or is the newest.                       *)

\* What consolidates and deletes, and for whom: only resets, which do not overlap a crawl.
DutyIn(p, r, s) ==
    /\ r.pc = "link" => r.task \in {"index", "consolidate", "reset", "stale"}
    /\ r.pc = "delete" => r.task \in {"reset", "stale"}
    /\ r.pc = "rewrite" => r.task = "consolidate"
    /\ r.pc # "forget"
    /\ r.task \in {"reset", "stale"} => r.pc \in {"link", "delete"} /\ ~r.rewrite
    /\ r.task = "reset" => p # Worker /\ s # "running"

Duty == \A p \in Procs : DutyIn(p, proc[p], status)

Trusted == {"cleanup", "fallback", "overlap"} \cap ran = {}

LEMMA DutyInit == Init => Duty
BY DEF Init, Duty, DutyIn, Rest

LEMMA RestDuty ==
    ASSUME NEW p, NEW s
    PROVE  /\ DutyIn(p, Rest, s)
           /\ DutyIn(p, [Rest EXCEPT !.pc = "discover"], s)
           /\ DutyIn(p, [Rest EXCEPT !.pc = "crawl"], s)
BY DEF DutyIn, Rest

\* A step of one process that does not start a crawl.
LEMMA OneDuty ==
    ASSUME TypeOK, Duty, NEW p \in Procs, NEW r, proc' = [proc EXCEPT ![p] = r],
           DutyIn(p, r, status'), status' = status \/ status' # "running"
    PROVE  Duty'
BY DEF Duty, DutyIn, TypeOK

LEMMA DutyLink ==
    ASSUME TypeOK, Duty, NEW p \in Procs, Reuse(p) \/ Link(p) \/ LinkFails(p) \/ Dump(p)
    PROVE  Duty'
<1>1. proc[p] \in Local /\ DutyIn(p, proc[p], status)
    BY DEF TypeOK, Local, Duty
<1>2. CASE Reuse(p) \/ Link(p)
  <2>1. status' = status
      BY <1>2 DEF Reuse, Link, db
  <2>2. DutyIn(p, proc'[p], status)
      BY <1>1, <1>2, LinkKeeps DEF DutyIn
  <2> QED BY <1>2, <2>1, <2>2, LinkKeeps, OneDuty
<1>3. CASE LinkFails(p)
  <2>1. status' \in {status, "retryable"}
      BY <1>3 DEF LinkFails, Abandon
  <2>2. \E r : DutyIn(p, r, status') /\ proc' = [proc EXCEPT ![p] = r]
      BY <1>3, RestDuty DEF LinkFails, Abandon
  <2> QED BY <2>1, <2>2, OneDuty
<1>4. CASE Dump(p)
  <2>1. status' = status /\ proc[p].pc = "link"
      BY <1>4 DEF Dump, Is, db
  <2>2. CASE proc[p].task = "index"
    <3>1. proc' = [proc EXCEPT ![p] = [Rest EXCEPT !.pc = "discover"]]
        BY <1>4, <2>2 DEF Dump
    <3> QED BY <2>1, <3>1, RestDuty, OneDuty
  <2>3. CASE proc[p].task = "consolidate"
    <3>1. DutyIn(p, [proc[p] EXCEPT !.pc = "rewrite"], status)
        BY <1>1, <2>3 DEF DutyIn, Local
    <3>2. \/ proc' = [proc EXCEPT ![p] = [proc[p] EXCEPT !.pc = "rewrite"]]
          \/ proc' = [proc EXCEPT ![p] = Rest]
        BY <1>4, <2>3 DEF Dump
    <3> QED BY <2>1, <3>1, <3>2, RestDuty, OneDuty
  <2>4. CASE proc[p].task \in {"reset", "stale"}
    <3>1. DutyIn(p, [proc[p] EXCEPT !.pc = "delete"], status)
        BY <1>1, <2>4 DEF DutyIn, Local
    <3>2. ~proc[p].rewrite
        BY <1>1, <2>4 DEF DutyIn
    <3>3. proc' = [proc EXCEPT ![p] = [proc[p] EXCEPT !.pc = "delete"]]
        BY <1>4, <2>4, <3>2 DEF Dump
    <3> QED BY <2>1, <3>1, <3>3, OneDuty
  <2> QED BY <1>1, <2>1, <2>2, <2>3, <2>4 DEF DutyIn
<1> QED BY <1>2, <1>3, <1>4

LEMMA DutyDelete ==
    ASSUME TypeOK, Duty, NEW p \in Procs,
           Rewrite(p) \/ Forget(p) \/ Delete(p) \/ DeleteFails(p) \/ Deleted(p)
    PROVE  Duty' /\ ~Forget(p)
<1>1. proc[p] \in Local /\ DutyIn(p, proc[p], status)
    BY DEF TypeOK, Local, Duty
<1>2. status' = status
    BY DEF Rewrite, Forget, Delete, DeleteFails, Deleted, db
<1>3. ~Forget(p)
    BY <1>1 DEF Forget, Is, DutyIn
<1>4. CASE Rewrite(p)
  <2>1. proc' = [proc EXCEPT ![p] = Rest]
      BY <1>1, <1>4 DEF Rewrite, Is, Return, DutyIn
  <2> QED BY <1>2, <1>3, <2>1, RestDuty, OneDuty
<1>5. CASE Delete(p) \/ DeleteFails(p)
  <2>1. \A d : DutyIn(p, [proc[p] EXCEPT !.aim = proc[p].aim \ {d}], status)
      BY <1>1 DEF DutyIn, Local
  <2>2. \E r : DutyIn(p, r, status) /\ proc' = [proc EXCEPT ![p] = r]
      BY <1>5, <2>1, RestDuty DEF Delete, DeleteFails, Return
  <2> QED BY <1>2, <1>3, <2>2, OneDuty
<1>6. CASE Deleted(p)
  <2>1. \E r : DutyIn(p, r, status) /\ proc' = [proc EXCEPT ![p] = r]
      BY <1>6, RestDuty DEF Deleted
  <2> QED BY <1>2, <1>3, <2>1, OneDuty
<1> QED BY <1>3, <1>4, <1>5, <1>6

LEMMA DutyCommands ==
    ASSUME TypeOK, Duty, Trusted', NEW p \in Operators,
           ConsolidateWarcs(p) \/ CleanupJob(p) \/ ResetCrawlState(p)
    PROVE  Duty' /\ ~CleanupJob(p)
<1>1. p \in Procs /\ p # Worker /\ status' = status
    BY Constants DEF Procs, ConsolidateWarcs, CleanupJob, ResetCrawlState, db
<1>2. ~CleanupJob(p)
    BY DEF CleanupJob, Ask, Trusted
<1>3. CASE ConsolidateWarcs(p)
  <2>1. \A w : DutyIn(p, Consolidating("consolidate", TempWarcs, {}, w), status)
      BY <1>1 DEF DutyIn, Consolidating, Rest
  <2>2. \E r : DutyIn(p, r, status) /\ proc' = [proc EXCEPT ![p] = r]
      BY <1>3, <2>1 DEF ConsolidateWarcs
  <2> QED BY <1>1, <1>2, <2>2, OneDuty
<1>4. CASE ResetCrawlState(p)
  <2>1. status # "running"
      BY <1>4 DEF ResetCrawlState
  <2>2. /\ DutyIn(p, [Rest EXCEPT !.pc = "delete", !.task = "reset", !.aim = TempDirs], status)
        /\ DutyIn(p, Consolidating("reset", TempWarcs, TempDirs, FALSE), status)
      BY <1>1, <2>1 DEF DutyIn, Consolidating, Rest
  <2>3. \E r : DutyIn(p, r, status) /\ proc' = [proc EXCEPT ![p] = r]
      BY <1>4, <2>2 DEF ResetCrawlState
  <2> QED BY <1>1, <1>2, <2>3, OneDuty
<1> QED BY <1>2, <1>3, <1>4

LEMMA DutyIndex ==
    ASSUME TypeOK, Duty, NEW p \in Procs,
           IndexJob(p) \/ Discover(p) \/ DiscoverFails(p) \/ Insert(p) \/ Crash(p)
    PROVE  Duty'
<1>1. proc[p] \in Local /\ DutyIn(p, proc[p], status)
    BY DEF TypeOK, Local, Duty
<1>2. status' = status \/ status' # "running"
    BY DEF IndexJob, Discover, DiscoverFails, Insert, Crash, db
<1>3. CASE IndexJob(p)
  <2>1. DutyIn(p, Consolidating("index", Tracked, {}, FALSE), status')
      BY DEF DutyIn, Consolidating, Rest
  <2>2. \E r : DutyIn(p, r, status') /\ proc' = [proc EXCEPT ![p] = r]
      BY <1>3, <2>1, RestDuty DEF IndexJob
  <2> QED BY <1>2, <2>2, OneDuty
<1>4. CASE Discover(p)
  <2>1. proc[p].pc = "discover" /\ status' = status
      BY <1>4 DEF Discover, Is, db
  <2>2. DutyIn(p, [proc[p] EXCEPT !.pc = "insert", !.aim = Discovered], status)
      BY <1>1, <2>1 DEF DutyIn, Local
  <2>3. \E r : DutyIn(p, r, status) /\ proc' = [proc EXCEPT ![p] = r]
      BY <1>4, <2>2 DEF Discover
  <2> QED BY <2>1, <2>3, OneDuty
<1>5. CASE DiscoverFails(p) \/ Insert(p) \/ Crash(p)
  <2>1. proc' = [proc EXCEPT ![p] = Rest]
      BY <1>5 DEF DiscoverFails, Insert, Crash, Return
  <2> QED BY <1>2, <2>1, RestDuty, OneDuty
<1> QED BY <1>3, <1>4, <1>5

\* A crawl that starts finds nobody who resets.
LEMMA DutyCrawl ==
    ASSUME TypeOK, Duty, Trusted', CrawlStarts \/ NewDir \/ Capture \/ CrawlEnds
    PROVE  Duty'
<1>1. Worker \in Procs /\ proc[Worker] \in Local /\ DutyIn(Worker, proc[Worker], status)
    BY DEF TypeOK, Local, Duty, Procs
<1>2. CASE CrawlStarts
  <2>1. \A q \in Procs : q # Worker => proc[q].task # "reset" /\ proc'[q] = proc[q]
    <3>1. "overlap" \notin ran' /\ ran' = ran \cup {e \in {"overlap"} : \E q \in Operators : proc[q].task = "reset"}
        BY <1>2 DEF CrawlStarts, Trusted
    <3>2. \A q \in Operators : proc[q].task # "reset"
        BY <3>1
    <3> QED BY <1>2, <3>2 DEF CrawlStarts, Procs, TypeOK
  <2>2. \A q \in Procs : q # Worker => DutyIn(q, proc'[q], status')
      BY <2>1 DEF Duty, DutyIn
  <2>3. /\ DutyIn(Worker, [Rest EXCEPT !.pc = "crawl", !.todo = TempDirs], status')
        /\ DutyIn(Worker, [Rest EXCEPT !.pc = "delete", !.task = "stale", !.aim = TempDirs], status')
        /\ DutyIn(Worker, Consolidating("stale", TempWarcs, TempDirs, FALSE), status')
      BY DEF DutyIn, Consolidating, Rest
  <2>4. DutyIn(Worker, proc'[Worker], status')
      BY <1>1, <1>2, <2>3 DEF CrawlStarts, TypeOK
  <2> QED BY <2>2, <2>4 DEF Duty
<1>3. CASE NewDir
  <2>1. status' = status /\ proc[Worker].pc = "crawl"
      BY <1>3 DEF NewDir, Is, db
  <2>2. \A d, s : DutyIn(Worker, [proc[Worker] EXCEPT !.at = d, !.todo = s], status)
      BY <1>1, <2>1 DEF DutyIn, Local
  <2>3. \E r : DutyIn(Worker, r, status) /\ proc' = [proc EXCEPT ![Worker] = r]
      BY <1>3, <2>2 DEF NewDir
  <2> QED BY <1>1, <2>1, <2>3, OneDuty
<1>4. CASE Capture
    BY <1>4 DEF Capture, Duty, db
<1>5. CASE CrawlEnds
  <2>1. status' # "running" /\ proc' = [proc EXCEPT ![Worker] = Rest]
      BY <1>5 DEF CrawlEnds, Return
  <2> QED BY <1>1, <2>1, RestDuty, OneDuty
<1> QED BY <1>2, <1>3, <1>4, <1>5

LEMMA DutyStep ==
    ASSUME TypeOK, Shape, Duty, Trusted', [Next]_vars
    PROVE  Duty' /\ \A p \in Procs : ~Forget(p)
<1>1. \A p \in Procs : ~Forget(p)
    BY DutyDelete
<1>2. CASE RetryJob
    BY <1>1, <1>2 DEF RetryJob, Duty, DutyIn
<1>3. CASE UNCHANGED vars
    BY <1>1, <1>3 DEF vars, db, Duty
<1>4. "fallback" \notin ran'
    BY DEF Trusted
<1> QED BY <1>1, <1>2, <1>3, <1>4, NoFallback, DutyLink, DutyDelete, DutyCommands, DutyIndex, DutyCrawl DEF Next

-----------------------------------------------------------------------------
(* Where the data are.                                                     *)

Named(d, n) == \E s \in Names : n[s] = d

\* Resets delete only what is named, and what they still have to link.
ResetIn(r, n, f) ==
    r.task \in {"reset", "stale"} =>
        \A d \in Dirs : n[d] # Nowhere /\ f[d] # {} =>
            Named(d, n) \/ (r.pc = "link" /\ d \in r.todo)

\* A crawl knows its directories; its own is the newest.
CrawlIn(r, n, f) ==
    r.pc = "crawl" =>
        /\ \A d \in Dirs : n[d] # Nowhere /\ f[d] # {} => Named(d, n) \/ d \in r.todo \/ d = r.at

Recorder ==
    Is(Worker, "crawl") =>
        /\ proc[Worker].todo \subseteq listed
        /\ proc[Worker].at # Nowhere => born # <<>> /\ proc[Worker].at = born[Len(born)]

Listed ==
    \A d \in Dirs : node[d] # Nowhere /\ file[d] # {} =>
        Named(d, node) \/ d \in listed \/ (born # <<>> /\ d = born[Len(born)])

BornOnce == \A i \in DOMAIN born : born[i] = born[Len(born)] => i = Len(born)

Tracing ==
    /\ \A p \in Procs : ResetIn(proc[p], node, file)
    /\ CrawlIn(proc[Worker], node, file)
    /\ Recorder
    /\ Listed
    /\ BornOnce

\* Directories that register-job-dir adopts: at most one, which is then the newest.
LEMMA TracingInit == Init /\ Adopted <= 1 => Tracing
<1> SUFFICES ASSUME Init, Adopted <= 1 PROVE Tracing
    OBVIOUS
<1>1. \A p \in Procs : proc[p] = Rest
    BY DEF Init
<1>2. /\ \A p \in Procs : ResetIn(proc[p], node, file)
      /\ CrawlIn(proc[Worker], node, file) /\ Recorder
    BY <1>1 DEF ResetIn, CrawlIn, Recorder, Is, Rest, Procs
<1>3. IsFiniteSet(1..Adopted) /\ Cardinality(1..Adopted) = Adopted
    BY FS_Interval, Constants
<1>4. born \in [1..Adopted -> 1..Adopted] /\ \A i, j \in 1..Adopted : i # j => born[i] # born[j]
    BY <1>3 DEF Init, SetToSeqs
<1>5. Len(born) = Adopted /\ DOMAIN born = 1..Adopted
    BY <1>4, Constants
<1>6. BornOnce
    BY <1>4, <1>5, Constants DEF BornOnce
<1>7. ASSUME NEW d \in Dirs, node[d] # Nowhere
      PROVE  born # <<>> /\ d = born[Len(born)]
  <2>1. d \in 1..Adopted
      BY <1>7, PathKinds, Constants DEF Init
  <2>2. Adopted = 1 /\ d = 1
      BY <2>1, Constants
  <2> QED BY <1>4, <1>5, <2>2
<1>8. Listed
    BY <1>7 DEF Listed
<1> QED BY <1>2, <1>6, <1>8 DEF Tracing

\* Only crawls add data, and links lose none.
LEMMA DataStep ==
    ASSUME TypeOK, Shape, Trusted', [Next]_vars, ~NewDir, ~Capture
    PROVE  /\ file' = file
           /\ \A d \in Dirs : node'[d] # Nowhere => node[d] # Nowhere
           /\ \A d \in Dirs : Named(d, node) => Named(d, node')
<1>1. "fallback" \notin ran'
    BY DEF Trusted
<1>2. file' = file
    BY <1>1, FileStep
<1>3. \A d \in Dirs : Named(d, node) => Named(d, node')
    BY PathsStep, PathKinds DEF Named, NamesStay, Exists
<1>4. ASSUME NEW p \in Procs, Link(p), NEW d \in Dirs
      PROVE  node'[d] = node[d]
    BY <1>4, LinkMade, PathKinds DEF TypeOK
<1>5. ASSUME NEW p \in Procs, Delete(p), NEW d \in Dirs, node'[d] # Nowhere
      PROVE  node[d] # Nowhere
    BY <1>5, PathKinds DEF Delete, TypeOK
<1> QED BY <1>1, <1>2, <1>3, <1>4, <1>5, OthersKeepPaths, NoFallback

\* What was known of the data stays true for processes that take no part.
LEMMA KnownStays ==
    ASSUME TypeOK, Shape, Trusted', [Next]_vars, ~NewDir, ~Capture, NEW r
    PROVE  /\ ResetIn(r, node, file) => ResetIn(r, node', file')
           /\ CrawlIn(r, node, file) => CrawlIn(r, node', file')
BY DataStep DEF ResetIn, CrawlIn

\* Nobody resets while a crawl makes directories and captures.
LEMMA NoReset ==
    ASSUME TypeOK, Calm, Duty, Is(Worker, "crawl"), NEW p \in Procs
    PROVE  proc[p].task \notin {"reset", "stale"}
<1>1. status = "running" /\ proc[Worker].task \notin {"reset", "stale"}
    BY DEF Calm, CalmIn, Duty, DutyIn, Is, Procs
<1> QED BY <1>1 DEF Calm, CalmIn, Duty, DutyIn

\* The processes of the others, in the steps of one.
LEMMA OneReset ==
    ASSUME TypeOK, Shape, Trusted', [Next]_vars, ~NewDir, ~Capture,
           \A p \in Procs : ResetIn(proc[p], node, file),
           NEW p \in Procs, NEW r, proc' = [proc EXCEPT ![p] = r], ResetIn(r, node', file')
    PROVE  \A q \in Procs : ResetIn(proc'[q], node', file')
BY KnownStays DEF TypeOK

LEMMA ResetStep ==
    ASSUME TypeOK, Shape, Calm, Duty, Duty', Tracing, Trusted', [Next]_vars
    PROVE  \A q \in Procs : ResetIn(proc'[q], node', file')
<1>1. \A p \in Procs : ResetIn(proc[p], node, file) /\ proc[p] \in Local
    BY DEF Tracing, TypeOK, Local
<1>2. CASE NewDir \/ Capture
  <2>1. Is(Worker, "crawl") /\ Worker \in Procs
      BY <1>2 DEF NewDir, Capture, Procs
  <2>2. \A p \in Procs : proc'[p].task = proc[p].task
    <3>1. CASE Capture
        BY <3>1 DEF Capture
    <3>2. CASE NewDir
      <4>1. PICK d : proc' = [proc EXCEPT ![Worker] = [proc[Worker] EXCEPT !.at = d, !.todo = Recorded]]
          BY <3>2 DEF NewDir
      <4> QED BY <1>1, <2>1, <4>1 DEF Local, TypeOK
    <3> QED BY <1>2, <3>1, <3>2
  <2> QED BY <2>1, <2>2, NoReset DEF ResetIn
<1>3. ASSUME ~NewDir, ~Capture, NEW p \in Procs, NEW r, proc' = [proc EXCEPT ![p] = r],
             r.task \notin {"reset", "stale"} \/ ResetIn(r, node', file')
      PROVE  \A q \in Procs : ResetIn(proc'[q], node', file')
    BY <1>1, <1>3, OneReset DEF ResetIn
<1>4. \A l : [Rest EXCEPT !.pc = l].task = "none" /\ Rest.task = "none"
    BY DEF Rest
<1>5. ASSUME ~NewDir, ~Capture, proc' = proc
      PROVE  \A q \in Procs : ResetIn(proc'[q], node', file')
    BY <1>1, <1>5, KnownStays
<1>6. ASSUME NEW p \in Procs, Reuse(p) \/ Link(p), ~NewDir, ~Capture
      PROVE  \A q \in Procs : ResetIn(proc'[q], node', file')
  <2>1. Named(Source(p), node')
    <3>1. CASE Link(p)
      <4>1. Source(p) \in Dirs /\ Dest(p) \in Names /\ node' = [node EXCEPT ![Dest(p)] = Source(p)]
          BY <3>1, LinkMade
      <4>2. node'[Dest(p)] = Source(p)
          BY <4>1, PathKinds DEF TypeOK
      <4> QED BY <4>1, <4>2 DEF Named
    <3>2. CASE Reuse(p)
      <4>1. SoundIn(proc[p].map, node) /\ Source(p) \in Dirs /\ proc[p].map[Source(p)] # Nowhere
          BY <3>2, LinkTyped DEF Shape, GoodIn, Reuse, Reusable
      <4>2. node' = node
          BY <3>2 DEF Reuse, disk
      <4> QED BY <4>1, <4>2 DEF SoundIn, Named
    <3> QED BY <1>6, <3>1, <3>2
  <2>2. ResetIn(proc[p], node', file')
      BY <1>1, <1>6, KnownStays
  <2>3. ResetIn(proc'[p], node', file')
      BY <1>6, <2>1, <2>2, LinkKeeps DEF ResetIn
  <2> QED BY <1>3, <1>6, <2>3, LinkKeeps
<1>7. ASSUME NEW p \in Procs, LinkFails(p) \/ Dump(p), ~NewDir, ~Capture
      PROVE  \A q \in Procs : ResetIn(proc'[q], node', file')
  <2>1. CASE \E l : proc' = [proc EXCEPT ![p] = Rest] \/ proc' = [proc EXCEPT ![p] = [Rest EXCEPT !.pc = l]]
      BY <1>3, <1>4, <1>7, <2>1
  <2>2. CASE Dump(p) /\ \E l : proc' = [proc EXCEPT ![p] = [proc[p] EXCEPT !.pc = l]]
    <3>1. PICK l : proc' = [proc EXCEPT ![p] = [proc[p] EXCEPT !.pc = l]]
        BY <2>2
    <3>2. [proc[p] EXCEPT !.pc = l].task = proc[p].task
        BY <1>1 DEF Local
    <3>3. proc[p].todo = {} /\ ResetIn(proc[p], node', file')
        BY <1>1, <1>7, <2>2, KnownStays DEF Dump
    <3>4. ResetIn([proc[p] EXCEPT !.pc = l], node', file')
        BY <3>2, <3>3 DEF ResetIn
    <3> QED BY <1>3, <1>7, <3>1, <3>4
  <2> QED BY <1>7, <2>1, <2>2 DEF LinkFails, Abandon, Dump
<1>8. ASSUME NEW p \in Procs, Rewrite(p) \/ Delete(p) \/ DeleteFails(p) \/ Deleted(p), ~NewDir, ~Capture
      PROVE  \A q \in Procs : ResetIn(proc'[q], node', file')
  <2>1. CASE \E l : proc' = [proc EXCEPT ![p] = Rest] \/ proc' = [proc EXCEPT ![p] = [Rest EXCEPT !.pc = l]]
      BY <1>3, <1>4, <1>8, <2>1
  <2>2. CASE Rewrite(p)
    <3>1. proc[p].task = "consolidate"
        BY <2>2 DEF Rewrite, Is, Duty, DutyIn
    <3>2. proc' = [proc EXCEPT ![p] = Rest]
        BY <2>2, <3>1 DEF Rewrite, Return
    <3> QED BY <2>1, <3>2
  <2>3. CASE (Delete(p) \/ DeleteFails(p)) /\ proc' # [proc EXCEPT ![p] = Rest]
    <3>1. PICK d : proc' = [proc EXCEPT ![p] = [proc[p] EXCEPT !.aim = proc[p].aim \ {d}]]
        BY <2>3 DEF Delete, DeleteFails, Return
    <3> DEFINE r == [proc[p] EXCEPT !.aim = proc[p].aim \ {d}]
    <3>2. r.task = proc[p].task /\ r.pc = proc[p].pc /\ r.todo = proc[p].todo
        BY <1>1 DEF Local
    <3>3. ResetIn(proc[p], node', file')
        BY <1>1, <1>8, KnownStays
    <3> HIDE DEF r
    <3>4. ResetIn(r, node', file')
        BY <3>2, <3>3 DEF ResetIn
    <3> QED BY <1>3, <1>8, <3>1, <3>4 DEF r
  <2> QED BY <1>8, <2>1, <2>2, <2>3 DEF Deleted
<1>9. ASSUME NEW p \in Procs,
             \/ IndexJob(p) \/ Discover(p) \/ DiscoverFails(p) \/ Insert(p) \/ Crash(p)
             \/ (p \in Operators /\ ConsolidateWarcs(p)),
             ~NewDir, ~Capture
      PROVE  \A q \in Procs : ResetIn(proc'[q], node', file')
  <2>1. \A s, a, w : /\ Consolidating("index", s, a, w).task = "index"
                     /\ Consolidating("consolidate", s, a, w).task = "consolidate"
      BY DEF Consolidating, Rest
  <2>2. CASE ~Discover(p)
    <3>1. \E r : r.task \notin {"reset", "stale"} /\ proc' = [proc EXCEPT ![p] = r]
        BY <1>4, <1>9, <2>1, <2>2 DEF IndexJob, DiscoverFails, Insert, Crash, ConsolidateWarcs, Return
    <3> QED BY <1>3, <1>9, <3>1
  <2>3. CASE Discover(p)
    <3>1. proc[p].pc = "discover"
        BY <2>3 DEF Discover, Is
    <3>2. proc[p].task \notin {"reset", "stale"}
        BY <3>1 DEF Duty, DutyIn
    <3>3. [proc[p] EXCEPT !.pc = "insert", !.aim = Discovered].task = proc[p].task
        BY <1>1 DEF Local
    <3>4. proc' = [proc EXCEPT ![p] = [proc[p] EXCEPT !.pc = "insert", !.aim = Discovered]]
        BY <2>3 DEF Discover
    <3> QED BY <1>3, <1>9, <3>2, <3>3, <3>4
  <2> QED BY <2>2, <2>3
<1>10. \A d \in Dirs : node[d] # Nowhere /\ file[d] # {} => d \in TempWarcs
    BY DEF TempWarcs, HasData, Exists, Shape
<1>11. ASSUME NEW t, NEW e, NEW l
       PROVE  /\ ResetIn(Consolidating(t, TempWarcs, TempDirs, FALSE), node, file)
              /\ TempWarcs = {} => ResetIn([Rest EXCEPT !.pc = l, !.task = t, !.aim = TempDirs], node, file)
  <2>1. Consolidating(t, TempWarcs, TempDirs, FALSE).pc = "link"
        /\ Consolidating(t, TempWarcs, TempDirs, FALSE).todo = TempWarcs
      BY DEF Consolidating, Rest
  <2> QED BY <1>10, <2>1 DEF ResetIn
<1>12. ASSUME NEW p \in Operators, ResetCrawlState(p), ~NewDir, ~Capture
       PROVE  \A q \in Procs : ResetIn(proc'[q], node', file')
  <2>1. node' = node /\ file' = file /\ p \in Procs
      BY <1>12 DEF ResetCrawlState, disk, Procs
  <2>2. \E r : ResetIn(r, node', file') /\ proc' = [proc EXCEPT ![p] = r]
      BY <1>11, <1>12, <2>1 DEF ResetCrawlState
  <2> QED BY <1>3, <1>12, <2>1, <2>2
<1>13. ASSUME CrawlStarts, ~NewDir, ~Capture
       PROVE  \A q \in Procs : ResetIn(proc'[q], node', file')
  <2>1. node' = node /\ file' = file /\ Worker \in Procs
      BY <1>13 DEF CrawlStarts, Procs
  <2>2. [Rest EXCEPT !.pc = "crawl", !.todo = TempDirs].task = "none"
      BY DEF Rest
  <2>3. \E r : /\ r.task \notin {"reset", "stale"} \/ ResetIn(r, node', file')
               /\ proc' = [proc EXCEPT ![Worker] = r]
    <3>1. CASE proc' = [proc EXCEPT ![Worker] = [Rest EXCEPT !.pc = "crawl", !.todo = TempDirs]]
        BY <2>2, <3>1
    <3>2. CASE proc' = [proc EXCEPT ![Worker] = Consolidating("stale", TempWarcs, TempDirs, FALSE)]
        BY <1>11, <2>1, <3>2
    <3>3. CASE /\ TempWarcs = {}
               /\ proc' = [proc EXCEPT ![Worker] =
                     [Rest EXCEPT !.pc = "delete", !.task = "stale", !.aim = TempDirs]]
        BY <1>11, <2>1, <3>3
    <3> QED BY <1>13, <3>1, <3>2, <3>3 DEF CrawlStarts
  <2> QED BY <1>3, <1>13, <2>1, <2>3
<1>14. ASSUME CrawlEnds, ~NewDir, ~Capture
       PROVE  \A q \in Procs : ResetIn(proc'[q], node', file')
    BY <1>3, <1>4, <1>14 DEF CrawlEnds, Return, Procs
<1>15. RetryJob \/ UNCHANGED vars => proc' = proc
    BY DEF RetryJob, vars
<1>16. "fallback" \notin ran' /\ \A p \in Operators : ~CleanupJob(p)
    BY DutyCommands DEF Trusted
<1> QED BY <1>2, <1>5, <1>6, <1>7, <1>8, <1>9, <1>12, <1>13, <1>14, <1>15, <1>16,
           NoFallback, DutyStep DEF Next, Procs

\* What becomes of the list that a state file holds.
LEMMA ListedStep ==
    ASSUME [Next]_vars, ~FallbackPicks, \A p \in Procs : ~Forget(p)
    PROVE  \/ listed' = listed
           \/ CrawlStarts \/ NewDir \/ CrawlEnds
           \/ \E p \in Procs : Deleted(p)
<1>1. ASSUME NEW p \in Operators, ConsolidateWarcs(p) \/ CleanupJob(p) \/ ResetCrawlState(p)
      PROVE  listed' = listed
    BY <1>1 DEF ConsolidateWarcs, CleanupJob, ResetCrawlState, disk
<1>2. ASSUME NEW p \in Procs,
             \/ Reuse(p) \/ Link(p) \/ LinkFails(p) \/ Dump(p)
             \/ Rewrite(p) \/ Delete(p) \/ DeleteFails(p)
      PROVE  listed' = listed
    BY <1>2 DEF Reuse, Link, LinkFails, Dump, Rewrite, Delete, DeleteFails, disk
<1>3. ASSUME NEW p \in Procs,
             IndexJob(p) \/ Discover(p) \/ DiscoverFails(p) \/ Insert(p) \/ Crash(p)
      PROVE  listed' = listed
    BY <1>3 DEF IndexJob, Discover, DiscoverFails, Insert, Crash, disk
<1>4. RetryJob \/ Capture \/ FallbackWrites \/ UNCHANGED vars => listed' = listed
    BY DEF RetryJob, Capture, FallbackWrites, disk, vars
<1> QED BY <1>1, <1>2, <1>3, <1>4 DEF Next

\* How a crawl comes to be where it is.
LEMMA CrawlingStep ==
    ASSUME TypeOK, [Next]_vars, Is(Worker, "crawl")'
    PROVE  \/ proc'[Worker] = proc[Worker]
           \/ CrawlStarts \/ NewDir
           \/ Deleted(Worker)
<1>1. proc \in [Procs -> Local] /\ Worker \in Procs
    BY DEF TypeOK, Local, Procs
<1>2. ASSUME NEW q \in Procs, NEW r, r.pc # "crawl", proc' = [proc EXCEPT ![q] = r]
      PROVE  proc'[Worker] = proc[Worker]
    BY <1>1, <1>2 DEF Is
<1>3. ASSUME NEW q \in Procs, Reuse(q) \/ Link(q)
      PROVE  proc'[Worker] = proc[Worker]
    BY <1>2, <1>3, LinkKeeps
<1>4. ASSUME NEW q \in Procs, LinkFails(q) \/ Dump(q)
      PROVE  proc'[Worker] = proc[Worker]
  <2>1. proc' = [proc EXCEPT ![q] = proc'[q]] /\ proc'[q].pc # "crawl"
      BY <1>1, <1>4 DEF LinkFails, Abandon, Dump, Rest, Local
  <2> QED BY <1>2, <2>1
<1>5. ASSUME NEW q \in Procs, Rewrite(q) \/ Forget(q) \/ Delete(q) \/ DeleteFails(q)
      PROVE  proc'[Worker] = proc[Worker]
  <2>1. proc' = [proc EXCEPT ![q] = proc'[q]] /\ proc'[q].pc # "crawl"
      BY <1>1, <1>5 DEF Rewrite, Forget, Delete, DeleteFails, Return, Goto, Is, Rest, Local
  <2> QED BY <1>2, <2>1
<1>6. ASSUME NEW q \in Procs, IndexJob(q) \/ Discover(q) \/ DiscoverFails(q) \/ Insert(q) \/ Crash(q)
      PROVE  proc'[Worker] = proc[Worker]
  <2>1. proc' = [proc EXCEPT ![q] = proc'[q]] /\ proc'[q].pc # "crawl"
    <3>1. CASE IndexJob(q)
        BY <1>1, <3>1 DEF IndexJob, Consolidating, Rest
    <3>2. CASE Discover(q)
        BY <1>1, <3>2 DEF Discover, Local
    <3>3. CASE DiscoverFails(q) \/ Insert(q) \/ Crash(q)
        BY <1>1, <3>3 DEF DiscoverFails, Insert, Crash, Return, Rest
    <3> QED BY <1>6, <3>1, <3>2, <3>3
  <2> QED BY <1>2, <2>1
<1>7. ASSUME NEW q \in Operators, ConsolidateWarcs(q) \/ CleanupJob(q) \/ ResetCrawlState(q)
      PROVE  proc'[Worker] = proc[Worker]
  <2>1. q \in Procs
      BY DEF Procs
  <2> QED BY <1>2, <1>7, <2>1, CommandsBegin
<1>8. ASSUME NEW q \in Procs, Deleted(q)
      PROVE  proc'[Worker] = proc[Worker] \/ Deleted(Worker)
    BY <1>1, <1>8 DEF Deleted
<1>9. CASE CrawlEnds \/ FallbackPicks \/ FallbackWrites
  <2>1. proc' = [proc EXCEPT ![Worker] = proc'[Worker]] /\ proc'[Worker].pc # "crawl"
    <3>1. CASE FallbackPicks
        BY <1>1, <3>1 DEF FallbackPicks, Local
    <3>2. CASE CrawlEnds \/ FallbackWrites
        BY <1>1, <3>2 DEF CrawlEnds, FallbackWrites, Return, Rest
    <3> QED BY <1>9, <3>1, <3>2
  <2> QED BY <1>1, <1>2, <2>1
<1>10. CASE RetryJob \/ Capture \/ UNCHANGED vars
    BY <1>10 DEF RetryJob, Capture, vars
<1> QED BY <1>3, <1>4, <1>5, <1>6, <1>7, <1>8, <1>9, <1>10 DEF Next

\* Whoever is done with deleting has left nothing that is not named.
LEMMA DeletedNamed ==
    ASSUME TypeOK, Duty, Tracing, NEW p \in Procs, Deleted(p), NEW d \in Dirs,
           node[d] # Nowhere, file[d] # {}
    PROVE  Named(d, node) /\ node' = node /\ file' = file
<1>1. proc[p].pc = "delete" /\ proc[p].task \in {"reset", "stale"} /\ ResetIn(proc[p], node, file)
    BY DEF Deleted, Is, Duty, DutyIn, Tracing
<1> QED BY <1>1 DEF ResetIn, Deleted

\* A directory that is recorded, or that the running crawl has just listed.
LEMMA RecordedListed ==
    ASSUME TypeOK, Shape, Calm, Tracing, Is(Worker, "crawl"), Record, NEW d \in Dirs,
           node[d] # Nowhere, file[d] # {}
    PROVE  /\ Recorded \subseteq listed'
           /\ Named(d, node) \/ d \in Recorded
<1>1. CrawlIn(proc[Worker], node, file) /\ Recorder /\ proc[Worker].pc = "crawl"
    BY DEF Tracing, Is
<1>2. Recorded \subseteq listed'
    BY <1>1 DEF Record, Recorder
<1>3. d \in TempDirs
    BY DEF TempDirs, Exists
<1> QED BY <1>1, <1>2, <1>3 DEF CrawlIn, Recorded

\* The next directory: the newest one, and what the crawl knows of the others.
LEMMA MadeDir ==
    ASSUME TypeOK, NewDir
    PROVE  \E d \in Dirs \ ToSet(born) :
             /\ node' = [node EXCEPT ![d] = d] /\ file' = file
             /\ born' = Append(born, d) /\ born' # <<>> /\ born'[Len(born')] = d
             /\ proc'[Worker].at = d /\ proc'[Worker].todo = Recorded
             /\ Recorded \subseteq Dirs
<1>1. proc[Worker] \in Local /\ Worker \in Procs /\ born \in Seq(Dirs)
    BY DEF TypeOK, Local, Procs
<1>2. PICK d \in Dirs \ ToSet(born) :
        /\ node' = [node EXCEPT ![d] = d]
        /\ born' = Append(born, d)
        /\ proc' = [proc EXCEPT ![Worker] = [@ EXCEPT !.at = d, !.todo = Recorded]]
    BY DEF NewDir
<1>3. born' # <<>> /\ born'[Len(born')] = d
    BY <1>1, <1>2
<1>4. proc'[Worker].at = d /\ proc'[Worker].todo = Recorded
    BY <1>1, <1>2 DEF TypeOK, Local
<1> QED BY <1>2, <1>3, <1>4 DEF NewDir, Recorded, TempDirs

LEMMA CrawlStep ==
    ASSUME TypeOK, Shape, Calm, Duty, Tracing, Trusted', [Next]_vars
    PROVE  CrawlIn(proc'[Worker], node', file')
<1>1. /\ Worker \in Procs /\ proc[Worker] \in Local
      /\ CrawlIn(proc[Worker], node, file)
    BY DEF TypeOK, Local, Tracing, Procs
<1> SUFFICES ASSUME proc'[Worker].pc = "crawl"
             PROVE  CrawlIn(proc'[Worker], node', file')
    BY DEF CrawlIn
<1>2. CASE NewDir
  <2>1. PICK d \in Dirs \ ToSet(born) :
          /\ node' = [node EXCEPT ![d] = d] /\ file' = file
          /\ proc'[Worker].at = d /\ proc'[Worker].todo = Recorded
      BY <1>2, MadeDir
  <2>2. ASSUME NEW e \in Dirs, node'[e] # Nowhere, file'[e] # {}, e # d
        PROVE  Named(e, node') \/ e \in Recorded
    <3>1. node'[e] = node[e] /\ \A s \in Names : node'[s] = node[s]
        BY <2>1, <2>2, PathKinds DEF TypeOK
    <3>2. Named(e, node) \/ e \in Recorded
        BY <1>2, <2>1, <2>2, <3>1, RecordedListed DEF NewDir
    <3> QED BY <3>1, <3>2 DEF Named
  <2> QED BY <2>1, <2>2 DEF CrawlIn
<1>3. CASE Capture
  <2>1. node' = node /\ proc' = proc /\ \A e \in Dirs : e # proc[Worker].at => file'[e] = file[e]
      BY <1>3, PathKinds DEF Capture, TypeOK
  <2> QED BY <1>1, <2>1 DEF CrawlIn
<1>4. CASE CrawlStarts
  <2>1. /\ node' = node /\ file' = file
        /\ \A d \in Dirs : node[d] # Nowhere => d \in TempDirs
      BY <1>4 DEF CrawlStarts, TempDirs, Exists
  <2>2. proc' = [proc EXCEPT ![Worker] = [Rest EXCEPT !.pc = "crawl", !.todo = TempDirs]]
    <3>1. Consolidating("stale", TempWarcs, TempDirs, FALSE).pc = "link"
          /\ [Rest EXCEPT !.pc = "delete", !.task = "stale", !.aim = TempDirs].pc = "delete"
        BY DEF Consolidating, Rest
    <3>2. CASE proc' = [proc EXCEPT ![Worker] = Consolidating("stale", TempWarcs, TempDirs, FALSE)]
        BY <1>1, <3>1, <3>2 DEF TypeOK
    <3>3. CASE proc' = [proc EXCEPT ![Worker] =
                           [Rest EXCEPT !.pc = "delete", !.task = "stale", !.aim = TempDirs]]
        BY <1>1, <3>1, <3>3 DEF TypeOK
    <3> QED BY <1>4, <3>2, <3>3 DEF CrawlStarts
  <2>3. proc'[Worker] = [Rest EXCEPT !.pc = "crawl", !.todo = TempDirs]
      BY <1>1, <2>2 DEF TypeOK
  <2>4. proc'[Worker].todo = TempDirs
      BY <2>3 DEF Rest
  <2> QED BY <2>1, <2>4 DEF CrawlIn
<1>5. CASE Deleted(Worker)
    BY <1>1, <1>5, DeletedNamed DEF CrawlIn, Deleted
<1>6. CASE proc'[Worker] = proc[Worker] /\ ~NewDir /\ ~Capture
    BY <1>1, <1>6, KnownStays
<1> QED BY <1>2, <1>3, <1>4, <1>5, <1>6, CrawlingStep DEF Is

LEMMA RecorderStep ==
    ASSUME TypeOK, Shape, Calm, Duty, Tracing, Trusted', [Next]_vars
    PROVE  Recorder'
<1>1. Worker \in Procs /\ proc[Worker] \in Local
    BY DEF TypeOK, Local, Procs
<1> SUFFICES ASSUME Is(Worker, "crawl")'
             PROVE  /\ proc'[Worker].todo \subseteq listed'
                    /\ proc'[Worker].at # Nowhere => born' # <<>> /\ proc'[Worker].at = born'[Len(born')]
    BY DEF Recorder
<1>2. CASE NewDir
  <2>1. /\ proc'[Worker].todo = Recorded
        /\ born' # <<>> /\ proc'[Worker].at = born'[Len(born')]
      BY <1>2, MadeDir
  <2>2. Recorded \subseteq listed'
      BY <1>2 DEF NewDir, Record, Tracing, Recorder
  <2> QED BY <2>1, <2>2
<1>3. CASE CrawlStarts
  <2>1. /\ [Rest EXCEPT !.pc = "crawl", !.todo = TempDirs].todo = TempDirs
        /\ [Rest EXCEPT !.pc = "crawl", !.todo = TempDirs].at = Nowhere
        /\ Consolidating("stale", TempWarcs, TempDirs, FALSE).pc # "crawl"
        /\ [Rest EXCEPT !.pc = "delete", !.task = "stale", !.aim = TempDirs].pc # "crawl"
      BY DEF Consolidating, Rest
  <2>2. listed' = TempDirs
      BY <1>3 DEF CrawlStarts
  <2>3. CASE proc' = [proc EXCEPT ![Worker] = [Rest EXCEPT !.pc = "crawl", !.todo = TempDirs]]
      BY <1>1, <2>1, <2>2, <2>3 DEF TypeOK
  <2>4. CASE proc' = [proc EXCEPT ![Worker] = Consolidating("stale", TempWarcs, TempDirs, FALSE)]
      BY <1>1, <2>1, <2>4 DEF TypeOK, Is
  <2>5. CASE proc' = [proc EXCEPT ![Worker] =
                         [Rest EXCEPT !.pc = "delete", !.task = "stale", !.aim = TempDirs]]
      BY <1>1, <2>1, <2>5 DEF TypeOK, Is
  <2> QED BY <1>3, <2>3, <2>4, <2>5 DEF CrawlStarts
<1>4. CASE Deleted(Worker)
  <2>1. proc'[Worker] \in {Rest, [Rest EXCEPT !.pc = "crawl"]}
      BY <1>1, <1>4 DEF Deleted, TypeOK
  <2>2. proc'[Worker].todo = {} /\ proc'[Worker].at = Nowhere
      BY <2>1 DEF Rest
  <2> QED BY <2>2
<1>5. CASE proc'[Worker] = proc[Worker] /\ ~NewDir /\ ~CrawlStarts
  <2>1. Is(Worker, "crawl") /\ Recorder
      BY <1>5 DEF Is, Tracing
  <2>2. ~CrawlEnds
    <3>1. CrawlEnds => proc'[Worker] = Rest /\ Rest.pc = "idle"
        BY <1>1 DEF CrawlEnds, Return, Rest, TypeOK
    <3> QED BY <3>1 DEF Is
  <2>3. ASSUME NEW p \in Procs, Deleted(p)
        PROVE  FALSE
      BY <2>1, <2>3, NoReset DEF Deleted, Is, Duty, DutyIn
  <2>4. ~FallbackPicks /\ \A p \in Procs : ~Forget(p)
      BY NoFallback, DutyDelete DEF Trusted
  <2>5. listed' = listed /\ born' = born
      BY <1>5, <2>2, <2>3, <2>4, ListedStep, BornStep
  <2> QED BY <1>5, <2>1, <2>5 DEF Recorder
<1> QED BY <1>2, <1>3, <1>4, <1>5, CrawlingStep

LEMMA AllListed ==
    ASSUME TypeOK, Shape, Calm, Duty, Tracing, Trusted', [Next]_vars
    PROVE  Listed'
<1> SUFFICES ASSUME NEW d \in Dirs, node'[d] # Nowhere, file'[d] # {}
             PROVE  Named(d, node') \/ d \in listed' \/ (born' # <<>> /\ d = born'[Len(born')])
    BY DEF Listed
<1>1. CASE NewDir
  <2>1. PICK e \in Dirs \ ToSet(born) :
          /\ node' = [node EXCEPT ![e] = e] /\ file' = file
          /\ born' # <<>> /\ born'[Len(born')] = e
      BY <1>1, MadeDir
  <2>2. CASE d # e
    <3>1. node'[d] = node[d] /\ \A s \in Names : node'[s] = node[s]
        BY <2>1, <2>2, PathKinds DEF TypeOK
    <3>2. Named(d, node) \/ d \in listed'
        BY <1>1, <2>1, <3>1, RecordedListed DEF NewDir
    <3> QED BY <3>1, <3>2 DEF Named
  <2> QED BY <2>1, <2>2
<1>2. CASE CrawlEnds
  <2>1. node' = node /\ file' = file
      BY <1>2 DEF CrawlEnds
  <2> QED BY <1>2, <2>1, RecordedListed DEF CrawlEnds
<1>3. CASE CrawlStarts
    BY <1>3 DEF CrawlStarts, TempDirs, Exists
<1>4. CASE Capture
  <2>1. /\ node' = node /\ listed' = listed /\ born' = born /\ Is(Worker, "crawl")
        /\ proc[Worker].at # Nowhere
        /\ \A e \in Dirs : e # proc[Worker].at => file'[e] = file[e]
      BY <1>4, PathKinds DEF Capture, TypeOK
  <2>2. born # <<>> /\ proc[Worker].at = born[Len(born)]
      BY <2>1 DEF Tracing, Recorder
  <2> QED BY <2>1, <2>2 DEF Tracing, Listed
<1>5. CASE \E p \in Procs : Deleted(p)
  <2>1. PICK p \in Procs : Deleted(p)
      BY <1>5
  <2>2. node' = node /\ file' = file
      BY <2>1 DEF Deleted
  <2> QED BY <2>1, <2>2, DeletedNamed
<1>6. CASE listed' = listed /\ ~NewDir /\ ~Capture
  <2>1. node[d] # Nowhere /\ file[d] # {} /\ (Named(d, node) => Named(d, node')) /\ born' = born
      BY <1>6, DataStep, BornStep
  <2> QED BY <1>6, <2>1 DEF Tracing, Listed
<1>7. ~FallbackPicks /\ \A p \in Procs : ~Forget(p)
    BY NoFallback, DutyDelete DEF Trusted
<1> QED BY <1>1, <1>2, <1>3, <1>4, <1>5, <1>6, <1>7, ListedStep

LEMMA BornOnceStep ==
    ASSUME TypeOK, BornOnce, [Next]_vars
    PROVE  BornOnce'
<1>1. CASE NewDir
  <2>1. PICK d \in Dirs \ ToSet(born) : born' = Append(born, d)
      BY <1>1 DEF NewDir
  <2>2. born \in Seq(Dirs) /\ \A i \in DOMAIN born : born[i] # d
      BY <2>1 DEF TypeOK, ToSet
  <2>3. /\ Len(born') = Len(born) + 1 /\ DOMAIN born' = 1..Len(born) + 1
        /\ born'[Len(born) + 1] = d /\ DOMAIN born = 1..Len(born)
        /\ \A i \in 1..Len(born) : born'[i] = born[i]
      BY <2>1, <2>2
  <2> QED BY <2>2, <2>3 DEF BornOnce
<1> QED BY <1>1, BornStep DEF BornOnce

LEMMA TracingStep ==
    ASSUME TypeOK, Shape, Calm, Duty, Duty', Tracing, Trusted', [Next]_vars
    PROVE  Tracing'
<1>1. \A p \in Procs : ResetIn(proc'[p], node', file')
    BY ResetStep
<1>2. CrawlIn(proc'[Worker], node', file')
    BY CrawlStep
<1>3. BornOnce'
    BY BornOnceStep DEF Tracing
<1> QED BY <1>1, <1>2, <1>3, RecorderStep, AllListed DEF Tracing

\* A process that is about to insert has a path to every capture, as long as
\* what it found is there.
InsertIn(r, n, f, m) ==
    r.pc = "insert" => \A c \in 1..m : \E q \in r.aim : n[q] # Nowhere => c \in f[n[q]]

Inserts == \A p \in Procs : InsertIn(proc[p], node, file, made)

Indexed == status = "indexed" => \A c \in 1..made : \E r \in rows : r[1] = c

LEMMA IndexedInit == Init => Inserts /\ Indexed
BY DEF Init, Inserts, InsertIn, Indexed, Rest

\* A file that some name leads to is found under the first of its names.
LEMMA NamedFound ==
    ASSUME TypeOK, NEW d \in Paths, Named(d, node), file[d] # {}
    PROVE  \E q \in Discovered : node[q] = d
<1> DEFINE S == {s \in Names : node[s] = d}
<1>1. S # {} /\ S \subseteq Nat
    BY PathKinds DEF Named
<1>2. PICK q \in S : \A s \in S : q <= s
  <2> HIDE DEF S
  <2> QED BY <1>1, FirstInSet
<1>3. q \in Names /\ node[q] = d /\ d # Nowhere
    BY <1>2, PathKinds
<1>4. HasData(q)
    BY <1>3 DEF HasData, Exists
<1>5. \A m \in Names : node[m] = node[q] => q <= m
    BY <1>2, <1>3
<1> QED BY <1>3, <1>4, <1>5 DEF Discovered

\* Discovery finds every file that holds a capture.
LEMMA AllDiscovered ==
    ASSUME TypeOK, Shape, AllKept, Listed, BornOnce, NEW c \in 1..made
    PROVE  \E q \in Discovered : Exists(q) /\ c \in file[node[q]]
<1>1. PICK p \in Paths : Exists(p) /\ c \in file[node[p]]
    BY DEF AllKept, Kept
<1> DEFINE d == node[p]
<1>2. d \in Paths /\ file[d] # {} /\ d # Nowhere /\ c \in file[d]
    BY <1>1, PathKinds DEF TypeOK, Exists
<1>3. CASE Named(d, node)
    BY <1>2, <1>3, NamedFound DEF Exists
<1>4. CASE ~Named(d, node)
  <2>1. p \in Dirs /\ d = p
      BY <1>1, <1>4, PathKinds DEF Named, Shape, Exists
  <2>2. p \in TempWarcs /\ node[p] = p
      BY <1>1, <1>2, <2>1 DEF TempWarcs, HasData
  <2>3. p \in listed \cup Latest
    <3>1. p \in listed \/ (born # <<>> /\ p = born[Len(born)])
        BY <1>2, <1>4, <2>1 DEF Listed
    <3>2. CASE p = born[Len(born)]
      <4>1. \A i \in DOMAIN born : p = born[i] => i = Len(born)
          BY <3>2 DEF BornOnce
      <4>2. \A j \in Len(born) + 1 .. Len(born) : FALSE
          BY DEF TypeOK
      <4>3. p \in TempDirs
          BY <1>1, <2>1 DEF TempDirs
      <4> QED BY <4>1, <4>2, <4>3 DEF Latest
    <3> QED BY <3>1, <3>2
  <2>4. p \notin Consolidated
    <3>1. manifest[p] # Nowhere => manifest[p] \in Names /\ node[manifest[p]] = p
        BY <2>1 DEF Shape, SoundIn
    <3> QED BY <1>4, <2>1, <3>1 DEF Consolidated, Named
  <2>5. \A n \in Names : node[n] # node[p]
      BY <1>4 DEF Named
  <2>6. p \in Discovered
      BY <2>1, <2>2, <2>3, <2>4, <2>5 DEF Discovered
  <2> QED BY <1>1, <2>6
<1> QED BY <1>3, <1>4

LEMMA InsertsStep ==
    ASSUME TypeOK, Shape, Calm, AllKept, Apart, Tracing, Inserts, Trusted', [Next]_vars
    PROVE  Inserts'
<1> SUFFICES ASSUME NEW p \in Procs, Is(p, "insert")', NEW c \in 1..made'
             PROVE  \E q \in proc'[p].aim : node'[q] # Nowhere => c \in file'[node'[q]]
    BY DEF Inserts, InsertIn, Is
<1>1. CASE Discover(p)
  <2>1. /\ node' = node /\ file' = file /\ made' = made
        /\ proc'[p].aim = Discovered
      BY <1>1 DEF Discover, disk, TypeOK
  <2> QED BY <2>1, AllDiscovered DEF Tracing
<1>2. CASE proc'[p] = proc[p]
  <2>1. proc[p].pc = "insert" /\ status # "running"
      BY <1>2 DEF Is, Calm, CalmIn, Settled
  <2>2. ~NewDir /\ ~Capture
      BY <2>1 DEF NewDir, Capture, Is, Calm, CalmIn, Procs
  <2>3. /\ file' = file /\ made' = made
        /\ \A d \in Dirs : node'[d] # Nowhere => node[d] # Nowhere
      BY <2>2, DataStep, FileStep DEF Trusted
  <2>4. PICK q \in proc[p].aim : node[q] # Nowhere => c \in file[node[q]]
      BY <2>1, <2>3 DEF Inserts, InsertIn
  <2>5. q \in Paths
      BY <2>4 DEF TypeOK
  <2>6. CASE q \in Names
    <3>1. node[q] # Nowhere
        BY <2>1, <2>4, <2>6 DEF Apart, ApartIn
    <3>2. node'[q] = node[q]
        BY <2>6, <3>1, PathsStep DEF NamesStay, Exists
    <3> QED BY <1>2, <2>3, <2>4, <3>2
  <2>7. CASE q \in Dirs
    <3>1. node'[q] # Nowhere => node[q] = q /\ node'[q] = q
        BY <2>3, <2>7, PathsStep DEF Shape
    <3> QED BY <1>2, <2>3, <2>4, <3>1
  <2> QED BY <2>5, <2>6, <2>7, PathKinds
<1> QED BY <1>1, <1>2, InsertStep

\* A job becomes indexed by inserting.
LEMMA StatusStep ==
    ASSUME [Next]_vars, status' = "indexed"
    PROVE  status = "indexed" \/ \E p \in Procs : Insert(p)
<1>1. ASSUME NEW p \in Operators, ConsolidateWarcs(p) \/ CleanupJob(p) \/ ResetCrawlState(p)
      PROVE  status' = status
    BY <1>1 DEF ConsolidateWarcs, CleanupJob, ResetCrawlState, db
<1>2. ASSUME NEW p \in Procs,
             \/ Reuse(p) \/ Link(p) \/ LinkFails(p) \/ Dump(p)
             \/ Rewrite(p) \/ Forget(p) \/ Delete(p) \/ DeleteFails(p) \/ Deleted(p)
      PROVE  status' = status
    BY <1>2 DEF Reuse, Link, LinkFails, Abandon, Dump, Rewrite, Forget, Delete, DeleteFails, Deleted, db
<1>3. ASSUME NEW p \in Procs, IndexJob(p) \/ Discover(p) \/ DiscoverFails(p) \/ Crash(p)
      PROVE  status' = status
    BY <1>3 DEF IndexJob, Discover, DiscoverFails, Crash, db
<1>4. \/ RetryJob \/ CrawlStarts \/ NewDir \/ Capture \/ CrawlEnds \/ FallbackPicks \/ FallbackWrites
      \/ UNCHANGED vars
      => status' = status
    BY DEF RetryJob, CrawlStarts, NewDir, Capture, CrawlEnds, FallbackPicks, FallbackWrites, db, vars
<1> QED BY <1>1, <1>2, <1>3, <1>4 DEF Next

LEMMA IndexedStep ==
    ASSUME TypeOK, Shape, Calm, Inserts, Indexed, Trusted', [Next]_vars
    PROVE  Indexed'
<1> SUFFICES ASSUME status' = "indexed", NEW c \in 1..made'
             PROVE  \E r \in rows' : r[1] = c
    BY DEF Indexed
<1>1. CASE \E p \in Procs : Insert(p)
  <2>1. PICK p \in Procs : Insert(p)
      BY <1>1
  <2>2. /\ proc[p].pc = "insert" /\ made' = made
        /\ {q \in proc[p].aim : ~Exists(q)} = {}
      BY <2>1 DEF Insert, Is
  <2>3. rows' = RowsOf(proc[p].aim)
      BY <2>1, <2>2 DEF Insert
  <2>4. PICK q \in proc[p].aim : Exists(q) /\ c \in file[node[q]]
      BY <2>2 DEF Inserts, InsertIn, Exists
  <2>5. c \in Captures
      BY <2>2, Constants DEF TypeOK, Captures
  <2>6. <<c, q>> \in rows'
      BY <2>3, <2>4, <2>5 DEF RowsOf
  <2> QED BY <2>6
<1>2. CASE status = "indexed" /\ \A p \in Procs : ~Insert(p)
  <2>1. ~Capture
      BY <1>2 DEF Capture, Is, Calm, CalmIn, Procs
  <2>2. made' = made
      BY <2>1, FileStep DEF Trusted
  <2>3. PICK r \in rows : r[1] = c
      BY <1>2, <2>2 DEF Indexed
  <2>4. ASSUME NEW p \in Procs, Rewrite(p)
        PROVE  \E s \in rows' : s[1] = c
    <3>1. rows' = rows \/ rows' = Mapped(rows)
        BY <2>4 DEF Rewrite
    <3> DEFINE s == <<r[1], IF r[2] \in Dirs /\ manifest[r[2]] # Nowhere
                            THEN manifest[r[2]] ELSE r[2]>>
    <3>2. s \in Mapped(rows) /\ s[1] = c
        BY <2>3 DEF Mapped
    <3> HIDE DEF s
    <3> QED BY <2>3, <3>1, <3>2
  <2> QED BY <1>2, <2>3, <2>4, RowsStep
<1> QED BY <1>1, <1>2, StatusStep

-----------------------------------------------------------------------------
(* What the index and the manifest say of the files.                       *)

\* What holds as long as the commands given and the faults met are of a kind.
Unattended == ran = {} /\ faults = 0

Kinds ==
    /\ "fallback" \notin ran => Filled
    /\ Tended => Led
    /\ Unattended => Alone
    /\ Trusted /\ Adopted <= 1 => Calm /\ Careful /\ AllKept /\ Duty /\ Tracing /\ Inserts /\ Indexed

LEMMA KindsInit == Init => Kinds
BY FilledInit, LedInit, AloneInit, CalmInit, CarefulInit, KeptInit, DutyInit, TracingInit, IndexedInit
   DEF Kinds

LEMMA KindsStep ==
    ASSUME TypeOK, Shape, Apart, Kinds, [Next]_vars
    PROVE  Kinds'
<1>1. ran \subseteq ran'
    BY RanGrows
<1>2. ASSUME "fallback" \notin ran' PROVE Filled'
    BY <1>1, <1>2, FilledStep DEF Kinds
<1>3. ASSUME Tended' PROVE Led'
    BY <1>1, <1>3, LedStep DEF Kinds, Tended
<1>4. ASSUME ran' = {}, faults' = 0 PROVE Alone'
    BY <1>1, <1>4, FaultsGrow, AloneStep DEF Kinds, Unattended
<1>5. ASSUME Trusted', Adopted <= 1
      PROVE  (Calm /\ Careful /\ AllKept /\ Duty /\ Tracing /\ Inserts /\ Indexed)'
  <2>1. "fallback" \notin ran' /\ "cleanup" \notin ran' /\ Trusted
      BY <1>1, <1>5 DEF Trusted
  <2>2. Calm /\ Careful /\ AllKept /\ Duty /\ Tracing /\ Inserts /\ Indexed
      BY <1>5, <2>1 DEF Kinds
  <2>3. Calm' /\ Careful' /\ AllKept'
      BY <2>1, <2>2, CalmStep, CarefulStep, KeptStep
  <2>4. Duty'
      BY <1>5, <2>2, DutyStep
  <2>5. Tracing' /\ Inserts' /\ Indexed'
      BY <1>5, <2>2, <2>4, TracingStep, InsertsStep, IndexedStep
  <2> QED BY <2>3, <2>4, <2>5
<1> QED BY <1>2, <1>3, <1>4, <1>5 DEF Kinds, Unattended

LEMMA KindsEnough == TypeOK /\ Shape /\ Apart /\ Kinds => RecordsMatchFiles
<1> SUFFICES ASSUME TypeOK, Shape, Apart, Kinds PROVE RecordsMatchFiles
    OBVIOUS
<1>1. ASSUME status = "indexed", {"cleanup", "fallback", "overlap"} \cap ran = {}, Adopted <= 1
      PROVE  \A c \in 1..made : Kept(c) => \E r \in rows : r[1] = c
    BY <1>1 DEF Kinds, Trusted, Indexed
<1>2. ASSUME ran \subseteq {"consolidate", "cleanup", "fallback"}
      PROVE  \A r \in rows : Exists(r[2]) /\ r[1] \in file[node[r[2]]]
    BY <1>2 DEF Kinds, Tended, Led
<1>3. \A r, s \in rows : r[1] = s[1] => r = s
    BY DEF Apart, OneRow
<1>4. ASSUME "fallback" \notin ran
      PROVE  VerifyWarcManifest
  <2>1. ASSUME NEW d \in Entries
        PROVE  HasData(manifest[d]) /\ \A e \in Entries \ {d} : manifest[e] # manifest[d]
    <3>1. d \in Dirs /\ manifest[d] \in Names /\ node[manifest[d]] = d /\ d # Nowhere
        BY <2>1, PathKinds DEF Entries, Shape, SoundIn
    <3>2. HasData(manifest[d])
        BY <1>4, <3>1 DEF Kinds, Filled, HasData, Exists
    <3>3. \A e \in Entries : manifest[e] = manifest[d] => e = d
        BY <3>1 DEF Entries, Shape, SoundIn
    <3> QED BY <3>2, <3>3
  <2> QED BY <2>1 DEF VerifyWarcManifest, Unverified
<1>5. ASSUME ran = {}, faults = 0, ~Is(Worker, "link")
      PROVE  Orphaned = {}
  <2>1. \A s \in Names : node[s] # Nowhere => \E d \in Dirs : manifest[d] = s
      BY <1>5 DEF Kinds, Unattended, Alone, AloneIn, Is
  <2>2. ASSUME NEW s \in Names, node[s] # Nowhere
        PROVE  \E d \in Entries : manifest[d] = s
      BY <2>1, <2>2, PathKinds DEF Entries
  <2> QED BY <2>2 DEF Orphaned, Exists
<1> QED BY <1>1, <1>2, <1>3, <1>4, <1>5 DEF RecordsMatchFiles

\* What the index says of the WARC files is so: an indexed job has a row for each
\* capture on the disk, rows lead to WARCs that hold their captures, a capture has
\* one row, and verify-warc-manifest finds nothing, each under the condition that
\* RecordsMatchFiles states (warc_discovery.discover_all_warcs_for_output_dir,
\* pipeline._dedupe_warc_paths_by_file_identity, cli.cmd_cleanup_job,
\* archive_storage.verify_warc_manifest).
THEOREM RowsMatchFiles == Spec => []RecordsMatchFiles
<1>1. Init => TypeOK /\ Shape /\ Apart /\ Kinds
    BY TypeInit, ShapeInit, ApartInit, KindsInit
<1>2. TypeOK /\ Shape /\ Apart /\ Kinds /\ [Next]_vars => (TypeOK /\ Shape /\ Apart /\ Kinds)'
    BY TypeStep, ShapeStep, ApartStep, KindsStep
<1>3. TypeOK /\ Shape /\ Apart /\ Kinds => RecordsMatchFiles
    BY KindsEnough
<1> QED BY <1>1, <1>2, <1>3, PTL DEF Spec

=============================================================================
