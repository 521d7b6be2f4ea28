--------------------------- MODULE CatalogueProofs ---------------------------
(***************************************************************************)
(* For every set of jobs, page groups and captures, and every bound: the   *)
(* type invariant of the database, also where rows are handed from one     *)
(* statement of a session to a later one; the page table and the numbers   *)
(* of inlinks, if no page rebuild runs beside an index run; that same-day  *)
(* deduplication never hides content, if it is only run by hand; and what  *)
(* follows for the endpoints of the public API, which read all of these.   *)
(***************************************************************************)
EXTENDS PublicReads, FunctionTheorems, FiniteSetTheorems, WellFoundedInduction, TLAPS

\* What the proofs use of the assumptions on the constants.
LEMMA Settings ==
    /\ Captures \subseteq Nat /\ IsFiniteSet(Captures) /\ IsFiniteSet(Groups)
    /\ \A c \in Captures : TimeOf[c] \in Nat /\ GroupOf[c] \in Groups /\ JobOf[c] \in Jobs
                           /\ LinksOf[c] \subseteq Groups
    /\ MaxId \in Nat /\ AutoDedupe \subseteq BOOLEAN
  BY CatalogueAssumption

\* A finite set has a greatest element under a total preorder: a smallest
\* subset without one would have one.
LEMMA GreatestExists ==
    ASSUME NEW R, IsFiniteSet(R), R # {}, NEW T,
           \A r, s \in R : <<r, s>> \in T \/ <<s, r>> \in T,
           \A r, s, t \in R : <<r, s>> \in T /\ <<s, t>> \in T => <<r, t>> \in T
    PROVE  \E r \in R : \A s \in R : <<r, s>> \in T
<1> DEFINE Subsets == FiniteSubsetsOf(R)
           Less == StrictSubsetOrdering(R)
           Bad == {S \in Subsets : S # {} /\ ~ \E r \in S : \A s \in S : <<r, s>> \in T}
<1>1. IsWellFoundedOn(Less, Subsets)
  BY FS_StrictSubsetOrderingWellFounded
<1>2. SUFFICES ASSUME R \in Bad PROVE FALSE
  BY DEF FiniteSubsetsOf
<1>3. PICK S \in Bad : \A U \in Bad : <<U, S>> \notin Less
  <2> HIDE DEF Bad, Less, Subsets
  <2>1. Bad \subseteq Subsets
    BY DEF Bad
  <2> QED BY <1>1, <1>2, <2>1, WFMin
<1>4. S \subseteq R /\ IsFiniteSet(S) /\ S # {} /\ ~ \E r \in S : \A s \in S : <<r, s>> \in T
  BY DEF FiniteSubsetsOf
<1>5. PICK x \in S : TRUE
  BY <1>4
<1> DEFINE U == S \ {x}
<1>6. IsFiniteSet(U) /\ U \subseteq R
  BY <1>4, FS_RemoveElement
<1>7. U \notin Bad
  <2>1. U \subseteq S /\ U # S
    BY <1>5
  <2>2. <<U, S>> \in Less
    BY <1>4, <2>1 DEF StrictSubsetOrdering
  <2> QED BY <1>3, <2>2
<1>8. <<x, x>> \in T
  BY <1>4, <1>5
<1>9. CASE U = {}
  <2>1. \A s \in S : s = x
    BY <1>9
  <2> QED BY <1>4, <1>5, <1>8, <2>1
<1>10. CASE U # {}
  <2>1. PICK m \in U : \A s \in U : <<m, s>> \in T
    BY <1>6, <1>7, <1>10 DEF FiniteSubsetsOf
  <2>2. m \in R /\ x \in R /\ m \in S
    BY <1>4, <1>5, <2>1
  <2>3. CASE <<m, x>> \in T
    <3>1. \A s \in S : <<m, s>> \in T
      BY <2>1, <2>3
    <3> QED BY <1>4, <2>2, <3>1
  <2>4. CASE <<x, m>> \in T
    <3>1. ASSUME NEW s \in S PROVE <<x, s>> \in T
      <4>1. CASE s = x
        BY <1>8, <4>1
      <4>2. CASE s # x
        <5>1. <<m, s>> \in T /\ s \in R
          BY <1>4, <2>1, <4>2
        <5> QED BY <2>2, <2>4, <5>1
      <4> QED BY <4>1, <4>2
    <3> QED BY <1>4, <1>5, <3>1
  <2> QED BY <2>2, <2>3, <2>4
<1> QED BY <1>9, <1>10

-----------------------------------------------------------------------------
(* Sets of rows.                                                           *)

\* Rows as a table holds them: ids up to n, none of them twice.
IsTable(R, n) ==
    /\ R \subseteq [id : 1..n, cap : Captures]
    /\ \A r, s \in R : r.id = s.id => r = s

LEMMA TableFinite == ASSUME NEW n \in Nat, NEW R, IsTable(R, n) PROVE IsFiniteSet(R)
<1> DEFINE f == [r \in R |-> r.id]
<1>1. f \in Injection(R, 1..n)
  BY DEF IsTable, Injection, IsInjective
<1>2. IsFiniteSet(1..n)
  BY FS_Interval
<1> QED BY <1>1, <1>2, FS_Injection

LEMMA PartIsTable == ASSUME NEW n, NEW R, IsTable(R, n), NEW S, S \subseteq R PROVE IsTable(S, n)
  BY Zenon DEF IsTable

\* The windows of the rollup order the rows.
LEMMA NewerOrders ==
    ASSUME NEW n \in Nat, NEW R, IsTable(R, n), NEW r \in R, NEW s \in R
    PROVE  /\ Newer(r, s) \/ Newer(s, r)
           /\ Newer(r, s) /\ Newer(s, r) => r = s
           /\ \A t \in R : Newer(r, s) /\ Newer(s, t) => Newer(r, t)
<1>1. ASSUME NEW t \in R PROVE t.id \in Nat /\ TimeOf[t.cap] \in Nat
  <2>1. t.id \in 1..n /\ t.cap \in Captures
    BY DEF IsTable
  <2>2. TimeOf[t.cap] \in Nat
    BY <2>1, Settings
  <2>3. t.id \in Nat
    BY <2>1
  <2> QED BY <2>2, <2>3
<1>2. Newer(r, s) /\ Newer(s, r) => r.id = s.id
  BY <1>1 DEF Newer
<1> QED BY <1>1, <1>2 DEF IsTable, Newer

\* The newest of some rows.
LEMMA NewestExists ==
    ASSUME NEW n \in Nat, NEW R, IsTable(R, n), R # {}
    PROVE  \E r \in R : \A s \in R : Newer(r, s)
<1> DEFINE T == {p \in R \X R : Newer(p[1], p[2])}
<1>1. \A r, s \in R : <<r, s>> \in T <=> Newer(r, s)
  OBVIOUS
<1> HIDE DEF T
<1>2. \A r, s \in R : <<r, s>> \in T \/ <<s, r>> \in T
  BY <1>1, NewerOrders
<1>3. \A r, s, t \in R : <<r, s>> \in T /\ <<s, t>> \in T => <<r, t>> \in T
  BY <1>1, NewerOrders
<1>4. \E r \in R : \A s \in R : <<r, s>> \in T
  BY <1>2, <1>3, TableFinite, GreatestExists
<1> QED BY <1>1, <1>4

\* The newest of some rows is one of them.
LEMMA LatestIs ==
    ASSUME NEW n \in Nat, NEW R, IsTable(R, n), R # {}
    PROVE  \E m \in R : LatestId(R) = m.id /\ \A s \in R : Newer(m, s)
  BY NewestExists DEF LatestId

LEMMA LatestIn ==
    ASSUME NEW n \in Nat, NEW R, IsTable(R, n), R # {}
    PROVE  LatestId(R) \in IdsOf(R)
  BY LatestIs DEF IdsOf

LEMMA LatestAmong ==
    ASSUME NEW n \in Nat, NEW R, IsTable(R, n), NEW S, S \subseteq R
    PROVE  LatestId(S) \in IdsOf(S) \cup {None}
<1>1. CASE S = {}
  BY <1>1 DEF LatestId
<1>2. CASE S # {}
  BY <1>2, PartIsTable, LatestIn
<1> QED BY <1>1, <1>2

\* The rows an index run inserts have new ids, one each.
LEMMA NewRowsAre ==
    ASSUME lastId \in Nat, NEW C, C \subseteq Captures
    PROVE  /\ Cardinality(NewRows(C)) = Cardinality(C) /\ Cardinality(C) \in Nat
           /\ \A r \in NewRows(C) : r.id \in (lastId + 1)..(lastId + Cardinality(C)) /\ r.cap \in C
           /\ \A r, s \in NewRows(C) : r.id = s.id => r = s
           /\ NewRows(C) \subseteq [id : Nat, cap : Captures]
<1> DEFINE upTo[c \in C] == {d \in C : d <= c}
           new[c \in C] == [id |-> lastId + Cardinality(upTo[c]), cap |-> c]
<1>1. C \subseteq Nat /\ IsFiniteSet(C) /\ Cardinality(C) \in Nat
  BY Settings, FS_Subset, FS_CardinalityType
<1>2. ASSUME NEW c \in C
      PROVE  /\ IsFiniteSet(upTo[c]) /\ Cardinality(upTo[c]) \in 1..Cardinality(C)
             /\ c \in upTo[c]
  <2>1. upTo[c] \subseteq C /\ c \in upTo[c]
    BY <1>1
  <2>2. /\ IsFiniteSet(upTo[c]) /\ Cardinality(upTo[c]) <= Cardinality(C)
        /\ Cardinality(upTo[c]) \in Nat
    BY <1>1, <2>1, FS_Subset, FS_CardinalityType
  <2>3. Cardinality(upTo[c]) # 0
    BY <2>1, <2>2, FS_EmptySet
  <2> QED BY <1>1, <2>1, <2>2, <2>3
<1>3. ASSUME NEW c \in C, NEW d \in C, Cardinality(upTo[c]) = Cardinality(upTo[d]), c <= d
      PROVE  c = d
  <2>1. upTo[c] \subseteq upTo[d]
    <3>1. \A e \in C : e <= c => e <= d
      BY <1>1, <1>3
    <3> QED BY <3>1
  <2>2. upTo[c] = upTo[d]
    BY <1>2, <1>3, <2>1, FS_Subset
  <2>3. d <= c
    BY <1>2, <2>2
  <2> QED BY <1>1, <1>3, <2>3
<1>4. NewRows(C) = {new[c] : c \in C}
  BY DEF NewRows
<1>5. \A c, d \in C : Cardinality(upTo[c]) = Cardinality(upTo[d]) => c = d
  <2>1. \A c, d \in C : c <= d \/ d <= c
    BY <1>1
  <2> QED BY <1>3, <2>1
<1>6. ASSUME NEW c \in C PROVE new[c].id = lastId + Cardinality(upTo[c]) /\ new[c].cap = c
  OBVIOUS
<1>7. \A c \in C : Cardinality(upTo[c]) \in 1..Cardinality(C)
  BY <1>2
<1> HIDE DEF upTo
<1>8. \A c, d \in C : new[c].id = new[d].id => c = d
  BY <1>1, <1>5, <1>6, <1>7
<1>9. Cardinality(NewRows(C)) = Cardinality(C)
  <2>1. new \in Bijection(C, NewRows(C))
    <3>1. new \in [C -> NewRows(C)]
      BY <1>4
    <3>2. IsInjective(new)
      BY <1>6 DEF IsInjective
    <3>3. new \in Surjection(C, NewRows(C))
      BY <1>4, <3>1 DEF Surjection
    <3> QED BY <3>1, <3>2, <3>3 DEF Bijection, Injection
  <2> QED BY <1>1, <2>1, FS_Bijection DEF ExistsBijection
<1>10. ASSUME NEW c \in C
       PROVE  /\ new[c].id \in (lastId + 1)..(lastId + Cardinality(C)) /\ new[c].cap \in C
              /\ new[c] \in [id : Nat, cap : Captures]
  BY <1>1, <1>6, <1>7
<1> HIDE DEF new
<1>11. /\ \A r \in NewRows(C) : r.id \in (lastId + 1)..(lastId + Cardinality(C)) /\ r.cap \in C
       /\ NewRows(C) \subseteq [id : Nat, cap : Captures]
  BY <1>4, <1>10
<1>12. \A r, s \in NewRows(C) : r.id = s.id => r = s
  BY <1>4, <1>8
<1> QED BY <1>1, <1>9, <1>11, <1>12

-----------------------------------------------------------------------------
(* Rows.                                                                   *)

RowsTyped ==
    /\ warcs \in [Jobs -> SUBSET Captures]
    /\ lastId \in 0..MaxId
    /\ indexed \subseteq Jobs
    /\ IsTable(rows, lastId)
    /\ index.open \in BOOLEAN
    /\ index.open => /\ index.job \in Jobs /\ index.reads \subseteq Captures
                     /\ lastId + Cardinality(index.reads) <= MaxId

\* An index transaction commits rows for some of the captures that it reads.
Swaps(C) ==
    /\ index.open /\ index' = NoIndex
    /\ C \subseteq index.reads
    /\ Replaced(RowsOf(rows, index.job), NewRows(C))

\* What becomes of the rows: those of the job go, and the new ones have new ids.
LEMMA SwapIds ==
    ASSUME RowsTyped, NEW C, Swaps(C)
    PROVE  LET old == RowsOf(rows, index.job)
               new == NewRows(C)
           IN  /\ old \subseteq rows /\ rows' = (rows \ old) \cup new
               /\ lastId \in Nat /\ lastId' \in lastId..MaxId
               /\ IsTable(rows, lastId) /\ IsTable(rows', lastId')
               /\ IdsOf(rows') = (IdsOf(rows) \ IdsOf(old)) \cup IdsOf(new)
               /\ \A i \in IdsOf(new) : i > lastId
               /\ \A i \in IdsOf(rows) : i \in 1..lastId
<1> DEFINE old == RowsOf(rows, index.job)
           new == NewRows(C)
<1>1. lastId \in Nat /\ MaxId \in Nat /\ C \subseteq Captures /\ IsTable(rows, lastId) /\ old \subseteq rows
  BY Settings DEF RowsTyped, Swaps, RowsOf
<1>2. /\ lastId' = lastId + Cardinality(C) /\ Cardinality(C) \in Nat
      /\ \A r \in new : r.id \in (lastId + 1)..lastId' /\ r.cap \in C
      /\ \A r, s \in new : r.id = s.id => r = s
      /\ new \subseteq [id : Nat, cap : Captures]
  BY <1>1, NewRowsAre DEF Swaps, Replaced
<1>3. lastId' <= MaxId
  <2>1. IsFiniteSet(index.reads) /\ C \subseteq index.reads
    BY Settings, FS_Subset DEF RowsTyped, Swaps
  <2>2. Cardinality(C) <= Cardinality(index.reads) /\ Cardinality(index.reads) \in Nat
    BY <2>1, FS_Subset, FS_CardinalityType
  <2>3. lastId + Cardinality(index.reads) <= MaxId
    BY DEF RowsTyped, Swaps
  <2> QED BY <1>1, <1>2, <2>2, <2>3
<1>4. rows' = (rows \ old) \cup new
  BY DEF Swaps, Replaced
<1>5. \A r \in rows : r.id \in 1..lastId /\ r.cap \in Captures /\ r = [id |-> r.id, cap |-> r.cap]
  BY <1>1 DEF IsTable
<1>6. \A r \in new : r.id \in 1..lastId' /\ r.cap \in Captures /\ r = [id |-> r.id, cap |-> r.cap]
  BY <1>1, <1>2
<1>7. \A r, s \in rows : r.id = s.id => r = s
  BY <1>1 DEF IsTable
<1>8. lastId' \in lastId..MaxId
  BY <1>1, <1>2, <1>3
<1> HIDE DEF old, new
<1>9. IsTable(rows', lastId')
  <2>1. ASSUME NEW r \in rows' PROVE r.id \in 1..lastId' /\ r \in [id : 1..lastId', cap : Captures]
    <3>1. r.id \in 1..lastId' /\ r.cap \in Captures /\ r = [id |-> r.id, cap |-> r.cap]
      BY <1>1, <1>2, <1>4, <1>5, <1>6
    <3> QED BY <3>1
  <2>2. ASSUME NEW r \in rows', NEW s \in rows', r.id = s.id PROVE r = s
    <3>1. \A t \in new : t.id > lastId
      BY <1>1, <1>2
    <3>2. \A t \in rows : ~(t.id > lastId)
      BY <1>1, <1>5
    <3>3. (r \in new /\ s \in new) \/ (r \in rows /\ s \in rows)
      BY <1>4, <2>2, <3>1, <3>2
    <3> QED BY <1>2, <1>7, <2>2, <3>3
  <2> QED BY <2>1, <2>2 DEF IsTable
<1>10. IdsOf(rows') = (IdsOf(rows) \ IdsOf(old)) \cup IdsOf(new)
  BY <1>1, <1>4, <1>7 DEF IdsOf
<1>11. /\ \A i \in IdsOf(new) : i > lastId
       /\ \A i \in IdsOf(rows) : i \in 1..lastId
  BY <1>1, <1>2, <1>5 DEF IdsOf
<1> QED BY <1>1, <1>4, <1>8, <1>9, <1>10, <1>11 DEF old, new

\* Only the end of an index transaction changes rows.
LEMMA IndexSwaps ==
    ASSUME RowsTyped, IndexCommits \/ IndexFails
    PROVE  \E C : Swaps(C)
<1>1. CASE IndexCommits
  <2>1. Swaps(index.reads)
    BY <1>1 DEF IndexCommits, Swaps
  <2> QED BY <2>1
<1>2. CASE IndexFails
  <2>1. PICK k \in index.reads : Replaced(RowsOf(rows, index.job), NewRows({c \in index.reads : c < k}))
    BY <1>2 DEF IndexFails
  <2>2. Swaps({c \in index.reads : c < k})
    BY <1>2, <2>1 DEF IndexFails, Swaps
  <2> QED BY <2>2
<1> QED BY <1>1, <1>2

RowVars == <<rows, lastId>>

LEMMA RowsActs ==
    ASSUME RowsTyped, [Next]_vars
    PROVE  \/ IndexCommits \/ IndexFails
           \/ UNCHANGED RowVars
  BY DEF Next, vars, store, derived, sessions, RowVars, IndexEnds, IndexAborts, WarcsChange, IndexBegins,
         IndexRefused, DedupeGroups, DedupeLists, DedupeApplies, Restore, RebuildSelects, RebuildWrites,
         BackfillOutlinks, RecomputeSignals, ChangesRead, ChangesWritten

LEMMA RowsStep == ASSUME RowsTyped, [Next]_vars PROVE RowsTyped'
<1>1. ASSUME IndexCommits \/ IndexFails PROVE RowsTyped'
  <2>1. PICK C : Swaps(C)
    BY <1>1, IndexSwaps
  <2>2. lastId' \in 0..MaxId /\ IsTable(rows', lastId')
    <3>1. lastId \in Nat /\ lastId' \in lastId..MaxId /\ IsTable(rows', lastId')
      BY <2>1, SwapIds
    <3> QED BY <3>1, Settings
  <2>3. index' = NoIndex /\ warcs' = warcs /\ indexed' \subseteq indexed \cup {index.job}
    BY <1>1 DEF IndexCommits, IndexFails
  <2>4. index.job \in Jobs
    BY <1>1 DEF IndexCommits, IndexFails, RowsTyped
  <2> QED BY <2>2, <2>3, <2>4 DEF RowsTyped, NoIndex
<1>2. ASSUME NEW j \in Jobs, WarcsChange(j) PROVE RowsTyped'
  <2>1. UNCHANGED <<rows, lastId, index>> /\ indexed' = indexed \ {j}
    BY <1>2 DEF WarcsChange, sessions
  <2>2. PICK C \in SUBSET Captures : warcs' = [warcs EXCEPT ![j] = C]
    BY <1>2 DEF WarcsChange
  <2>3. warcs' \in [Jobs -> SUBSET Captures]
    BY <2>2 DEF RowsTyped
  <2> QED BY <2>1, <2>3 DEF RowsTyped
<1>3. ASSUME NEW j \in Jobs, IndexBegins(j) PROVE RowsTyped'
  <2>1. /\ UNCHANGED <<warcs, rows, lastId, indexed>> /\ lastId + Cardinality(warcs[j]) <= MaxId
        /\ index' = [open |-> TRUE, job |-> j, reads |-> warcs[j]]
    BY <1>3 DEF IndexBegins, store
  <2>2. warcs[j] \subseteq Captures
    BY DEF RowsTyped
  <2> QED BY <2>1, <2>2 DEF RowsTyped
<1>4. ASSUME IndexAborts PROVE RowsTyped'
  BY <1>4 DEF IndexAborts, NoIndex, RowsTyped, store
<1>5. ASSUME NEW j \in Jobs, IndexRefused(j) PROVE RowsTyped'
  BY <1>5 DEF IndexRefused, RowsTyped, sessions
<1>6. CASE UNCHANGED <<warcs, lastId, indexed, rows, index>>
  BY <1>6 DEF RowsTyped
<1>7. \/ IndexCommits \/ IndexFails \/ IndexAborts
      \/ \E j \in Jobs : WarcsChange(j) \/ IndexBegins(j) \/ IndexRefused(j)
      \/ UNCHANGED <<warcs, lastId, indexed, rows, index>>
  BY DEF Next, vars, store, sessions, IndexEnds, DedupeGroups, DedupeLists, DedupeApplies, Restore,
         RebuildSelects, RebuildWrites, BackfillOutlinks, RecomputeSignals, ChangesRead, ChangesWritten
<1> QED BY <1>1, <1>2, <1>3, <1>4, <1>5, <1>6, <1>7

-----------------------------------------------------------------------------
(* Marks and audit rows.                                                   *)

DupsOf(list) == {c.dup : c \in list}

BoundTyped == bound \in [warcs : Nat, commands : Nat, dedupes : Nat]

\* Marks H and audit rows A of a table with the ids I.
Audited(H, A, I) ==
    /\ H \subseteq I
    /\ A \subseteq [dup : H, canon : I, at : Nat]
    /\ DupsOf(A) = H

AuditsTyped ==
    /\ Audited(hidden, audits, IdsOf(rows))
    /\ \A a \in audits : {a.dup, a.canon} \cap Locked = {}

LEMMA BoundStep == ASSUME BoundTyped, [Next]_vars PROVE BoundTyped'
<1>1. \/ bound' = bound
      \/ bound' = [bound EXCEPT !.warcs = @ + 1]
      \/ bound' = [bound EXCEPT !.commands = @ + 1]
      \/ bound' = [bound EXCEPT !.dedupes = @ + 1]
  BY DEF Next, vars, IndexEnds, IndexAborts, IndexCommits, IndexFails, WarcsChange, IndexBegins,
         IndexRefused, DedupeGroups, DedupeLists, DedupeApplies, Restore, RebuildSelects, RebuildWrites,
         BackfillOutlinks, RecomputeSignals, ChangesRead, ChangesWritten, Command
<1> QED BY <1>1 DEF BoundTyped

\* What a run marks and audits is well formed if it is there.
LEMMA MarksTyped ==
    ASSUME NEW H, NEW A, NEW I, NEW list, NEW at \in Nat, Audited(H, A, I),
           \A c \in list : c.dup \in I /\ c.canon \in I
    PROVE  Audited(H \cup DupsOf(list), A \cup AuditRows(list, at), I)
<1> DEFINE N == H \cup DupsOf(list)
           B == A \cup AuditRows(list, at)
<1> USE DEF Audited
<1>1. N \subseteq I
  BY DEF DupsOf
<1>2. ASSUME NEW b \in B PROVE b \in [dup : N, canon : I, at : Nat]
  <2>1. CASE b \in A
    <3>1. b \in [dup : H, canon : I, at : Nat]
      BY <2>1
    <3> QED BY <3>1
  <2>2. CASE b \in AuditRows(list, at)
    <3>1. PICK c \in list : b = [dup |-> c.dup, canon |-> c.canon, at |-> at]
      BY <2>2 DEF AuditRows
    <3>2. c.dup \in N
      BY DEF DupsOf
    <3> QED BY <3>1, <3>2
  <2> QED BY <2>1, <2>2
<1>3. \A b \in B : b.dup \in N
  BY <1>2
<1>4. ASSUME NEW i \in N PROVE \E b \in B : b.dup = i
  <2>1. CASE i \in H
    BY <2>1 DEF DupsOf
  <2>2. CASE i \in DupsOf(list)
    <3>1. PICK c \in list : c.dup = i
      BY <2>2 DEF DupsOf
    <3>2. [dup |-> c.dup, canon |-> c.canon, at |-> at] \in B
      BY DEF AuditRows
    <3>3. [dup |-> c.dup, canon |-> c.canon, at |-> at].dup = i
      BY <3>1
    <3> QED BY <3>2, <3>3
  <2> QED BY <2>1, <2>2
<1> QED BY <1>1, <1>2, <1>3, <1>4 DEF DupsOf

\* Deduplication after an index run marks rows of the archive as it is by then.
LEMMA DuplicatesThere ==
    ASSUME NEW R, NEW H, NEW scope, NEW found, found \in {{}, DupGroups(R, H, scope)}
    PROVE  \A c \in Duplicates(R, H, found) : c.dup \in IdsOf(R) /\ c.canon \in IdsOf(R)
<1>1. ASSUME NEW f \in found PROVE f.canon \in IdsOf(R)
  <2> DEFINE S == IF scope = None THEN Shown(R, H) ELSE RowsOf(Shown(R, H), scope)
  <2>1. PICK r \in S : f = [key |-> DupKey(r), canon |-> r.id]
    BY <1>1 DEF DupGroups
  <2>2. S \subseteq R
    BY DEF Shown, RowsOf
  <2> QED BY <2>1, <2>2 DEF IdsOf
<1>2. ASSUME NEW c \in Duplicates(R, H, found) PROVE c.dup \in IdsOf(R) /\ c.canon \in IdsOf(R)
  <2>1. PICK f \in found, r \in Shown(R, H) : c = [dup |-> r.id, canon |-> f.canon]
    BY <1>2 DEF Duplicates
  <2> QED BY <1>1, <2>1 DEF Shown, IdsOf
<1> QED BY <1>2

LEMMA AuditsStep ==
    ASSUME RowsTyped, BoundTyped, AuditsTyped, [Next]_vars
    PROVE  AuditsTyped'
<1>1. ASSUME IndexCommits \/ IndexFails
      PROVE  Audited(hidden, audits, IdsOf(rows')) /\ Locked' = {}
  <2>1. PICK C : Swaps(C)
    BY <1>1, IndexSwaps
  <2>2. Locked = IdsOf(RowsOf(rows, index.job)) /\ Locked' = {}
    BY <2>1 DEF Locked, Swaps, NoIndex
  <2>3. IdsOf(rows) \ Locked \subseteq IdsOf(rows')
    BY <2>1, <2>2, SwapIds
  <2>4. \A a \in audits : a.dup \notin Locked /\ a.canon \notin Locked
    BY DEF AuditsTyped
  <2>5. hidden \subseteq IdsOf(rows')
    BY <2>3, <2>4 DEF AuditsTyped, Audited, DupsOf
  <2>6. ASSUME NEW a \in audits PROVE a \in [dup : hidden, canon : IdsOf(rows'), at : Nat]
    <3>1. a \in [dup : hidden, canon : IdsOf(rows), at : Nat] /\ a.canon \notin Locked
      BY <2>4 DEF AuditsTyped, Audited
    <3> QED BY <2>3, <3>1
  <2> QED BY <2>2, <2>5, <2>6 DEF AuditsTyped, Audited
<1>2. CASE IndexCommits
  <2>1. PICK auto \in AutoDedupe :
          LET found == IF auto THEN DupGroups(rows', hidden, index.job) ELSE {}
              list == Duplicates(rows', hidden, found)
          IN  hidden' = hidden \cup {c.dup : c \in list} /\ audits' = audits \cup AuditRows(list, bound.dedupes)
    BY <1>2 DEF IndexCommits
  <2> DEFINE found == IF auto THEN DupGroups(rows', hidden, index.job) ELSE {}
             list == Duplicates(rows', hidden, found)
  <2>2. \A c \in list : c.dup \in IdsOf(rows') /\ c.canon \in IdsOf(rows')
    <3>1. found \in {{}, DupGroups(rows', hidden, index.job)}
      OBVIOUS
    <3> HIDE DEF found
    <3> QED BY <3>1, DuplicatesThere
  <2>3. bound.dedupes \in Nat
    BY DEF BoundTyped
  <2> HIDE DEF list
  <2>4. hidden' = hidden \cup DupsOf(list) /\ audits' = audits \cup AuditRows(list, bound.dedupes)
    BY <2>1 DEF list, DupsOf
  <2>5. Audited(hidden', audits', IdsOf(rows'))
    BY <1>1, <1>2, <2>2, <2>3, <2>4, MarksTyped
  <2> QED BY <1>1, <1>2, <2>5 DEF AuditsTyped
<1>3. CASE IndexFails
  <2>1. UNCHANGED <<hidden, audits>>
    BY <1>3 DEF IndexFails
  <2> QED BY <1>1, <1>3, <2>1 DEF AuditsTyped
<1>4. ASSUME NEW j \in Jobs, IndexBegins(j) PROVE AuditsTyped'
  <2>1. /\ UNCHANGED <<rows, hidden, audits>> /\ Locked' = IdsOf(RowsOf(rows, j))
        /\ \A a \in audits : {a.dup, a.canon} \cap IdsOf(RowsOf(rows, j)) = {}
    BY <1>4 DEF IndexBegins, store, derived, Locked
  <2> QED BY <2>1 DEF AuditsTyped
<1>5. CASE IndexAborts
  <2>1. UNCHANGED <<rows, hidden, audits>> /\ Locked' = {}
    BY <1>5 DEF IndexAborts, NoIndex, store, derived, Locked
  <2> QED BY <2>1 DEF AuditsTyped
<1>6. CASE DedupeApplies
  <2> DEFINE list == Applicable(dedupe.list, rows, hidden)
  <2>1. /\ UNCHANGED <<rows, index>> /\ bound.dedupes \in Nat
        /\ \A c \in list : c.dup \notin Locked /\ c.canon \notin Locked
        /\ \/ UNCHANGED <<hidden, audits>>
           \/ /\ {c.canon : c \in list} \subseteq IdsOf(rows)
              /\ hidden' = hidden \cup DupsOf(list)
              /\ audits' = audits \cup AuditRows(list, bound.dedupes)
    BY <1>6 DEF DedupeApplies, store, BoundTyped, DupsOf
  <2>2. \A c \in list : c.dup \in IdsOf(rows)
    BY DEF Applicable
  <2> HIDE DEF list
  <2>3. Locked' = Locked
    BY <2>1 DEF Locked
  <2>4. CASE UNCHANGED <<hidden, audits>>
    BY <2>1, <2>3, <2>4 DEF AuditsTyped
  <2>5. ASSUME {c.canon : c \in list} \subseteq IdsOf(rows),
               hidden' = hidden \cup DupsOf(list),
               audits' = audits \cup AuditRows(list, bound.dedupes)
        PROVE  AuditsTyped'
    <3>1. Audited(hidden', audits', IdsOf(rows))
      <4>1. \A c \in list : c.dup \in IdsOf(rows) /\ c.canon \in IdsOf(rows)
        BY <2>2, <2>5
      <4> QED BY <2>1, <2>5, <4>1, MarksTyped DEF AuditsTyped
    <3>2. \A a \in audits' : {a.dup, a.canon} \cap Locked = {}
      <4>1. \A a \in AuditRows(list, bound.dedupes) : a.dup \notin Locked /\ a.canon \notin Locked
        BY <2>1 DEF AuditRows
      <4> QED BY <2>5, <4>1 DEF AuditsTyped
    <3> QED BY <2>1, <2>3, <3>1, <3>2 DEF AuditsTyped
  <2> QED BY <2>1, <2>4, <2>5
<1>7. ASSUME NEW scope \in Jobs \cup {None}, Restore(scope) PROVE AuditsTyped'
  <2>1. PICK back : hidden' = hidden \ back /\ audits' = {a \in audits : a.dup \notin back}
    BY <1>7 DEF Restore
  <2>2. UNCHANGED <<rows, index>> /\ Locked' = Locked
    BY <1>7 DEF Restore, store, sessions, Locked
  <2>3. ASSUME NEW a \in audits' PROVE a \in [dup : hidden', canon : IdsOf(rows), at : Nat]
    <3>1. a \in [dup : hidden, canon : IdsOf(rows), at : Nat] /\ a.dup \notin back
      BY <2>1 DEF AuditsTyped, Audited
    <3> QED BY <2>1, <3>1
  <2>4. DupsOf(audits') = hidden' /\ hidden' \subseteq IdsOf(rows)
    BY <2>1 DEF AuditsTyped, Audited, DupsOf
  <2> QED BY <2>1, <2>2, <2>3, <2>4 DEF AuditsTyped, Audited
<1>8. ASSUME UNCHANGED <<rows, hidden, audits, index>> PROVE AuditsTyped'
  <2>1. Locked' = Locked
    BY <1>8 DEF Locked
  <2> QED BY <1>8, <2>1 DEF AuditsTyped
<1>9. \/ IndexCommits \/ IndexFails \/ IndexAborts \/ DedupeApplies
      \/ \E j \in Jobs : IndexBegins(j)
      \/ \E scope \in Jobs \cup {None} : Restore(scope)
      \/ UNCHANGED <<rows, hidden, audits, index>>
  BY DEF Next, vars, store, derived, sessions, IndexEnds, WarcsChange, IndexRefused, DedupeGroups, DedupeLists,
         RebuildSelects, RebuildWrites, BackfillOutlinks, RecomputeSignals, ChangesRead, ChangesWritten
<1> QED BY <1>2, <1>3, <1>4, <1>5, <1>6, <1>7, <1>8, <1>9

-----------------------------------------------------------------------------
(* Links and signals.                                                      *)

LinksTyped ==
    /\ linked \subseteq IdsOf(rows)
    /\ signals \in [Groups -> SignalRows]
    /\ owed \in [pages : SUBSET Groups, links : SUBSET Groups]

LEMMA GroupsOfRows ==
    ASSUME NEW n, NEW R, IsTable(R, n), NEW L
    PROVE  /\ GroupsIn(R) \subseteq Groups /\ Targets(R, L) \subseteq Groups
           /\ Edges(R, L) \subseteq Groups \X Groups
<1>1. ASSUME NEW r \in R PROVE GroupOf[r.cap] \in Groups /\ LinksOf[r.cap] \subseteq Groups
  <2>1. r.cap \in Captures
    BY DEF IsTable
  <2> QED BY <2>1, Settings
<1>2. GroupsIn(R) \subseteq Groups
  BY <1>1 DEF GroupsIn
<1>3. ASSUME NEW o \in Outlinks(R, L)
      PROVE  \E r \in R : r.id \in L /\ o = <<r, o[2]>> /\ o[2] \in LinksOf[r.cap]
  BY <1>3 DEF Outlinks
<1>4. \A o \in Outlinks(R, L) : o[2] \in Groups /\ GroupOf[o[1].cap] \in Groups
  BY <1>1, <1>3
<1>5. Targets(R, L) \subseteq Groups
  BY <1>4 DEF Targets
<1>6. Edges(R, L) \subseteq Groups \X Groups
  BY <1>4 DEF Edges
<1> QED BY <1>2, <1>5, <1>6

LEMMA SignalTyped ==
    ASSUME NEW E, E \subseteq Groups \X Groups, NEW g \in Groups
    PROVE  Signal(E, g) \in SignalRows
<1> DEFINE n == Cardinality(Groups)
           toG == {e \in E : e[2] = g}
           fromG == {e \in E : e[1] = g}
           f == [e \in toG |-> e[1]]
           h == [e \in fromG |-> e[2]]
<1>1. IsFiniteSet(Groups) /\ n \in Nat
  BY Settings, FS_CardinalityType
<1>2. \A e \in E : e = <<e[1], e[2]>> /\ e[1] \in Groups /\ e[2] \in Groups
  OBVIOUS
<1>3. f \in Injection(toG, Groups)
  BY <1>2 DEF Injection, IsInjective
<1>4. h \in Injection(fromG, Groups)
  BY <1>2 DEF Injection, IsInjective
<1>5. Cardinality(toG) \in 0..n
  <2>1. IsFiniteSet(toG) /\ Cardinality(toG) <= n
    BY <1>1, <1>3, FS_Injection
  <2> QED BY <1>1, <2>1, FS_CardinalityType
<1>6. Cardinality(fromG) \in 0..n
  <2>1. IsFiniteSet(fromG) /\ Cardinality(fromG) <= n
    BY <1>1, <1>4, FS_Injection
  <2> QED BY <1>1, <2>1, FS_CardinalityType
<1> QED BY <1>5, <1>6 DEF Signal, SignalRows

LEMMA SignalsTyped ==
    ASSUME NEW n, NEW R, IsTable(R, n), NEW L, NEW S \in [Groups -> SignalRows], NEW G
    PROVE  Recomputed(S, Edges(R, L), G) \in [Groups -> SignalRows]
<1>1. \A g \in Groups : Signal(Edges(R, L), g) \in SignalRows
  BY GroupsOfRows, SignalTyped
<1> QED BY <1>1 DEF Recomputed

LEMMA SignalGroupsAre ==
    ASSUME NEW n, NEW R, IsTable(R, n), NEW old, old \subseteq R,
           NEW m, NEW S, IsTable(S, m), NEW new, new \subseteq S
    PROVE  SignalGroups(old, new) \subseteq Groups /\ GroupsIn(old \cup new) \subseteq Groups
<1>1. IsTable(old, n) /\ IsTable(new, m) /\ IsTable(OkRows(new), m)
  BY PartIsTable DEF OkRows
<1>2. /\ Targets(old, linked) \subseteq Groups /\ GroupsIn(OkRows(new)) \subseteq Groups
      /\ Targets(new, IdsOf(new)) \subseteq Groups
  BY <1>1, GroupsOfRows
<1>3. GroupsIn(old) \subseteq Groups /\ GroupsIn(new) \subseteq Groups
  BY <1>1, GroupsOfRows
<1>4. GroupsIn(old \cup new) \subseteq Groups
  BY <1>3 DEF GroupsIn
<1> QED BY <1>2, <1>4 DEF SignalGroups

\* Groups that the end of an index run touches.
LEMMA SwapGroups ==
    ASSUME RowsTyped, NEW C, Swaps(C)
    PROVE  LET old == RowsOf(rows, index.job)
               new == NewRows(C)
           IN  SignalGroups(old, new) \subseteq Groups /\ GroupsIn(old \cup new) \subseteq Groups
<1> DEFINE old == RowsOf(rows, index.job)
           new == NewRows(C)
<1>1. /\ old \subseteq rows /\ new \subseteq rows'
      /\ IsTable(rows, lastId) /\ IsTable(rows', lastId')
  BY SwapIds
<1> HIDE DEF old, new
<1>2. SignalGroups(old, new) \subseteq Groups /\ GroupsIn(old \cup new) \subseteq Groups
  BY <1>1, SignalGroupsAre
<1> QED BY <1>2 DEF old, new

LEMMA LinksStep == ASSUME RowsTyped, LinksTyped, [Next]_vars PROVE LinksTyped'
<1>1. ASSUME NEW C, Swaps(C) PROVE linked' \subseteq IdsOf(rows') /\ IsTable(rows', lastId')
  <2> DEFINE gone == IdsOf(RowsOf(rows, index.job))
             come == IdsOf(NewRows(C))
  <2>1. linked' = (linked \ gone) \cup come
    BY <1>1 DEF Swaps, Replaced
  <2>2. IdsOf(rows') = (IdsOf(rows) \ gone) \cup come /\ IsTable(rows', lastId')
    BY <1>1, SwapIds
  <2> HIDE DEF gone, come
  <2> QED BY <2>1, <2>2 DEF LinksTyped
<1>2. CASE IndexCommits
  <2> DEFINE old == RowsOf(rows, index.job)
             new == NewRows(index.reads)
  <2>1. Swaps(index.reads)
    BY <1>2 DEF IndexCommits, Swaps
  <2>2. SignalGroups(old, new) \subseteq Groups /\ GroupsIn(old \cup new) \subseteq Groups
    BY <2>1, SwapGroups
  <2>3. /\ signals' = Recomputed(signals, Edges(rows', linked'), SignalGroups(old, new))
        /\ owed' = [pages |-> owed.pages \ GroupsIn(old \cup new),
                    links |-> owed.links \ SignalGroups(old, new)]
    BY <1>2 DEF IndexCommits
  <2> HIDE DEF old, new
  <2>4. signals' \in [Groups -> SignalRows]
    BY <1>1, <2>1, <2>3, SignalsTyped DEF LinksTyped
  <2>5. owed' \in [pages : SUBSET Groups, links : SUBSET Groups]
    BY <2>2, <2>3 DEF LinksTyped
  <2> QED BY <1>1, <2>1, <2>4, <2>5 DEF LinksTyped
<1>3. CASE IndexFails
  <2>1. PICK k \in index.reads :
          LET old == RowsOf(rows, index.job)
              new == NewRows({c \in index.reads : c < k})
          IN  /\ Replaced(old, new)
              /\ owed' = [pages |-> owed.pages \cup GroupsIn(old \cup new),
                          links |-> owed.links \cup SignalGroups(old, new)]
    BY <1>3 DEF IndexFails
  <2> DEFINE C == {c \in index.reads : c < k}
             old == RowsOf(rows, index.job)
             new == NewRows(C)
  <2>2. Swaps(C)
    BY <1>3, <2>1 DEF IndexFails, Swaps
  <2>3. SignalGroups(old, new) \subseteq Groups /\ GroupsIn(old \cup new) \subseteq Groups
    BY <2>2, SwapGroups
  <2>4. owed' \in [pages : SUBSET Groups, links : SUBSET Groups]
    <3>1. owed' = [pages |-> owed.pages \cup GroupsIn(old \cup new),
                   links |-> owed.links \cup SignalGroups(old, new)]
      BY <2>1
    <3> HIDE DEF old, new
    <3> QED BY <2>3, <3>1 DEF LinksTyped
  <2>5. signals' = signals
    BY <1>3 DEF IndexFails
  <2> QED BY <1>1, <2>2, <2>4, <2>5 DEF LinksTyped
<1>4. CASE RebuildWrites
  <2>1. UNCHANGED <<rows, linked, signals>>
    BY <1>4 DEF RebuildWrites, store
  <2>2. \/ owed' = owed
        \/ \E X : owed' = [owed EXCEPT !.pages = (@ \ X) \cup (rebuild.drop \cap GroupsIn(rows))]
    BY <1>4 DEF RebuildWrites
  <2>3. GroupsIn(rows) \subseteq Groups
    BY GroupsOfRows DEF RowsTyped
  <2>4. owed' \in [pages : SUBSET Groups, links : SUBSET Groups]
    BY <2>2, <2>3 DEF LinksTyped
  <2> QED BY <2>1, <2>4 DEF LinksTyped
<1>5. ASSUME NEW j \in Jobs, NEW update \in BOOLEAN, BackfillOutlinks(j, update) PROVE LinksTyped'
  <2> DEFINE old == RowsOf(rows, j)
             read == {r \in old : r.cap \in warcs[j]}
             groups == Targets(old, linked) \cup GroupsIn(OkRows(read)) \cup Targets(read, IdsOf(read))
  <2>1. /\ rows' = rows /\ linked' = (linked \ IdsOf(old)) \cup IdsOf(read)
        /\ \/ signals' = signals
           \/ signals' = Recomputed(signals, Edges(rows, linked'), groups)
        /\ \/ owed' = [owed EXCEPT !.links = @ \ groups]
           \/ owed' = [owed EXCEPT !.links = @ \cup groups]
    BY <1>5 DEF BackfillOutlinks, store
  <2>2. old \subseteq rows /\ read \subseteq rows
    BY DEF RowsOf
  <2>3. groups = SignalGroups(old, read)
    BY DEF SignalGroups
  <2> HIDE DEF old, read, groups
  <2>4. IsTable(rows, lastId)
    BY DEF RowsTyped
  <2>5. groups \subseteq Groups
    BY <2>2, <2>3, <2>4, SignalGroupsAre
  <2>6. linked' \subseteq IdsOf(rows)
    BY <2>1, <2>2 DEF LinksTyped, IdsOf
  <2>7. signals' \in [Groups -> SignalRows]
    BY <2>1, <2>4, SignalsTyped DEF LinksTyped
  <2>8. owed' \in [pages : SUBSET Groups, links : SUBSET Groups]
    BY <2>1, <2>5 DEF LinksTyped
  <2> QED BY <2>1, <2>6, <2>7, <2>8 DEF LinksTyped
<1>6. CASE RecomputeSignals
  <2>1. /\ UNCHANGED <<rows, linked>> /\ signals' = Recomputed(signals, Edges(rows, linked), Groups)
        /\ owed' = [owed EXCEPT !.links = {}]
    BY <1>6 DEF RecomputeSignals, store
  <2>2. signals' \in [Groups -> SignalRows]
    BY <2>1, SignalsTyped DEF LinksTyped, RowsTyped
  <2>3. owed' \in [pages : SUBSET Groups, links : SUBSET Groups]
    BY <2>1 DEF LinksTyped
  <2> QED BY <2>1, <2>2, <2>3 DEF LinksTyped
<1>7. CASE UNCHANGED <<rows, linked, signals, owed>>
  BY <1>7 DEF LinksTyped
<1>8. \/ IndexCommits \/ IndexFails \/ RebuildWrites \/ RecomputeSignals
      \/ \E j \in Jobs, update \in BOOLEAN : BackfillOutlinks(j, update)
      \/ UNCHANGED <<rows, linked, signals, owed>>
  BY DEF Next, vars, store, derived, sessions, IndexEnds, IndexAborts, WarcsChange, IndexBegins, IndexRefused,
         DedupeGroups, DedupeLists, DedupeApplies, Restore, RebuildSelects, ChangesRead, ChangesWritten
<1> QED BY <1>2, <1>3, <1>4, <1>5, <1>6, <1>7, <1>8

-----------------------------------------------------------------------------
(* Change events.                                                          *)

Kinds == {"new_page", "unchanged", "updated", "error"}

EventTable(E, I) ==
    /\ E \subseteq [to : I, from : I \cup {None}, kind : Kinds]
    /\ \A d, e \in E : d.to = e.to => d = e

EventsTyped ==
    /\ EventTable(events, IdsOf(rows))
    /\ IsTable(changes.list, lastId)
    /\ changes.open /\ changes.mode # "since" => {e.to : e \in events} \subseteq changes.done

LEMMA PairIs ==
    ASSUME NEW r, NEW from
    PROVE  /\ Pair(r, from).to = r.id /\ Pair(r, from).kind \in Kinds
           /\ Pair(r, from) = [to |-> r.id, from |-> Pair(r, from).from, kind |-> Pair(r, from).kind]
  BY DEF Pair, Event, Kinds

\* The events of a run: one for each of some rows of its list that have none.
LEMMA NewEvents ==
    ASSUME EventsTyped, changes.open,
           NEW new, new = IF changes.mode = "since" THEN EventsSince(changes.list)
                          ELSE EventsBackfill(changes.list, changes.done)
    PROVE  /\ \A e \in new : e = [to |-> e.to, from |-> e.from, kind |-> e.kind] /\ e.kind \in Kinds
           /\ \A e \in new, d \in events : d.to # e.to
           /\ \A d, e \in new : d.to = e.to => d = e
<1>1. \A r, s \in changes.list : r.id = s.id => r = s
  BY DEF EventsTyped, IsTable
<1>2. CASE changes.mode = "since"
  <2> DEFINE from(r) == {s \in InGroup(rows, GroupOf[r.cap]) : TimeOf[s.cap] < TimeOf[r.cap]}
             M == FirstFew({r \in changes.list : \A e \in events : e.to # r.id})
  <2>1. new = {Pair(r, from(r)) : r \in M}
    BY <1>2 DEF EventsSince
  <2>2. M \subseteq changes.list /\ \A r \in M, e \in events : e.to # r.id
    BY DEF FirstFew
  <2> HIDE DEF M, from
  <2> QED BY <1>1, <2>1, <2>2, PairIs
<1>3. CASE changes.mode # "since"
  <2> DEFINE from(r) == {s \in InGroup(changes.list, GroupOf[r.cap]) : Earlier(s, r)}
  <2>1. PICK M : M \subseteq {r \in changes.list : r.id \notin changes.done}
                 /\ new = {Pair(r, from(r)) : r \in M}
    BY <1>3 DEF EventsBackfill
  <2>2. M \subseteq changes.list /\ \A r \in M, e \in events : e.to # r.id
    BY <1>3, <2>1 DEF EventsTyped
  <2> HIDE DEF from
  <2> QED BY <1>1, <2>1, <2>2, PairIs
<1> QED BY <1>2, <1>3

LEMMA TableGrows ==
    ASSUME NEW n \in Nat, NEW m \in Nat, n <= m, NEW R, IsTable(R, n)
    PROVE  IsTable(R, m)
<1>1. 1..n \subseteq 1..m
  OBVIOUS
<1>2. [id : 1..n, cap : Captures] \subseteq [id : 1..m, cap : Captures]
  BY <1>1
<1> QED BY <1>2, Zenon DEF IsTable

LEMMA EventsStep == ASSUME RowsTyped, EventsTyped, [Next]_vars PROVE EventsTyped'
<1>1. ASSUME IndexCommits \/ IndexFails PROVE EventsTyped'
  <2>1. PICK C : Swaps(C)
    BY <1>1, IndexSwaps
  <2> DEFINE gone == IdsOf(RowsOf(rows, index.job))
             come == IdsOf(NewRows(C))
             kept(e) == [e EXCEPT !.from = IF @ \in gone THEN None ELSE @]
  <2>2. events' = {kept(e) : e \in {e \in events : e.to \notin gone}}
    BY <2>1 DEF Swaps, Replaced
  <2>3. IdsOf(rows') = (IdsOf(rows) \ gone) \cup come /\ lastId \in Nat /\ lastId' \in Nat /\ lastId <= lastId'
    BY <2>1, SwapIds, Settings
  <2>4. changes' = changes
    BY <1>1 DEF IndexCommits, IndexFails
  <2> HIDE DEF gone, come
  <2>5. ASSUME NEW e \in events, e.to \notin gone
        PROVE  /\ kept(e) \in [to : IdsOf(rows'), from : IdsOf(rows') \cup {None}, kind : Kinds]
               /\ kept(e).to = e.to
    <3>1. e \in [to : IdsOf(rows), from : IdsOf(rows) \cup {None}, kind : Kinds]
      BY DEF EventsTyped, EventTable
    <3>2. e.to \in IdsOf(rows') /\ (e.from \notin gone => e.from \in IdsOf(rows') \cup {None})
      BY <2>3, <2>5, <3>1
    <3> QED BY <3>1, <3>2
  <2> HIDE DEF kept
  <2>6. \A d, e \in events : d.to = e.to => d = e
    BY DEF EventsTyped, EventTable
  <2>7. EventTable(events', IdsOf(rows'))
    BY <2>2, <2>5, <2>6 DEF EventTable
  <2>8. IsTable(changes.list, lastId')
    BY <2>3, TableGrows DEF EventsTyped
  <2>9. {e.to : e \in events'} \subseteq {e.to : e \in events}
    BY <2>2, <2>5
  <2> QED BY <2>4, <2>7, <2>8, <2>9 DEF EventsTyped
<1>2. ASSUME NEW mode \in {"since", "backfill"}, ChangesRead(mode) PROVE EventsTyped'
  <2>1. /\ UNCHANGED <<rows, lastId, events>>
        /\ changes' = [open |-> TRUE, mode |-> mode, list |-> IF mode = "since" THEN Recent ELSE rows,
                       done |-> IF mode = "since" THEN {} ELSE {e.to : e \in events}]
    BY <1>2 DEF ChangesRead, store, derived
  <2>2. changes'.list \subseteq rows /\ (changes'.mode # "since" => changes'.done = {e.to : e \in events})
    BY <2>1 DEF Recent
  <2>3. IsTable(changes'.list, lastId)
    BY <2>2, PartIsTable DEF RowsTyped
  <2> QED BY <2>1, <2>2, <2>3 DEF EventsTyped
<1>3. CASE ChangesWritten
  <2> DEFINE new == IF changes.mode = "since" THEN EventsSince(changes.list)
                    ELSE EventsBackfill(changes.list, changes.done)
             used == {e.to : e \in new} \cup ({e.from : e \in new} \ {None})
  <2>1. /\ UNCHANGED <<rows, lastId>> /\ changes.open /\ changes' = NoChanges
        /\ events' = IF used \subseteq IdsOf(rows) THEN events \cup new ELSE events
    BY <1>3 DEF ChangesWritten, store
  <2>2. /\ \A e \in new : e = [to |-> e.to, from |-> e.from, kind |-> e.kind] /\ e.kind \in Kinds
        /\ \A e \in new, d \in events : d.to # e.to
        /\ \A d, e \in new : d.to = e.to => d = e
    BY <2>1, NewEvents
  <2>3. \A e \in new : e.to \in used /\ e.from \in used \cup {None}
    OBVIOUS
  <2> HIDE DEF new, used
  <2>4. EventTable(events, IdsOf(rows))
    BY DEF EventsTyped
  <2>5. ASSUME used \subseteq IdsOf(rows), NEW e \in new
        PROVE  e \in [to : IdsOf(rows), from : IdsOf(rows) \cup {None}, kind : Kinds]
    <3>1. e = [to |-> e.to, from |-> e.from, kind |-> e.kind] /\ e.kind \in Kinds
      BY <2>2
    <3>2. e.to \in IdsOf(rows) /\ e.from \in IdsOf(rows) \cup {None}
      BY <2>3, <2>5
    <3> QED BY <3>1, <3>2
  <2>6. ASSUME used \subseteq IdsOf(rows) PROVE EventTable(events \cup new, IdsOf(rows))
    BY <2>2, <2>4, <2>5, <2>6 DEF EventTable
  <2>7. EventTable(events', IdsOf(rows))
    BY <2>1, <2>4, <2>6
  <2>8. IsTable({}, lastId)
    BY DEF IsTable
  <2> QED BY <2>1, <2>7, <2>8 DEF EventsTyped, NoChanges
<1>4. CASE UNCHANGED <<rows, lastId, events, changes>>
  BY <1>4 DEF EventsTyped
<1>5. \/ IndexCommits \/ IndexFails \/ ChangesWritten
      \/ \E mode \in {"since", "backfill"} : ChangesRead(mode)
      \/ UNCHANGED <<rows, lastId, events, changes>>
  BY DEF Next, vars, store, derived, sessions, IndexEnds, IndexAborts, WarcsChange, IndexBegins, IndexRefused,
         DedupeGroups, DedupeLists, DedupeApplies, Restore, RebuildSelects, RebuildWrites, BackfillOutlinks,
         RecomputeSignals
<1> QED BY <1>1, <1>2, <1>3, <1>4, <1>5

-----------------------------------------------------------------------------
(* Pages.                                                                  *)

\* A row of the page table whose pointers are among the ids I.
PageOn(p, I) ==
    \/ p = NoPage
    \/ \E c, f, l, a, b :
         /\ a \in I \cup {None} /\ b \in I \cup {None}
         /\ p = [count |-> c, first |-> f, last |-> l, latest |-> a, ok |-> b]

PagesTyped ==
    /\ \A g \in Groups : PageOn(pages[g], IdsOf(rows))
    /\ \A g \in DOMAIN rebuild.new : PageOn(rebuild.new[g], Nat)

LEMMA PageIs ==
    ASSUME NEW n \in Nat, NEW R, IsTable(R, n), NEW g
    PROVE  PageOn(PageOf(R, g), IdsOf(R)) /\ PageOn(PageOf(R, g), Nat)
<1> DEFINE S == InGroup(R, g)
<1>1. S \subseteq R /\ OkRows(S) \subseteq S
  BY DEF InGroup, OkRows
<1>2. LatestId(S) \in IdsOf(R) \cup {None} /\ LatestId(OkRows(S)) \in IdsOf(R) \cup {None}
  <2>1. LatestId(S) \in IdsOf(S) \cup {None} /\ LatestId(OkRows(S)) \in IdsOf(OkRows(S)) \cup {None}
    BY <1>1, LatestAmong
  <2> QED BY <1>1, <2>1 DEF IdsOf
<1>3. IdsOf(R) \cup {None} \subseteq Nat
  BY DEF IdsOf, IsTable, None
<1>4. CASE S = {}
  BY <1>4 DEF PageOf, PageOn
<1>5. CASE S # {}
  <2>1. PICK c, f, l : PageOf(R, g) = [count |-> c, first |-> f, last |-> l,
                                       latest |-> LatestId(S), ok |-> LatestId(OkRows(S))]
    BY <1>5 DEF PageOf
  <2> HIDE DEF S
  <2> QED BY <1>2, <1>3, <2>1 DEF PageOn
<1> QED BY <1>4, <1>5

LEMMA PageCleared ==
    ASSUME NEW P, NEW gone, NEW I, NEW g \in Groups, PageOn(P[g], I)
    PROVE  PageOn(Cleared(P, gone)[g], I \ gone)
<1>1. CASE P[g] = NoPage
  BY <1>1 DEF Cleared, PageOn
<1>2. CASE P[g] # NoPage
  <2>1. PICK c, f, l, a, b :
          /\ a \in I \cup {None} /\ b \in I \cup {None}
          /\ P[g] = [count |-> c, first |-> f, last |-> l, latest |-> a, ok |-> b]
    BY <1>2 DEF PageOn
  <2> DEFINE x == IF a \in gone THEN None ELSE a
             y == IF b \in gone THEN None ELSE b
  <2>2. Cleared(P, gone)[g] = [count |-> c, first |-> f, last |-> l, latest |-> x, ok |-> y]
    <3>1. Cleared(P, gone)[g] = [P[g] EXCEPT !.latest = IF P[g].latest \in gone THEN None ELSE P[g].latest,
                                             !.ok = IF P[g].ok \in gone THEN None ELSE P[g].ok]
      BY <1>2 DEF Cleared
    <3>2. P[g].latest = a /\ P[g].ok = b
      BY <2>1
    <3> HIDE DEF x, y
    <3>3. Cleared(P, gone)[g] = [P[g] EXCEPT !.latest = x, !.ok = y]
      BY <3>1, <3>2 DEF x, y
    <3> DEFINE p == [count |-> c, first |-> f, last |-> l, latest |-> a, ok |-> b]
    <3>4. [p EXCEPT !.latest = x, !.ok = y] = [count |-> c, first |-> f, last |-> l, latest |-> x, ok |-> y]
      <4>1. [p EXCEPT !.latest = x] = [count |-> c, first |-> f, last |-> l, latest |-> x, ok |-> b]
        OBVIOUS
      <4>2. [[count |-> c, first |-> f, last |-> l, latest |-> x, ok |-> b] EXCEPT !.ok = y]
              = [count |-> c, first |-> f, last |-> l, latest |-> x, ok |-> y]
        OBVIOUS
      <4> HIDE DEF p
      <4> QED BY <4>1, <4>2, Zenon
    <3>5. P[g] = p
      BY <2>1
    <3> HIDE DEF p
    <3> QED BY <3>3, <3>4, <3>5, Zenon
  <2>3. x \in (I \ gone) \cup {None} /\ y \in (I \ gone) \cup {None}
    BY <2>1
  <2> HIDE DEF x, y
  <2> QED BY <2>2, <2>3 DEF PageOn
<1> QED BY <1>1, <1>2

LEMMA PageWider ==
    ASSUME NEW p, NEW I, NEW J, I \subseteq J, PageOn(p, I)
    PROVE  PageOn(p, J)
  BY DEF PageOn

LEMMA PagesStep == ASSUME RowsTyped, PagesTyped, [Next]_vars PROVE PagesTyped'
<1>1. ASSUME NEW C, Swaps(C), NEW g \in Groups
      PROVE  PageOn(Cleared(pages, IdsOf(RowsOf(rows, index.job)))[g], IdsOf(rows'))
  <2> DEFINE gone == IdsOf(RowsOf(rows, index.job))
  <2>1. IdsOf(rows) \ gone \subseteq IdsOf(rows')
    BY <1>1, SwapIds
  <2> HIDE DEF gone
  <2>2. PageOn(Cleared(pages, gone)[g], IdsOf(rows) \ gone)
    BY PageCleared DEF PagesTyped
  <2>3. PageOn(Cleared(pages, gone)[g], IdsOf(rows'))
    BY <2>1, <2>2, PageWider
  <2> QED BY <2>3 DEF gone
<1>2. CASE IndexCommits
  <2>1. /\ Swaps(index.reads) /\ rebuild' = rebuild
        /\ \E G : pages' = Rebuilt(Cleared(pages, IdsOf(RowsOf(rows, index.job))), rows', G)
    BY <1>2 DEF IndexCommits, Swaps
  <2>2. IsTable(rows', lastId') /\ lastId' \in Nat
    BY <2>1, SwapIds, Settings
  <2>3. \A g \in Groups : PageOn(PageOf(rows', g), IdsOf(rows'))
    BY <2>2, PageIs
  <2>4. ASSUME NEW g \in Groups PROVE PageOn(pages'[g], IdsOf(rows'))
    <3>1. pages'[g] \in {PageOf(rows', g), Cleared(pages, IdsOf(RowsOf(rows, index.job)))[g]}
      BY <2>1 DEF Rebuilt
    <3> QED BY <1>1, <2>1, <2>3, <3>1
  <2> QED BY <2>1, <2>4 DEF PagesTyped
<1>3. CASE IndexFails
  <2>1. PICK k \in index.reads : Replaced(RowsOf(rows, index.job), NewRows({c \in index.reads : c < k}))
    BY <1>3 DEF IndexFails
  <2>2. /\ Swaps({c \in index.reads : c < k}) /\ rebuild' = rebuild
        /\ pages' = Cleared(pages, IdsOf(RowsOf(rows, index.job)))
    BY <1>3, <2>1 DEF IndexFails, Swaps
  <2> QED BY <1>1, <2>2 DEF PagesTyped
<1>4. ASSUME NEW scope \in Jobs \cup {None}, NEW truncate \in BOOLEAN, RebuildSelects(scope, truncate)
      PROVE  PagesTyped'
  <2>1. PICK groups : rebuild'.new = [g \in groups |-> PageOf(rows, g)]
    BY <1>4 DEF RebuildSelects
  <2>2. UNCHANGED <<rows, pages>>
    BY <1>4 DEF RebuildSelects, store, derived
  <2>3. \A g \in groups : PageOn(PageOf(rows, g), Nat)
    BY PageIs, Settings DEF RowsTyped
  <2> QED BY <2>1, <2>2, <2>3 DEF PagesTyped
<1>5. CASE RebuildWrites
  <2> DEFINE groups == DOMAIN rebuild.new
             pointers == UNION {{rebuild.new[g].latest, rebuild.new[g].ok} : g \in groups}
             ok == pointers \ {None} \subseteq IdsOf(rows)
  <2>1. /\ rows' = rows /\ rebuild' = NoRebuild
        /\ pages' = [g \in Groups |->
                       IF ok /\ g \in groups THEN rebuild.new[g]
                       ELSE IF ok /\ g \in rebuild.drop THEN NoPage ELSE pages[g]]
    BY <1>5 DEF RebuildWrites, store
  <2>2. ASSUME NEW g \in groups, ok PROVE PageOn(rebuild.new[g], IdsOf(rows))
    <3>1. rebuild.new[g].latest \in IdsOf(rows) \cup {None} /\ rebuild.new[g].ok \in IdsOf(rows) \cup {None}
      BY <2>2
    <3>2. PageOn(rebuild.new[g], Nat)
      BY DEF PagesTyped
    <3>3. CASE rebuild.new[g] = NoPage
      BY <3>3 DEF PageOn
    <3>4. ASSUME NEW c, NEW f, NEW l, NEW a, NEW b,
                 rebuild.new[g] = [count |-> c, first |-> f, last |-> l, latest |-> a, ok |-> b]
          PROVE  PageOn(rebuild.new[g], IdsOf(rows))
      <4>1. a \in IdsOf(rows) \cup {None} /\ b \in IdsOf(rows) \cup {None}
        BY <3>1, <3>4
      <4> QED BY <3>4, <4>1 DEF PageOn
    <3> QED BY <3>2, <3>3, <3>4 DEF PageOn
  <2> HIDE DEF groups, ok
  <2>3. \A g \in Groups : PageOn(pages[g], IdsOf(rows)) /\ PageOn(NoPage, IdsOf(rows))
    BY DEF PagesTyped, PageOn
  <2>4. ASSUME NEW g \in Groups PROVE PageOn(pages'[g], IdsOf(rows))
    <3>1. \/ pages'[g] = NoPage
          \/ pages'[g] = pages[g]
          \/ ok /\ g \in groups /\ pages'[g] = rebuild.new[g]
      BY <2>1
    <3> QED BY <2>2, <2>3, <3>1
  <2> QED BY <2>1, <2>4 DEF PagesTyped, NoRebuild
<1>6. CASE UNCHANGED <<rows, pages, rebuild>>
  BY <1>6 DEF PagesTyped
<1>7. \/ IndexCommits \/ IndexFails \/ RebuildWrites
      \/ \E scope \in Jobs \cup {None}, truncate \in BOOLEAN : RebuildSelects(scope, truncate)
      \/ UNCHANGED <<rows, pages, rebuild>>
  BY DEF Next, vars, store, derived, sessions, IndexEnds, IndexAborts, WarcsChange, IndexBegins, IndexRefused,
         DedupeGroups, DedupeLists, DedupeApplies, Restore, BackfillOutlinks, RecomputeSignals, ChangesRead,
         ChangesWritten
<1> QED BY <1>2, <1>3, <1>4, <1>5, <1>6, <1>7

-----------------------------------------------------------------------------
(* The type invariant.                                                     *)

IInv ==
    /\ RowsTyped /\ BoundTyped /\ AuditsTyped
    /\ LinksTyped /\ EventsTyped /\ PagesTyped

LEMMA InitTyped == Init => IInv
<1> SUFFICES ASSUME Init PROVE IInv
  OBVIOUS
<1>1. 0 \in 0..MaxId /\ IdsOf({}) = {} /\ RowsOf({}, None) = {}
  BY Settings DEF IdsOf, RowsOf
<1>2. RowsTyped
  <2>1. warcs \in [Jobs -> SUBSET Captures]
    BY CatalogueAssumption DEF Init
  <2> QED BY <1>1, <2>1 DEF Init, RowsTyped, IsTable, NoIndex
<1>3. BoundTyped
  BY DEF Init, BoundTyped
<1>4. AuditsTyped
  BY DEF Init, AuditsTyped, Audited, DupsOf
<1>5. LinksTyped
  <2>1. Cardinality(Groups) \in Nat
    BY Settings, FS_CardinalityType
  <2>2. [in |-> 0, out |-> 0] \in SignalRows
    BY <2>1 DEF SignalRows
  <2> QED BY <2>2 DEF Init, LinksTyped
<1>6. EventsTyped
  BY DEF Init, EventsTyped, EventTable, NoChanges, IsTable
<1>7. PagesTyped
  BY DEF Init, PagesTyped, PageOn, NoRebuild
<1> QED BY <1>2, <1>3, <1>4, <1>5, <1>6, <1>7 DEF IInv

LEMMA StepTyped == IInv /\ [Next]_vars => IInv'
  BY RowsStep, BoundStep, AuditsStep, LinksStep, EventsStep, PagesStep DEF IInv

LEMMA TypedIsTypeOK == IInv => TypeOK
<1> SUFFICES ASSUME IInv PROVE TypeOK
  OBVIOUS
<1>1. /\ warcs \in [Jobs -> SUBSET Captures] /\ lastId \in 0..MaxId /\ indexed \subseteq Jobs
      /\ rows \subseteq [id : 1..lastId, cap : Captures]
      /\ \A r, s \in rows : r.id = s.id => r = s
  BY DEF IInv, RowsTyped, IsTable
<1>2. /\ hidden \subseteq IdsOf(rows) /\ linked \subseteq IdsOf(rows)
      /\ audits \subseteq [dup : hidden, canon : IdsOf(rows), at : Nat]
      /\ {a.dup : a \in audits} = hidden
  BY DEF IInv, AuditsTyped, Audited, DupsOf, LinksTyped
<1>3. events \subseteq EventRows /\ \A d, e \in events : d.to = e.to => d = e
  BY DEF IInv, EventsTyped, EventTable, EventRows, Kinds
<1>4. ASSUME NEW g \in Groups, pages[g] # NoPage
      PROVE  {pages[g].latest, pages[g].ok} \subseteq IdsOf(rows) \cup {None}
  <2>1. PageOn(pages[g], IdsOf(rows))
    BY DEF IInv, PagesTyped
  <2>2. PICK c, f, l, a, b :
          /\ a \in IdsOf(rows) \cup {None} /\ b \in IdsOf(rows) \cup {None}
          /\ pages[g] = [count |-> c, first |-> f, last |-> l, latest |-> a, ok |-> b]
    BY <1>4, <2>1 DEF PageOn
  <2> QED BY <2>2
<1>5. /\ signals \in [Groups -> SignalRows] /\ owed.pages \subseteq Groups /\ owed.links \subseteq Groups
  BY DEF IInv, LinksTyped
<1> QED BY <1>1, <1>2, <1>3, <1>4, <1>5 DEF TypeOK

\* The database is well formed (TypeOK) whatever the sessions interleave: ids are
\* unique, marks, links, events and pointers name rows that exist, an audit row
\* goes with every mark, also when a row is deleted between the statement that
\* read it and the one that refers to it.
THEOREM TypeCorrect == Spec => []TypeOK
<1>1. Spec => []IInv
  BY InitTyped, StepTyped, PTL DEF Spec
<1> QED BY <1>1, TypedIsTypeOK, PTL

-----------------------------------------------------------------------------
(* Pages and inlinks, while no page rebuild runs beside an index run.      *)

\* A rebuild writes what it has read, for no row changes while it is open.
Apart == ~(index.open /\ rebuild.open)

RebuildRight ==
    /\ rebuild.open => \A g \in DOMAIN rebuild.new : rebuild.new[g] = PageOf(rows, g)
    /\ rebuild.drop \subseteq Groups

Follows == IInv /\ Apart /\ RebuildRight /\ PagesFollowRows

\* Clearing the pointers to rows of other groups leaves the page of a group alone.
LEMMA ClearedKeeps ==
    ASSUME NEW n \in Nat, NEW R, IsTable(R, n), NEW P, NEW gone, NEW g \in Groups,
           P[g] = PageOf(R, g), \A r \in InGroup(R, g) : r.id \notin gone
    PROVE  Cleared(P, gone)[g] = PageOf(R, g)
<1>1. CASE P[g] = NoPage
  BY <1>1 DEF Cleared
<1>2. CASE P[g] # NoPage
  <2> DEFINE S == InGroup(R, g)
             a == LatestId(S)
             b == LatestId(OkRows(S))
  <2>1. S # {}
    BY <1>2 DEF PageOf
  <2>2. S \subseteq R /\ OkRows(S) \subseteq S
    BY DEF InGroup, OkRows
  <2>3. a \in IdsOf(S) \cup {None} /\ b \in IdsOf(S) \cup {None}
    <3>1. a \in IdsOf(S) \cup {None} /\ b \in IdsOf(OkRows(S)) \cup {None}
      BY <2>2, LatestAmong
    <3> QED BY <2>2, <3>1 DEF IdsOf
  <2>4. (IF a \in gone THEN None ELSE a) = a /\ (IF b \in gone THEN None ELSE b) = b
    <3>1. \A i \in IdsOf(S) : i \notin gone
      BY DEF IdsOf
    <3> HIDE DEF a, b
    <3> QED BY <2>3, <3>1
  <2>5. PICK c, f, l : PageOf(R, g) = [count |-> c, first |-> f, last |-> l, latest |-> a, ok |-> b]
    BY <2>1 DEF PageOf
  <2> HIDE DEF S, a, b
  <2> DEFINE p == [count |-> c, first |-> f, last |-> l, latest |-> a, ok |-> b]
  <2>6. p.latest = a /\ p.ok = b /\ [p EXCEPT !.latest = a, !.ok = b] = p
    <3>1. p.latest = a /\ p.ok = b /\ [p EXCEPT !.latest = a] = p /\ [p EXCEPT !.ok = b] = p
      OBVIOUS
    <3> HIDE DEF p
    <3> QED BY <3>1, Zenon
  <2>7. P[g] = p
    BY <2>5
  <2> HIDE DEF p
  <2>8. Cleared(P, gone)[g] = [p EXCEPT !.latest = IF p.latest \in gone THEN None ELSE p.latest,
                                        !.ok = IF p.ok \in gone THEN None ELSE p.ok]
    BY <1>2, <2>7, Zenon DEF Cleared
  <2>9. Cleared(P, gone)[g] = [p EXCEPT !.latest = a, !.ok = b]
    BY <2>4, <2>6, <2>8, Zenon
  <2> QED BY <2>6, <2>7, <2>9, Zenon
<1> QED BY <1>1, <1>2

\* The end of an index run leaves the rows of other groups alone.
LEMMA OtherGroupsStay ==
    ASSUME RowsTyped, NEW C, Swaps(C), NEW g \in Groups,
           g \notin GroupsIn(RowsOf(rows, index.job) \cup NewRows(C)),
           pages[g] = PageOf(rows, g)
    PROVE  Cleared(pages, IdsOf(RowsOf(rows, index.job)))[g] = PageOf(rows', g)
<1> DEFINE old == RowsOf(rows, index.job)
           new == NewRows(C)
<1>1. /\ old \subseteq rows /\ rows' = (rows \ old) \cup new
      /\ lastId \in Nat /\ IsTable(rows, lastId)
  BY SwapIds
<1> HIDE DEF old, new
<1>2. \A r \in old \cup new : GroupOf[r.cap] # g
  BY DEF GroupsIn, old, new
<1>3. InGroup(rows', g) = InGroup(rows, g)
  BY <1>1, <1>2 DEF InGroup
<1>4. PageOf(rows', g) = PageOf(rows, g)
  BY <1>3 DEF PageOf
<1>5. \A r \in InGroup(rows, g) : r.id \notin IdsOf(old)
  BY <1>1, <1>2 DEF InGroup, IdsOf, IsTable
<1>6. Cleared(pages, IdsOf(old))[g] = PageOf(rows, g)
  BY <1>1, <1>5, ClearedKeeps
<1> QED BY <1>4, <1>6 DEF old

\* The upsert of a rebuild is refused, or writes every group it has read.
PagesWritten(ok) ==
    /\ rows' = rows /\ rebuild.open
    /\ pages' = [g \in Groups |-> IF ok /\ g \in DOMAIN rebuild.new THEN rebuild.new[g]
                                  ELSE IF ok /\ g \in rebuild.drop THEN NoPage ELSE pages[g]]
    /\ owed' = IF ok THEN [owed EXCEPT !.pages = (@ \ (DOMAIN rebuild.new \cup rebuild.drop))
                                          \cup (rebuild.drop \cap GroupsIn(rows))]
               ELSE owed

LEMMA WritesAllOrNone == ASSUME RebuildWrites PROVE \E ok \in BOOLEAN : PagesWritten(ok)
<1> DEFINE groups == DOMAIN rebuild.new
           pointers == UNION {{rebuild.new[g].latest, rebuild.new[g].ok} : g \in groups}
           ok == pointers \ {None} \subseteq IdsOf(rows)
<1>1. /\ rows' = rows /\ rebuild.open
      /\ pages' = [g \in Groups |->
                     IF ok /\ g \in groups THEN rebuild.new[g]
                     ELSE IF ok /\ g \in rebuild.drop THEN NoPage ELSE pages[g]]
  BY DEF RebuildWrites, store
<1>2. owed' = IF ok THEN [owed EXCEPT !.pages = (@ \ (groups \cup rebuild.drop))
                                           \cup (rebuild.drop \cap GroupsIn(rows))]
              ELSE owed
  BY DEF RebuildWrites
<1>3. ok \in BOOLEAN
  OBVIOUS
<1> HIDE DEF pointers, ok
<1>4. PagesWritten(ok)
  BY <1>1, <1>2 DEF PagesWritten
<1> QED BY <1>3, <1>4

LEMMA PagesFollow ==
    ASSUME Follows, [Next]_vars
    PROVE  \A g \in Groups \ owed'.pages : pages'[g] = PageOf(rows', g)
<1> SUFFICES ASSUME NEW g \in Groups, g \notin owed'.pages PROVE pages'[g] = PageOf(rows', g)
  OBVIOUS
<1>1. RowsTyped /\ (g \notin owed.pages => pages[g] = PageOf(rows, g))
  BY DEF Follows, IInv, PagesFollowRows
<1>2. CASE IndexCommits
  <2> DEFINE G == GroupsIn(RowsOf(rows, index.job) \cup NewRows(index.reads))
             P == Cleared(pages, IdsOf(RowsOf(rows, index.job)))
  <2>1. Swaps(index.reads) /\ pages' = Rebuilt(P, rows', G) /\ owed'.pages = owed.pages \ G
    BY <1>2 DEF IndexCommits, Swaps
  <2>2. g \notin G => P[g] = PageOf(rows', g)
    BY <1>1, <2>1, OtherGroupsStay
  <2> HIDE DEF G, P
  <2> QED BY <2>1, <2>2 DEF Rebuilt
<1>3. CASE IndexFails
  <2>1. PICK k \in index.reads :
          LET old == RowsOf(rows, index.job)
              new == NewRows({c \in index.reads : c < k})
          IN  /\ Replaced(old, new)
              /\ owed' = [pages |-> owed.pages \cup GroupsIn(old \cup new),
                          links |-> owed.links \cup SignalGroups(old, new)]
    BY <1>3 DEF IndexFails
  <2> DEFINE C == {c \in index.reads : c < k}
  <2>2. Swaps(C) /\ pages' = Cleared(pages, IdsOf(RowsOf(rows, index.job)))
    BY <1>3, <2>1 DEF IndexFails, Swaps
  <2>3. owed'.pages = owed.pages \cup GroupsIn(RowsOf(rows, index.job) \cup NewRows(C))
    BY <2>1
  <2> HIDE DEF C
  <2> QED BY <1>1, <2>2, <2>3, OtherGroupsStay
<1>4. CASE RebuildWrites
  <2> DEFINE groups == DOMAIN rebuild.new
  <2>1. PICK ok \in BOOLEAN : PagesWritten(ok)
    BY <1>4, WritesAllOrNone
  <2>6. /\ rows' = rows /\ rebuild.open
        /\ pages'[g] = IF ok /\ g \in groups THEN rebuild.new[g]
                       ELSE IF ok /\ g \in rebuild.drop THEN NoPage ELSE pages[g]
        /\ owed' = IF ok THEN [owed EXCEPT !.pages = (@ \ (groups \cup rebuild.drop))
                                              \cup (rebuild.drop \cap GroupsIn(rows))]
                   ELSE owed
    BY <2>1 DEF PagesWritten
  <2>2. /\ g \in groups => rebuild.new[g] = PageOf(rows, g)
        /\ owed \in [pages : SUBSET Groups, links : SUBSET Groups]
    BY <2>6 DEF Follows, RebuildRight, IInv, LinksTyped
  <2> HIDE DEF groups
  <2>3. CASE ok /\ g \in groups
    BY <2>6, <2>2, <2>3
  <2>4. CASE ok /\ g \notin groups /\ g \in rebuild.drop
    <3>1. g \notin GroupsIn(rows) /\ pages'[g] = NoPage
      BY <2>6, <2>2, <2>4
    <3>2. InGroup(rows, g) = {}
      BY <3>1 DEF InGroup, GroupsIn
    <3> QED BY <2>6, <3>1, <3>2 DEF PageOf
  <2>5. CASE ~ok \/ (g \notin groups /\ g \notin rebuild.drop)
    <3>1. g \notin owed.pages /\ pages'[g] = pages[g]
      BY <2>6, <2>2, <2>5
    <3> QED BY <1>1, <2>6, <3>1
  <2> QED BY <2>3, <2>4, <2>5
<1>5. CASE UNCHANGED <<rows, pages>> /\ owed'.pages = owed.pages
  BY <1>1, <1>5
<1>6. ASSUME NEW j \in Jobs, NEW update \in BOOLEAN, BackfillOutlinks(j, update)
      PROVE  UNCHANGED <<rows, pages>> /\ owed'.pages = owed.pages
  <2>1. \E X : owed' = [owed EXCEPT !.links = X]
    BY <1>6 DEF BackfillOutlinks
  <2> QED BY <1>6, <2>1 DEF BackfillOutlinks, store, Follows, IInv, LinksTyped
<1>7. CASE RecomputeSignals
  <2>1. UNCHANGED <<rows, pages>> /\ owed'.pages = owed.pages
    BY <1>7 DEF RecomputeSignals, store, Follows, IInv, LinksTyped
  <2> QED BY <1>5, <2>1
<1>8. \/ IndexCommits \/ IndexFails \/ RebuildWrites \/ RecomputeSignals
      \/ \E j \in Jobs, update \in BOOLEAN : BackfillOutlinks(j, update)
      \/ UNCHANGED <<rows, pages, owed>>
  BY DEF Next, vars, store, derived, sessions, IndexEnds, IndexAborts, WarcsChange, IndexBegins, IndexRefused,
         DedupeGroups, DedupeLists, DedupeApplies, Restore, RebuildSelects, ChangesRead, ChangesWritten
<1> QED BY <1>2, <1>3, <1>4, <1>5, <1>6, <1>7, <1>8

-----------------------------------------------------------------------------
(* The pages that link to a page.                                          *)

\* Rows that link to a group.
Linkers(R, L, g) == {r \in R : r.id \in L /\ g \in LinksOf[r.cap]}

LEMMA InlinksByLinkers ==
    ASSUME NEW R, NEW L, NEW g
    PROVE  {e \in Edges(R, L) : e[2] = g}
             = {<<GroupOf[r.cap], g>> : r \in {r \in Linkers(R, L, g) : GroupOf[r.cap] # g}}
<1>1. ASSUME NEW e \in Edges(R, L), e[2] = g
      PROVE  \E r \in Linkers(R, L, g) : GroupOf[r.cap] # g /\ e = <<GroupOf[r.cap], g>>
  <2>1. PICK o \in Outlinks(R, L) : e = <<GroupOf[o[1].cap], o[2]>> /\ e[1] # e[2]
    BY DEF Edges
  <2>2. PICK r \in R : r.id \in L /\ o[2] \in LinksOf[r.cap] /\ o = <<r, o[2]>>
    BY DEF Outlinks
  <2> QED BY <1>1, <2>1, <2>2 DEF Linkers
<1>2. ASSUME NEW r \in Linkers(R, L, g), GroupOf[r.cap] # g
      PROVE  <<GroupOf[r.cap], g>> \in Edges(R, L)
  <2>1. <<r, g>> \in Outlinks(R, L)
    BY DEF Outlinks, Linkers
  <2>2. <<GroupOf[<<r, g>>[1].cap], <<r, g>>[2]>> = <<GroupOf[r.cap], g>>
    OBVIOUS
  <2>3. <<GroupOf[r.cap], g>>[1] # <<GroupOf[r.cap], g>>[2]
    BY <1>2
  <2> QED BY <2>1, <2>2, <2>3 DEF Edges
<1> QED BY <1>1, <1>2

LEMMA InlinksFollow ==
    ASSUME NEW R, NEW L, NEW S, NEW M, NEW g, Linkers(R, L, g) = Linkers(S, M, g)
    PROVE  Signal(Edges(R, L), g).in = Signal(Edges(S, M), g).in
<1>1. {e \in Edges(R, L) : e[2] = g} = {e \in Edges(S, M) : e[2] = g}
  <2> DEFINE A == Linkers(R, L, g)
             B == Linkers(S, M, g)
  <2>1. /\ {e \in Edges(R, L) : e[2] = g} = {<<GroupOf[r.cap], g>> : r \in {r \in A : GroupOf[r.cap] # g}}
        /\ {e \in Edges(S, M) : e[2] = g} = {<<GroupOf[r.cap], g>> : r \in {r \in B : GroupOf[r.cap] # g}}
        /\ A = B
    BY InlinksByLinkers
  <2> HIDE DEF A, B
  <2> QED BY <2>1
<1> QED BY <1>1 DEF Signal

\* Rows that come and go with their links change the linkers of a group only if
\* one of them links to it.
LEMMA LinkersKept ==
    ASSUME NEW n, NEW R, IsTable(R, n), NEW m, NEW S, IsTable(S, m),
           NEW old, old \subseteq R, R \ old \subseteq S,
           NEW new, new \subseteq S, S \ new \subseteq R,
           NEW L, NEW M, M = (L \ IdsOf(old)) \cup IdsOf(new),
           NEW g, g \notin Targets(old, L) \cup Targets(new, IdsOf(new))
    PROVE  Linkers(R, L, g) = Linkers(S, M, g)
<1>1. \A r, s \in R : r.id = s.id => r = s
  BY DEF IsTable
<1>2. \A r, s \in S : r.id = s.id => r = s
  BY DEF IsTable
<1>3. ASSUME NEW T, NEW N, NEW r \in T, r.id \in N, g \in LinksOf[r.cap] PROVE g \in Targets(T, N)
  <2>1. <<r, g>> \in Outlinks(T, N) /\ <<r, g>>[2] = g
    BY <1>3 DEF Outlinks
  <2> QED BY <2>1 DEF Targets
<1>4. ASSUME NEW r \in Linkers(R, L, g) PROVE r \in Linkers(S, M, g)
  <2>1. r \in R /\ r.id \in L /\ g \in LinksOf[r.cap]
    BY DEF Linkers
  <2>2. r \notin old
    BY <1>3, <2>1
  <2>3. r \in S /\ r.id \notin IdsOf(old)
    BY <1>1, <2>1, <2>2 DEF IdsOf
  <2> QED BY <2>1, <2>3 DEF Linkers
<1>5. ASSUME NEW r \in Linkers(S, M, g) PROVE r \in Linkers(R, L, g)
  <2>1. r \in S /\ r.id \in M /\ g \in LinksOf[r.cap]
    BY DEF Linkers
  <2>2. r \notin new
    <3>1. r \in new => r.id \in IdsOf(new)
      BY DEF IdsOf
    <3> QED BY <1>3, <2>1, <3>1
  <2>3. r.id \notin IdsOf(new)
    BY <1>2, <2>1, <2>2 DEF IdsOf
  <2> QED BY <2>1, <2>2, <2>3 DEF Linkers
<1> QED BY <1>4, <1>5

LEMMA OtherInlinksStay ==
    ASSUME RowsTyped, NEW C, Swaps(C), NEW g,
           g \notin SignalGroups(RowsOf(rows, index.job), NewRows(C))
    PROVE  Signal(Edges(rows', linked'), g).in = Signal(Edges(rows, linked), g).in
<1> DEFINE old == RowsOf(rows, index.job)
           new == NewRows(C)
<1>1. /\ old \subseteq rows /\ rows' = (rows \ old) \cup new
      /\ IsTable(rows, lastId) /\ IsTable(rows', lastId')
  BY SwapIds
<1>2. linked' = (linked \ IdsOf(old)) \cup IdsOf(new)
  BY DEF Swaps, Replaced
<1>3. g \notin Targets(old, linked) \cup Targets(new, IdsOf(new))
  BY DEF SignalGroups
<1> HIDE DEF old, new
<1>4. Linkers(rows, linked, g) = Linkers(rows', linked', g)
  <2>1. rows \ old \subseteq rows' /\ new \subseteq rows' /\ rows' \ new \subseteq rows
    BY <1>1
  <2> QED BY <1>1, <1>2, <1>3, <2>1, LinkersKept
<1> QED BY <1>4, InlinksFollow

LEMMA SignalsFollow ==
    ASSUME Follows, [Next]_vars
    PROVE  \A g \in Groups \ owed'.links : signals'[g].in = Signal(Edges(rows', linked'), g).in
<1> SUFFICES ASSUME NEW g \in Groups, g \notin owed'.links
             PROVE  signals'[g].in = Signal(Edges(rows', linked'), g).in
  OBVIOUS
<1>1. /\ RowsTyped
      /\ g \notin owed.links => signals[g].in = Signal(Edges(rows, linked), g).in
      /\ owed \in [pages : SUBSET Groups, links : SUBSET Groups]
  BY DEF Follows, IInv, PagesFollowRows, LinksTyped
<1>2. CASE IndexCommits
  <2> DEFINE G == SignalGroups(RowsOf(rows, index.job), NewRows(index.reads))
  <2>1. /\ Swaps(index.reads) /\ owed'.links = owed.links \ G
        /\ signals' = Recomputed(signals, Edges(rows', linked'), G)
    BY <1>2 DEF IndexCommits, Swaps
  <2>2. g \notin G => Signal(Edges(rows', linked'), g).in = Signal(Edges(rows, linked), g).in
    BY <1>1, <2>1, OtherInlinksStay
  <2> HIDE DEF G
  <2> QED BY <1>1, <2>1, <2>2 DEF Recomputed
<1>3. CASE IndexFails
  <2>1. PICK k \in index.reads :
          LET old == RowsOf(rows, index.job)
              new == NewRows({c \in index.reads : c < k})
          IN  /\ Replaced(old, new)
              /\ owed' = [pages |-> owed.pages \cup GroupsIn(old \cup new),
                          links |-> owed.links \cup SignalGroups(old, new)]
    BY <1>3 DEF IndexFails
  <2> DEFINE C == {c \in index.reads : c < k}
  <2>2. Swaps(C) /\ signals' = signals
    BY <1>3, <2>1 DEF IndexFails, Swaps
  <2>3. owed'.links = owed.links \cup SignalGroups(RowsOf(rows, index.job), NewRows(C))
    BY <2>1
  <2> HIDE DEF C
  <2>4. g \notin owed.links /\ g \notin SignalGroups(RowsOf(rows, index.job), NewRows(C))
    BY <2>3
  <2>5. Signal(Edges(rows', linked'), g).in = Signal(Edges(rows, linked), g).in
    BY <1>1, <2>2, <2>4, OtherInlinksStay
  <2> QED BY <1>1, <2>2, <2>4, <2>5
<1>4. ASSUME NEW j \in Jobs, NEW update \in BOOLEAN, BackfillOutlinks(j, update)
      PROVE  signals'[g].in = Signal(Edges(rows', linked'), g).in
  <2> DEFINE old == RowsOf(rows, j)
             read == {r \in old : r.cap \in warcs[j]}
             groups == Targets(old, linked) \cup GroupsIn(OkRows(read)) \cup Targets(read, IdsOf(read))
  <2>1. /\ rows' = rows /\ linked' = (linked \ IdsOf(old)) \cup IdsOf(read)
        /\ signals' = IF update THEN Recomputed(signals, Edges(rows, linked'), groups) ELSE signals
        /\ owed' = [owed EXCEPT !.links = IF update THEN @ \ groups ELSE @ \cup groups]
    BY <1>4 DEF BackfillOutlinks, store
  <2>2. old \subseteq rows /\ read \subseteq rows
    BY DEF RowsOf
  <2>3. g \notin groups => g \notin Targets(old, linked) \cup Targets(read, IdsOf(read))
    OBVIOUS
  <2> HIDE DEF old, read, groups
  <2>4. g \notin groups => Signal(Edges(rows', linked'), g).in = Signal(Edges(rows, linked), g).in
    <3>1. IsTable(rows, lastId)
      BY <1>1 DEF RowsTyped
    <3>2. g \notin groups => Linkers(rows, linked, g) = Linkers(rows, linked', g)
      BY <2>1, <2>2, <2>3, <3>1, LinkersKept
    <3>3. g \notin groups => Signal(Edges(rows, linked'), g).in = Signal(Edges(rows, linked), g).in
      BY <3>2, InlinksFollow
    <3> QED BY <2>1, <3>3
  <2>5. g \in groups => update
    BY <1>1, <2>1
  <2>6. g \notin groups => g \notin owed.links
    BY <1>1, <2>1
  <2> QED BY <1>1, <2>1, <2>4, <2>5, <2>6 DEF Recomputed
<1>5. CASE RecomputeSignals
  BY <1>5 DEF RecomputeSignals, store, Recomputed
<1>6. CASE RebuildWrites
  <2>1. UNCHANGED <<rows, linked, signals>> /\ (owed' = owed \/ \E X : owed' = [owed EXCEPT !.pages = X])
    BY <1>6 DEF RebuildWrites, store
  <2> QED BY <1>1, <2>1
<1>7. CASE UNCHANGED <<rows, linked, signals, owed>>
  BY <1>1, <1>7
<1>8. \/ IndexCommits \/ IndexFails \/ RebuildWrites \/ RecomputeSignals
      \/ \E j \in Jobs, update \in BOOLEAN : BackfillOutlinks(j, update)
      \/ UNCHANGED <<rows, linked, signals, owed>>
  BY DEF Next, vars, store, derived, sessions, IndexEnds, IndexAborts, WarcsChange, IndexBegins, IndexRefused,
         DedupeGroups, DedupeLists, DedupeApplies, Restore, RebuildSelects, ChangesRead, ChangesWritten
<1> QED BY <1>2, <1>3, <1>4, <1>5, <1>6, <1>7, <1>8

\* A rebuild and an index run keep out of each other's way.
LEMMA RebuildsStep ==
    ASSUME RebuildAlone = TRUE, Follows, [Next]_vars
    PROVE  Apart' /\ RebuildRight'
<1> USE DEF Apart, RebuildRight
<1>1. CASE IndexEnds
  <2>1. index' = NoIndex /\ rebuild' = rebuild /\ index.open
    BY <1>1 DEF IndexEnds, IndexCommits, IndexFails, IndexAborts
  <2> QED BY <2>1 DEF Follows, NoIndex
<1>2. ASSUME NEW j \in Jobs, IndexBegins(j) PROVE Apart' /\ RebuildRight'
  BY <1>2 DEF IndexBegins, Follows
<1>3. ASSUME NEW scope \in Jobs \cup {None}, NEW truncate \in BOOLEAN, RebuildSelects(scope, truncate)
      PROVE  Apart' /\ RebuildRight'
  <2>1. PICK groups :
          rebuild' = [open |-> TRUE, new |-> [g \in groups |-> PageOf(rows, g)],
                      drop |-> IF truncate THEN Groups \ groups ELSE {}]
    BY <1>3 DEF RebuildSelects
  <2>2. UNCHANGED <<rows, index>> /\ ~index.open
    BY <1>3 DEF RebuildSelects, store
  <2>3. \A g : PageOf(rows', g) = PageOf(rows, g)
    BY <2>2 DEF PageOf, InGroup
  <2> QED BY <2>1, <2>2, <2>3
<1>4. CASE RebuildWrites
  BY <1>4 DEF RebuildWrites, NoRebuild
<1>5. CASE UNCHANGED <<rows, index, rebuild>>
  BY <1>5 DEF Follows, PageOf, InGroup
<1>6. \/ IndexEnds \/ RebuildWrites
      \/ \E j \in Jobs : IndexBegins(j)
      \/ \E scope \in Jobs \cup {None}, truncate \in BOOLEAN : RebuildSelects(scope, truncate)
      \/ UNCHANGED <<rows, index, rebuild>>
  BY DEF Next, vars, store, derived, sessions, WarcsChange, IndexRefused, DedupeGroups, DedupeLists,
         DedupeApplies, Restore, BackfillOutlinks, RecomputeSignals, ChangesRead, ChangesWritten
<1> QED BY <1>1, <1>2, <1>3, <1>4, <1>5, <1>6

LEMMA FollowsInit == Init => Follows
<1> SUFFICES ASSUME Init PROVE Follows
  OBVIOUS
<1>1. IInv
  BY InitTyped
<1>2. Apart /\ RebuildRight
  BY DEF Init, Apart, RebuildRight, NoIndex, NoRebuild
<1>3. ASSUME NEW g \in Groups PROVE pages[g] = PageOf(rows, g)
  <2>1. InGroup(rows, g) = {}
    BY DEF Init, InGroup
  <2> QED BY <2>1 DEF Init, PageOf
<1>4. ASSUME NEW g \in Groups PROVE signals[g].in = Signal(Edges(rows, linked), g).in
  <2>1. {e \in Edges(rows, linked) : e[2] = g} = {}
    BY DEF Init, Edges, Outlinks
  <2>2. Signal(Edges(rows, linked), g).in = 0
    BY <2>1, FS_EmptySet DEF Signal
  <2> QED BY <2>2 DEF Init
<1> QED BY <1>1, <1>2, <1>3, <1>4 DEF Follows, PagesFollowRows

LEMMA FollowsHolds == ASSUME RebuildAlone = TRUE PROVE Spec => []Follows
<1>1. Follows /\ [Next]_vars => Follows'
  <2> SUFFICES ASSUME Follows, [Next]_vars PROVE Follows'
    OBVIOUS
  <2>1. IInv'
    BY StepTyped DEF Follows
  <2>2. Apart' /\ RebuildRight'
    BY RebuildsStep
  <2>3. PagesFollowRows'
    BY PagesFollow, SignalsFollow DEF PagesFollowRows
  <2> QED BY <2>1, <2>2, <2>3 DEF Follows
<1> QED BY <1>1, FollowsInit, PTL DEF Spec

\* For every group that no failed run left behind, the page and the number of
\* pages that link to it are those of the rows (PagesFollowRows), through index
\* runs of any records, rebuilds of any scope and backfills of links, as long as
\* rebuild-pages is not run while a job is being indexed.
THEOREM PagesHold == ASSUME RebuildAlone = TRUE PROVE Spec => []PagesFollowRows
<1>1. Follows => PagesFollowRows
  BY DEF Follows
<1>2. Spec => []Follows
  BY FollowsHolds
<1> QED BY <1>1, <1>2, PTL

-----------------------------------------------------------------------------
(* Deduplication, if it is only run by hand.                               *)

\* The row of an id, if there is one, has the key.
HasKey(i, k) == \A r \in rows : r.id = i => DupKey(r) = k
SameKey(i, j) == \A r, s \in rows : r.id = i /\ s.id = j => DupKey(r) = DupKey(s)

\* An audit row joins two rows of one key, and a canonical row that a later run
\* marked was marked by a later run.
AuditsChained ==
    /\ \A a \in audits : SameKey(a.dup, a.canon) /\ a.at < bound.dedupes
    /\ \A a, b \in audits : a.canon = b.dup => a.at < b.at

\* What the session has in hand: canonical rows, one per key, and then pairs.
FoundRight ==
    /\ dedupe = [pc |-> dedupe.pc, scope |-> dedupe.scope, found |-> dedupe.found, list |-> dedupe.list]
    /\ dedupe.pc # "grouped" => dedupe.found = {}
    /\ \A f, h \in dedupe.found : f.key = h.key => f = h
    /\ \A f \in dedupe.found : f.canon \in 1..lastId /\ f.canon \notin hidden /\ HasKey(f.canon, f.key)

ListRight ==
    /\ dedupe.pc # "listed" => dedupe.list = {}
    /\ \A c, d \in dedupe.list : c.canon # d.dup
    /\ \A c \in dedupe.list : /\ c.dup \in 1..lastId /\ c.canon \in 1..lastId
                              /\ c.canon \notin hidden /\ SameKey(c.dup, c.canon)

Kept == IInv /\ AuditsChained /\ FoundRight /\ ListRight

\* Ids are not given out twice.
LEMMA OldRows ==
    ASSUME RowsTyped, [Next]_vars
    PROVE  /\ lastId \in Nat /\ lastId' \in Nat /\ lastId <= lastId'
           /\ \A r \in rows' : r.id \in 1..lastId => r \in rows
<1>1. lastId \in Nat
  BY Settings DEF RowsTyped
<1>2. ASSUME NEW C, Swaps(C)
      PROVE  /\ lastId' \in Nat /\ lastId <= lastId'
             /\ \A r \in rows' : r.id \in 1..lastId => r \in rows
  <2> DEFINE old == RowsOf(rows, index.job)
             new == NewRows(C)
  <2>1. rows' = (rows \ old) \cup new /\ lastId' \in lastId..MaxId /\ \A i \in IdsOf(new) : i > lastId
    BY <1>2, SwapIds
  <2> HIDE DEF old, new
  <2>2. \A r \in new : ~(r.id \in 1..lastId)
    BY <1>1, <2>1 DEF IdsOf
  <2> QED BY <1>1, <2>1, <2>2, Settings
<1>3. CASE UNCHANGED RowVars
  BY <1>1, <1>3 DEF RowVars
<1> QED BY <1>1, <1>2, <1>3, IndexSwaps, RowsActs

\* A row that has its key keeps it, and one that has not does not come back.
LEMMA KeysStay ==
    ASSUME RowsTyped, [Next]_vars, NEW i \in 1..lastId
    PROVE  /\ i \in 1..lastId'
           /\ \A k : HasKey(i, k) => HasKey(i, k)'
           /\ \A j \in 1..lastId : SameKey(i, j) => SameKey(i, j)'
<1>1. /\ lastId \in Nat /\ lastId' \in Nat /\ lastId <= lastId'
      /\ \A r \in rows' : r.id \in 1..lastId => r \in rows
  BY OldRows
<1>2. i \in 1..lastId'
  BY <1>1
<1> QED BY <1>1, <1>2 DEF HasKey, SameKey

LEMMA AuditIds ==
    ASSUME IInv
    PROVE  \A a \in audits : /\ a.dup \in hidden /\ a.dup \in 1..lastId
                             /\ a.canon \in IdsOf(rows) /\ a.canon \in 1..lastId
                             /\ a.at \in Nat
<1>1. \A i \in IdsOf(rows) : i \in 1..lastId
  BY DEF IInv, RowsTyped, IsTable, IdsOf
<1>2. ASSUME NEW a \in audits PROVE a \in [dup : hidden, canon : IdsOf(rows), at : Nat] /\ hidden \subseteq IdsOf(rows)
  BY DEF IInv, AuditsTyped, Audited
<1> QED BY <1>1, <1>2

\* Where marks and audit rows can change.
LEMMA MarksAct ==
    ASSUME AutoDedupe \subseteq {FALSE}, BoundTyped, [Next]_vars
    PROVE  \/ DedupeApplies
           \/ \E scope \in Jobs \cup {None} : Restore(scope)
           \/ UNCHANGED <<hidden, audits>> /\ bound'.dedupes = bound.dedupes
<1>1. CASE IndexCommits
  <2>1. PICK auto \in AutoDedupe :
          LET found == IF auto THEN DupGroups(rows', hidden, index.job) ELSE {}
              list == Duplicates(rows', hidden, found)
          IN  /\ hidden' = hidden \cup {c.dup : c \in list} /\ audits' = audits \cup AuditRows(list, bound.dedupes)
              /\ bound' = IF list = {} THEN bound ELSE [bound EXCEPT !.dedupes = @ + 1]
    BY <1>1 DEF IndexCommits
  <2>2. auto = FALSE
    OBVIOUS
  <2> DEFINE list == Duplicates(rows', hidden, {})
  <2>3. /\ hidden' = hidden \cup {c.dup : c \in list} /\ audits' = audits \cup AuditRows(list, bound.dedupes)
        /\ bound' = IF list = {} THEN bound ELSE [bound EXCEPT !.dedupes = @ + 1]
    BY <2>1, <2>2
  <2>4. list = {}
    BY DEF Duplicates
  <2> QED BY <2>3, <2>4 DEF AuditRows
<1>2. CASE bound' = [bound EXCEPT !.warcs = @ + 1] \/ bound' = [bound EXCEPT !.commands = @ + 1] \/ bound' = bound
  <2>1. bound'.dedupes = bound.dedupes
    BY <1>2 DEF BoundTyped
  <2>2. IndexCommits \/ DedupeApplies \/ (\E scope \in Jobs \cup {None} : Restore(scope)) \/ UNCHANGED <<hidden, audits>>
    BY DEF Next, vars, derived, IndexEnds, IndexAborts, IndexFails, WarcsChange, IndexBegins, IndexRefused,
           DedupeGroups, DedupeLists, RebuildSelects, RebuildWrites, BackfillOutlinks, RecomputeSignals,
           ChangesRead, ChangesWritten
  <2> QED BY <1>1, <2>1, <2>2
<1>3. \/ IndexCommits \/ DedupeApplies
      \/ bound' = [bound EXCEPT !.warcs = @ + 1] \/ bound' = [bound EXCEPT !.commands = @ + 1] \/ bound' = bound
  BY DEF Next, vars, IndexEnds, IndexAborts, IndexFails, WarcsChange, IndexBegins, IndexRefused, DedupeGroups,
         DedupeLists, Restore, RebuildSelects, RebuildWrites, BackfillOutlinks, RecomputeSignals, ChangesRead,
         ChangesWritten, Command
<1> QED BY <1>1, <1>2, <1>3

\* What a run writes.
LEMMA Applies ==
    ASSUME Kept, DedupeApplies
    PROVE  /\ bound'.dedupes = bound.dedupes + 1 /\ bound.dedupes \in Nat /\ dedupe' = NoDedupe
           /\ UNCHANGED <<rows, lastId>>
           /\ \A b \in audits' :
                \/ b \in audits
                \/ \E c \in dedupe.list : b = [dup |-> c.dup, canon |-> c.canon, at |-> bound.dedupes]
<1> DEFINE list == Applicable(dedupe.list, rows, hidden)
<1>1. audits' = audits \cup AuditRows(list, bound.dedupes) \/ audits' = audits
  BY DEF DedupeApplies
<1>2. list \subseteq dedupe.list
  BY DEF Applicable
<1> HIDE DEF list
<1>3. \A b \in AuditRows(list, bound.dedupes) :
        \E c \in dedupe.list : b = [dup |-> c.dup, canon |-> c.canon, at |-> bound.dedupes]
  BY <1>2 DEF AuditRows
<1>4. bound.dedupes \in Nat /\ bound' = [bound EXCEPT !.dedupes = @ + 1] /\ bound'.dedupes = bound.dedupes + 1
  BY DEF DedupeApplies, Kept, IInv, BoundTyped
<1> QED BY <1>1, <1>3, <1>4 DEF DedupeApplies, store

LEMMA ChainStep ==
    ASSUME AutoDedupe \subseteq {FALSE}, Kept, [Next]_vars
    PROVE  AuditsChained'
<1>1. IInv /\ AuditsChained /\ RowsTyped /\ BoundTyped /\ bound.dedupes \in Nat
  BY DEF Kept, IInv, BoundTyped
<1>2. ASSUME NEW a \in audits PROVE SameKey(a.dup, a.canon)'
  BY <1>1, AuditIds, KeysStay DEF AuditsChained
<1>3. \A a \in audits : a.at \in Nat /\ a.at < bound.dedupes
  BY <1>1, AuditIds DEF AuditsChained
<1>4. CASE DedupeApplies
  <2>1. ASSUME NEW b \in audits' PROVE SameKey(b.dup, b.canon)' /\ b.at < bound'.dedupes
    <3>1. CASE b \in audits
      BY <1>1, <1>2, <1>3, <1>4, <3>1, Applies
    <3>2. ASSUME NEW c \in dedupe.list, b = [dup |-> c.dup, canon |-> c.canon, at |-> bound.dedupes]
          PROVE  SameKey(b.dup, b.canon)' /\ b.at < bound'.dedupes
      <4>1. c.dup \in 1..lastId /\ c.canon \in 1..lastId /\ SameKey(c.dup, c.canon)
        BY DEF Kept, ListRight
      <4>2. SameKey(c.dup, c.canon)'
        BY <1>1, <4>1, KeysStay
      <4> QED BY <1>1, <1>4, <3>2, <4>2, Applies
    <3> QED BY <1>4, <3>1, <3>2, Applies
  <2>2. ASSUME NEW a \in audits', NEW b \in audits', a.canon = b.dup PROVE a.at < b.at
    <3>1. \A d \in audits : d.dup \in hidden
      BY <1>1, AuditIds
    <3>2. /\ \A c, d \in dedupe.list : c.canon # d.dup
          /\ \A c \in dedupe.list : c.canon \notin hidden
      BY DEF Kept, ListRight
    <3>3. CASE a \in audits /\ b \in audits
      BY <1>1, <2>2, <3>3 DEF AuditsChained
    <3>4. CASE a \in audits /\ b \notin audits
      <4>1. b.at = bound.dedupes
        BY <1>4, <3>4, Applies
      <4> QED BY <1>3, <3>4, <4>1
    <3>5. CASE a \notin audits
      <4>1. PICK c \in dedupe.list : a.canon = c.canon
        BY <1>4, <3>5, Applies
      <4>2. b \notin audits
        BY <2>2, <3>1, <3>2, <4>1
      <4>3. \E d \in dedupe.list : b.dup = d.dup
        BY <1>4, <4>2, Applies
      <4> QED BY <2>2, <3>2, <4>1, <4>3
    <3> QED BY <3>3, <3>4, <3>5
  <2> QED BY <2>1, <2>2 DEF AuditsChained
<1>5. ASSUME NEW scope \in Jobs \cup {None}, Restore(scope) PROVE AuditsChained'
  <2>1. audits' \subseteq audits /\ bound'.dedupes = bound.dedupes
    BY <1>1, <1>5 DEF Restore, Command, BoundTyped
  <2> QED BY <1>1, <1>2, <2>1 DEF AuditsChained
<1>6. CASE UNCHANGED <<hidden, audits>> /\ bound'.dedupes = bound.dedupes
  BY <1>1, <1>2, <1>6 DEF AuditsChained
<1> QED BY <1>1, <1>4, <1>5, <1>6, MarksAct

\* A run looks up canonical rows: the one of the lowest id, for every key.
LEMMA FoundFrom ==
    ASSUME RowsTyped, NEW scope
    PROVE  LET found == DupGroups(rows, hidden, scope)
           IN  /\ \A f, h \in found : f.key = h.key => f = h
               /\ \A f \in found : f.canon \in 1..lastId /\ f.canon \notin hidden /\ HasKey(f.canon, f.key)
<1> DEFINE S == IF scope = None THEN Shown(rows, hidden) ELSE RowsOf(Shown(rows, hidden), scope)
           Twins(r) == {t \in S : DupKey(t) = DupKey(r)}
           found == DupGroups(rows, hidden, scope)
<1>1. S \subseteq rows /\ \A r \in S : r.id \notin hidden
  BY DEF Shown, RowsOf
<1>2. \A r \in rows : r.id \in 1..lastId
  BY DEF RowsTyped, IsTable
<1>3. \A r, s \in rows : r.id = s.id => r = s
  BY DEF RowsTyped, IsTable
<1>4. ASSUME NEW f \in found
      PROVE  \E r \in S : f = [key |-> DupKey(r), canon |-> r.id] /\ \A t \in Twins(r) : r.id <= t.id
  BY DEF DupGroups
<1> HIDE DEF S, found
<1>5. ASSUME NEW f \in found PROVE f.canon \in 1..lastId /\ f.canon \notin hidden /\ HasKey(f.canon, f.key)
  <2>1. PICK r \in S : f = [key |-> DupKey(r), canon |-> r.id]
    BY <1>4
  <2>2. f.key = DupKey(r) /\ f.canon = r.id
    BY <2>1
  <2>3. r \in rows /\ r.id \notin hidden /\ r.id \in 1..lastId
    BY <1>1, <1>2
  <2> QED BY <1>3, <2>2, <2>3 DEF HasKey
<1>6. ASSUME NEW f \in found, NEW h \in found, f.key = h.key PROVE f = h
  <2>1. PICK r \in S : f = [key |-> DupKey(r), canon |-> r.id] /\ \A t \in Twins(r) : r.id <= t.id
    BY <1>4
  <2>2. PICK s \in S : h = [key |-> DupKey(s), canon |-> s.id] /\ \A t \in Twins(s) : s.id <= t.id
    BY <1>4
  <2>3. DupKey(r) = DupKey(s)
    BY <1>6, <2>1, <2>2
  <2>4. r.id <= s.id /\ s.id <= r.id
    BY <2>1, <2>2, <2>3
  <2>5. lastId \in Nat /\ r.id \in 1..lastId /\ s.id \in 1..lastId
    BY <1>1, <1>2, Settings DEF RowsTyped
  <2>6. r.id = s.id
    BY <2>4, <2>5
  <2> QED BY <2>1, <2>2, <2>3, <2>6
<1> QED BY <1>5, <1>6 DEF found

\* Marks only grow when a run ends, which has nothing in hand after it.
LEMMA MarksFall ==
    ASSUME AutoDedupe \subseteq {FALSE}, BoundTyped, [Next]_vars, ~DedupeApplies
    PROVE  hidden' \subseteq hidden
<1>1. ASSUME NEW scope \in Jobs \cup {None}, Restore(scope) PROVE hidden' \subseteq hidden
  BY <1>1 DEF Restore
<1> QED BY <1>1, MarksAct

LEMMA FoundStep ==
    ASSUME AutoDedupe \subseteq {FALSE}, Kept, [Next]_vars
    PROVE  FoundRight'
<1>1. IInv /\ FoundRight /\ RowsTyped /\ BoundTyped
  BY DEF Kept, IInv
<1>2. CASE DedupeApplies \/ DedupeLists
  <2>1. /\ dedupe'.found = {}
        /\ dedupe' = [pc |-> dedupe'.pc, scope |-> dedupe'.scope, found |-> dedupe'.found, list |-> dedupe'.list]
    <3>1. CASE DedupeApplies
      BY <3>1 DEF DedupeApplies, NoDedupe
    <3>2. CASE DedupeLists
      <4> DEFINE list == Duplicates(rows, hidden, dedupe.found)
      <4>1. dedupe' = [dedupe EXCEPT !.pc = "listed", !.found = {}, !.list = list]
        BY <3>2 DEF DedupeLists
      <4> HIDE DEF list
      <4>2. dedupe' = [pc |-> "listed", scope |-> dedupe.scope, found |-> {}, list |-> list]
        BY <1>1, <4>1 DEF FoundRight
      <4> QED BY <4>2
    <3> QED BY <1>2, <3>1, <3>2
  <2> QED BY <2>1 DEF FoundRight
<1>3. ASSUME NEW scope \in Jobs \cup {None}, DedupeGroups(scope) PROVE FoundRight'
  <2>1. /\ dedupe' = [pc |-> "grouped", scope |-> scope, found |-> DupGroups(rows, hidden, scope), list |-> {}]
        /\ UNCHANGED <<rows, lastId, hidden>>
    BY <1>3 DEF DedupeGroups, store, derived
  <2> DEFINE found == DupGroups(rows, hidden, scope)
  <2>2. /\ \A f, h \in found : f.key = h.key => f = h
        /\ \A f \in found : f.canon \in 1..lastId /\ f.canon \notin hidden /\ HasKey(f.canon, f.key)
    BY <1>1, FoundFrom
  <2>3. /\ dedupe'.pc = "grouped" /\ dedupe'.found = found
        /\ dedupe' = [pc |-> dedupe'.pc, scope |-> dedupe'.scope, found |-> dedupe'.found, list |-> dedupe'.list]
    BY <2>1
  <2>4. \A i, k : HasKey(i, k)' = HasKey(i, k)
    BY <2>1 DEF HasKey
  <2> HIDE DEF found
  <2> QED BY <2>1, <2>2, <2>3, <2>4 DEF FoundRight
<1>4. ASSUME UNCHANGED dedupe, hidden' \subseteq hidden PROVE FoundRight'
  <2>1. ASSUME NEW f \in dedupe.found
        PROVE  f.canon \in 1..lastId' /\ f.canon \notin hidden' /\ HasKey(f.canon, f.key)'
    BY <1>1, <1>4, KeysStay DEF FoundRight
  <2> QED BY <1>1, <1>4, <2>1 DEF FoundRight
<1>5. \/ DedupeApplies \/ DedupeLists
      \/ \E scope \in Jobs \cup {None} : DedupeGroups(scope)
      \/ UNCHANGED dedupe
  BY DEF Next, vars, sessions, IndexEnds, IndexAborts, IndexFails, IndexCommits, WarcsChange, IndexBegins,
         IndexRefused, Restore, RebuildSelects, RebuildWrites, BackfillOutlinks, RecomputeSignals,
         ChangesRead, ChangesWritten
<1> QED BY <1>1, <1>2, <1>3, <1>4, <1>5, MarksFall

\* The pairs of a run: no canonical row is marked with it.
LEMMA ListFrom ==
    ASSUME RowsTyped, FoundRight
    PROVE  LET list == Duplicates(rows, hidden, dedupe.found)
           IN  /\ \A c, d \in list : c.canon # d.dup
               /\ \A c \in list : /\ c.dup \in 1..lastId /\ c.canon \in 1..lastId
                                  /\ c.canon \notin hidden /\ SameKey(c.dup, c.canon)
<1> DEFINE list == Duplicates(rows, hidden, dedupe.found)
<1>1. \A r \in rows : r.id \in 1..lastId
  BY DEF RowsTyped, IsTable
<1>2. \A r, s \in rows : r.id = s.id => r = s
  BY DEF RowsTyped, IsTable
<1>3. ASSUME NEW c \in list
      PROVE  \E f \in dedupe.found, r \in rows :
               /\ DupKey(r) = f.key /\ r.id # f.canon
               /\ c.dup = r.id /\ c.canon = f.canon
  <2>1. PICK f \in dedupe.found, r \in Shown(rows, hidden) :
          DupKey(r) = f.key /\ r.id # f.canon /\ c = [dup |-> r.id, canon |-> f.canon]
    BY DEF Duplicates
  <2> QED BY <2>1 DEF Shown
<1> HIDE DEF list
<1>4. ASSUME NEW c \in list
      PROVE  /\ c.dup \in 1..lastId /\ c.canon \in 1..lastId
             /\ c.canon \notin hidden /\ SameKey(c.dup, c.canon)
  <2>1. PICK f \in dedupe.found, r \in rows : DupKey(r) = f.key /\ c.dup = r.id /\ c.canon = f.canon
    BY <1>3
  <2>2. f.canon \in 1..lastId /\ f.canon \notin hidden /\ HasKey(f.canon, f.key)
    BY DEF FoundRight
  <2>3. SameKey(c.dup, c.canon)
    BY <1>2, <2>1, <2>2 DEF SameKey, HasKey
  <2> QED BY <1>1, <2>1, <2>2, <2>3
<1>5. ASSUME NEW c \in list, NEW d \in list, c.canon = d.dup PROVE FALSE
  <2>1. PICK f \in dedupe.found : c.canon = f.canon
    BY <1>3
  <2>2. PICK h \in dedupe.found, r \in rows : DupKey(r) = h.key /\ r.id # h.canon /\ d.dup = r.id
    BY <1>3
  <2>3. DupKey(r) = f.key
    BY <1>5, <2>1, <2>2 DEF FoundRight, HasKey
  <2> QED BY <1>5, <2>1, <2>2, <2>3 DEF FoundRight
<1> QED BY <1>4, <1>5 DEF list

LEMMA ListStep ==
    ASSUME AutoDedupe \subseteq {FALSE}, Kept, [Next]_vars
    PROVE  ListRight'
<1>1. IInv /\ FoundRight /\ ListRight /\ RowsTyped /\ BoundTyped
  BY DEF Kept, IInv
<1>2. CASE DedupeApplies \/ \E scope \in Jobs \cup {None} : DedupeGroups(scope)
  <2>1. dedupe'.list = {}
    BY <1>2 DEF DedupeApplies, DedupeGroups, NoDedupe
  <2> QED BY <2>1 DEF ListRight
<1>3. CASE DedupeLists
  <2> DEFINE list == Duplicates(rows, hidden, dedupe.found)
  <2>1. /\ dedupe' = [dedupe EXCEPT !.pc = "listed", !.found = {}, !.list = list]
        /\ UNCHANGED <<rows, lastId, hidden>>
    BY <1>3 DEF DedupeLists, store, derived
  <2>2. /\ \A c, d \in list : c.canon # d.dup
        /\ \A c \in list : /\ c.dup \in 1..lastId /\ c.canon \in 1..lastId
                           /\ c.canon \notin hidden /\ SameKey(c.dup, c.canon)
    BY <1>1, ListFrom
  <2>3. dedupe'.pc = "listed" /\ dedupe'.list = list
    <3>1. dedupe = [pc |-> dedupe.pc, scope |-> dedupe.scope, found |-> dedupe.found, list |-> dedupe.list]
      BY <1>1 DEF FoundRight
    <3> HIDE DEF list
    <3> QED BY <2>1, <3>1
  <2>4. \A i, j : SameKey(i, j)' = SameKey(i, j)
    BY <2>1 DEF SameKey
  <2> HIDE DEF list
  <2> QED BY <2>1, <2>2, <2>3, <2>4 DEF ListRight
<1>4. ASSUME UNCHANGED dedupe, hidden' \subseteq hidden PROVE ListRight'
  <2>1. ASSUME NEW c \in dedupe.list
        PROVE  /\ c.dup \in 1..lastId' /\ c.canon \in 1..lastId'
               /\ c.canon \notin hidden' /\ SameKey(c.dup, c.canon)'
    BY <1>1, <1>4, KeysStay DEF ListRight
  <2> QED BY <1>1, <1>4, <2>1 DEF ListRight
<1>5. \/ DedupeApplies \/ DedupeLists
      \/ \E scope \in Jobs \cup {None} : DedupeGroups(scope)
      \/ UNCHANGED dedupe
  BY DEF Next, vars, sessions, IndexEnds, IndexAborts, IndexFails, IndexCommits, WarcsChange, IndexBegins,
         IndexRefused, Restore, RebuildSelects, RebuildWrites, BackfillOutlinks, RecomputeSignals,
         ChangesRead, ChangesWritten
<1> QED BY <1>1, <1>2, <1>3, <1>4, <1>5, MarksFall

\* For every row there is a shown one of its key: the canonical row of the last
\* run that marked a row of the key.
LEMMA ShownOfKey ==
    ASSUME Kept, NEW r \in rows
    PROVE  \E s \in Shown(rows, hidden) : DupKey(s) = DupKey(r)
<1>1. CASE r.id \notin hidden
  BY <1>1 DEF Shown
<1>2. CASE r.id \in hidden
  <2> DEFINE A == {a \in audits : \E t \in rows : t.id = a.dup /\ DupKey(t) = DupKey(r)}
             left == {n \in Nat : \E a \in A : n = bound.dedupes - a.at}
  <2>1. \A i \in hidden : \E a \in audits : a.dup = i
    BY DEF Kept, IInv, AuditsTyped, Audited, DupsOf
  <2>2. /\ bound.dedupes \in Nat
        /\ \A a \in audits : a.at \in Nat /\ a.at < bound.dedupes /\ SameKey(a.dup, a.canon)
        /\ \A a, b \in audits : a.canon = b.dup => a.at < b.at
        /\ \A a \in audits : a.canon \in IdsOf(rows)
    BY AuditIds DEF Kept, AuditsChained, IInv, BoundTyped
  <2>3. PICK m \in left : \A n \in left : ~(n < m)
    <3>1. PICK a \in A : TRUE
      BY <1>2, <2>1
    <3>2. bound.dedupes - a.at \in left
      BY <2>2
    <3>3. PICK m \in left : \A n \in left : <<n, m>> \notin OpToRel(<, Nat)
      <4>1. left \subseteq Nat
        OBVIOUS
      <4> HIDE DEF left
      <4> QED BY <3>2, <4>1, NatLessThanWellFounded, WFMin
    <3> QED BY <3>3 DEF OpToRel
  <2>4. PICK a \in A : m = bound.dedupes - a.at
    OBVIOUS
  <2>5. PICK t \in rows, s \in rows : t.id = a.dup /\ DupKey(t) = DupKey(r) /\ s.id = a.canon
    BY <2>2 DEF IdsOf
  <2>6. DupKey(s) = DupKey(r)
    BY <2>2, <2>5 DEF SameKey
  <2>7. s.id \notin hidden
    <3>1. SUFFICES ASSUME NEW b \in audits, b.dup = s.id PROVE FALSE
      BY <2>1
    <3>2. b \in A /\ a.at < b.at
      BY <2>2, <2>5, <2>6, <3>1
    <3>3. bound.dedupes - b.at \in left
      BY <2>2, <3>2
    <3> QED BY <2>2, <2>3, <2>4, <3>2, <3>3
  <2> QED BY <2>6, <2>7 DEF Shown
<1> QED BY <1>1, <1>2

LEMMA KeptLists == Kept => ContentStaysListed
<1> SUFFICES ASSUME Kept, NEW stored \in BOOLEAN
             PROVE  {DupKey(r) : r \in BrowseSnapshots(stored)} = {DupKey(r) : r \in rows}
  BY DEF ContentStaysListed
<1> DEFINE R == Shown(rows, hidden)
<1>1. R \subseteq rows /\ IsTable(R, lastId) /\ lastId \in Nat
  BY PartIsTable, Settings DEF Kept, IInv, RowsTyped, Shown
<1>2. BrowseSnapshots(stored) \subseteq R
  BY DEF BrowseSnapshots
<1>3. ASSUME NEW r \in rows PROVE \E s \in BrowseSnapshots(stored) : DupKey(s) = DupKey(r)
  <2>1. PICK s \in R : DupKey(s) = DupKey(r)
    BY ShownOfKey
  <2>2. CASE stored
    BY <2>1, <2>2 DEF BrowseSnapshots
  <2>3. CASE ~stored
    <3> DEFINE T == {t \in R : DupKey(t) = DupKey(r)}
    <3>1. IsTable(T, lastId) /\ T # {}
      BY <1>1, <2>1, PartIsTable
    <3>2. PICK m \in T : \A t \in T : Newer(m, t)
      BY <1>1, <3>1, NewestExists
    <3>3. m \in R /\ DupKey(m) = DupKey(r)
      OBVIOUS
    <3>4. \A t \in R : DupKey(t) = DupKey(m) => Newer(m, t)
      BY <3>2, <3>3
    <3> QED BY <2>3, <3>3, <3>4 DEF BrowseSnapshots
  <2> QED BY <2>2, <2>3
<1> QED BY <1>1, <1>2, <1>3

LEMMA KeptInit == Init => Kept
<1> SUFFICES ASSUME Init PROVE Kept
  OBVIOUS
<1>1. IInv
  BY InitTyped
<1>2. AuditsChained /\ FoundRight /\ ListRight
  BY DEF Init, AuditsChained, FoundRight, ListRight, NoDedupe
<1> QED BY <1>1, <1>2 DEF Kept

LEMMA KeptHolds == ASSUME AutoDedupe \subseteq {FALSE} PROVE Spec => []Kept
<1>1. Kept /\ [Next]_vars => Kept'
  <2> SUFFICES ASSUME Kept, [Next]_vars PROVE Kept'
    OBVIOUS
  <2>1. IInv'
    BY StepTyped DEF Kept
  <2>2. AuditsChained' /\ FoundRight' /\ ListRight'
    BY ChainStep, FoundStep, ListStep
  <2> QED BY <2>1, <2>2 DEF Kept
<1> QED BY <1>1, KeptInit, PTL DEF Spec

\* Every page, day and content that the archive holds is in the listing of
\* snapshots (ContentStaysListed), through same-day deduplication of any scope,
\* its reversal and index runs in between, as long as index runs do not
\* deduplicate themselves.
THEOREM ContentListed == ASSUME AutoDedupe \subseteq {FALSE} PROVE Spec => []ContentStaysListed
<1>1. Spec => []Kept
  BY KeptHolds
<1> QED BY <1>1, KeptLists, PTL

-----------------------------------------------------------------------------
(* Events.                                                                 *)

\* An event's earlier capture is one of the same page, and earlier; what a run
\* has listed is still the row of its id, if there is one.
EventsEarlier ==
    /\ \A e \in events : \A r, s \in rows :
          r.id = e.to /\ s.id = e.from => GroupOf[r.cap] = GroupOf[s.cap] /\ Earlier(s, r)
    /\ \A r \in changes.list, s \in rows : r.id = s.id => r = s

LEMMA NewEventsEarlier ==
    ASSUME RowsTyped, EventsTyped, EventsEarlier, changes.open,
           NEW new, new = IF changes.mode = "since" THEN EventsSince(changes.list)
                          ELSE EventsBackfill(changes.list, changes.done),
           NEW e \in new, NEW r \in rows, NEW s \in rows, r.id = e.to, s.id = e.from
    PROVE  GroupOf[r.cap] = GroupOf[s.cap] /\ Earlier(s, r)
<1>1. /\ \A p \in changes.list, q \in rows : p.id = q.id => p = q
      /\ IsTable(rows, lastId) /\ IsTable(changes.list, lastId) /\ lastId \in Nat
  BY Settings DEF EventsEarlier, RowsTyped, EventsTyped
<1>2. s.id # None
  BY <1>1 DEF IsTable, None
<1>3. CASE changes.mode = "since"
  <2> DEFINE from(p) == {q \in InGroup(rows, GroupOf[p.cap]) : TimeOf[q.cap] < TimeOf[p.cap]}
  <2>1. PICK p \in changes.list : e = Pair(p, from(p))
    BY <1>3 DEF EventsSince, FirstFew
  <2>2. e.to = p.id /\ e.from = LatestId(from(p))
    BY <2>1 DEF Pair, Event
  <2>3. p = r
    BY <1>1, <2>2
  <2>4. from(p) # {} /\ IsTable(from(p), lastId)
    <3>1. from(p) \subseteq rows
      BY DEF InGroup
    <3>2. from(p) # {}
      BY <1>2, <2>2 DEF LatestId
    <3> QED BY <1>1, <3>1, <3>2, PartIsTable
  <2>5. PICK m \in from(p) : LatestId(from(p)) = m.id
    <3> HIDE DEF from
    <3> QED BY <1>1, <2>4, LatestIs
  <2>6. m \in rows /\ GroupOf[m.cap] = GroupOf[p.cap] /\ TimeOf[m.cap] < TimeOf[p.cap]
    BY <2>5 DEF InGroup
  <2>7. m = s
    BY <1>1, <2>2, <2>5, <2>6 DEF IsTable
  <2>8. TimeOf[s.cap] \in Nat /\ TimeOf[r.cap] \in Nat
    BY <1>1, Settings DEF IsTable
  <2>9. TimeOf[r.cap] > TimeOf[s.cap] /\ s # r
    BY <2>3, <2>6, <2>7, <2>8
  <2> QED BY <2>3, <2>6, <2>7, <2>9 DEF Earlier, Newer
<1>4. CASE changes.mode # "since"
  <2> DEFINE from(p) == {q \in InGroup(changes.list, GroupOf[p.cap]) : Earlier(q, p)}
  <2>1. PICK p \in changes.list : e = Pair(p, from(p))
    BY <1>4 DEF EventsBackfill
  <2>2. e.to = p.id /\ e.from = LatestId(from(p))
    BY <2>1 DEF Pair, Event
  <2>3. p = r
    BY <1>1, <2>2
  <2>4. from(p) # {} /\ IsTable(from(p), lastId)
    <3>1. from(p) \subseteq changes.list
      BY DEF InGroup
    <3>2. from(p) # {}
      BY <1>2, <2>2 DEF LatestId
    <3> QED BY <1>1, <3>1, <3>2, PartIsTable
  <2>5. PICK m \in from(p) : LatestId(from(p)) = m.id
    <3> HIDE DEF from
    <3> QED BY <1>1, <2>4, LatestIs
  <2>6. m \in changes.list /\ GroupOf[m.cap] = GroupOf[p.cap] /\ Earlier(m, p)
    BY <2>5 DEF InGroup
  <2>7. m = s
    BY <1>1, <2>2, <2>5, <2>6
  <2> QED BY <2>3, <2>6, <2>7
<1> QED BY <1>3, <1>4

LEMMA EarlierStep ==
    ASSUME RowsTyped, EventsTyped, EventsEarlier, [Next]_vars PROVE EventsEarlier'
<1>0. IsTable(rows, lastId) /\ lastId \in Nat
  BY Settings DEF RowsTyped
<1>1. ASSUME IndexCommits \/ IndexFails PROVE EventsEarlier'
  <2>1. PICK C : Swaps(C)
    BY <1>1, IndexSwaps
  <2> DEFINE old == RowsOf(rows, index.job)
             new == NewRows(C)
             gone == IdsOf(old)
             kept(e) == [e EXCEPT !.from = IF @ \in gone THEN None ELSE @]
  <2>2. events' = {kept(e) : e \in {e \in events : e.to \notin gone}}
    BY <2>1 DEF Swaps, Replaced
  <2>3. /\ rows' = (rows \ old) \cup new
        /\ \A i \in IdsOf(new) : i > lastId
        /\ \A i \in IdsOf(rows) : i \in 1..lastId
    BY <2>1, SwapIds
  <2>4. changes' = changes
    BY <1>1 DEF IndexCommits, IndexFails
  <2> HIDE DEF old, new
  <2>5. ASSUME NEW r \in rows', r.id \in 0..lastId PROVE r \in rows
    BY <1>0, <2>3, <2>5 DEF IdsOf
  <2>6. ASSUME NEW e \in events, NEW r \in rows', NEW s \in rows', r.id = kept(e).to, s.id = kept(e).from
        PROVE  GroupOf[r.cap] = GroupOf[s.cap] /\ Earlier(s, r)
    <3>1. e \in [to : IdsOf(rows), from : IdsOf(rows) \cup {None}, kind : Kinds]
      BY DEF EventsTyped, EventTable
    <3>2. kept(e).to = e.to /\ kept(e).from \in {e.from, None}
      BY <3>1
    <3> HIDE DEF kept
    <3>3. e.to \in 1..lastId /\ e.from \in 0..lastId
      BY <1>0, <2>3, <3>1 DEF None
    <3>4. r \in rows /\ r.id = e.to
      BY <1>0, <2>5, <2>6, <3>2, <3>3
    <3>5. s.id \in 0..lastId
      BY <1>0, <2>6, <3>2, <3>3 DEF None
    <3>6. s \in rows /\ s.id # None
      BY <1>0, <2>5, <3>5 DEF IsTable, None
    <3>7. s.id = e.from
      BY <2>6, <3>2, <3>6
    <3> QED BY <3>4, <3>6, <3>7 DEF EventsEarlier
  <2> HIDE DEF kept
  <2>7. ASSUME NEW r \in changes.list, NEW s \in rows', r.id = s.id PROVE r = s
    <3>1. r.id \in 1..lastId
      BY DEF EventsTyped, IsTable
    <3>2. s \in rows
      BY <1>0, <2>5, <2>7, <3>1
    <3> QED BY <2>7, <3>2 DEF EventsEarlier
  <2> QED BY <2>2, <2>4, <2>6, <2>7 DEF EventsEarlier
<1>2. ASSUME NEW mode \in {"since", "backfill"}, ChangesRead(mode) PROVE EventsEarlier'
  <2>1. UNCHANGED <<rows, events>>
    BY <1>2 DEF ChangesRead, store, derived
  <2>2. changes'.list \subseteq rows
    BY <1>2 DEF ChangesRead, Recent
  <2>3. \A r, s \in rows : r.id = s.id => r = s
    BY <1>0 DEF IsTable
  <2>4. \A r \in changes'.list, s \in rows' : r.id = s.id => r = s
    BY <2>1, <2>2, <2>3
  <2> QED BY <2>1, <2>4 DEF EventsEarlier
<1>3. CASE ChangesWritten
  <2> DEFINE new == IF changes.mode = "since" THEN EventsSince(changes.list)
                    ELSE EventsBackfill(changes.list, changes.done)
  <2>1. /\ rows' = rows /\ changes.open /\ changes' = NoChanges
        /\ events' = events \/ events' = events \cup new
    BY <1>3 DEF ChangesWritten, store
  <2>2. \A e \in new, r, s \in rows :
           r.id = e.to /\ s.id = e.from => GroupOf[r.cap] = GroupOf[s.cap] /\ Earlier(s, r)
    <3>1. SUFFICES ASSUME NEW e \in new, NEW r \in rows, NEW s \in rows, r.id = e.to, s.id = e.from
                   PROVE  GroupOf[r.cap] = GroupOf[s.cap] /\ Earlier(s, r)
      OBVIOUS
    <3> DEFINE n == new
    <3>2. n = new
      OBVIOUS
    <3> HIDE DEF n
    <3> QED BY <2>1, <3>1, <3>2, NewEventsEarlier
  <2> HIDE DEF new
  <2> QED BY <2>1, <2>2 DEF EventsEarlier, NoChanges
<1>4. CASE UNCHANGED <<rows, events, changes>>
  BY <1>4 DEF EventsEarlier
<1>5. \/ IndexCommits \/ IndexFails \/ ChangesWritten
      \/ \E mode \in {"since", "backfill"} : ChangesRead(mode)
      \/ UNCHANGED <<rows, events, changes>>
  BY DEF Next, vars, store, derived, sessions, IndexEnds, IndexAborts, WarcsChange, IndexBegins, IndexRefused,
         DedupeGroups, DedupeLists, DedupeApplies, Restore, RebuildSelects, RebuildWrites, BackfillOutlinks,
         RecomputeSignals
<1> QED BY <1>1, <1>2, <1>3, <1>4, <1>5

LEMMA EarlierInit == Init => EventsEarlier
  BY DEF Init, EventsEarlier, NoChanges

LEMMA EarlierHolds == Spec => [](IInv /\ EventsEarlier)
<1>1. IInv /\ EventsEarlier /\ [Next]_vars => (IInv /\ EventsEarlier)'
  BY StepTyped, EarlierStep DEF IInv
<1>2. Init => IInv /\ EventsEarlier
  BY InitTyped, EarlierInit
<1> QED BY <1>1, <1>2, PTL DEF Spec

-----------------------------------------------------------------------------
(* Pages and captures as the endpoints read them.                          *)

\* Captures of one page, day and content are all of good status, or none is:
\* a body is not served once as a page and once as an error.
StatusOfContent ==
    \A c, d \in Captures :
        GroupOf[c] = GroupOf[d] /\ DayOf[c] = DayOf[d] /\ HashOf[c] = HashOf[d]
        => (QualityOf[c] \in {0, 2} <=> QualityOf[d] \in {0, 2})

LEMMA RowHere ==
    ASSUME NEW n, IsTable(rows, n), NEW r \in rows
    PROVE  RowOf(r.id) = r
<1>1. \A s \in rows : s.id = r.id => s = r
  BY DEF IsTable
<1> QED BY <1>1 DEF RowOf

\* Rows of good status of a group, and of the rows not marked.
LEMMA OkCommutes ==
    ASSUME NEW R, NEW g
    PROVE  /\ OkRows(InGroup(R, g)) = InGroup(OkRows(R), g)
           /\ g \in GroupsIn(R) <=> InGroup(R, g) # {}
  BY DEF OkRows, InGroup, GroupsIn

\* What the page table says of a page.
LEMMA PageSays ==
    ASSUME Follows, NEW g \in Groups \ owed.pages
    PROVE  /\ pages[g] # NoPage <=> InGroup(rows, g) # {}
           /\ InGroup(rows, g) # {} => /\ pages[g].latest = LatestId(InGroup(rows, g))
                                       /\ pages[g].ok = LatestId(InGroup(OkRows(rows), g))
                                       /\ pages[g].last = LastCapture(InGroup(rows, g))
<1> DEFINE S == InGroup(rows, g)
           Times == {TimeOf[r.cap] : r \in S}
<1>1. pages[g] = PageOf(rows, g)
  BY DEF Follows, PagesFollowRows
<1>2. CASE S = {}
  BY <1>1, <1>2 DEF PageOf
<1>3. CASE S # {}
  <2>1. pages[g] = [count |-> Cardinality(S),
                    first |-> CHOOSE t \in Times : \A u \in Times : t <= u,
                    last |-> CHOOSE t \in Times : \A u \in Times : t >= u,
                    latest |-> LatestId(S),
                    ok |-> LatestId(OkRows(S))]
    BY <1>1, <1>3 DEF PageOf
  <2>2. /\ pages[g].last = CHOOSE t \in Times : \A u \in Times : t >= u
        /\ pages[g].latest = LatestId(S) /\ pages[g].ok = LatestId(OkRows(S))
    BY <2>1
  <2>3. pages[g] # NoPage
    <3>1. DOMAIN pages[g] = {"count", "first", "last", "latest", "ok"}
      BY <2>1
    <3>2. DOMAIN NoPage = {"count"}
      BY DEF NoPage
    <3> QED BY <3>1, <3>2
  <2>4. LastCapture(S) = CHOOSE t \in Times : \A u \in Times : t >= u
    BY DEF LastCapture
  <2> QED BY <1>3, <2>2, <2>3, <2>4, OkCommutes
<1> QED BY <1>2, <1>3

\* The newest row of a set of rows is a row, and the only one with that id.
LEMMA LatestRow ==
    ASSUME IInv, NEW R, R \subseteq rows, R # {}
    PROVE  \E m \in R : /\ LatestId(R) = m.id /\ m.id # None /\ RowOf(m.id) = m
                        /\ \A s \in R : Newer(m, s)
<1>1. IsTable(rows, lastId) /\ lastId \in Nat
  BY Settings DEF IInv, RowsTyped
<1>2. IsTable(R, lastId)
  BY <1>1, PartIsTable
<1>3. PICK m \in R : LatestId(R) = m.id /\ \A s \in R : Newer(m, s)
  BY <1>1, <1>2, LatestIs
<1>4. m.id # None /\ RowOf(m.id) = m
  BY <1>1, RowHere DEF IsTable, None
<1> QED BY <1>3, <1>4

\* The time of the last capture is that of the newest.
LEMMA LastIs ==
    ASSUME IInv, NEW R, R \subseteq rows, R # {}
    PROVE  /\ LastCapture(R) \in Nat /\ \E r \in R : LastCapture(R) = TimeOf[r.cap]
           /\ \A r \in R : LastCapture(R) >= TimeOf[r.cap]
<1> DEFINE T == {TimeOf[r.cap] : r \in R}
<1>1. \A r \in R : TimeOf[r.cap] \in Nat
  BY Settings DEF IInv, RowsTyped, IsTable
<1>2. PICK m \in R : \A s \in R : Newer(m, s)
  BY LatestRow
<1>3. \A s \in R : TimeOf[m.cap] >= TimeOf[s.cap]
  BY <1>1, <1>2 DEF Newer
<1>4. TimeOf[m.cap] \in T /\ \A u \in T : TimeOf[m.cap] >= u
  BY <1>3
<1>5. LastCapture(R) = CHOOSE t \in T : \A u \in T : t >= u
  BY DEF LastCapture
<1>6. LastCapture(R) \in T /\ \A u \in T : LastCapture(R) >= u
  BY <1>4, <1>5
<1> QED BY <1>1, <1>6

-----------------------------------------------------------------------------

\* Every page has a row that is shown, one of good status if it has such a row.
LEMMA PagesShown ==
    ASSUME Kept, StatusOfContent
    PROVE  /\ GroupsIn(Shown(rows, hidden)) = GroupsIn(rows)
           /\ GroupsIn(OkRows(Shown(rows, hidden))) = GroupsIn(OkRows(rows))
<1>1. ASSUME NEW r \in rows
      PROVE  \E s \in Shown(rows, hidden) :
                s \in rows /\ GroupOf[s.cap] = GroupOf[r.cap] /\ (r \in OkRows(rows) => s \in OkRows(rows))
  <2>1. PICK s \in Shown(rows, hidden) : DupKey(s) = DupKey(r)
    BY ShownOfKey
  <2>2. s \in rows
    BY DEF Shown
  <2>3. GroupOf[s.cap] = GroupOf[r.cap]
    BY <2>1 DEF DupKey
  <2>4. r \in OkRows(rows) => s \in OkRows(rows)
    <3>1. r.cap \in Captures /\ s.cap \in Captures
      BY <2>2 DEF Kept, IInv, RowsTyped, IsTable
    <3>2. GroupOf[r.cap] = GroupOf[s.cap] /\ DayOf[r.cap] = DayOf[s.cap] /\ HashOf[r.cap] = HashOf[s.cap]
      BY <2>1 DEF DupKey
    <3>3. QualityOf[r.cap] \in {0, 2} => QualityOf[s.cap] \in {0, 2}
      BY <3>1, <3>2 DEF StatusOfContent
    <3> QED BY <2>2, <3>3 DEF OkRows
  <2> QED BY <2>2, <2>3, <2>4
<1>2. Shown(rows, hidden) \subseteq rows
  BY DEF Shown
<1>3. OkRows(Shown(rows, hidden)) = OkRows(rows) \cap Shown(rows, hidden)
  BY <1>2 DEF OkRows
<1>4. GroupsIn(Shown(rows, hidden)) = GroupsIn(rows)
  BY <1>1, <1>2 DEF GroupsIn
<1>5. OkRows(rows) \subseteq rows
  BY DEF OkRows
<1>6. GroupsIn(OkRows(Shown(rows, hidden))) = GroupsIn(OkRows(rows))
  BY <1>1, <1>2, <1>3, <1>5 DEF GroupsIn
<1> QED BY <1>4, <1>6

\* The pages that the page table lists, among those it holds right.
LEMMA FastPages ==
    ASSUME Follows, NEW all \in BOOLEAN
    PROVE  /\ PagesFast(all) \ owed.pages
                = (IF all THEN GroupsIn(rows) ELSE GroupsIn(OkRows(rows))) \ owed.pages
           /\ PagesFast(all) \subseteq Groups
<1> DEFINE R == IF all THEN rows ELSE OkRows(rows)
<1>1. R \subseteq rows /\ IInv
  BY DEF OkRows, Follows
<1>2. GroupsIn(R) \subseteq Groups
  BY <1>1, Settings DEF GroupsIn, IInv, RowsTyped, IsTable
<1>3. ASSUME NEW g \in Groups \ owed.pages PROVE g \in PagesFast(all) <=> InGroup(R, g) # {}
  <2> DEFINE p == IF all THEN pages[g].latest ELSE pages[g].ok
  <2>1. g \in PagesFast(all) <=> pages[g] # NoPage /\ p \in IdsOf(rows)
    BY DEF PagesFast
  <2>2. InGroup(R, g) \subseteq InGroup(rows, g) /\ InGroup(R, g) \subseteq rows
    BY <1>1 DEF InGroup
  <2>3. InGroup(rows, g) # {} => p = LatestId(InGroup(R, g))
    BY PageSays
  <2>4. pages[g] # NoPage <=> InGroup(rows, g) # {}
    BY PageSays
  <2> HIDE DEF R, p
  <2>5. CASE InGroup(R, g) # {}
    <3>1. PICK m \in InGroup(R, g) : LatestId(InGroup(R, g)) = m.id
      BY <1>1, <2>2, <2>5, LatestRow
    <3>2. m.id \in IdsOf(rows)
      BY <2>2 DEF IdsOf
    <3> QED BY <2>1, <2>2, <2>3, <2>4, <2>5, <3>1, <3>2
  <2>6. CASE InGroup(R, g) = {}
    <3>1. LatestId(InGroup(R, g)) = None
      BY <2>6 DEF LatestId
    <3>2. None \notin IdsOf(rows)
      BY <1>1 DEF IdsOf, None, IInv, RowsTyped, IsTable
    <3> QED BY <2>1, <2>3, <2>4, <2>6, <3>1, <3>2
  <2> QED BY <2>5, <2>6
<1>4. PagesFast(all) \subseteq Groups
  BY DEF PagesFast
<1>5. \A g : g \in GroupsIn(R) <=> InGroup(R, g) # {}
  BY OkCommutes
<1>6. GroupsIn(R) = IF all THEN GroupsIn(rows) ELSE GroupsIn(OkRows(rows))
  OBVIOUS
<1> HIDE DEF R
<1> QED BY <1>2, <1>3, <1>4, <1>5, <1>6

LEMMA ListingsAgree == ASSUME Follows, Kept, StatusOfContent PROVE BrowseAgrees
<1> SUFFICES ASSUME NEW all \in BOOLEAN
             PROVE  /\ BrowsePages(all) \ owed.pages = PagesSlow(all) \ owed.pages
                    /\ hidden = {} /\ owed.pages = {} => FastItems(all) = SlowItems(all)
  BY DEF BrowseAgrees
<1> DEFINE R == IF all THEN rows ELSE OkRows(rows)
<1>0. IInv /\ R \subseteq rows
  BY DEF Follows, OkRows
<1>1. PagesSlow(all) = GroupsIn(R)
  BY PagesShown DEF PagesSlow
<1>2. PagesFast(all) \ owed.pages = GroupsIn(R) \ owed.pages /\ PagesFast(all) \subseteq Groups
  BY FastPages
<1>3. BrowsePages(all) \ owed.pages = PagesSlow(all) \ owed.pages
  BY <1>1, <1>2 DEF BrowsePages
<1>4. ASSUME hidden = {}, owed.pages = {} PROVE FastItems(all) = SlowItems(all)
  <2>1. Candidates(all, FALSE) = R
    BY <1>4 DEF Candidates, Shown
  <2> DEFINE p(g) == IF all THEN pages[g].latest ELSE pages[g].ok
  <2>2. PagesFast(all) = GroupsIn(R) /\ GroupsIn(R) \subseteq Groups
    BY <1>2, <1>4
  <2>3. ASSUME NEW g \in GroupsIn(R)
        PROVE  InGroup(R, g) # {} /\ InGroup(R, g) \subseteq rows /\ p(g) = LatestId(InGroup(R, g))
    <3>1. InGroup(R, g) \subseteq InGroup(rows, g) /\ InGroup(rows, g) \subseteq rows
      BY <1>0 DEF InGroup
    <3>2. InGroup(R, g) # {}
      BY OkCommutes
    <3>3. g \in Groups \ owed.pages
      BY <1>4, <2>2
    <3>4. /\ pages[g].latest = LatestId(InGroup(rows, g))
          /\ pages[g].ok = LatestId(InGroup(OkRows(rows), g))
      BY <3>1, <3>2, <3>3, PageSays
    <3> QED BY <3>1, <3>2, <3>4
  <2>4. FastItems(all) = {RowOf(p(g)) : g \in GroupsIn(R)}
    BY <2>2 DEF FastItems
  <2>5. SlowItems(all) = {r \in R : r.id = LatestId(InGroup(R, GroupOf[r.cap]))}
    BY <2>1 DEF SlowItems
  <2> HIDE DEF R, p
  <2>6. ASSUME NEW g \in GroupsIn(R)
        PROVE  /\ RowOf(p(g)) \in R /\ GroupOf[RowOf(p(g)).cap] = g
               /\ RowOf(p(g)).id = LatestId(InGroup(R, g))
    <3>1. PICK m \in InGroup(R, g) : LatestId(InGroup(R, g)) = m.id /\ RowOf(m.id) = m
      BY <1>0, <2>3, LatestRow
    <3>2. m \in R /\ GroupOf[m.cap] = g
      BY DEF InGroup
    <3> QED BY <2>3, <3>1, <3>2
  <2>7. FastItems(all) \subseteq SlowItems(all)
    BY <2>4, <2>5, <2>6
  <2>8. ASSUME NEW r \in SlowItems(all) PROVE r \in FastItems(all)
    <3>1. r \in R /\ r.id = LatestId(InGroup(R, GroupOf[r.cap])) /\ GroupOf[r.cap] \in GroupsIn(R)
      BY <2>5 DEF GroupsIn
    <3>2. r.id = p(GroupOf[r.cap])
      BY <2>3, <3>1
    <3>3. RowOf(r.id) = r
      BY <1>0, <3>1, RowHere DEF IInv, RowsTyped
    <3> QED BY <2>4, <3>1, <3>2, <3>3
  <2> QED BY <2>7, <2>8
<1> QED BY <1>3, <1>4

-----------------------------------------------------------------------------
(* Links, timelines and totals.                                            *)

LEMMA EventsShown ==
    ASSUME IInv, NEW e \in events
    PROVE  /\ e.to \in IdsOf(rows) /\ e.from \in IdsOf(rows) \cup {None}
           /\ Compares(e.from, e.to) /\ Compares(None, e.to)
<1>1. e.to \in IdsOf(rows) /\ e.from \in IdsOf(rows) \cup {None}
  BY DEF IInv, EventsTyped, EventTable
<1>2. {e.to, e.from} \ {None} \subseteq IdsOf(rows)
  BY <1>1
<1> QED BY <1>1, <1>2 DEF Compares

LEMMA LinksLead == ASSUME IInv PROVE LinksResolve
<1>1. ASSUME NEW l \in RssLinks
      PROVE  IF l[1] = "snapshot" THEN Detail(l[2]) ELSE Compares(None, l[2])
  <2>1. PICK e \in events : l = IF e.from = None THEN <<"snapshot", e.to>> ELSE <<"compare", e.to>>
    BY DEF RssLinks, Feed
  <2>2. e.to \in IdsOf(rows) /\ Compares(None, e.to)
    BY EventsShown
  <2>3. CASE e.from = None
    <3>1. l[1] = "snapshot" /\ l[2] = e.to
      BY <2>1, <2>3
    <3> QED BY <2>2, <3>1 DEF Detail
  <2>4. CASE e.from # None
    <3>1. l[1] = "compare" /\ l[2] = e.to
      BY <2>1, <2>4
    <3> QED BY <2>2, <3>1
  <2> QED BY <2>3, <2>4
<1>2. ASSUME NEW p \in ExportedPairs PROVE Compares(p[1], p[2])
  <2>1. PICK e \in events : p = <<e.from, e.to>>
    BY DEF ExportedPairs
  <2>2. p[1] = e.from /\ p[2] = e.to
    BY <2>1
  <2> QED BY <2>2, EventsShown
<1> QED BY <1>1, <1>2 DEF LinksResolve

LEMMA TimelinesRight == ASSUME Follows, EventsEarlier PROVE TimelinesHold
<1>1. IInv /\ IsTable(rows, lastId)
  BY DEF Follows, IInv, RowsTyped
<1> SUFFICES ASSUME NEW r \in rows
             PROVE  /\ GroupOf[r.cap] \notin owed.pages => pages[GroupOf[r.cap]].latest = LatestOf(r.id)
                    /\ \A t \in Timeline(r.id) : \A f \in t.compareFrom :
                          /\ \E u \in Timeline(r.id) : u.row.id = f /\ Earlier(u.row, t.row)
                          /\ Compares(f, t.row.id)
  BY DEF TimelinesHold
<1> DEFINE g == GroupOf[r.cap]
           from(t) == {e.from : e \in {e \in events : e.to = t.id}} \ {None}
           item(t) == [row |-> t, compareFrom |-> from(t)]
<1>2. RowOf(r.id) = r
  BY <1>1, RowHere
<1>3. g \in Groups
  BY <1>1, Settings DEF IsTable
<1>4. r \in InGroup(rows, g)
  BY DEF InGroup
<1>5. g \notin owed.pages => pages[g].latest = LatestOf(r.id)
  BY <1>2, <1>3, <1>4, PageSays DEF LatestOf
<1>6. Timeline(r.id) = {item(t) : t \in InGroup(rows, g)}
  BY <1>2 DEF Timeline
<1>7. ASSUME NEW t \in InGroup(rows, g), NEW f \in from(t)
      PROVE  /\ \E s \in InGroup(rows, g) : s.id = f /\ Earlier(s, t)
             /\ Compares(f, t.id)
  <2>1. PICK e \in events : e.to = t.id /\ e.from = f /\ f # None
    OBVIOUS
  <2>2. f \in IdsOf(rows) /\ Compares(f, t.id)
    BY <1>1, <2>1, EventsShown
  <2>3. PICK s \in rows : s.id = f
    BY <2>2 DEF IdsOf
  <2>4. t \in rows /\ GroupOf[t.cap] = g
    BY DEF InGroup
  <2>5. GroupOf[t.cap] = GroupOf[s.cap] /\ Earlier(s, t)
    BY <2>1, <2>3, <2>4 DEF EventsEarlier
  <2>6. s \in InGroup(rows, g)
    BY <2>3, <2>4, <2>5 DEF InGroup
  <2> QED BY <2>2, <2>3, <2>5, <2>6
<1>8. \A t : item(t).row = t /\ item(t).compareFrom = from(t)
  OBVIOUS
<1> HIDE DEF item, from
<1>9. ASSUME NEW i \in Timeline(r.id), NEW f \in i.compareFrom
      PROVE  /\ \E u \in Timeline(r.id) : u.row.id = f /\ Earlier(u.row, i.row)
             /\ Compares(f, i.row.id)
  <2>1. PICK t \in InGroup(rows, g) : i = item(t)
    BY <1>6
  <2>2. i.row = t /\ f \in from(t)
    BY <1>8, <2>1
  <2>3. PICK s \in InGroup(rows, g) : s.id = f /\ Earlier(s, t)
    BY <1>7, <2>2
  <2>4. item(s) \in Timeline(r.id) /\ item(s).row = s
    BY <1>6, <1>8
  <2> QED BY <1>7, <2>2, <2>3, <2>4
<1> QED BY <1>5, <1>9

LEMMA GroupsTyped == ASSUME IInv PROVE GroupsIn(rows) \subseteq Groups
  BY Settings DEF GroupsIn, IInv, RowsTyped, IsTable

\* The page table gives the totals that counting the rows gives, whatever it counts.
LEMMA StatsExact == ASSUME Follows, owed.pages = {} PROVE Stats = Exact
<1> DEFINE P == {g \in Groups : pages[g] # NoPage}
           W == {pages[g].last : g \in P}
           L == LastCapture(rows)
<1>1. IInv
  BY DEF Follows
<1>2. \A g \in Groups : pages[g] # NoPage <=> InGroup(rows, g) # {}
  BY PageSays
<1>3. P = GroupsIn(rows)
  BY <1>1, <1>2, OkCommutes, GroupsTyped
<1>4. ASSUME P # {} PROVE (CHOOSE t \in W : \A g \in P : t >= pages[g].last) = L
  <2>1. rows # {}
    BY <1>3, <1>4 DEF GroupsIn
  <2>2. L \in Nat /\ \A r \in rows : L >= TimeOf[r.cap]
    BY <1>1, <2>1, LastIs
  <2>3. PICK m \in rows : L = TimeOf[m.cap]
    BY <1>1, <2>1, LastIs
  <2>4. ASSUME NEW g \in P
        PROVE  /\ pages[g].last \in Nat /\ L >= pages[g].last
               /\ \A r \in InGroup(rows, g) : pages[g].last >= TimeOf[r.cap]
    <3> DEFINE S == InGroup(rows, g)
    <3>1. S # {} /\ S \subseteq rows
      BY <1>2 DEF InGroup
    <3>2. pages[g].last = LastCapture(S)
      BY <3>1, PageSays
    <3>3. LastCapture(S) \in Nat /\ \A r \in S : LastCapture(S) >= TimeOf[r.cap]
      BY <1>1, <3>1, LastIs
    <3>4. PICK r \in S : LastCapture(S) = TimeOf[r.cap]
      BY <1>1, <3>1, LastIs
    <3>5. L >= LastCapture(S)
      BY <2>2, <3>1, <3>4
    <3> QED BY <3>2, <3>3, <3>5
  <2> DEFINE h == GroupOf[m.cap]
  <2>5. h \in P /\ m \in InGroup(rows, h)
    BY <1>3 DEF GroupsIn, InGroup
  <2>6. pages[h].last = L
    <3>1. pages[h].last \in Nat /\ L >= pages[h].last /\ pages[h].last >= TimeOf[m.cap]
      BY <2>4, <2>5
    <3> QED BY <2>2, <2>3, <3>1
  <2> HIDE DEF P, L, h
  <2>7. L \in W /\ \A g \in P : L >= pages[g].last
    BY <2>4, <2>5, <2>6
  <2>8. \A t \in W : (\A g \in P : t >= pages[g].last) => t = L
    <3>1. ASSUME NEW k \in P, \A g \in P : pages[k].last >= pages[g].last PROVE pages[k].last = L
      BY <2>2, <2>4, <2>5, <2>6, <3>1
    <3> QED BY <3>1
  <2> HIDE DEF W
  <2> QED BY <2>7, <2>8
<1>5. CASE P # {} /\ Covered = Cardinality(rows)
  <2>1. Stats = [pages |-> Cardinality(P),
                 latest |-> CHOOSE t \in W : \A g \in P : t >= pages[g].last]
    BY <1>5 DEF Stats
  <2>2. rows # {}
    BY <1>3, <1>5 DEF GroupsIn
  <2> HIDE DEF P, W, L
  <2>3. Stats = [pages |-> Cardinality(GroupsIn(rows)), latest |-> L]
    BY <1>3, <1>4, <1>5, <2>1
  <2> QED BY <2>2, <2>3 DEF Exact, L
<1>6. CASE ~(P # {} /\ Covered = Cardinality(rows))
  BY <1>6 DEF Stats
<1> QED BY <1>5, <1>6

\* Of each page, day and content the listing of snapshots has one.
LEMMA OneEach ==
    ASSUME IInv
    PROVE  Cardinality({DupKey(r) : r \in Shown(rows, hidden)}) = Cardinality(BrowseSnapshots(FALSE))
<1> DEFINE R == Shown(rows, hidden)
           B == BrowseSnapshots(FALSE)
           K == {DupKey(r) : r \in R}
           f == [r \in B |-> DupKey(r)]
<1>1. R \subseteq rows /\ IsTable(R, lastId) /\ lastId \in Nat
  BY PartIsTable, Settings DEF IInv, RowsTyped, Shown
<1>2. B = {r \in R : \A s \in R : DupKey(s) = DupKey(r) => Newer(r, s)}
  BY DEF BrowseSnapshots
<1>3. IsFiniteSet(B)
  BY <1>1, <1>2, TableFinite, FS_Subset
<1> HIDE DEF R, B
<1>4. \A r, s \in B : DupKey(r) = DupKey(s) => r = s
  BY <1>1, <1>2, NewerOrders
<1>5. ASSUME NEW r \in R PROVE \E s \in B : DupKey(s) = DupKey(r)
  <2> DEFINE T == {t \in R : DupKey(t) = DupKey(r)}
  <2>1. IsTable(T, lastId) /\ T # {}
    BY <1>1, PartIsTable
  <2>2. PICK m \in T : \A t \in T : Newer(m, t)
    BY <1>1, <2>1, NewestExists
  <2>3. m \in R /\ DupKey(m) = DupKey(r)
    OBVIOUS
  <2>4. \A t \in R : DupKey(t) = DupKey(m) => Newer(m, t)
    BY <2>2, <2>3
  <2> QED BY <1>2, <2>3, <2>4
<1>6. f \in Bijection(B, K)
  <2>1. f \in [B -> K]
    BY <1>2
  <2>2. \A k \in K : \E r \in B : f[r] = k
    BY <1>5
  <2>3. \A r, s \in B : f[r] = f[s] => r = s
    BY <1>4
  <2> HIDE DEF f, K
  <2>4. f \in Surjection(B, K)
    BY <2>1, <2>2 DEF Surjection
  <2>5. f \in Injection(B, K)
    BY <2>1, <2>3 DEF Injection, IsInjective
  <2> QED BY <2>4, <2>5 DEF Bijection
<1> HIDE DEF f, K
<1>7. Cardinality(B) = Cardinality(K)
  BY <1>3, <1>6, FS_Bijection DEF ExistsBijection
<1> QED BY <1>7 DEF B, K, R

\* The entry of some rows is one of them, and the home page if it is among them.
LEMMA EntryIs ==
    ASSUME IInv, NEW R, R \subseteq rows, R # {}
    PROVE  \E r \in R : /\ Entry(R) = r.id /\ r.id # None /\ RowOf(r.id) = r
                        /\ (\E s \in R : GroupOf[s.cap] \in Home) => GroupOf[r.cap] \in Home
<1>1. IsTable(rows, lastId) /\ lastId \in Nat
  BY Settings DEF IInv, RowsTyped
<1>2. ASSUME NEW S, S \subseteq rows, S # {}, NEW ranked \in BOOLEAN
      PROVE  \E r \in S : Best(S, ranked) = r.id
  <2> DEFINE q(r) == QualityOf[r.cap]
             k(r) == IF ranked THEN RootRank[GroupOf[r.cap]] ELSE 0
             Key(r) == <<QualityOf[r.cap], IF ranked THEN RootRank[GroupOf[r.cap]] ELSE 0>>
             Above(r, s) ==
                \/ Key(r)[1] > Key(s)[1]
                \/ Key(r)[1] = Key(s)[1] /\ Key(r)[2] > Key(s)[2]
                \/ Key(r) = Key(s) /\ Newer(r, s)
             T == {p \in S \X S : Above(p[1], p[2])}
  <2>1. IsTable(S, lastId) /\ IsFiniteSet(S)
    BY <1>1, <1>2, PartIsTable, TableFinite
  <2>2. ASSUME NEW r \in S, NEW s \in S
        PROVE  /\ <<r, s>> \in T <=> Above(r, s)
               /\ <<r, s>> \in T <=> \/ q(r) > q(s)
                                     \/ q(r) = q(s) /\ k(r) > k(s)
                                     \/ q(r) = q(s) /\ k(r) = k(s) /\ Newer(r, s)
    <3>1. /\ Key(r)[1] = q(r) /\ Key(r)[2] = k(r) /\ Key(s)[1] = q(s) /\ Key(s)[2] = k(s)
          /\ Key(r) = Key(s) <=> q(r) = q(s) /\ k(r) = k(s)
      OBVIOUS
    <3>2. <<r, s>> \in T <=> Above(r, s)
      OBVIOUS
    <3> HIDE DEF Key, q, k, T
    <3> QED BY <3>1, <3>2
  <2>3. \A r \in S : q(r) \in Int /\ k(r) \in Int
    <3>1. ASSUME NEW r \in S PROVE q(r) \in Int /\ k(r) \in Int
      <4>1. r.cap \in Captures
        BY <2>1 DEF IsTable
      <4>2. GroupOf[r.cap] \in Groups
        BY <4>1, Settings
      <4>3. QualityOf[r.cap] \in -1..2
        <5>1. QualityOf \in [Captures -> -1..2]
          BY CatalogueAssumption
        <5> QED BY <4>1, <5>1, Zenon
      <4>4. q(r) \in Int
        BY <4>3
      <4>5. k(r) \in Int
        BY <4>2, ReadsAssumption
      <4> QED BY <4>4, <4>5
    <3> QED BY <3>1
  <2>4. Best(S, ranked) = (CHOOSE r \in S : \A s \in S : Above(r, s)).id
    BY <1>2 DEF Best
  <2>5. \A r, s \in S : Newer(r, s) \/ Newer(s, r)
    BY <1>1, <2>1, NewerOrders
  <2>6. \A r, s, t \in S : Newer(r, s) /\ Newer(s, t) => Newer(r, t)
    BY <1>1, <2>1, NewerOrders
  <2> HIDE DEF q, k, Key, T, Above
  <2>7. ASSUME NEW r \in S, NEW s \in S PROVE <<r, s>> \in T \/ <<s, r>> \in T
    <3>1. /\ q(r) \in Int /\ q(s) \in Int /\ k(r) \in Int /\ k(s) \in Int
          /\ Newer(r, s) \/ Newer(s, r)
      BY <2>3, <2>5
    <3>2. \/ q(r) > q(s) \/ q(s) > q(r)
          \/ q(r) = q(s) /\ (k(r) > k(s) \/ k(s) > k(r) \/ k(r) = k(s))
      BY <3>1
    <3> QED BY <2>2, <3>1, <3>2
  <2>8. ASSUME NEW r \in S, NEW s \in S, NEW t \in S, <<r, s>> \in T, <<s, t>> \in T
        PROVE  <<r, t>> \in T
    <3>1. q(r) \in Int /\ q(s) \in Int /\ q(t) \in Int /\ k(r) \in Int /\ k(s) \in Int /\ k(t) \in Int
      BY <2>3
    <3>2. \/ q(r) > q(s)
          \/ q(r) = q(s) /\ k(r) > k(s)
          \/ q(r) = q(s) /\ k(r) = k(s) /\ Newer(r, s)
      BY <2>2, <2>8
    <3>3. \/ q(s) > q(t)
          \/ q(s) = q(t) /\ k(s) > k(t)
          \/ q(s) = q(t) /\ k(s) = k(t) /\ Newer(s, t)
      BY <2>2, <2>8
    <3>4. Newer(r, s) /\ Newer(s, t) => Newer(r, t)
      BY <2>6
    <3>5. \/ q(r) > q(t)
          \/ q(r) = q(t) /\ k(r) > k(t)
          \/ q(r) = q(t) /\ k(r) = k(t) /\ Newer(r, t)
      BY <3>1, <3>2, <3>3, <3>4
    <3> QED BY <2>2, <3>5
  <2>9. \E r \in S : \A s \in S : <<r, s>> \in T
    BY <1>2, <2>1, <2>7, <2>8, GreatestExists
  <2>10. \E r \in S : \A s \in S : Above(r, s)
    BY <2>2, <2>9
  <2> QED BY <2>4, <2>10
<1> DEFINE H == {r \in R : GroupOf[r.cap] \in Home}
<1>3. Entry(R) = IF H # {} THEN Best(H, FALSE) ELSE Best(R, TRUE)
  BY DEF Entry
<1>4. \A r \in rows : r.id # None /\ RowOf(r.id) = r
  BY <1>1, RowHere DEF IsTable, None
<1>5. CASE H # {}
  <2>1. H \subseteq rows
    OBVIOUS
  <2>2. PICK r \in H : Best(H, FALSE) = r.id
    <3> HIDE DEF H
    <3> QED BY <1>2, <1>5, <2>1
  <2> QED BY <1>3, <1>4, <1>5, <2>2
<1>6. CASE H = {}
  <2>1. PICK r \in R : Best(R, TRUE) = r.id
    BY <1>2
  <2>2. ~ \E s \in R : GroupOf[s.cap] \in Home
    BY <1>6
  <2> QED BY <1>3, <1>4, <1>6, <2>1, <2>2
<1> QED BY <1>5, <1>6

LEMMA TotalsRight == ASSUME Follows PROVE TotalsHold
<1> SUFFICES ASSUME owed.pages = {}
             PROVE  /\ Stats = Exact
                    /\ Total("pages", TRUE, TRUE) = Stats.pages
                    /\ Total("snapshots", TRUE, FALSE) = Cardinality(BrowseSnapshots(FALSE))
                    /\ rows # {} => \E g \in Groups : pages[g] # NoPage /\ pages[g].latest = Source.newest
                    /\ BrowsePages(TRUE) # {} => Source.entry # None
                    /\ \A j \in Editions :
                           GroupOf[RowOf(EditionEntries[j]).cap] \in Home
                           => GroupOf[RowOf(Source.entry).cap] \in Home
  BY DEF TotalsHold
<1>1. IInv
  BY DEF Follows
<1>2. Stats = Exact
  BY StatsExact
<1>3. Total("pages", TRUE, TRUE) = Stats.pages
  <2>1. Total("pages", TRUE, TRUE) = Cardinality(GroupsIn(rows))
    BY DEF Total, Candidates
  <2> QED BY <1>2, <2>1 DEF Exact
<1>4. Total("snapshots", TRUE, FALSE) = Cardinality(BrowseSnapshots(FALSE))
  <2>1. Total("snapshots", TRUE, FALSE) = Cardinality({DupKey(r) : r \in Shown(rows, hidden)})
    BY DEF Total, Candidates
  <2> QED BY <1>1, <2>1, OneEach
<1>5. ASSUME rows # {} PROVE \E g \in Groups : pages[g] # NoPage /\ pages[g].latest = Source.newest
  <2>1. PICK m \in rows : LatestId(rows) = m.id /\ \A s \in rows : Newer(m, s)
    BY <1>1, <1>5, LatestRow
  <2> DEFINE g == GroupOf[m.cap]
             S == InGroup(rows, g)
  <2>2. m \in S /\ S \subseteq rows
    BY DEF InGroup
  <2>3. g \in Groups
    BY <1>1, GroupsTyped DEF GroupsIn
  <2> HIDE DEF S, g
  <2>4. PICK s \in S : LatestId(S) = s.id /\ \A t \in S : Newer(s, t)
    BY <1>1, <2>2, LatestRow
  <2>5. Newer(m, s) /\ Newer(s, m)
    BY <2>1, <2>2, <2>4
  <2>6. m = s
    BY <1>1, <2>2, <2>5, NewerOrders, Settings DEF IInv, RowsTyped
  <2>7. pages[g] # NoPage /\ pages[g].latest = LatestId(S)
    BY <2>2, <2>3, PageSays DEF S
  <2>8. Source.newest = LatestId(rows)
    BY DEF Source
  <2> QED BY <2>1, <2>3, <2>4, <2>6, <2>7, <2>8
<1>6. Source.entry = Entry(rows)
  BY DEF Source
<1>7. ASSUME BrowsePages(TRUE) # {} PROVE Source.entry # None
  <2>1. rows # {}
    BY <1>7 DEF BrowsePages, PagesFast, PagesSlow, IdsOf, Shown, GroupsIn
  <2> QED BY <1>1, <1>6, <2>1, EntryIs
<1>8. ASSUME NEW j \in Editions, GroupOf[RowOf(EditionEntries[j]).cap] \in Home
      PROVE  GroupOf[RowOf(Source.entry).cap] \in Home
  <2> DEFINE S == RowsOf(rows, j)
  <2>1. S \subseteq rows /\ S # {} /\ EditionEntries[j] = Entry(S)
    BY DEF Editions, EditionEntries, RowsOf
  <2> HIDE DEF S
  <2>2. PICK s \in S : Entry(S) = s.id /\ RowOf(s.id) = s
    BY <1>1, <2>1, EntryIs
  <2>3. s \in rows /\ GroupOf[s.cap] \in Home
    BY <1>8, <2>1, <2>2
  <2>4. PICK r \in rows : /\ Entry(rows) = r.id /\ RowOf(r.id) = r
                          /\ (\E t \in rows : GroupOf[t.cap] \in Home) => GroupOf[r.cap] \in Home
    BY <1>1, <2>3, EntryIs
  <2> QED BY <1>6, <2>3, <2>4
<1> QED BY <1>2, <1>3, <1>4, <1>5, <1>7, <1>8

\* What the feed and the export of changes hand out can be opened at the other
\* endpoints (LinksResolve), whatever is deduplicated, rebuilt or indexed anew:
\* an event goes with its capture and forgets an earlier one that goes.
THEOREM LinksHold == Spec => []LinksResolve
<1>1. IInv => LinksResolve
  BY LinksLead
<1>2. Spec => []IInv
  BY InitTyped, StepTyped, PTL DEF Spec
<1> QED BY <1>1, <1>2, PTL

\* The endpoints of the public API agree with each other (ReadsAgree): the page
\* table and the snapshots list the same pages and captures, timelines compare
\* with earlier captures of the same page, links resolve, totals are exact and a
\* browsable archive has an entry point. As long as rebuild-pages does not run
\* beside an index run, index runs do not deduplicate themselves, and one body
\* is not the body of a good and of a bad status on the same page and day.
THEOREM ReadsHold ==
    ASSUME RebuildAlone = TRUE, AutoDedupe \subseteq {FALSE}, StatusOfContent
    PROVE  Spec => []ReadsAgree
<1>1. Follows /\ Kept /\ EventsEarlier => ReadsAgree
  <2> SUFFICES ASSUME Follows, Kept, EventsEarlier PROVE ReadsAgree
    OBVIOUS
  <2>1. BrowseAgrees
    BY ListingsAgree
  <2>2. TimelinesHold /\ TotalsHold
    BY TimelinesRight, TotalsRight
  <2>3. LinksResolve
    BY LinksLead DEF Follows
  <2> QED BY <2>1, <2>2, <2>3 DEF ReadsAgree
<1>2. Spec => []Follows
  BY FollowsHolds
<1>3. Spec => []Kept
  BY KeptHolds
<1> QED BY <1>1, <1>2, <1>3, EarlierHolds, PTL
=============================================================================
