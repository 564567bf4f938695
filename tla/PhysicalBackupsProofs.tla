------------------------ MODULE PhysicalBackupsProofs ------------------------
(***************************************************************************)
(* Proofs about PhysicalBackups, for any number of backups and segments,   *)
(* any segment size, budgets and policies, from the empty catalog.         *)
(*                                                                         *)
(* The steps are first sorted by what they do to the catalog: one row is   *)
(* created, rows end, or rows go; and by what they do to the log.  Each    *)
(* part of the inductive invariant is then kept by each sort of step.      *)
(***************************************************************************)
EXTENDS PhysicalBackups, FiniteSetTheorems, WellFoundedInduction, TLAPS

\* The rows of the catalog: numbered up to the last one created, of their type, with
\* a stop past the start once completed, and inside the log seen so far.
RowsTyped ==
    /\ DOMAIN backups \subseteq 1..created
    /\ \A b \in DOMAIN backups : backups[b] \in Row
    /\ created \in 0..MaxBackups

LogTyped ==
    /\ pos \in Lsn
    /\ received \in [Segs -> 0..MaxTime]
    /\ removed \in [Segs -> Removal]
    /\ now \in 1..MaxTime

RunTyped ==
    /\ run \in Run
    /\ forceFull \in 0..MaxEvents /\ forceIncr \in 0..MaxEvents
    /\ unserved \in BOOLEAN
    /\ events \in 0..MaxEvents

CleanerTyped == cleaner \in Cleaner

\* A backup that completed read the log up to where somebody has looked, and an
\* incremental is younger than the backup it extends.
RowShape ==
    \A b \in DOMAIN backups :
        /\ backups[b].stop <= pos
        /\ b \in Completed => backups[b].start < backups[b].stop
        /\ b \in Fulls => backups[b].parent = 0
        /\ backups[b].parent < b

\* At most one row runs, and it is the one of the live run while there is one.
OneRuns ==
    /\ \A a, b \in Running : a = b
    /\ run.stage # "idle" => \A b \in Running : b = run.id

\* An archived segment has been seen whole, and only an archived one is removed.
ArchivedThenRemoved ==
    \A s \in Segs :
        /\ received[s] # 0 => SegEnd(s) <= pos
        /\ removed[s].by # "nobody" => received[s] # 0

\* The start of a backup that is being made lies behind every completed backup,
\* and that of a full behind all that was removed before it began.
StartIsAhead ==
    run.stage = "running" /\ run.id \in Running =>
        /\ run.start <= pos
        /\ \A b \in Completed : backups[b].stop <= run.start
        /\ run.id \in Fulls =>
             \A s \in Segs : removed[s].by # "nobody" => SegEnd(s) <= run.start

\* A running incremental extends the last completed one of a chain whose full is
\* still there, or the full itself while no incremental of it has completed.
ExtendsTheLast(r) ==
    LET done == Incrementals(backups[r].root) \cap Completed
    IN  /\ backups[r].root \in CompletedFulls
        /\ \/ backups[r].parent = backups[r].root /\ done = {}
           \/ /\ backups[r].parent \in done
              /\ \A c \in done : backups[c].start <= backups[backups[r].parent].start

RunningExtendsTheLast == \A r \in Running \ Fulls : ExtendsTheLast(r)

\* The cleaner's list names fulls, some of which have gone.
JobsAreFulls ==
    \A i \in DOMAIN cleaner.jobs :
        /\ cleaner.jobs[i].root <= created
        /\ cleaner.jobs[i].root \in DOMAIN backups => cleaner.jobs[i].root \in Fulls

\* Requests are told apart by their events, and one that a claim has read and that
\* is still the last one is served.
RequestsInOrder ==
    /\ forceFull # 0 => forceFull > events
    /\ run.full # 0 => run.full > events
    /\ run.full # 0 /\ forceFull = run.full => ~unserved

\* The inductive invariant.
IInv ==
    /\ RowsTyped /\ LogTyped /\ RunTyped /\ CleanerTyped
    /\ RowShape /\ OneRuns /\ ArchivedThenRemoved /\ StartIsAhead
    /\ RunningExtendsTheLast /\ JobsAreFulls /\ RequestsInOrder
    /\ WalKept /\ RestoreSetIsLineage /\ RequestKept
-----------------------------------------------------------------------------
(***************************************************************************)
(* Numbers, sets and the operators of the model.                           *)
(***************************************************************************)

\* Segments lie in the log.
LEMMA SegmentBounds ==
  /\ MaxLsn \in Nat
  /\ \A s \in Segs : SegStart(s) \in Nat /\ SegEnd(s) \in Nat /\ SegEnd(s) <= MaxLsn
<1>1. \A m, n \in Nat : m * n \in Nat
  OBVIOUS
<1>2. MaxLsn \in Nat
  BY <1>1, PhysicalAssumption DEF MaxLsn
<1>3. ASSUME NEW s \in Segs
      PROVE  SegStart(s) \in Nat /\ SegEnd(s) \in Nat /\ SegEnd(s) <= MaxLsn
  <2>1. s \in Nat /\ s - 1 \in Nat /\ s <= Segments
    BY PhysicalAssumption DEF Segs
  <2>2. SegStart(s) \in Nat /\ SegEnd(s) \in Nat
    BY <1>1, <2>1, PhysicalAssumption DEF SegStart, SegEnd
  <2>3. \A a, b, c \in Nat : a <= b => a * c <= b * c
    OBVIOUS
  <2>4. SegEnd(s) <= MaxLsn
    BY <2>1, <2>3, PhysicalAssumption DEF SegEnd, MaxLsn
  <2> QED BY <2>2, <2>4
<1> QED BY <1>2, <1>3

\* A set of numbers that is not empty has a least one.
LEMMA MinOfNats ==
  ASSUME NEW S \in SUBSET Nat, S # {}
  PROVE  Min(S) \in S /\ \A x \in S : Min(S) <= x
<1>1. PICK m \in S : \A x \in S : ~(<<x, m>> \in OpToRel(<, Nat))
  BY NatLessThanWellFounded, WFMin
<1>2. ASSUME NEW x \in S PROVE m <= x
  <2>1. m \in Nat /\ x \in Nat
    BY <1>1
  <2>2. ~(x < m)
    BY <1>1, <2>1 DEF OpToRel
  <2> QED BY <2>1, <2>2
<1> QED BY <1>2 DEF Min

\* A bounded set of numbers that is not empty has a largest one.
LEMMA MaxOfNats ==
  ASSUME NEW n \in Nat, NEW S \in SUBSET (0..n), S # {}
  PROVE  Max(S) \in S /\ \A x \in S : x <= Max(S)
<1> DEFINE T == {n - x : x \in S}
<1>1. T \in SUBSET Nat /\ T # {}
  <2>1. \A x \in S : n - x \in Nat
    OBVIOUS
  <2>2. PICK x \in S : TRUE
    OBVIOUS
  <2>3. n - x \in T
    BY <2>2
  <2> QED BY <2>1, <2>3
<1>2. PICK y \in T : \A z \in T : y <= z
  BY <1>1, MinOfNats
<1>3. PICK m \in S : y = n - m
  OBVIOUS
<1>4. ASSUME NEW x \in S PROVE m >= x
  <2>1. n - x \in T
    OBVIOUS
  <2>2. y <= n - x
    BY <1>2, <2>1
  <2>3. x \in 0..n /\ m \in 0..n
    BY <1>3
  <2> QED BY <1>3, <2>2, <2>3
<1>5. Max(S) \in S /\ \A x \in S : Max(S) >= x
  BY <1>4 DEF Max
<1> QED BY <1>5

\* What the row of a backup that ends keeps and what it gets.
LEMMA EndedRow ==
  ASSUME NEW row \in Row, NEW status \in {"COMPLETED", "ERROR", "CHAIN_BROKEN", "CANCELED"},
         NEW start \in Lsn, NEW stop \in Lsn, NEW moved \in BOOLEAN, now \in 1..MaxTime
  PROVE  Ended(row, status, start, stop, moved) \in Row
<1>1. now \in 0..MaxTime
  BY PhysicalAssumption
<1> QED BY <1>1 DEF Ended, Row

\* The catalog as a set of backups: what its typing says of them.
LEMMA CatalogSets ==
  ASSUME RowsTyped
  PROVE  /\ IsFiniteSet(DOMAIN backups) /\ created \in Nat
         /\ DOMAIN backups \subseteq Ids /\ \A b \in DOMAIN backups : b \in Nat /\ b <= created
         /\ \A b \in DOMAIN backups : backups[b].start \in Lsn /\ backups[b].stop \in Lsn
         /\ \A b \in DOMAIN backups : backups[b].done \in 0..MaxTime
<1>1. IsFiniteSet(1..created)
  BY FS_Interval, PhysicalAssumption DEF RowsTyped
<1>2. IsFiniteSet(DOMAIN backups)
  BY <1>1, FS_Subset DEF RowsTyped
<1> QED BY <1>2, PhysicalAssumption DEF RowsTyped, Row, Ids

\* The extendable chain, if there is one, has a completed full.
LEMMA ExtendableFull ==
  ASSUME RowsTyped, ExtendableRoot # 0
  PROVE  ExtendableRoot \in CompletedFulls
<1> DEFINE S == CompletedFulls \cup {0}
<1>1. S \in SUBSET (0..created) /\ created \in Nat /\ S # {}
  BY CatalogSets DEF CompletedFulls, Fulls, Completed
<1>2. Max(S) \in S
  <2> HIDE DEF S
  <2> QED BY <1>1, MaxOfNats
<1>3. ExtendableRoot \in {0, Max(S)}
  BY DEF ExtendableRoot
<1> QED BY <1>2, <1>3

\* The parent of the next incremental is the last one that completed, or the full.
LEMMA ParentIsLast ==
  ASSUME RowsTyped, NEW f
  PROVE  LET done == Incrementals(f) \cap Completed
             last == IncrementalParent(f)
         IN  \/ done = {} /\ last = f
             \/ last \in done /\ \A c \in done : backups[c].start <= backups[last].start
<1> DEFINE done == Incrementals(f) \cap Completed
           starts == {backups[c].start : c \in done}
<1>1. CASE done = {}
  BY <1>1 DEF IncrementalParent
<1>2. CASE done # {}
  <2>1. \A c \in done : backups[c].start \in 0..MaxLsn
    BY CatalogSets DEF Incrementals, Lsn
  <2>2. starts \in SUBSET (0..MaxLsn) /\ starts # {}
    <3>1. PICK c \in done : TRUE
      BY <1>2
    <3>2. backups[c].start \in starts
      BY <3>1
    <3> QED BY <2>1, <3>2
  <2>3. Max(starts) \in starts /\ \A x \in starts : x <= Max(starts)
    <3> HIDE DEF starts
    <3> QED BY <2>2, MaxOfNats, SegmentBounds
  <2>4. PICK b \in done : backups[b].start = Max(starts)
    BY <2>3
  <2>5. \A c \in done : backups[c].start <= backups[b].start
    BY <2>3, <2>4
  <2> HIDE DEF done
  <2>6. IncrementalParent(f) = CHOOSE x \in done : \A c \in done : backups[c].start <= backups[x].start
    BY <1>2 DEF IncrementalParent, done
  <2> QED BY <2>5, <2>6 DEF done
<1> QED BY <1>1, <1>2

\* The log a full owns ends at the start of the next completed full, or of none.
LEMMA SpanEndsEarly ==
  ASSUME RowsTyped, NEW f \in DOMAIN backups, NEW g \in CompletedFulls,
         backups[g].start > backups[f].start
  PROVE  SpanEnd(f) \in Nat /\ SpanEnd(f) <= backups[g].start
<1> DEFINE later == {backups[h].start : h \in {h \in CompletedFulls :
                                               backups[h].start > backups[f].start}}
<1>1. backups[g].start \in later
  OBVIOUS
<1>2. later \in SUBSET Nat
  BY CatalogSets, SegmentBounds DEF CompletedFulls, Fulls, Lsn
<1>3. SpanEnd(f) = Min(later)
  BY <1>1 DEF SpanEnd
<1> HIDE DEF later
<1>4. Min(later) \in later /\ \A x \in later : Min(later) <= x
  BY <1>1, <1>2, MinOfNats
<1> QED BY <1>1, <1>2, <1>3, <1>4

\* What a removal of a chain takes of the log: nothing while a full runs, and else
\* archived segments of the span of the full, which no other completed full needs.
LEMMA PlanSpares ==
  ASSUME RowsTyped, NEW f \in DOMAIN backups, NEW keepFull \in BOOLEAN,
         NEW s \in RemovableWal(f, keepFull), NEW g \in CompletedFulls,
         SegEnd(s) > backups[g].start
  PROVE  /\ s \in Wal /\ ~HasRunningFull
         /\ IF keepFull THEN backups[f].start >= backups[g].start
                        ELSE backups[f].start = backups[g].start
<1>1. s \in Contained(backups[f].start, SpanEnd(f)) /\ ~HasRunningFull
      /\ (keepFull \/ ~HasPredecessor(f))
  BY DEF RemovableWal
<1>2. s \in Wal /\ s \in Segs /\ SegEnd(s) <= SpanEnd(f)
  BY <1>1 DEF Contained, Wal
<1>3. backups[f].start \in Nat /\ backups[g].start \in Nat /\ SegEnd(s) \in Nat
  BY <1>2, CatalogSets, SegmentBounds DEF CompletedFulls, Fulls, Lsn
<1>4. ~(backups[g].start > backups[f].start)
  BY <1>2, <1>3, SpanEndsEarly
<1>5. ~keepFull => ~(backups[g].start < backups[f].start)
  BY <1>1 DEF HasPredecessor
<1> QED BY <1>1, <1>2, <1>3, <1>4, <1>5

\* The subtree of an incremental holds it and every backup whose parent it holds, and
\* no full.  The recursive function has a solution: what every set closed under
\* children holds.
LEMMA SubtreeIsClosed ==
  ASSUME RowsTyped, RowShape, NEW i \in DOMAIN backups, i \notin Fulls
  PROVE  /\ Subtree(i) \subseteq DOMAIN backups \ Fulls
         /\ \A b \in DOMAIN backups \ Fulls :
              backups[b].parent \in Subtree(i) => b \in Subtree(i)
<1> DEFINE S == 1..created
           Child(b) == b \in DOMAIN backups /\ backups[b].parent \in i..(b - 1)
           Closed(T) == i \in T /\ \A b \in S : Child(b) /\ backups[b].parent \in T => b \in T
           In(b) == \A T \in SUBSET S : Closed(T) => b \in T
           F == [b \in S |-> In(b)]
           Below(b, h) == \/ b = i
                          \/ /\ b \in DOMAIN backups
                             /\ backups[b].parent \in i..(b - 1)
                             /\ h[backups[b].parent]
           g == CHOOSE h : h = [b \in S |-> Below(b, h)]
<1>1. DOMAIN backups \subseteq S /\ S \subseteq Nat \ {0} /\ i \in S
  BY CatalogSets DEF RowsTyped
<1>2. \A b \in S : Child(b) => backups[b].parent \in S
  BY <1>1, CatalogSets DEF RowsTyped, Row
<1>3. ASSUME NEW b \in S
      PROVE  In(b) <=> b = i \/ (Child(b) /\ In(backups[b].parent))
  <2>1. ASSUME Child(b), In(backups[b].parent) PROVE In(b)
    BY <2>1
  <2>2. ASSUME In(b), b # i, ~(Child(b) /\ In(backups[b].parent)) PROVE FALSE
    <3> DEFINE T == {c \in S : In(c)} \ {b}
    <3>1. i \in T
      BY <1>1, <2>2
    <3>2. ASSUME NEW c \in S, Child(c), backups[c].parent \in T PROVE c \in T
      <4>1. In(c)
        BY <3>2
      <4>2. c # b
        BY <2>2, <3>2
      <4> QED BY <4>1, <4>2
    <3>3. Closed(T) /\ T \in SUBSET S
      BY <3>1, <3>2
    <3> QED BY <2>2, <3>3
  <2> QED BY <2>1, <2>2
<1>4. F = [b \in S |-> Below(b, F)]
  <2>1. ASSUME NEW b \in S PROVE In(b) = Below(b, F)
    <3>1. Child(b) => (In(backups[b].parent) <=> F[backups[b].parent])
      BY <1>2
    <3> HIDE DEF F
    <3>2. In(b) \in BOOLEAN /\ Below(b, F) \in BOOLEAN
      OBVIOUS
    <3> HIDE DEF In
    <3>3. In(b) <=> Below(b, F)
      BY <1>3, <3>1
    <3> HIDE DEF Below
    <3> QED BY <3>2, <3>3
  <2> DEFINE A(b) == In(b)
             B(b) == Below(b, F)
  <2>2. \A b \in S : A(b) = B(b)
    BY <2>1
  <2> HIDE DEF A, B
  <2>3. [b \in S |-> A(b)] = [b \in S |-> B(b)]
    BY <2>2, Zenon
  <2> QED BY <2>3, Zenon DEF A, B
<1>5. g = [b \in S |-> Below(b, g)]
  <2> DEFINE Solution(h) == h = [b \in S |-> Below(b, h)]
  <2>1. Solution(F)
    BY <1>4
  <2>2. g = CHOOSE h : Solution(h)
    OBVIOUS
  <2> HIDE DEF Solution, F, g
  <2>3. Solution(g)
    BY <2>1, <2>2
  <2> QED BY <2>3 DEF Solution
<1>6. Subtree(i) = {b \in DOMAIN backups : g[b]}
  BY DEF Subtree
<1> HIDE DEF g
<1>7. \A b \in S : g[b] <=> Below(b, g)
  <2> HIDE DEF Below
  <2> QED BY <1>5, Zenon
<1>8. ASSUME NEW b \in Subtree(i) PROVE b \in DOMAIN backups \ Fulls /\ i <= b
  <2>1. b \in DOMAIN backups /\ Below(b, g)
    BY <1>1, <1>6, <1>7
  <2>2. CASE b = i
    BY <1>1, <2>2
  <2>3. CASE backups[b].parent \in i..(b - 1)
    <3>1. backups[b].parent # 0
      BY <1>1, <2>3
    <3> QED BY <1>1, <2>1, <2>3, <3>1 DEF RowShape
  <2> QED BY <2>1, <2>2, <2>3
<1>9. ASSUME NEW b \in DOMAIN backups \ Fulls, backups[b].parent \in Subtree(i)
      PROVE  b \in Subtree(i)
  <2>1. i <= backups[b].parent /\ backups[b].parent < b
    BY <1>8, <1>9 DEF RowShape
  <2>2. backups[b].parent \in S /\ b \in S
    BY <1>1, <1>8, <1>9
  <2>3. backups[b].parent \in i..(b - 1)
    BY <1>1, <2>1, <2>2
  <2>4. g[backups[b].parent]
    BY <1>6, <1>9
  <2> QED BY <1>6, <1>7, <2>2, <2>3, <2>4
<1> QED BY <1>8, <1>9

\* The end of a chain is a time.
LEMMA ChainEndIsATime ==
  ASSUME RowsTyped, LogTyped, NEW f \in DOMAIN backups
  PROVE  ChainEnd(f) \in Nat
<1> DEFINE A == {backups[f].done}
           B == {backups[b].done : b \in Incrementals(f)}
           C == {received[s] : s \in {s \in Wal : SegStart(s) < SpanEnd(f)
                                              /\ SegEnd(s) > backups[f].start}}
<1>1. A \subseteq 0..MaxTime /\ A # {}
  BY CatalogSets
<1>2. B \subseteq 0..MaxTime
  BY CatalogSets DEF Incrementals
<1>3. C \subseteq 0..MaxTime
  BY DEF LogTyped, Wal
<1>4. ChainEnd(f) = Max(A \cup B \cup C)
  BY DEF ChainEnd
<1> HIDE DEF A, B, C
<1>5. A \cup B \cup C \in SUBSET (0..MaxTime) /\ A \cup B \cup C # {} /\ MaxTime \in Nat
  BY <1>1, <1>2, <1>3, PhysicalAssumption
<1>6. Max(A \cup B \cup C) \in A \cup B \cup C
  BY <1>5, MaxOfNats
<1> QED BY <1>4, <1>5, <1>6

\* A set of fulls can be sorted by their ends: the place of a full is the number of
\* those that end after it.
LEMMA SortedByEnd ==
  ASSUME RowsTyped, LogTyped, NEW S \in SUBSET DOMAIN backups
  PROVE  NewestEndFirst(S) \in [1..Cardinality(S) -> S] /\ Cardinality(S) \in Nat
<1> DEFINE n == Cardinality(S)
           After(f) == {g \in S : EndsAfter(g, f)}
           place == [f \in S |-> Cardinality(After(f)) + 1]
           Sorted(order) == \A i, j \in DOMAIN order : i < j => EndsAfter(order[i], order[j])
<1>1. IsFiniteSet(S) /\ n \in Nat
  BY CatalogSets, FS_Subset, FS_CardinalityType
<1>2. \A f \in S : IsFiniteSet(After(f)) /\ Cardinality(After(f)) \in Nat
  BY <1>1, FS_Subset, FS_CardinalityType
<1>3. \A f \in S : f \in Nat /\ ChainEnd(f) \in Nat
  BY CatalogSets, ChainEndIsATime
<1>4. \A f, g, h \in S : /\ ~EndsAfter(f, f)
                         /\ EndsAfter(f, g) /\ EndsAfter(g, h) => EndsAfter(f, h)
                         /\ f # g => EndsAfter(f, g) \/ EndsAfter(g, f)
  BY <1>3 DEF EndsAfter
<1>5. ASSUME NEW f \in S, NEW g \in S, EndsAfter(f, g) PROVE place[f] < place[g]
  <2>1. After(f) \in SUBSET After(g) /\ f \in After(g) /\ f \notin After(f)
    BY <1>4, <1>5
  <2>2. Cardinality(After(f)) <= Cardinality(After(g))
        /\ Cardinality(After(f)) # Cardinality(After(g))
    <3> HIDE DEF After
    <3> QED BY <1>2, <2>1, FS_Subset
  <2> HIDE DEF After
  <2> QED BY <1>2, <2>2
<1>6. ASSUME NEW f \in S PROVE place[f] \in 1..n
  <2>1. After(f) \in SUBSET S /\ f \notin After(f)
    BY <1>4
  <2>2. Cardinality(After(f)) <= n /\ Cardinality(After(f)) # n
    <3> HIDE DEF After
    <3> QED BY <1>1, <2>1, FS_Subset
  <2> HIDE DEF After
  <2> QED BY <1>1, <1>2, <2>2
<1> HIDE DEF place
<1>7. place \in [S -> 1..n]
  BY <1>6 DEF place
<1>8. place \in Injection(S, 1..n)
  <2>1. ASSUME NEW f \in S, NEW g \in S, place[f] = place[g] PROVE f = g
    <3>1. place[f] \in Nat
      BY <1>1, <1>6
    <3> QED BY <1>4, <1>5, <2>1, <3>1
  <2> QED BY <1>7, <2>1 DEF Injection, IsInjective
<1>9. IsFiniteSet(1..n) /\ Cardinality(1..n) = n
  BY <1>1, FS_Interval
<1>10. place \in Surjection(S, 1..n)
  BY <1>8, <1>9, FS_Injection
<1>11. \A i \in 1..n : \E f \in S : place[f] = i
  BY <1>10 DEF Surjection
<1> DEFINE order == [i \in 1..n |-> CHOOSE f \in S : place[f] = i]
<1>12. \A i \in 1..n : order[i] \in S /\ place[order[i]] = i
  BY <1>11
<1>13. order \in [1..n -> S] /\ Sorted(order)
  <2>1. order \in [1..n -> S]
    BY <1>12
  <2>2. DOMAIN order = 1..n
    OBVIOUS
  <2> HIDE DEF order
  <2>3. ASSUME NEW i \in 1..n, NEW j \in 1..n, i < j
        PROVE  EndsAfter(order[i], order[j])
    <3>1. order[i] \in S /\ order[j] \in S /\ place[order[i]] = i /\ place[order[j]] = j
      BY <1>12
    <3>2. i \in Nat /\ j \in Nat
      BY <1>1
    <3>3. order[i] # order[j] /\ ~EndsAfter(order[j], order[i])
      BY <1>5, <2>3, <3>1, <3>2
    <3> QED BY <1>4, <3>1, <3>3
  <2> QED BY <2>1, <2>2, <2>3
<1>14. NewestEndFirst(S) = CHOOSE o \in [1..n -> S] : Sorted(o)
  BY DEF NewestEndFirst
<1> HIDE DEF order, Sorted, n
<1>15. NewestEndFirst(S) \in [1..n -> S]
  BY <1>13, <1>14
<1> QED BY <1>1, <1>15 DEF n

-----------------------------------------------------------------------------
(***************************************************************************)
(* What the steps do to the catalog.                                       *)
(***************************************************************************)

\* A row is created, for a full or for an incremental of the extendable chain.
CreatesRow ==
    /\ run.stage = "idle" /\ Running = {}
    /\ created < MaxBackups /\ created' = created + 1
    /\ DOMAIN backups' = DOMAIN backups \cup {created + 1}
    /\ \A b \in DOMAIN backups : backups'[b] = backups[b]
    /\ \E root \in {0, ExtendableRoot} :
         backups'[created + 1] =
           [kind |-> IF root = 0 THEN "FULL" ELSE "INCREMENTAL",
            status |-> "IN_PROGRESS", root |-> root,
            parent |-> IF root = 0 THEN 0 ELSE IncrementalParent(root),
            start |-> 0, stop |-> 0, done |-> 0, moved |-> FALSE]
    /\ run'.stage = "claimed" /\ run'.id = created + 1
    /\ UNCHANGED <<logVars, cleaner>>

\* The row of the live run completes with the positions of the run.
CompletesRun(b) ==
    /\ b = run.id /\ run.stage = "running" /\ run' = NoRun
    /\ run.start < pos' /\ UNCHANGED <<received, removed>>
    /\ backups'[b] = Ended(backups[b], "COMPLETED", run.start, pos', FALSE)

\* The row of a backup that gives up ends without positions.
GivesUp(b) ==
    \E status \in {"ERROR", "CHAIN_BROKEN", "CANCELED"}, moved \in BOOLEAN :
        backups'[b] = Ended(backups[b], status, 0, 0, moved)

\* The claimed run begins where the log is now.
BeginsRun ==
    /\ run.stage = "claimed" /\ run.id \in Running
    /\ run'.stage = "running" /\ run'.id = run.id /\ run'.start = pos'
    /\ UNCHANGED <<backups, received, removed>>

\* No row comes or goes, and only a running one changes.
EndsRows ==
    /\ created' = created /\ DOMAIN backups' = DOMAIN backups
    /\ \A b \in DOMAIN backups :
         \/ backups'[b] = backups[b]
         \/ b \in Running /\ (CompletesRun(b) \/ GivesUp(b))
    /\ run' = run \/ run' = NoRun \/ BeginsRun

\* Rows go; the full and the parent of an incremental that stays do not.
RemovesRows ==
    /\ created' = created /\ DOMAIN backups' \subseteq DOMAIN backups
    /\ \A b \in DOMAIN backups' : backups'[b] = backups[b]
    /\ \A b \in DOMAIN backups' \ Fulls :
         /\ backups[b].root \in Fulls => backups[b].root \in DOMAIN backups'
         /\ backups[b].parent \in Incrementals(backups[b].root) =>
              backups[b].parent \in DOMAIN backups'
    /\ run' = run

\* A row that terminates, if it is running.
LEMMA TerminateEnds ==
  ASSUME NEW b, NEW status \in {"ERROR", "CHAIN_BROKEN", "CANCELED"}, NEW moved \in BOOLEAN,
         backups' = Terminate(b, status, 0, 0, moved)
  PROVE  /\ DOMAIN backups' = DOMAIN backups
         /\ \A c \in DOMAIN backups :
              backups'[c] # backups[c] => c \in Running /\ GivesUp(c)
<1>1. DOMAIN backups' = DOMAIN backups
  BY DEF Terminate
<1>2. ASSUME NEW c \in DOMAIN backups, backups'[c] # backups[c]
      PROVE  c \in Running /\ backups'[c] = Ended(backups[c], status, 0, 0, moved)
  BY <1>2 DEF Terminate
<1> QED BY <1>1, <1>2 DEF GivesUp

\* A claim creates a row.
LEMMA ClaimCreates ==
  ASSUME NEW full, NEW incr, NEW root \in {0, ExtendableRoot},
         Claim(IF root = 0 THEN "FULL" ELSE "INCREMENTAL", root, full, incr),
         RowsTyped
  PROVE  CreatesRow
<1>1. created + 1 \notin DOMAIN backups
  BY CatalogSets
<1>2. Running = {} /\ run.stage = "idle" /\ created < MaxBackups /\ created' = created + 1
      /\ UNCHANGED <<logVars, cleaner>>
  BY DEF Claim, MayInsert
<1>3. run'.stage = "claimed" /\ run'.id = created + 1
  BY DEF Claim
<1>4. DOMAIN backups' = DOMAIN backups \cup {created + 1}
      /\ \A b \in DOMAIN backups : backups'[b] = backups[b]
  BY <1>1 DEF Claim
<1>5. backups'[created + 1] =
           [kind |-> IF root = 0 THEN "FULL" ELSE "INCREMENTAL",
            status |-> "IN_PROGRESS", root |-> root,
            parent |-> IF root = 0 THEN 0 ELSE IncrementalParent(root),
            start |-> 0, stop |-> 0, done |-> 0, moved |-> FALSE]
  BY DEF Claim
<1> QED BY <1>2, <1>3, <1>4, <1>5 DEF CreatesRow

\* The cascade of a full takes its incrementals with it.
LEMMA CascadeRemoves ==
  ASSUME NEW f \in Fulls, NEW budget, NEW keepFull \in BOOLEAN,
         CascadeDelete(f, budget, keepFull), UNCHANGED <<created, run>>
  PROVE  RemovesRows
<1>1. PICK gone \in {{}, Incrementals(f), Incrementals(f) \cup {f}} : RemoveRows(gone)
  BY DEF CascadeDelete
<1>2. DOMAIN backups' = DOMAIN backups \ gone
      /\ \A b \in DOMAIN backups' : backups'[b] = backups[b]
  BY <1>1 DEF RemoveRows
<1>3. ASSUME NEW b \in DOMAIN backups' \ Fulls
      PROVE  /\ backups[b].root \in Fulls => backups[b].root \in DOMAIN backups'
             /\ backups[b].parent \in Incrementals(backups[b].root) =>
                  backups[b].parent \in DOMAIN backups'
  BY <1>2 DEF Incrementals, Fulls
<1> QED BY <1>2, <1>3 DEF RemovesRows

\* The deletion of an incremental takes what extends it.
LEMMA SubtreeRemoves ==
  ASSUME RowsTyped, RowShape, NEW i \in DOMAIN backups \ Fulls,
         RemoveRows(Subtree(i)), UNCHANGED <<created, run>>
  PROVE  RemovesRows
<1>1. DOMAIN backups' = DOMAIN backups \ Subtree(i)
      /\ \A b \in DOMAIN backups' : backups'[b] = backups[b]
  BY DEF RemoveRows
<1>2. \A b \in DOMAIN backups' \ Fulls :
             /\ backups[b].root \in Fulls => backups[b].root \in DOMAIN backups'
             /\ backups[b].parent \in Incrementals(backups[b].root) =>
                  backups[b].parent \in DOMAIN backups'
  BY <1>1, SubtreeIsClosed DEF Incrementals, Fulls
<1> QED BY <1>1, <1>2 DEF RemovesRows

\* Every step is one of the three sorts.
LEMMA CatalogSteps ==
  ASSUME RowsTyped, RunTyped, CleanerTyped, RowShape, JobsAreFulls, [Next]_vars
  PROVE  CreatesRow \/ EndsRows \/ RemovesRows
<1> USE DEF catalogVars, logVars, requestVars, vars
<1>1. CASE ClaimForcedFull \/ ClaimReplacementFull \/ ClaimScheduledFull
  <2>1. \E full : Claim("FULL", 0, full, 0)
    BY <1>1 DEF ClaimForcedFull, ClaimReplacementFull, ClaimScheduledFull
  <2>2. \E full : Claim(IF 0 = 0 THEN "FULL" ELSE "INCREMENTAL", 0, full, 0)
    BY <2>1
  <2> QED BY <2>2, ClaimCreates
<1>2. CASE ClaimForcedIncremental \/ ClaimScheduledIncremental
  <2>1. ExtendableRoot # 0 /\ \E incr : Claim("INCREMENTAL", ExtendableRoot, 0, incr)
    BY <1>2 DEF ClaimForcedIncremental, ClaimScheduledIncremental
  <2>2. \E incr : Claim(IF ExtendableRoot = 0 THEN "FULL" ELSE "INCREMENTAL",
                        ExtendableRoot, 0, incr)
    BY <2>1
  <2> QED BY <2>2, ClaimCreates
<1>3. CASE UNCHANGED <<backups, created, run>>
  BY <1>3 DEF EndsRows
<1>4. CASE \/ DropIncrementalRequest \/ RequestFull \/ RequestIncremental
           \/ ListChains \/ ListOrphans \/ SweepOrphan \/ Archive \/ Tick \/ UNCHANGED vars
  BY <1>3, <1>4 DEF DropIncrementalRequest, RequestFull, RequestIncremental, ListChains,
     ListOrphans, SweepOrphan, Archive, Tick
<1>5. CASE Begin
  <2>1. UNCHANGED <<backups, created, received, removed>>
    BY <1>5 DEF Begin
  <2>2. run' = NoRun \/ BeginsRun
    BY <1>5 DEF Begin, BeginsRun
  <2> QED BY <2>1, <2>2 DEF EndsRows
<1>6. CASE Complete
  <2>1. /\ run.stage = "running" /\ run' = NoRun /\ run.start < pos'
        /\ UNCHANGED <<created, received, removed>>
        /\ backups' = Terminate(run.id, "COMPLETED", run.start, pos', FALSE)
    BY <1>6 DEF Complete, Finish, Ahead, RunTyped, Run, Lsn
  <2>2. DOMAIN backups' = DOMAIN backups
        /\ \A b \in DOMAIN backups :
             backups'[b] = IF b = run.id /\ b \in Running
                           THEN Ended(backups[b], "COMPLETED", run.start, pos', FALSE)
                           ELSE backups[b]
    BY <2>1 DEF Terminate
  <2> QED BY <2>1, <2>2 DEF EndsRows, CompletesRun
<1>7. ASSUME NEW status \in {"ERROR", "CHAIN_BROKEN", "CANCELED"}, NEW moved \in BOOLEAN,
             Finish(status, 0, 0, moved)
      PROVE  EndsRows
  <2>1. run' = NoRun /\ created' = created /\ backups' = Terminate(run.id, status, 0, 0, moved)
    BY <1>7 DEF Finish
  <2> QED BY <2>1, TerminateEnds DEF EndsRows
<1>8. CASE FailToOpen \/ Fail \/ BreakChain
  <2>1. \E status \in {"ERROR", "CHAIN_BROKEN", "CANCELED"}, moved \in BOOLEAN :
          Finish(status, 0, 0, moved)
    BY <1>8 DEF FailToOpen, Fail, BreakChain
  <2> QED BY <1>7, <2>1
<1>9. CASE Abandon \/ PersistFails
  BY <1>9 DEF Abandon, PersistFails, EndsRows
<1>10. CASE Restart
  <2>1. run' = NoRun /\ created' = created
        /\ backups' = [b \in DOMAIN backups |-> Terminate(b, "ERROR", 0, 0, FALSE)[b]]
    BY <1>10 DEF Restart
  <2>2. DOMAIN backups' = DOMAIN backups
        /\ \A b \in DOMAIN backups :
             backups'[b] = IF b \in Running THEN Ended(backups[b], "ERROR", 0, 0, FALSE)
                           ELSE backups[b]
    BY <2>1 DEF Terminate
  <2> QED BY <2>1, <2>2 DEF EndsRows, GivesUp
<1>11. CASE Cancel
  <2>1. PICK b \in Running : backups' = Terminate(b, "CANCELED", 0, 0, FALSE)
    BY <1>11 DEF Cancel
  <2>2. UNCHANGED <<created, run>>
    BY <1>11 DEF Cancel
  <2> QED BY <2>1, <2>2, TerminateEnds DEF EndsRows
<1>12. CASE Delete
  <2>1. UNCHANGED <<created, run>>
    BY <1>12 DEF Delete
  <2>2. PICK b \in DOMAIN backups :
          \/ b \in Fulls /\ CascadeDelete(b, Segments + 1, FALSE)
          \/ b \notin Fulls /\ RemoveRows(Subtree(b))
    BY <1>12 DEF Delete
  <2> QED BY <2>1, <2>2, CascadeRemoves, SubtreeRemoves
<1>13. CASE CleanChain
  <2> DEFINE job == Head(cleaner.jobs)
  <2>1. UNCHANGED <<created, run>>
    BY <1>13 DEF CleanChain
  <2>2. cleaner.jobs \in Seq(Job) /\ cleaner.jobs # <<>>
    BY <1>13 DEF CleanChain, CleanerTyped, Cleaner
  <2>3. 1 \in DOMAIN cleaner.jobs /\ job = cleaner.jobs[1] /\ job \in Job
    BY <2>2
  <2>4. job.keepFull \in BOOLEAN /\ (job.root \in DOMAIN backups => job.root \in Fulls)
    BY <2>3 DEF JobsAreFulls, Job
  <2>5. IF job.root \in DOMAIN backups THEN CascadeDelete(job.root, WalBudget, job.keepFull)
                                       ELSE UNCHANGED <<backups, removed>>
    BY <1>13 DEF CleanChain
  <2> HIDE DEF job
  <2>6. CASE job.root \in DOMAIN backups
    BY <2>1, <2>4, <2>5, <2>6, CascadeRemoves
  <2>7. CASE job.root \notin DOMAIN backups
    BY <1>3, <2>1, <2>5, <2>7
  <2> QED BY <2>6, <2>7
<1> QED BY <1>1, <1>2, <1>4, <1>5, <1>6, <1>8, <1>9, <1>10, <1>11, <1>12, <1>13
        DEF Next, Scheduling, Process, User, Cleaning, Environment

-----------------------------------------------------------------------------
(***************************************************************************)
(* What the steps do to the log, the run, the requests and the cleaner.    *)
(***************************************************************************)

\* A full that has completed does not need a segment for its replay, or retention
\* gave it up with the log it needs: what WalKept says of one full and one segment.
Spared(f, s, by, at) ==
    SegEnd(s) > backups[f].start =>
        \/ by = "delete" /\ at = backups[f].start
        \/ by = "shed" /\ at >= backups[f].start

\* The log moves ahead; what arrives lies in it, and what is removed is archived, is
\* spared by every completed full, and is not removed while a full runs.
LogMoves ==
    /\ pos' \in Lsn /\ pos <= pos'
    /\ now' \in 1..MaxTime
    /\ received' \in [Segs -> 0..MaxTime]
    /\ \A s \in Segs : received'[s] = received[s] \/ SegEnd(s) <= pos'
    /\ \A s \in Segs : received[s] # 0 => received'[s] # 0
    /\ removed' \in [Segs -> Removal]
    /\ \A s \in Segs :
         \/ removed'[s] = removed[s]
         \/ /\ received[s] # 0 /\ ~HasRunningFull
            /\ \A f \in CompletedFulls : Spared(f, s, removed'[s].by, removed'[s].at)

\* The furthest position seen only grows.
LEMMA PositionsAhead ==
  ASSUME LogTyped, NEW p \in Ahead
  PROVE  p \in Lsn /\ pos <= p
BY SegmentBounds, PhysicalAssumption DEF LogTyped, Ahead, Lsn

\* Segments removed together, for one reason.
LEMMA RemovedTogether ==
  ASSUME LogTyped, NEW wal \in SUBSET Wal, NEW by \in {"delete", "shed", "sweep"},
         NEW at \in Lsn, RemoveWal(wal, by, at), ~HasRunningFull \/ wal = {},
         \A s \in wal : \A f \in CompletedFulls : Spared(f, s, by, at)
  PROVE  /\ removed' \in [Segs -> Removal]
         /\ \A s \in Segs :
              \/ removed'[s] = removed[s]
              \/ /\ received[s] # 0 /\ ~HasRunningFull
                 /\ \A f \in CompletedFulls : Spared(f, s, removed'[s].by, removed'[s].at)
<1>1. [by |-> by, at |-> at] \in Removal
  BY DEF Removal
<1>2. /\ removed' \in [Segs -> Removal]
      /\ \A s \in Segs \ wal : removed'[s] = removed[s]
      /\ \A s \in wal : removed'[s] = [by |-> by, at |-> at]
  BY <1>1 DEF RemoveWal, LogTyped, Wal
<1>3. \A s \in wal : removed'[s].by = by /\ removed'[s].at = at
  BY <1>2
<1> QED BY <1>2, <1>3 DEF Wal

\* The cascade removes what the plan of the full allows.
LEMMA CascadeSpares ==
  ASSUME RowsTyped, LogTyped, NEW f \in DOMAIN backups, NEW budget, NEW keepFull \in BOOLEAN,
         CascadeDelete(f, budget, keepFull)
  PROVE  /\ removed' \in [Segs -> Removal]
         /\ \A s \in Segs :
              \/ removed'[s] = removed[s]
              \/ /\ received[s] # 0 /\ ~HasRunningFull
                 /\ \A g \in CompletedFulls : Spared(g, s, removed'[s].by, removed'[s].at)
<1> DEFINE plan == RemovableWal(f, keepFull)
           wal == WithinBudget(plan, budget)
           by == IF keepFull THEN "shed" ELSE "delete"
<1>1. RemoveWal(wal, by, backups[f].start)
  BY DEF CascadeDelete
<1>2. wal \subseteq plan
  BY DEF WithinBudget
<1>3. plan \subseteq Wal /\ (~HasRunningFull \/ plan = {})
  BY DEF RemovableWal, Contained
<1>4. backups[f].start \in Lsn
  BY CatalogSets
<1>5. ASSUME NEW s \in wal, NEW g \in CompletedFulls
      PROVE  Spared(g, s, by, backups[f].start)
  <2>1. s \in RemovableWal(f, keepFull)
    BY <1>2
  <2> HIDE DEF wal, plan
  <2>2. SegEnd(s) > backups[g].start =>
          IF keepFull THEN backups[f].start >= backups[g].start
                      ELSE backups[f].start = backups[g].start
    BY <2>1, PlanSpares
  <2> QED BY <2>2 DEF Spared
<1> HIDE DEF wal, plan
<1>6. by \in {"delete", "shed", "sweep"}
  OBVIOUS
<1> HIDE DEF by
<1> QED BY <1>1, <1>2, <1>3, <1>4, <1>5, <1>6, RemovedTogether

LEMMA LogSteps ==
  ASSUME RowsTyped, LogTyped, RunTyped, CleanerTyped, [Next]_vars
  PROVE  LogMoves
<1> USE DEF catalogVars, logVars, requestVars, vars
<1> DEFINE LogStays == UNCHANGED <<pos, received>> /\ now' \in 1..MaxTime
           Removes == /\ removed' \in [Segs -> Removal]
                      /\ \A s \in Segs :
                           \/ removed'[s] = removed[s]
                           \/ /\ received[s] # 0 /\ ~HasRunningFull
                              /\ \A f \in CompletedFulls :
                                   Spared(f, s, removed'[s].by, removed'[s].at)
<1>1. CASE pos' \in Lsn /\ pos <= pos' /\ UNCHANGED <<now, received, removed>>
  BY <1>1 DEF LogMoves, LogTyped
<1>2. pos \in Lsn /\ pos <= pos
  BY SegmentBounds DEF LogTyped, Lsn
<1>3. ASSUME LogStays, Removes PROVE LogMoves
  <2> HIDE DEF Removes
  <2>1. LogStays
    BY <1>3
  <2>2. pos' \in Lsn /\ pos <= pos' /\ now' \in 1..MaxTime
    BY <1>2, <2>1
  <2>3. /\ received' \in [Segs -> 0..MaxTime]
        /\ \A s \in Segs : received'[s] = received[s] \/ SegEnd(s) <= pos'
        /\ \A s \in Segs : received[s] # 0 => received'[s] # 0
    BY <2>1 DEF LogTyped
  <2> HIDE DEF LogStays
  <2> QED BY <1>3, <2>2, <2>3 DEF LogMoves, Removes
<1>4. CASE \/ ClaimForcedFull \/ ClaimReplacementFull \/ ClaimForcedIncremental
           \/ ClaimScheduledFull \/ ClaimScheduledIncremental
  <2>1. UNCHANGED <<pos, now, received, removed>>
    BY <1>4 DEF ClaimForcedFull, ClaimReplacementFull, ClaimForcedIncremental,
       ClaimScheduledFull, ClaimScheduledIncremental, Claim
  <2> QED BY <1>1, <1>2, <2>1
<1>5. CASE \/ DropIncrementalRequest \/ RequestFull \/ RequestIncremental \/ Cancel
           \/ ListChains \/ ListOrphans \/ Abandon \/ PersistFails \/ Restart
           \/ FailToOpen \/ Fail \/ BreakChain \/ UNCHANGED vars
  <2>1. UNCHANGED <<pos, now, received, removed>>
    BY <1>5 DEF DropIncrementalRequest, RequestFull, RequestIncremental, Cancel, ListChains,
       ListOrphans, Abandon, PersistFails, Restart, FailToOpen, Fail, BreakChain, Finish
  <2> QED BY <1>1, <1>2, <2>1
<1>6. CASE Begin
  <2>1. (pos' = pos \/ pos' \in Ahead) /\ UNCHANGED <<now, received, removed>>
    BY <1>6 DEF Begin
  <2> QED BY <1>1, <1>2, <2>1, PositionsAhead
<1>7. CASE Complete
  <2>1. pos' \in Ahead /\ UNCHANGED <<now, received, removed>>
    BY <1>7 DEF Complete, Finish
  <2> QED BY <1>1, <2>1, PositionsAhead
<1>8. CASE Delete
  <2>1. LogStays
    BY <1>8 DEF Delete, LogTyped
  <2>2. PICK b \in DOMAIN backups : CascadeDelete(b, Segments + 1, FALSE) \/ UNCHANGED removed
    BY <1>8 DEF Delete
  <2>3. CASE CascadeDelete(b, Segments + 1, FALSE)
    BY <1>3, <2>1, <2>3, CascadeSpares
  <2>4. CASE UNCHANGED removed
    BY <1>3, <2>1, <2>4 DEF LogTyped
  <2> QED BY <2>2, <2>3, <2>4
<1>9. CASE CleanChain
  <2> DEFINE job == Head(cleaner.jobs)
  <2>1. LogStays
    BY <1>9 DEF CleanChain, LogTyped
  <2>2. cleaner.jobs \in Seq(Job) /\ cleaner.jobs # <<>>
    BY <1>9 DEF CleanChain, CleanerTyped, Cleaner
  <2>3. job.keepFull \in BOOLEAN
    <3>1. job \in Job
      BY <2>2
    <3> QED BY <3>1 DEF Job
  <2>4. IF job.root \in DOMAIN backups THEN CascadeDelete(job.root, WalBudget, job.keepFull)
                                       ELSE UNCHANGED removed
    BY <1>9 DEF CleanChain
  <2> HIDE DEF job
  <2>5. CASE job.root \in DOMAIN backups
    BY <1>3, <2>1, <2>3, <2>4, <2>5, CascadeSpares
  <2>6. CASE job.root \notin DOMAIN backups
    BY <1>3, <2>1, <2>4, <2>6 DEF LogTyped
  <2> QED BY <2>5, <2>6
<1>10. CASE SweepOrphan
  <2>1. LogStays
    BY <1>10 DEF SweepOrphan, LogTyped
  <2>2. PICK s : RemoveWal(IF IsOrphan(s) THEN {s} ELSE {}, "sweep", 0)
    BY <1>10 DEF SweepOrphan
  <2> DEFINE wal == IF IsOrphan(s) THEN {s} ELSE {}
  <2>3. wal \subseteq Wal /\ (~HasRunningFull \/ wal = {})
    BY DEF IsOrphan, Orphans
  <2>4. \A t \in wal : \A f \in CompletedFulls : Spared(f, t, "sweep", 0)
    <3>1. ASSUME NEW f \in CompletedFulls, IsOrphan(s)
          PROVE  ~(SegEnd(s) > backups[f].start)
      <4>1. s \in Segs /\ ~(backups[f].start < SegEnd(s))
        BY <3>1 DEF IsOrphan, Orphans, IsCovered, Wal
      <4>2. SegEnd(s) \in Nat /\ backups[f].start \in Nat
        BY <4>1, SegmentBounds, CatalogSets DEF CompletedFulls, Fulls, Lsn
      <4> QED BY <4>1, <4>2
    <3> QED BY <3>1 DEF Spared
  <2>5. 0 \in Lsn
    BY SegmentBounds DEF Lsn
  <2>6. RemoveWal(wal, "sweep", 0)
    BY <2>2
  <2> HIDE DEF wal
  <2>7. Removes
    BY <2>3, <2>4, <2>5, <2>6, RemovedTogether
  <2> QED BY <1>3, <2>1, <2>7
<1>11. CASE Archive
  <2>1. PICK s \in Segs : /\ received[s] = 0 /\ SegEnd(s) <= Max(Ahead)
                          /\ received' = [received EXCEPT ![s] = now]
                          /\ pos' = Max({pos, SegEnd(s)})
    BY <1>11 DEF Archive
  <2>2. UNCHANGED <<now, removed>>
    BY <1>11 DEF Archive
  <2>3. pos \in 0..MaxLsn /\ SegEnd(s) \in 0..MaxLsn /\ MaxLsn \in Nat
    BY SegmentBounds DEF LogTyped, Lsn
  <2>4. pos' \in {pos, SegEnd(s)} /\ pos <= pos' /\ SegEnd(s) <= pos'
    <3>1. {pos, SegEnd(s)} \in SUBSET (0..MaxLsn)
      BY <2>3
    <3> QED BY <2>1, <2>3, <3>1, MaxOfNats
  <2>5. now \in 0..MaxTime /\ now # 0
    BY PhysicalAssumption DEF LogTyped
  <2>6. /\ received' \in [Segs -> 0..MaxTime]
        /\ \A t \in Segs : received'[t] = received[t] \/ SegEnd(t) <= pos'
        /\ \A t \in Segs : received[t] # 0 => received'[t] # 0
    BY <2>1, <2>4, <2>5 DEF LogTyped
  <2> QED BY <2>2, <2>3, <2>4, <2>6 DEF LogMoves, LogTyped, Lsn
<1>12. CASE Tick
  <2>1. UNCHANGED <<pos, received, removed>> /\ now' = now + 1 /\ now < MaxTime
    BY <1>12 DEF Tick
  <2>2. LogStays
    BY <2>1, PhysicalAssumption DEF LogTyped
  <2> QED BY <1>3, <2>1, <2>2 DEF LogTyped
<1> HIDE DEF LogStays, Removes
<1> QED BY <1>4, <1>5, <1>6, <1>7, <1>8, <1>9, <1>10, <1>11, <1>12
        DEF Next, Scheduling, Process, User, Cleaning, Environment

\* The run and the requests keep their types, and a claim serves the last request.
LEMMA RunSteps ==
  ASSUME RowsTyped, LogTyped, RunTyped, RequestsInOrder, RequestKept, [Next]_vars
  PROVE  RunTyped' /\ RequestsInOrder' /\ RequestKept'
<1> DEFINE Goal == RunTyped' /\ RequestsInOrder' /\ RequestKept'
           Same == UNCHANGED <<forceFull, forceIncr, unserved>>
           Fewer == events' \in 0..MaxEvents /\ events' <= events
<1>1. events \in Nat /\ forceFull \in Nat /\ run.full \in 0..MaxEvents /\ run.incr \in 0..MaxEvents
      /\ run.id \in 0..MaxBackups /\ forceFull \in 0..MaxEvents /\ forceIncr \in 0..MaxEvents
      /\ MaxEvents \in Nat /\ MaxBackups \in Nat /\ 0 \in Lsn /\ unserved \in BOOLEAN
      /\ events \in 0..MaxEvents
  BY PhysicalAssumption, SegmentBounds DEF RunTyped, Run, Lsn
<1>2. NoRun \in Run /\ NoRun.full = 0
  BY <1>1 DEF NoRun, Run
<1>3. Disturb => Fewer /\ events' < events /\ events' = events - 1
  BY <1>1 DEF Disturb
<1>4. UNCHANGED events => Fewer
  BY <1>1
<1>5. ASSUME Same, Fewer, run' \in {run, NoRun} PROVE Goal
  <2>1. run'.full \in {0, run.full}
    BY <1>2, <1>5
  <2>2. RunTyped'
    BY <1>1, <1>2, <1>5 DEF RunTyped
  <2>3. RequestsInOrder'
    BY <1>1, <1>5, <2>1 DEF RequestsInOrder
  <2>4. RequestKept'
    BY <1>5 DEF RequestKept
  <2> QED BY <2>2, <2>3, <2>4
<1>6. ASSUME NEW kind \in {"FULL", "INCREMENTAL"}, NEW root,
             NEW full \in 0..MaxEvents, NEW incr \in 0..MaxEvents,
             Claim(kind, root, full, incr),
             full = IF kind = "FULL" THEN forceFull ELSE 0, forceIncr' \in {0, forceIncr}
      PROVE  Goal
  <2>1. /\ run' = [stage |-> "claimed", id |-> created + 1, start |-> 0,
                   full |-> full, incr |-> incr]
        /\ unserved' = (unserved /\ kind # "FULL")
        /\ UNCHANGED <<forceFull, events>> /\ created < MaxBackups
    BY <1>6 DEF Claim
  <2>2. created + 1 \in 0..MaxBackups
    BY <1>1, <2>1 DEF RowsTyped
  <2>3. run' \in Run /\ run'.full = full
    BY <1>1, <2>1, <2>2 DEF Run
  <2>4. unserved' \in BOOLEAN /\ (unserved' => unserved /\ kind # "FULL")
    BY <1>1, <2>1
  <2>5. RunTyped'
    BY <1>1, <1>6, <2>1, <2>3, <2>4 DEF RunTyped
  <2>6. RequestsInOrder'
    <3>1. full # 0 => full > events
      BY <1>6 DEF RequestsInOrder
    <3>2. full # 0 /\ forceFull' = full => ~unserved'
      BY <1>6, <2>1, <2>4 DEF RequestsInOrder, RequestKept
    <3> QED BY <2>1, <2>3, <3>1, <3>2 DEF RequestsInOrder
  <2>7. RequestKept'
    BY <2>1, <2>4 DEF RequestKept
  <2> QED BY <2>5, <2>6, <2>7
<1> USE DEF catalogVars, logVars, requestVars, vars
<1>7. CASE ClaimForcedFull \/ ClaimReplacementFull \/ ClaimScheduledFull
  <2>1. /\ Claim("FULL", 0, forceFull, 0) /\ forceIncr' \in {0, forceIncr}
    BY <1>7 DEF ClaimForcedFull, ClaimReplacementFull, ClaimScheduledFull
  <2> QED BY <1>1, <1>6, <2>1
<1>8. CASE ClaimForcedIncremental \/ ClaimScheduledIncremental
  <2>1. /\ \E incr \in 0..MaxEvents : Claim("INCREMENTAL", ExtendableRoot, 0, incr)
        /\ forceIncr' = forceIncr
    BY <1>1, <1>8 DEF ClaimForcedIncremental, ClaimScheduledIncremental
  <2> QED BY <1>1, <1>6, <2>1
<1>9. CASE DropIncrementalRequest
  <2>1. forceIncr' = 0 /\ UNCHANGED <<forceFull, unserved, events, run>>
    BY <1>9 DEF DropIncrementalRequest
  <2> QED BY <1>1, <2>1 DEF RunTyped, RequestsInOrder, RequestKept
<1>10. CASE Begin
  <2>1. forceFull' \in {0, forceFull} /\ forceIncr' \in {0, forceIncr} /\ Fewer
        /\ unserved' = unserved
    BY <1>3, <1>4, <1>10 DEF Begin, Cleared
  <2>2. forceFull' # forceFull => forceFull = run.full
    BY <1>10 DEF Begin, Cleared
  <2>3. run' = NoRun \/ \E start \in Ahead :
          run' = [stage |-> "running", id |-> run.id, start |-> start, full |-> 0, incr |-> 0]
    BY <1>10 DEF Begin
  <2>4. run' \in Run /\ run'.full = 0
    BY <1>1, <1>2, <2>3, PositionsAhead DEF Run
  <2>5. RunTyped'
    BY <1>1, <2>1, <2>4 DEF RunTyped
  <2>6. RequestsInOrder'
    BY <1>1, <2>1, <2>4 DEF RequestsInOrder
  <2>7. RequestKept'
    BY <1>1, <2>1, <2>2 DEF RequestKept, RequestsInOrder
  <2> QED BY <2>5, <2>6, <2>7
<1>11. CASE \/ Complete \/ FailToOpen \/ Fail \/ BreakChain \/ Abandon \/ PersistFails \/ Restart
            \/ Cancel \/ Delete \/ ListChains \/ CleanChain \/ ListOrphans \/ SweepOrphan
            \/ Archive \/ Tick \/ UNCHANGED vars
  <2>1. Same /\ run' \in {run, NoRun}
    BY <1>11 DEF Complete, FailToOpen, Fail, BreakChain, Abandon, PersistFails, Restart,
       Cancel, Delete, ListChains, CleanChain, ListOrphans, SweepOrphan, Archive, Tick, Finish
  <2>2. Disturb \/ UNCHANGED events
    BY <1>11 DEF Complete, FailToOpen, Fail, BreakChain, Abandon, PersistFails, Restart,
       Cancel, Delete, ListChains, CleanChain, ListOrphans, SweepOrphan, Archive, Tick, Finish
  <2> QED BY <1>3, <1>4, <1>5, <2>1, <2>2
<1>12. CASE RequestFull
  <2>1. Disturb /\ forceFull' = events /\ unserved' = TRUE /\ UNCHANGED <<run, forceIncr>>
    BY <1>12 DEF RequestFull
  <2>2. events > 0 /\ Fewer /\ events' < events
    BY <1>3, <2>1 DEF Disturb
  <2>3. RunTyped'
    BY <1>1, <2>1, <2>2 DEF RunTyped
  <2>4. RequestsInOrder'
    BY <1>1, <2>1, <2>2 DEF RequestsInOrder
  <2> QED BY <1>1, <2>1, <2>2, <2>3, <2>4 DEF RequestKept
<1>13. CASE RequestIncremental
  <2>1. Disturb /\ forceIncr' = events /\ UNCHANGED <<run, forceFull, unserved>>
    BY <1>13 DEF RequestIncremental
  <2>2. Fewer
    BY <1>3, <2>1
  <2> QED BY <1>1, <2>1, <2>2 DEF RunTyped, RequestsInOrder, RequestKept
<1> QED BY <1>7, <1>8, <1>9, <1>10, <1>11, <1>12, <1>13
        DEF Next, Scheduling, Process, User, Cleaning, Environment

\* What a policy gives up is a list of completed fulls, the extendable one spared.
LEMMA JobsListed ==
  ASSUME RowsTyped, LogTyped, NEW policy \in Policies
  PROVE  /\ RetentionJobs(policy) \in Seq(Job)
         /\ \A i \in DOMAIN RetentionJobs(policy) :
              RetentionJobs(policy)[i].root \in NonExtendable
<1> DEFINE Kept == CASE policy = "CHAINS" -> RetainedChains
                     [] policy = "FULL_BACKUPS" -> {}
                     [] policy = "CHAINS_AND_FULL_BACKUPS" -> RetainedChains \cup RetainedFulls
           given == {f \in NonExtendable \ Kept : ~IsWithinGrace(f)}
           order == NewestEndFirst(given)
           n == Cardinality(given)
           Sheds(i) == policy = "FULL_BACKUPS" /\ order[i] \in RetainedFulls
           jobs == [i \in DOMAIN order |-> [root |-> order[i], keepFull |-> Sheds(i)]]
<1>1. RetentionJobs(policy) = jobs
  BY DEF RetentionJobs
<1>2. given \subseteq NonExtendable
  OBVIOUS
<1> HIDE DEF given
<1>3. given \in SUBSET DOMAIN backups
  BY <1>2 DEF NonExtendable, CompletedFulls, Fulls
<1>4. order \in [1..n -> given] /\ n \in Nat
  BY <1>3, SortedByEnd
<1> HIDE DEF order, n
<1>5. ASSUME NEW i \in 1..n PROVE jobs[i] \in Job /\ jobs[i].root \in NonExtendable
  <2>1. order[i] \in Ids /\ order[i] \in NonExtendable /\ i \in DOMAIN order
    BY <1>2, <1>3, <1>4, CatalogSets
  <2>2. Sheds(i) \in BOOLEAN
    OBVIOUS
  <2> HIDE DEF Sheds
  <2> QED BY <2>1, <2>2 DEF Job
<1>6. DOMAIN jobs = 1..n
  BY <1>4
<1>7. jobs \in [1..n -> Job]
  <2>1. jobs = [i \in 1..n |-> jobs[i]]
    BY <1>4
  <2> HIDE DEF jobs
  <2> QED BY <1>5, <2>1
<1> HIDE DEF jobs
<1>8. jobs \in Seq(Job)
  BY <1>4, <1>7
<1> QED BY <1>1, <1>5, <1>6, <1>8

\* The cleaner keeps its type and works from fulls.
LEMMA CleanerSteps ==
  ASSUME RowsTyped, LogTyped, RunTyped, CleanerTyped, RowShape, JobsAreFulls, [Next]_vars
  PROVE  CleanerTyped' /\ JobsAreFulls'
<1> USE DEF catalogVars, logVars, requestVars, vars
<1>1. CreatesRow \/ EndsRows \/ RemovesRows
  BY CatalogSteps
<1>2. /\ created <= created' /\ created \in Nat /\ created' \in Nat
      /\ \A r \in 1..created : r \in DOMAIN backups' =>
           r \in DOMAIN backups /\ backups'[r].kind = backups[r].kind
  <2>1. created \in Nat /\ DOMAIN backups \subseteq 1..created
    BY CatalogSets DEF RowsTyped
  <2>2. CASE CreatesRow
    BY <2>1, <2>2 DEF CreatesRow
  <2>3. CASE EndsRows
    BY <2>1, <2>3 DEF EndsRows, CompletesRun, GivesUp, Ended
  <2>4. CASE RemovesRows
    BY <2>1, <2>4 DEF RemovesRows
  <2> QED BY <1>1, <2>2, <2>3, <2>4
<1>3. ASSUME NEW r \in 1..created, r \in DOMAIN backups => r \in Fulls
      PROVE  r <= created' /\ (r \in DOMAIN backups' => r \in Fulls')
  BY <1>2, <1>3 DEF Fulls
<1>4. cleaner \in Cleaner /\ cleaner.jobs \in Seq(Job) /\ cleaner.orphans \in SUBSET Segs
      /\ cleaner.spares \in 0..(MaxBackups + 1) /\ Idle \in Cleaner /\ Idle.jobs = <<>>
  BY PhysicalAssumption DEF CleanerTyped, Cleaner, Idle
<1>5. ASSUME NEW i \in DOMAIN cleaner.jobs
      PROVE  /\ cleaner.jobs[i].root <= created'
             /\ cleaner.jobs[i].root \in DOMAIN backups' => cleaner.jobs[i].root \in Fulls'
  <2>1. cleaner.jobs[i].root \in 1..created
    <3>1. cleaner.jobs[i] \in Job
      BY <1>4
    <3>2. cleaner.jobs[i].root \in Ids /\ cleaner.jobs[i].root <= created
      BY <3>1 DEF Job, JobsAreFulls
    <3> QED BY <1>2, <3>2, PhysicalAssumption DEF Ids
  <2> QED BY <1>3, <2>1 DEF JobsAreFulls
<1>6. CASE cleaner' = cleaner
  BY <1>4, <1>5, <1>6 DEF CleanerTyped, JobsAreFulls
<1>7. CASE cleaner' = Idle
  BY <1>4, <1>7 DEF CleanerTyped, JobsAreFulls
<1>8. CASE ListChains
  <2>1. PICK policy \in Policies : \E spares :
          /\ cleaner' = [Idle EXCEPT !.jobs = RetentionJobs(policy), !.spares = spares]
          /\ spares = IF ExtendableRoot # 0 THEN ExtendableRoot ELSE Max(CompletedFulls) + 1
    BY <1>8 DEF ListChains
  <2>2. PICK f \in CompletedFulls : TRUE
    BY <1>8 DEF ListChains, NonExtendable
  <2>3. CompletedFulls \in SUBSET (0..MaxBackups) /\ MaxBackups \in Nat
    BY CatalogSets, PhysicalAssumption DEF CompletedFulls, Fulls, Ids
  <2>4. Max(CompletedFulls) \in 0..MaxBackups
    BY <2>2, <2>3, MaxOfNats
  <2>5. ExtendableRoot # 0 => ExtendableRoot \in 0..MaxBackups
    BY <2>3, ExtendableFull
  <2>6. PICK spares \in 0..(MaxBackups + 1) :
          cleaner' = [Idle EXCEPT !.jobs = RetentionJobs(policy), !.spares = spares]
    <3>1. (IF ExtendableRoot # 0 THEN ExtendableRoot ELSE Max(CompletedFulls) + 1)
            \in 0..(MaxBackups + 1)
      BY <2>3, <2>4, <2>5
    <3> QED BY <2>1, <3>1
  <2>7. RetentionJobs(policy) \in Seq(Job)
        /\ \A i \in DOMAIN RetentionJobs(policy) :
              RetentionJobs(policy)[i].root \in CompletedFulls
    BY JobsListed DEF NonExtendable
  <2> DEFINE jobs == RetentionJobs(policy)
  <2> HIDE DEF jobs
  <2>8. cleaner' = [Idle EXCEPT !.jobs = jobs, !.spares = spares] /\ jobs \in Seq(Job)
        /\ \A i \in DOMAIN jobs : jobs[i].root \in CompletedFulls
    BY <2>6, <2>7 DEF jobs
  <2>9. cleaner' \in Cleaner /\ cleaner'.jobs = jobs
    BY <1>4, <2>8 DEF Cleaner, Idle
  <2>10. UNCHANGED <<backups, created>>
    BY <1>8 DEF ListChains
  <2>11. \A i \in DOMAIN jobs : jobs[i].root \in Fulls /\ jobs[i].root <= created
    BY <2>8, CatalogSets DEF CompletedFulls, Fulls
  <2> QED BY <2>9, <2>10, <2>11 DEF CleanerTyped, JobsAreFulls, Fulls
<1>9. CASE CleanChain
  <2>1. CASE cleaner' = Idle
    BY <1>7, <2>1
  <2>2. CASE cleaner' = [cleaner EXCEPT !.jobs = Tail(cleaner.jobs)]
    <3>1. cleaner.jobs # <<>>
      BY <1>9 DEF CleanChain
    <3> DEFINE jobs == cleaner.jobs
               rest == Tail(jobs)
    <3>2. /\ rest \in Seq(Job)
          /\ \A i \in DOMAIN rest : i + 1 \in DOMAIN jobs /\ rest[i] = jobs[i + 1]
      <4>1. jobs \in Seq(Job) /\ jobs # <<>>
        BY <1>4, <3>1
      <4> HIDE DEF jobs
      <4> QED BY <4>1
    <3>3. cleaner' = [cleaner EXCEPT !.jobs = rest]
      BY <2>2
    <3> HIDE DEF rest
    <3>4. cleaner' \in Cleaner /\ cleaner'.jobs = rest
      BY <1>4, <3>2, <3>3 DEF Cleaner
    <3> QED BY <1>5, <3>2, <3>4 DEF CleanerTyped, JobsAreFulls
  <2>3. cleaner' = Idle \/ cleaner' = [cleaner EXCEPT !.jobs = Tail(cleaner.jobs)]
    BY <1>9 DEF CleanChain
  <2> QED BY <2>1, <2>2, <2>3
<1>10. ASSUME NEW segments \in SUBSET Segs, NEW from \in {Idle, cleaner},
              cleaner' = [from EXCEPT !.orphans = segments]
       PROVE  CleanerTyped' /\ JobsAreFulls'
  <2>1. cleaner' \in Cleaner /\ cleaner'.jobs \in {<<>>, cleaner.jobs}
    BY <1>4, <1>10 DEF Cleaner, Idle
  <2> QED BY <1>5, <2>1 DEF CleanerTyped, JobsAreFulls
<1>11. CASE ListOrphans
  <2>1. cleaner' = [Idle EXCEPT !.orphans = Orphans] /\ Orphans \in SUBSET Segs
    BY <1>11 DEF ListOrphans, Orphans, Wal
  <2> QED BY <1>10, <2>1
<1>12. CASE SweepOrphan
  <2>1. \E s : cleaner' = [cleaner EXCEPT !.orphans = cleaner.orphans \ {s}]
    BY <1>12 DEF SweepOrphan
  <2> QED BY <1>4, <1>10, <2>1
<1>13. CASE Scheduling \/ Process \/ User \/ Environment \/ UNCHANGED vars
  <2>1. cleaner' = cleaner \/ cleaner' = Idle
    BY <1>13 DEF Scheduling, Process, User, Environment, ClaimForcedFull, ClaimReplacementFull,
       ClaimForcedIncremental, ClaimScheduledFull, ClaimScheduledIncremental, Claim,
       DropIncrementalRequest, Begin, Complete, FailToOpen, Fail, BreakChain, Finish, Abandon,
       PersistFails, Restart, RequestFull, RequestIncremental, Cancel, Delete, Archive, Tick
  <2> QED BY <1>6, <1>7, <2>1
<1> QED BY <1>8, <1>9, <1>11, <1>12, <1>13 DEF Next, Cleaning

-----------------------------------------------------------------------------
(***************************************************************************)
(* The parts of the invariant are kept.                                    *)
(***************************************************************************)

\* What a row that ends keeps, and what it has when it completed.
LEMMA EndingRows ==
  ASSUME EndsRows, NEW b \in DOMAIN backups
  PROVE  /\ backups'[b].kind = backups[b].kind
         /\ backups'[b].root = backups[b].root /\ backups'[b].parent = backups[b].parent
         /\ backups'[b].status = "IN_PROGRESS" => b \in Running
         /\ b \notin Running => backups'[b] = backups[b]
         /\ backups'[b] = backups[b] \/ backups'[b].stop \in {0, pos'}
         /\ backups'[b].status = "COMPLETED" =>
              \/ backups'[b] = backups[b] /\ b \in Completed
              \/ /\ b \in Running /\ CompletesRun(b)
                 /\ backups'[b].start = run.start /\ backups'[b].stop = pos'
<1>1. CASE backups'[b] = backups[b]
  BY <1>1 DEF Running, Completed
<1>2. CASE b \in Running /\ CompletesRun(b)
  BY <1>2 DEF CompletesRun, Ended
<1>3. CASE b \in Running /\ GivesUp(b)
  BY <1>3 DEF GivesUp, Ended
<1> QED BY <1>1, <1>2, <1>3 DEF EndsRows

\* The rows that were there before a row is created.
LEMMA RowCreated ==
  ASSUME RowsTyped, RowShape, CreatesRow
  PROVE  /\ created + 1 \notin DOMAIN backups /\ created + 1 \in Ids
         /\ Completed' = Completed /\ CompletedFulls' = CompletedFulls
         /\ Running' = {created + 1}
         /\ \A f \in DOMAIN backups :
              Incrementals(f)' \cap Completed' = Incrementals(f) \cap Completed
<1>1. created + 1 \notin DOMAIN backups /\ created + 1 \in Ids
  BY CatalogSets, PhysicalAssumption DEF CreatesRow, RowsTyped, Ids
<1>2. backups'[created + 1].status = "IN_PROGRESS"
  BY DEF CreatesRow
<1>3. Completed' = Completed /\ Running' = {created + 1}
  BY <1>1, <1>2 DEF CreatesRow, Completed, Running
<1>4. CompletedFulls' = CompletedFulls
  BY <1>1, <1>2 DEF CreatesRow, CompletedFulls, Completed, Fulls
<1>5. \A f \in DOMAIN backups :
        Incrementals(f)' \cap Completed' = Incrementals(f) \cap Completed
  BY <1>1, <1>2 DEF CreatesRow, Incrementals, Completed, Fulls
<1> QED BY <1>1, <1>3, <1>4, <1>5

\* The row of an incremental that is created extends its chain.
LEMMA CreatedExtends ==
  ASSUME RowsTyped, CreatesRow, RowShape
  PROVE  LET row == backups'[created + 1]
         IN  \/ row.kind = "FULL" /\ row.parent = 0
             \/ /\ row.kind = "INCREMENTAL" /\ row.root \in CompletedFulls
                /\ row.parent = IncrementalParent(row.root)
                /\ row.parent \in DOMAIN backups
<1> DEFINE row == backups'[created + 1]
<1>1. PICK root \in {0, ExtendableRoot} :
        /\ row.kind = IF root = 0 THEN "FULL" ELSE "INCREMENTAL"
        /\ row.root = root /\ row.parent = IF root = 0 THEN 0 ELSE IncrementalParent(root)
  BY DEF CreatesRow
<1> HIDE DEF row
<1>2. CASE root = 0
  BY <1>1, <1>2 DEF row
<1>3. CASE root # 0
  <2>1. root \in CompletedFulls
    BY <1>3, ExtendableFull
  <2>2. IncrementalParent(root) \in DOMAIN backups
    BY <2>1, ParentIsLast DEF Incrementals, CompletedFulls, Fulls
  <2> QED BY <1>1, <1>3, <2>1, <2>2 DEF row
<1> QED BY <1>2, <1>3

LEMMA RowsKept ==
  ASSUME RowsTyped, LogTyped, RunTyped, RowShape, CreatesRow \/ EndsRows \/ RemovesRows, LogMoves
  PROVE  RowsTyped' /\ RowShape'
<1>1. pos \in Nat /\ pos' \in Nat /\ pos <= pos' /\ pos' \in Lsn /\ run.start \in Lsn
      /\ now \in 1..MaxTime /\ MaxBackups \in Nat /\ created \in Nat
  BY SegmentBounds, CatalogSets, PhysicalAssumption DEF LogTyped, LogMoves, Lsn, RunTyped, Run
<1>2. \A b \in DOMAIN backups : backups[b].stop \in Nat /\ backups[b].stop <= pos
  BY CatalogSets, SegmentBounds DEF RowShape, Lsn
<1>3. CASE CreatesRow
  <2> DEFINE new == created + 1
             row == backups'[new]
  <2>1. new \in Ids /\ new \notin DOMAIN backups /\ new \in Nat /\ new # 0
    BY <1>1, <1>3, RowCreated
  <2>2. PICK kind \in {"FULL", "INCREMENTAL"}, root \in 0..MaxBackups, parent \in 0..MaxBackups :
          /\ row = [kind |-> kind, status |-> "IN_PROGRESS", root |-> root, parent |-> parent,
                    start |-> 0, stop |-> 0, done |-> 0, moved |-> FALSE]
          /\ kind = "FULL" => parent = 0
          /\ parent < new
    <3>1. PICK root \in {0, ExtendableRoot} :
            row = [kind |-> IF root = 0 THEN "FULL" ELSE "INCREMENTAL",
                   status |-> "IN_PROGRESS", root |-> root,
                   parent |-> IF root = 0 THEN 0 ELSE IncrementalParent(root),
                   start |-> 0, stop |-> 0, done |-> 0, moved |-> FALSE]
      BY <1>3 DEF CreatesRow
    <3>2. root # 0 => root \in CompletedFulls
      BY ExtendableFull
    <3>3. root \in 0..MaxBackups
      BY <1>1, <3>2, CatalogSets DEF CompletedFulls, Fulls, Ids
    <3>4. root # 0 => IncrementalParent(root) \in DOMAIN backups
      BY <3>2, ParentIsLast DEF Incrementals, CompletedFulls, Fulls
    <3>5. \A b \in DOMAIN backups : b \in 0..MaxBackups /\ b < new
      BY <1>1, CatalogSets DEF Ids
    <3> DEFINE parent == IF root = 0 THEN 0 ELSE IncrementalParent(root)
               kind == IF root = 0 THEN "FULL" ELSE "INCREMENTAL"
    <3>6. parent \in 0..MaxBackups /\ parent < new /\ (kind = "FULL" => parent = 0)
      BY <1>1, <2>1, <3>4, <3>5
    <3>7. row = [kind |-> kind, status |-> "IN_PROGRESS", root |-> root, parent |-> parent,
                 start |-> 0, stop |-> 0, done |-> 0, moved |-> FALSE]
      BY <3>1
    <3>8. kind \in {"FULL", "INCREMENTAL"}
      OBVIOUS
    <3> HIDE DEF parent, kind, row
    <3> QED BY <3>3, <3>6, <3>7, <3>8
  <2>3. 0 \in Lsn /\ 0 \in 0..MaxTime
    BY SegmentBounds, PhysicalAssumption DEF Lsn
  <2>4. row \in Row /\ row.stop = 0 /\ row.status = "IN_PROGRESS" /\ row.parent < new
        /\ (row.kind = "FULL" => row.parent = 0)
    <3> HIDE DEF row
    <3> QED BY <2>2, <2>3 DEF Row
  <2>5. /\ DOMAIN backups' = DOMAIN backups \cup {new} /\ created' = new /\ new <= MaxBackups
        /\ \A b \in DOMAIN backups : backups'[b] = backups[b]
    BY <1>1, <1>3 DEF CreatesRow
  <2>6. RowsTyped'
    <3>1. DOMAIN backups' \subseteq 1..new
      BY <1>1, <2>5, CatalogSets, PhysicalAssumption DEF RowsTyped
    <3> HIDE DEF new
    <3> QED BY <2>1, <2>4, <2>5, <3>1 DEF RowsTyped, Ids
  <2>7. RowShape'
    <3> HIDE DEF new
    <3>1. ASSUME NEW b \in DOMAIN backups PROVE backups'[b].stop <= pos'
      BY <1>1, <1>2, <2>5
    <3> QED BY <1>1, <2>4, <2>5, <3>1 DEF RowShape, Completed, Fulls
  <2> QED BY <2>6, <2>7
<1>4. CASE EndsRows
  <2>1. ASSUME NEW b \in DOMAIN backups PROVE backups'[b] \in Row
    <3>1. backups[b] \in Row /\ 0 \in Lsn
      BY SegmentBounds DEF RowsTyped, Lsn
    <3>2. CASE backups'[b] = backups[b]
      BY <3>1, <3>2
    <3>3. CASE CompletesRun(b)
      BY <1>1, <3>1, <3>3, EndedRow DEF CompletesRun
    <3>4. CASE GivesUp(b)
      BY <1>1, <3>1, <3>4, EndedRow DEF GivesUp
    <3> QED BY <1>4, <3>2, <3>3, <3>4 DEF EndsRows
  <2>2. RowsTyped'
    BY <1>4, <2>1 DEF RowsTyped, EndsRows
  <2>3. ASSUME NEW b \in DOMAIN backups
        PROVE  /\ backups'[b].stop <= pos'
               /\ backups'[b].status = "COMPLETED" => backups'[b].start < backups'[b].stop
               /\ backups'[b].kind = "FULL" => backups'[b].parent = 0
               /\ backups'[b].parent < b
    <3>1. backups'[b].kind = backups[b].kind /\ backups'[b].parent = backups[b].parent
      BY <1>4, EndingRows
    <3>2. backups'[b] = backups[b] \/ backups'[b].stop \in {0, pos'}
      BY <1>4, EndingRows
    <3>3. backups'[b].stop <= pos'
      BY <1>1, <1>2, <3>2
    <3>4. backups'[b].status = "COMPLETED" =>
             \/ backups'[b] = backups[b] /\ b \in Completed
             \/ run.start < pos' /\ backups'[b].start = run.start /\ backups'[b].stop = pos'
      BY <1>4, EndingRows DEF CompletesRun
    <3> QED BY <3>1, <3>3, <3>4 DEF RowShape, Fulls
  <2>4. RowShape'
    BY <1>4, <2>3 DEF RowShape, EndsRows, Completed, Fulls
  <2> QED BY <2>2, <2>4
<1>5. CASE RemovesRows
  <2>1. RowsTyped'
    BY <1>5 DEF RowsTyped, RemovesRows
  <2>2. \A b \in DOMAIN backups' : backups'[b].stop <= pos'
    BY <1>1, <1>2, <1>5 DEF RemovesRows
  <2>3. RowShape'
    BY <1>5, <2>2 DEF RowShape, RemovesRows, Completed, Fulls
  <2> QED BY <2>1, <2>3
<1> QED BY <1>3, <1>4, <1>5

LEMMA OneRunsKept ==
  ASSUME RowsTyped, RowShape, OneRuns, CreatesRow \/ EndsRows \/ RemovesRows
  PROVE  OneRuns'
<1>1. CASE CreatesRow
  <2>1. Running' = {created + 1} /\ run'.id = created + 1
    BY <1>1, RowCreated DEF CreatesRow
  <2> QED BY <2>1 DEF OneRuns
<1>2. CASE EndsRows
  <2>1. Running' \subseteq Running
    BY <1>2, EndingRows DEF EndsRows, Running
  <2>2. run'.stage = "idle" \/ (run.stage # "idle" /\ run'.id = run.id)
        \/ run' = run
    BY <1>2 DEF EndsRows, NoRun, BeginsRun
  <2> QED BY <2>1, <2>2 DEF OneRuns
<1>3. CASE RemovesRows
  <2>1. Running' \subseteq Running /\ run' = run
    BY <1>3 DEF RemovesRows, Running
  <2> QED BY <2>1 DEF OneRuns
<1> QED BY <1>1, <1>2, <1>3

LEMMA ArchivedKept ==
  ASSUME LogTyped, ArchivedThenRemoved, LogMoves
  PROVE  ArchivedThenRemoved'
<1>1. pos \in Nat /\ pos' \in Nat /\ pos <= pos'
  BY SegmentBounds DEF LogTyped, LogMoves, Lsn
<1>2. ASSUME NEW s \in Segs PROVE received'[s] # 0 => SegEnd(s) <= pos'
  <2>1. SegEnd(s) \in Nat
    BY SegmentBounds
  <2>2. received'[s] = received[s] \/ SegEnd(s) <= pos'
    BY DEF LogMoves
  <2> QED BY <1>1, <2>1, <2>2 DEF ArchivedThenRemoved
<1>3. ASSUME NEW s \in Segs PROVE removed'[s].by # "nobody" => received'[s] # 0
  <2>1. removed'[s] = removed[s] \/ received[s] # 0
    BY DEF LogMoves
  <2>2. received[s] # 0 => received'[s] # 0
    BY DEF LogMoves
  <2> QED BY <2>1, <2>2 DEF ArchivedThenRemoved
<1>4. \A s \in Segs : SegEnd(s)' = SegEnd(s)
  BY DEF SegEnd
<1> QED BY <1>2, <1>3 DEF ArchivedThenRemoved

\* A run that goes on stays ahead; one that begins starts past what has been seen.
LEMMA StartStaysAhead ==
  ASSUME RowsTyped, LogTyped, RunTyped, RowShape, OneRuns, ArchivedThenRemoved, StartIsAhead,
         CreatesRow \/ EndsRows \/ RemovesRows, LogMoves,
         run'.stage = "running", run'.id \in Running'
  PROVE  /\ run'.start <= pos'
         /\ \A b \in Completed' : backups'[b].stop <= run'.start
         /\ run'.id \in Fulls' =>
              \A s \in Segs : removed'[s].by # "nobody" => SegEnd(s) <= run'.start
<1>1. pos \in Nat /\ pos' \in Nat /\ pos <= pos' /\ run.start \in Nat
      /\ \A s \in Segs : SegEnd(s) \in Nat
  BY SegmentBounds DEF LogTyped, LogMoves, Lsn, RunTyped, Run
<1>2. \A b \in DOMAIN backups : backups[b].stop \in Nat
  BY CatalogSets, SegmentBounds DEF Lsn
<1>3. ~CreatesRow
  BY DEF CreatesRow
<1>4. CASE BeginsRun
  <2>1. run'.start = pos' /\ UNCHANGED <<backups, received, removed>>
    BY <1>4 DEF BeginsRun
  <2>2. \A b \in DOMAIN backups : backups[b].stop <= pos'
    BY <1>1, <1>2 DEF RowShape
  <2>3. \A s \in Segs : removed[s].by # "nobody" => SegEnd(s) <= pos'
    BY <1>1 DEF ArchivedThenRemoved
  <2> QED BY <1>1, <2>1, <2>2, <2>3 DEF Completed
<1>5. CASE run' = run
  <2>1. run.id \in Running
    BY <1>3, <1>5, EndingRows DEF EndsRows, RemovesRows, Running
  <2>2. \A b \in Completed' : b \in Completed /\ backups'[b] = backups[b]
    <3>1. ASSUME EndsRows, NEW b \in Completed'
          PROVE  b \in Completed /\ backups'[b] = backups[b]
      <4>1. b \in DOMAIN backups /\ backups'[b].status = "COMPLETED"
        BY <3>1 DEF EndsRows, Completed
      <4>2. ASSUME CompletesRun(b) PROVE FALSE
        <5>1. run' = NoRun
          BY <4>2 DEF CompletesRun
        <5> QED BY <5>1 DEF NoRun
      <4> QED BY <3>1, <4>1, <4>2, EndingRows
    <3>2. ASSUME RemovesRows, NEW b \in Completed'
          PROVE  b \in Completed /\ backups'[b] = backups[b]
      BY <3>2 DEF RemovesRows, Completed
    <3> QED BY <1>3, <3>1, <3>2
  <2>3. run.id \in Fulls' => run.id \in Fulls
    BY <1>3, EndingRows DEF EndsRows, RemovesRows, Fulls
  <2>4. run.id \in Fulls => \A s \in Segs : removed'[s] = removed[s]
    BY <2>1 DEF LogMoves, HasRunningFull
  <2>5. run.stage = "running" /\ run.start <= pos
    BY <1>5, <2>1 DEF StartIsAhead
  <2>6. run'.start <= pos'
    BY <1>1, <1>5, <2>5
  <2>7. \A b \in Completed' : backups'[b].stop <= run'.start
    BY <1>5, <2>1, <2>2, <2>5 DEF StartIsAhead
  <2>8. run'.id \in Fulls' =>
              \A s \in Segs : removed'[s].by # "nobody" => SegEnd(s) <= run'.start
    BY <1>5, <2>1, <2>3, <2>4, <2>5 DEF StartIsAhead
  <2> QED BY <2>6, <2>7, <2>8
<1> QED BY <1>3, <1>4, <1>5 DEF EndsRows, RemovesRows, NoRun

\* A completed full of the next state was one already, or is the run's.
LEMMA CompletedFullsFrom ==
  ASSUME RowsTyped, RowShape, CreatesRow \/ EndsRows \/ RemovesRows, NEW f \in CompletedFulls'
  PROVE  \/ f \in CompletedFulls /\ backups'[f] = backups[f]
         \/ /\ EndsRows /\ f \in Running /\ f \in Fulls /\ CompletesRun(f)
            /\ backups'[f].start = run.start
<1>1. CASE CreatesRow
  <2>1. f \in CompletedFulls
    BY <1>1, RowCreated
  <2> QED BY <1>1, <2>1 DEF CreatesRow, CompletedFulls, Fulls
<1>2. CASE EndsRows
  <2>1. f \in DOMAIN backups /\ backups'[f].status = "COMPLETED" /\ backups'[f].kind = "FULL"
    BY <1>2 DEF EndsRows, CompletedFulls, Completed, Fulls
  <2>2. f \in Fulls
    BY <1>2, <2>1, EndingRows DEF Fulls
  <2> QED BY <1>2, <2>1, <2>2, EndingRows DEF CompletedFulls
<1>3. CASE RemovesRows
  BY <1>3 DEF RemovesRows, CompletedFulls, Completed, Fulls
<1> QED BY <1>1, <1>2, <1>3

\* What is removed was spared by the fulls there were, and a full that completes began
\* after it.
LEMMA WalStaysKept ==
  ASSUME RowsTyped, LogTyped, RunTyped, RowShape, StartIsAhead, WalKept,
         CreatesRow \/ EndsRows \/ RemovesRows, LogMoves
  PROVE  WalKept'
<1>1. ASSUME NEW f \in CompletedFulls', NEW s \in Segs, removed'[s].by # "nobody",
             SegEnd(s) > backups'[f].start
      PROVE  \/ removed'[s].by = "delete" /\ removed'[s].at = backups'[f].start
             \/ removed'[s].by = "shed" /\ removed'[s].at >= backups'[f].start
  <2>1. CASE f \in CompletedFulls /\ backups'[f] = backups[f]
    <3>1. CASE removed'[s] = removed[s]
      BY <1>1, <2>1, <3>1 DEF WalKept
    <3>2. CASE Spared(f, s, removed'[s].by, removed'[s].at)
      BY <1>1, <2>1, <3>2 DEF Spared
    <3> QED BY <2>1, <3>1, <3>2 DEF LogMoves
  <2>2. CASE EndsRows /\ f \in Running /\ f \in Fulls /\ CompletesRun(f)
             /\ backups'[f].start = run.start
    <3>1. f = run.id /\ run.stage = "running" /\ removed' = removed
      BY <2>2 DEF CompletesRun
    <3>2. SegEnd(s) <= run.start
      BY <1>1, <2>2, <3>1 DEF StartIsAhead
    <3>3. SegEnd(s) \in Nat /\ run.start \in Nat
      BY SegmentBounds DEF RunTyped, Run, Lsn
    <3> QED BY <1>1, <2>2, <3>2, <3>3
  <2> QED BY <2>1, <2>2, CompletedFullsFrom
<1>2. \A s \in Segs : SegEnd(s)' = SegEnd(s)
  BY DEF SegEnd
<1> QED BY <1>1, <1>2 DEF WalKept

\* The incrementals that have completed, one chain at a time.
Done(root) == Incrementals(root) \cap Completed

\* What RestoreSetIsLineage says of one incremental.
LineOf(i) ==
    LET root == backups[i].root
        before == {c \in Done(root) \ {i} : backups[c].start <= backups[i].start}
    IN  /\ root \in CompletedFulls
        /\ backups[i].parent \in before \cup {root}
        /\ \A c \in before : /\ backups[c].start <= backups[backups[i].parent].start
                             /\ backups[c].stop <= backups[i].start

\* An incremental whose chain loses incrementals, but not its full or its parent, and
\* gains only ones that start after it, keeps its line.
LEMMA LineKept ==
  ASSUME RowsTyped, NEW i \in Completed \ Fulls, LineOf(i), backups'[i] = backups[i],
         backups[i].root \in CompletedFulls', backups'[backups[i].root] = backups[backups[i].root],
         backups[i].parent \in Done(backups[i].root) =>
           /\ backups[i].parent \in Done(backups[i].root)'
           /\ backups'[backups[i].parent] = backups[backups[i].parent],
         \A c \in Done(backups[i].root)' :
           \/ c \in Done(backups[i].root) /\ backups'[c] = backups[c]
           \/ ~(backups'[c].start <= backups[i].start)
  PROVE  LineOf(i)'
<1> DEFINE root == backups[i].root
           parent == backups[i].parent
           before == {c \in Done(root) \ {i} : backups[c].start <= backups[i].start}
           after == {c \in Done(root)' \ {i} : backups'[c].start <= backups'[i].start}
<1>1. parent \in before \cup {root}
  BY DEF LineOf
<1>2. \A c \in after : c \in before /\ backups'[c] = backups[c]
  OBVIOUS
<1>3. parent \in after \cup {root} /\ backups'[parent] = backups[parent]
  BY <1>1
<1>4. \A c \in after : /\ backups'[c].start <= backups'[parent].start
                       /\ backups'[c].stop <= backups'[i].start
  BY <1>2, <1>3 DEF LineOf
<1>5. LineOf(i)' <=> /\ root \in CompletedFulls'
                     /\ parent \in after \cup {root}
                     /\ \A c \in after : /\ backups'[c].start <= backups'[parent].start
                                         /\ backups'[c].stop <= backups'[i].start
  BY DEF LineOf
<1> QED BY <1>3, <1>4, <1>5

\* A chain of the next state: what is done in it was done, or is the run's and new.
LEMMA DoneFrom ==
  ASSUME RowsTyped, RowShape, EndsRows, NEW root, NEW c \in DOMAIN backups',
         backups'[c].status = "COMPLETED", backups'[c].kind # "FULL", backups'[c].root = root
  PROVE  \/ c \in Done(root) /\ backups'[c] = backups[c]
         \/ c \in Running /\ CompletesRun(c) /\ backups'[c].start = run.start
<1>1. c \in DOMAIN backups
  BY DEF EndsRows
<1>2. c \notin Fulls /\ backups[c].root = root
  BY <1>1, EndingRows DEF Fulls
<1> QED BY <1>1, <1>2, EndingRows DEF Done, Incrementals

\* Rows that have ended stay where rows end.
LEMMA EndedRowsStay ==
  ASSUME EndsRows, NEW b \in Completed
  PROVE  b \in Completed' /\ backups'[b] = backups[b] /\ (b \in Fulls <=> b \in Fulls')
<1>1. b \in DOMAIN backups /\ b \notin Running
  BY DEF Completed, Running
<1> QED BY <1>1, EndingRows DEF EndsRows, Completed, Fulls

\* An incremental that has completed and stays unchanged, when rows end beside it.
LEMMA LineKeptBesideEnds ==
  ASSUME RowsTyped, LogTyped, RunTyped, RowShape, StartIsAhead, EndsRows,
         NEW i \in Completed \ Fulls, LineOf(i)
  PROVE  LineOf(i)'
<1> DEFINE root == backups[i].root
           parent == backups[i].parent
<1>1. backups'[i] = backups[i]
  BY EndedRowsStay
<1>2. root \in CompletedFulls /\ root \in CompletedFulls' /\ backups'[root] = backups[root]
  BY EndedRowsStay DEF LineOf, CompletedFulls
<1>3. parent \in Done(root) => parent \in Done(root)' /\ backups'[parent] = backups[parent]
  <2>1. ASSUME parent \in Done(root)
        PROVE  parent \in Done(root)' /\ backups'[parent] = backups[parent]
    <3>1. parent \in Completed /\ parent \notin Fulls /\ backups[parent].root = root
      BY <2>1 DEF Done, Incrementals
    <3>2. parent \in Completed' /\ backups'[parent] = backups[parent] /\ parent \notin Fulls'
      BY <3>1, EndedRowsStay
    <3> QED BY <1>1, <3>1, <3>2 DEF Done, Incrementals, Completed
  <2> QED BY <2>1
<1>4. ASSUME NEW c \in Done(root)'
      PROVE  \/ c \in Done(root) /\ backups'[c] = backups[c]
             \/ ~(backups'[c].start <= backups[i].start)
  <2>1. c \in DOMAIN backups' /\ backups'[c].status = "COMPLETED" /\ backups'[c].kind # "FULL"
        /\ backups'[c].root = root
    BY <1>1, <1>4 DEF Done, Incrementals, Completed, Fulls
  <2>2. CASE c \in Running /\ CompletesRun(c) /\ backups'[c].start = run.start
    <3>1. backups[i].stop <= run.start
      BY <2>2 DEF StartIsAhead, CompletesRun
    <3>2. backups[i].start < backups[i].stop
      BY DEF RowShape, Completed
    <3>3. backups[i].start \in Nat /\ backups[i].stop \in Nat /\ run.start \in Nat
      BY CatalogSets, SegmentBounds DEF Completed, RunTyped, Run, Lsn
    <3> QED BY <2>2, <3>1, <3>2, <3>3
  <2> HIDE DEF root
  <2> QED BY <2>1, <2>2, DoneFrom
<1> QED BY <1>1, <1>2, <1>3, <1>4, LineKept

\* The incremental that completes extends the last one of its chain.
LEMMA LineOfCompleted ==
  ASSUME RowsTyped, LogTyped, RunTyped, RowShape, OneRuns, StartIsAhead, EndsRows,
         NEW i \in Running \ Fulls, CompletesRun(i), ExtendsTheLast(i),
         backups'[i].start = run.start
  PROVE  LineOf(i)'
<1> DEFINE root == backups[i].root
           parent == backups[i].parent
<1>1. backups'[i].root = root /\ backups'[i].parent = parent
  BY EndingRows DEF Running
<1>2. root \in CompletedFulls' /\ backups'[root] = backups[root]
  BY EndedRowsStay DEF ExtendsTheLast, CompletedFulls
<1>3. \A c \in Completed : /\ backups[c].stop <= run.start /\ backups[c].start <= run.start
                           /\ backups[c].start \in Nat
  <2>1. ASSUME NEW c \in Completed
        PROVE  /\ backups[c].stop <= run.start /\ backups[c].start <= run.start
               /\ backups[c].start \in Nat
    <3>1. backups[c].stop <= run.start /\ backups[c].start < backups[c].stop
      BY DEF StartIsAhead, CompletesRun, RowShape, Completed
    <3>2. backups[c].start \in Nat /\ backups[c].stop \in Nat /\ run.start \in Nat
      BY CatalogSets, SegmentBounds DEF Completed, RunTyped, Run, Lsn
    <3> QED BY <3>1, <3>2
  <2> QED BY <2>1
<1>4. ASSUME NEW c \in DOMAIN backups', backups'[c].status = "COMPLETED",
             backups'[c].kind # "FULL", backups'[c].root = root, c # i
      PROVE  c \in Done(root) /\ backups'[c] = backups[c]
  <2>1. ~(c \in Running /\ CompletesRun(c))
    BY <1>4 DEF OneRuns
  <2> HIDE DEF root
  <2> QED BY <1>4, <2>1, DoneFrom
<1>5. CASE parent = root /\ Done(root) = {}
  <2>1. \A c \in Done(root)' : c = i
    BY <1>1, <1>4, <1>5 DEF Done, Incrementals, Completed, Fulls
  <2> QED BY <1>1, <1>2, <1>5, <2>1 DEF LineOf
<1>6. CASE parent \in Done(root) /\ \A c \in Done(root) : backups[c].start <= backups[parent].start
  <2>1. parent \in Completed /\ parent \notin Fulls /\ backups[parent].root = root
    BY <1>6 DEF Done, Incrementals
  <2>2. parent \in Completed' /\ backups'[parent] = backups[parent] /\ parent \notin Fulls'
    BY <2>1, EndedRowsStay
  <2>3. parent \in Done(root)' /\ parent # i /\ backups'[parent].start <= run.start
    <3>1. parent # i
      BY <2>1 DEF Completed, Running
    <3> QED BY <1>1, <1>3, <2>1, <2>2, <3>1 DEF Done, Incrementals, Completed
  <2>4. ASSUME NEW c \in Done(root)' \ {i}
        PROVE  /\ backups'[c].start <= backups'[parent].start
               /\ backups'[c].stop <= run.start
    <3>1. c \in Done(root) /\ backups'[c] = backups[c]
      BY <1>1, <1>4, <2>4 DEF Done, Incrementals, Completed, Fulls
    <3> QED BY <1>3, <1>6, <2>2, <3>1 DEF Done
  <2> QED BY <1>1, <1>2, <2>3, <2>4 DEF LineOf
<1> QED BY <1>5, <1>6 DEF ExtendsTheLast, Done

\* The running incremental, when no row is created.
LEMMA ExtensionKept ==
  ASSUME RowsTyped, RowShape, OneRuns, EndsRows \/ RemovesRows,
         NEW r \in Running' \ Fulls', r \in Running \ Fulls => ExtendsTheLast(r)
  PROVE  ExtendsTheLast(r)'
<1> DEFINE root == backups[r].root
           parent == backups[r].parent
<1>1. r \in Running \ Fulls /\ backups'[r].root = root /\ backups'[r].parent = parent
  <2>1. CASE EndsRows
    BY <2>1, EndingRows DEF EndsRows, Running, Fulls
  <2>2. CASE RemovesRows
    BY <2>2 DEF RemovesRows, Running, Fulls
  <2> QED BY <2>1, <2>2
<1>2. root \in CompletedFulls
  BY <1>1 DEF ExtendsTheLast
<1>3. root \in CompletedFulls'
  <2>1. CASE EndsRows
    BY <1>2, <2>1, EndedRowsStay DEF CompletedFulls
  <2>2. CASE RemovesRows
    BY <1>1, <1>2, <2>2 DEF RemovesRows, Running, CompletedFulls, Completed, Fulls
  <2> QED BY <2>1, <2>2
<1>4. \A c \in Done(root)' : c \in Done(root) /\ backups'[c] = backups[c]
  <2>1. ASSUME EndsRows, NEW c \in Done(root)'
        PROVE  c \in Done(root) /\ backups'[c] = backups[c]
    <3>1. c \in DOMAIN backups' /\ backups'[c].status = "COMPLETED" /\ backups'[c].kind # "FULL"
          /\ backups'[c].root = root
      BY <1>1, <2>1 DEF Done, Incrementals, Completed, Fulls
    <3>2. c # r
      BY <3>1 DEF Running
    <3>3. c \notin Running
      BY <1>1, <3>2 DEF OneRuns
    <3> HIDE DEF root
    <3> QED BY <2>1, <3>1, <3>3, DoneFrom
  <2>2. ASSUME RemovesRows, NEW c \in Done(root)'
        PROVE  c \in Done(root) /\ backups'[c] = backups[c]
    BY <1>1, <2>2 DEF RemovesRows, Done, Incrementals, Completed, Fulls
  <2> QED BY <2>1, <2>2
<1>5. parent \in Done(root) => parent \in Done(root)' /\ backups'[parent] = backups[parent]
  <2>1. ASSUME EndsRows, parent \in Done(root)
        PROVE  parent \in Done(root)' /\ backups'[parent] = backups[parent]
    <3>1. parent \in Completed /\ parent \notin Fulls /\ backups[parent].root = root
      BY <2>1 DEF Done, Incrementals
    <3>2. parent \in Completed' /\ backups'[parent] = backups[parent] /\ parent \notin Fulls'
      BY <2>1, <3>1, EndedRowsStay
    <3> QED BY <1>1, <3>1, <3>2 DEF Done, Incrementals, Completed
  <2>2. ASSUME RemovesRows, parent \in Done(root)
        PROVE  parent \in Done(root)' /\ backups'[parent] = backups[parent]
    <3>1. parent \in Incrementals(root) /\ parent \in Completed
      BY <2>2 DEF Done
    <3>2. r \in DOMAIN backups' \ Fulls
      BY <1>1 DEF Running
    <3>3. parent \in DOMAIN backups'
      BY <2>2, <3>1, <3>2 DEF RemovesRows
    <3>4. backups'[parent] = backups[parent]
      BY <2>2, <3>3 DEF RemovesRows
    <3> QED BY <1>1, <3>1, <3>3, <3>4 DEF Done, Incrementals, Completed, Fulls
  <2> QED BY <2>1, <2>2
<1>6. CASE parent = root /\ Done(root) = {}
  BY <1>1, <1>3, <1>4, <1>6 DEF ExtendsTheLast, Done
<1>7. CASE parent \in Done(root) /\ \A c \in Done(root) : backups[c].start <= backups[parent].start
  <2>1. \A c \in Done(root)' : backups'[c].start <= backups'[parent].start
    BY <1>4, <1>5, <1>7
  <2> QED BY <1>1, <1>3, <1>5, <1>7, <2>1 DEF ExtendsTheLast, Done
<1> QED BY <1>1, <1>6, <1>7 DEF ExtendsTheLast, Done

\* An incremental that has completed keeps its line while rows go.
LEMMA LineKeptBesideRemovals ==
  ASSUME RowsTyped, RowShape, RemovesRows, NEW i \in Completed \ Fulls, LineOf(i),
         i \in DOMAIN backups'
  PROVE  LineOf(i)'
<1> DEFINE root == backups[i].root
           parent == backups[i].parent
<1>1. backups'[i] = backups[i]
  BY DEF RemovesRows
<1>2. root \in CompletedFulls /\ root \in DOMAIN backups' /\ backups'[root] = backups[root]
  BY DEF LineOf, RemovesRows, CompletedFulls
<1>3. root \in CompletedFulls'
  BY <1>2 DEF CompletedFulls, Completed, Fulls
<1>4. parent \in Done(root) => parent \in Done(root)' /\ backups'[parent] = backups[parent]
  <2>1. ASSUME parent \in Done(root)
        PROVE  parent \in Done(root)' /\ backups'[parent] = backups[parent]
    <3>1. parent \in Incrementals(root) /\ parent \in Completed
      BY <2>1 DEF Done
    <3>2. parent \in DOMAIN backups'
      BY <3>1 DEF RemovesRows
    <3>3. backups'[parent] = backups[parent]
      BY <3>2 DEF RemovesRows
    <3> QED BY <1>1, <3>1, <3>2, <3>3 DEF Done, Incrementals, Completed, Fulls
  <2> QED BY <2>1
<1>5. \A c \in Done(root)' : c \in Done(root) /\ backups'[c] = backups[c]
  BY <1>1 DEF RemovesRows, Done, Incrementals, Completed, Fulls
<1> QED BY <1>1, <1>2, <1>3, <1>4, <1>5, LineKept

LEMMA LineageIsLineOf ==
  RestoreSetIsLineage <=> \A i \in Completed \ Fulls : LineOf(i)
BY DEF RestoreSetIsLineage, LineOf, Done

LEMMA LineageKept ==
  ASSUME RowsTyped, LogTyped, RunTyped, RowShape, OneRuns, StartIsAhead,
         RunningExtendsTheLast, \A i \in Completed \ Fulls : LineOf(i),
         CreatesRow \/ EndsRows \/ RemovesRows
  PROVE  RunningExtendsTheLast' /\ \A i \in Completed' \ Fulls' : LineOf(i)'
<1>1. CASE CreatesRow
  <2> DEFINE new == created + 1
  <2>1. /\ new \notin DOMAIN backups /\ Completed' = Completed /\ CompletedFulls' = CompletedFulls
        /\ Running' = {new}
        /\ \A f \in DOMAIN backups :
             Incrementals(f)' \cap Completed' = Incrementals(f) \cap Completed
    BY <1>1, RowCreated
  <2>2. \A b \in DOMAIN backups : b \in DOMAIN backups' /\ backups'[b] = backups[b]
    BY <1>1 DEF CreatesRow
  <2>3. ASSUME NEW i \in Completed' \ Fulls' PROVE LineOf(i)'
    <3>1. i \in Completed \ Fulls /\ i \in DOMAIN backups
      BY <2>1, <2>2, <2>3 DEF Completed, Fulls
    <3>2. LineOf(i) /\ backups'[i] = backups[i]
      BY <2>2, <3>1
    <3>3. backups[i].root \in CompletedFulls /\ backups[i].root \in DOMAIN backups
      BY <3>2 DEF LineOf, CompletedFulls, Fulls
    <3>4. Done(backups[i].root)' = Done(backups[i].root)
      BY <2>1, <3>2, <3>3 DEF Done
    <3>5. \A c \in Done(backups[i].root) : backups'[c] = backups[c]
      BY <2>2 DEF Done, Incrementals
    <3> QED BY <2>1, <2>2, <3>1, <3>2, <3>3, <3>4, <3>5, LineKept
  <2>4. ASSUME NEW r \in Running' \ Fulls' PROVE ExtendsTheLast(r)'
    <3>1. /\ backups'[r].root \in CompletedFulls
          /\ backups'[r].parent = IncrementalParent(backups'[r].root)
      <4>1. r = new /\ new \in DOMAIN backups'
        BY <1>1, <2>1, <2>4 DEF CreatesRow
      <4>2. backups'[new].kind # "FULL"
        BY <2>4, <4>1 DEF Fulls
      <4> QED BY <1>1, <4>1, <4>2, CreatedExtends
    <3>2. PICK root, last :
            /\ root \in CompletedFulls
            /\ backups'[r].root = root /\ backups'[r].parent = last
            /\ last = IncrementalParent(root)
      BY <3>1
    <3>3. \/ Done(root) = {} /\ last = root
          \/ last \in Done(root) /\ \A c \in Done(root) : backups[c].start <= backups[last].start
      BY <3>2, ParentIsLast DEF Done
    <3>4. Done(root)' = Done(root) /\ root \in CompletedFulls'
      <4>1. root \in DOMAIN backups /\ root \in CompletedFulls
        BY <3>2 DEF CompletedFulls, Fulls
      <4> QED BY <2>1, <4>1 DEF Done
    <3>5. \A c \in Done(root) : backups'[c] = backups[c]
      BY <2>2 DEF Done, Incrementals
    <3>6. \/ Done(root) = {} /\ last = root
          \/ last \in Done(root) /\ \A c \in Done(root) : backups'[c].start <= backups'[last].start
      BY <3>3, <3>5
    <3> QED BY <3>2, <3>4, <3>6 DEF ExtendsTheLast, Done
  <2> QED BY <2>1, <2>3, <2>4 DEF RunningExtendsTheLast
<1>2. CASE EndsRows
  <2>1. ASSUME NEW i \in Completed' \ Fulls' PROVE LineOf(i)'
    <3>1. i \in DOMAIN backups /\ backups'[i].status = "COMPLETED" /\ i \notin Fulls
      BY <1>2, <2>1, EndingRows DEF EndsRows, Completed, Fulls
    <3>2. CASE i \in Completed
      BY <1>2, <3>1, <3>2, LineKeptBesideEnds
    <3>3. CASE i \in Running /\ CompletesRun(i) /\ backups'[i].start = run.start
      BY <1>2, <3>1, <3>3, LineOfCompleted DEF RunningExtendsTheLast
    <3> QED BY <1>2, <3>1, <3>2, <3>3, EndingRows
  <2>2. RunningExtendsTheLast'
    BY <1>2, ExtensionKept DEF RunningExtendsTheLast
  <2> QED BY <2>1, <2>2
<1>3. CASE RemovesRows
  <2>1. ASSUME NEW i \in Completed' \ Fulls' PROVE LineOf(i)'
    <3>1. i \in DOMAIN backups' /\ i \in Completed \ Fulls
      BY <1>3, <2>1 DEF RemovesRows, Completed, Fulls
    <3> QED BY <1>3, <3>1, LineKeptBesideRemovals
  <2>2. RunningExtendsTheLast'
    BY <1>3, ExtensionKept DEF RunningExtendsTheLast
  <2> QED BY <2>1, <2>2
<1> QED BY <1>1, <1>2, <1>3

-----------------------------------------------------------------------------
(***************************************************************************)
(* The point a latest restore reaches.                                     *)
(***************************************************************************)

\* The backup that runs is the newest, a chain is older than what extends it, and what
\* has completed has read the log in the order of the numbers.
InOrder ==
    /\ \A b \in Running : b = created
    /\ \A b \in DOMAIN backups : backups[b].root < b
    /\ \A a, b \in Completed : a < b => backups[a].stop <= backups[b].start

\* The cleaner's list names chains older than the one it spared, or than any begun since.
JobsAreSpared ==
    \A i \in DOMAIN cleaner.jobs :
        /\ cleaner.jobs[i].root < cleaner.spares
        /\ cleaner.jobs[i].root \in DOMAIN backups => cleaner.jobs[i].root \in CompletedFulls

\* A number of a set that none exceeds is its maximum.
LEMMA MaxIs ==
  ASSUME NEW S \in SUBSET Nat, NEW m \in S, \A x \in S : x <= m
  PROVE  Max(S) = m
<1>1. Max(S) \in S /\ \A x \in S : Max(S) >= x
  <2>1. \A x \in S : m >= x
    OBVIOUS
  <2> QED BY <2>1 DEF Max
<1>2. Max(S) \in Nat /\ m \in Nat /\ Max(S) >= m /\ Max(S) <= m
  BY <1>1
<1> QED BY <1>2

\* The order is kept: a run that completes is the newest, and began past them all.
LEMMA OrderKept ==
  ASSUME RowsTyped, RowShape, OneRuns, StartIsAhead, InOrder,
         CreatesRow \/ EndsRows \/ RemovesRows
  PROVE  InOrder'
<1>1. created \in Nat /\ \A b \in DOMAIN backups : b \in Nat /\ b <= created
  BY CatalogSets
<1>2. CASE CreatesRow
  <2>1. Running' = {created + 1} /\ created' = created + 1
    BY <1>2, RowCreated DEF CreatesRow
  <2>2. ASSUME NEW b \in DOMAIN backups' PROVE backups'[b].root < b
    <3>1. CASE b \in DOMAIN backups
      BY <1>2, <3>1 DEF CreatesRow, InOrder
    <3>2. CASE b = created + 1
      <4>1. backups'[b].root \in {0, ExtendableRoot}
        BY <1>2, <3>2 DEF CreatesRow
      <4>2. ExtendableRoot # 0 => ExtendableRoot \in Nat /\ ExtendableRoot <= created
        BY <1>1, ExtendableFull DEF CompletedFulls, Fulls
      <4> QED BY <1>1, <3>2, <4>1, <4>2
    <3> QED BY <1>2, <3>1, <3>2 DEF CreatesRow
  <2>3. Completed' = Completed /\ \A b \in Completed : backups'[b] = backups[b]
    BY <1>2, RowCreated DEF CreatesRow, Completed
  <2> QED BY <2>1, <2>2, <2>3 DEF InOrder
<1>3. CASE EndsRows
  <2>1. created' = created /\ DOMAIN backups' = DOMAIN backups
    BY <1>3 DEF EndsRows
  <2>2. Running' \subseteq Running
    BY <1>3, <2>1, EndingRows DEF Running
  <2>3. \A b \in DOMAIN backups : backups'[b].root = backups[b].root
    BY <1>3, EndingRows
  <2>4. ASSUME NEW b \in Completed'
        PROVE  \/ b \in Completed /\ backups'[b] = backups[b]
               \/ /\ b = created /\ backups'[b].start = run.start
                  /\ run.stage = "running" /\ run.id \in Running
    <3>1. b \in DOMAIN backups /\ backups'[b].status = "COMPLETED"
      BY <2>1 DEF Completed
    <3> QED BY <1>3, <3>1, EndingRows DEF InOrder, CompletesRun
  <2>5. ASSUME NEW a \in Completed', NEW b \in Completed', a < b
        PROVE  backups'[a].stop <= backups'[b].start
    <3>1. a \in Nat /\ b \in Nat /\ a # created
      BY <1>1, <2>1, <2>5 DEF Completed
    <3>2. a \in Completed /\ backups'[a] = backups[a]
      BY <2>4, <3>1
    <3> QED BY <2>4, <2>5, <3>2 DEF InOrder, StartIsAhead
  <2> QED BY <2>1, <2>2, <2>3, <2>5 DEF InOrder
<1>4. CASE RemovesRows
  BY <1>4 DEF RemovesRows, InOrder, Running, Completed
<1> QED BY <1>2, <1>3, <1>4

\* A completed full stays one until it goes.
LEMMA CompletedFullsStay ==
  ASSUME RowsTyped, RowShape, CreatesRow \/ EndsRows \/ RemovesRows, NEW r \in 1..created,
         r \in DOMAIN backups => r \in CompletedFulls, r \in DOMAIN backups'
  PROVE  r \in CompletedFulls'
<1>1. created \in Nat /\ r # created + 1
  BY CatalogSets
<1>2. r \in DOMAIN backups
  BY <1>1 DEF CreatesRow, EndsRows, RemovesRows
<1>3. r \in CompletedFulls /\ r \notin Running
  BY <1>2 DEF CompletedFulls, Completed, Running
<1>4. backups'[r] = backups[r]
  BY <1>2, <1>3, EndingRows DEF CreatesRow, RemovesRows
<1> QED BY <1>3, <1>4 DEF CompletedFulls, Completed, Fulls

\* The list of the cleaner stays older than what it spared.
LEMMA JobsStaySpared ==
  ASSUME RowsTyped, LogTyped, RunTyped, CleanerTyped, RowShape, JobsAreFulls, JobsAreSpared,
         [Next]_vars
  PROVE  JobsAreSpared'
<1> USE DEF catalogVars, logVars, requestVars, vars
<1>1. CreatesRow \/ EndsRows \/ RemovesRows
  BY CatalogSteps
<1>2. cleaner.jobs \in Seq(Job) /\ Idle.jobs = <<>> /\ created \in Nat
  BY CatalogSets DEF CleanerTyped, Cleaner, Idle
<1>3. ASSUME NEW i \in DOMAIN cleaner.jobs
      PROVE  /\ cleaner.jobs[i].root < cleaner.spares
             /\ cleaner.jobs[i].root \in DOMAIN backups' =>
                  cleaner.jobs[i].root \in CompletedFulls'
  <2>1. cleaner.jobs[i].root \in 1..created
    <3>1. cleaner.jobs[i] \in Job
      BY <1>2
    <3>2. cleaner.jobs[i].root \in Ids /\ cleaner.jobs[i].root <= created
      BY <3>1 DEF Job, JobsAreFulls
    <3> QED BY <1>2, <3>2, PhysicalAssumption DEF Ids
  <2>2. cleaner.jobs[i].root < cleaner.spares
        /\ (cleaner.jobs[i].root \in DOMAIN backups => cleaner.jobs[i].root \in CompletedFulls)
    BY DEF JobsAreSpared
  <2> QED BY <1>1, <2>1, <2>2, CompletedFullsStay
<1>4. CASE cleaner' = cleaner
  BY <1>3, <1>4 DEF JobsAreSpared
<1>5. CASE cleaner'.jobs = <<>>
  BY <1>5 DEF JobsAreSpared
<1>6. CASE ListChains
  <2> DEFINE spares == IF ExtendableRoot # 0 THEN ExtendableRoot ELSE Max(CompletedFulls) + 1
  <2>1. \E policy \in Policies :
          cleaner' = [Idle EXCEPT !.jobs = RetentionJobs(policy), !.spares = spares]
    <3>1. \E given \in {RetentionJobs(p) : p \in Policies} :
            cleaner' = [Idle EXCEPT !.jobs = given, !.spares = spares]
      BY <1>6, Zenon DEF ListChains
    <3> HIDE DEF spares
    <3> QED BY <3>1, Zenon
  <2>2. PICK policy \in Policies :
          cleaner' = [Idle EXCEPT !.jobs = RetentionJobs(policy), !.spares = spares]
    <3> HIDE DEF spares
    <3> QED BY <2>1, Zenon
  <2>9. UNCHANGED backups
    BY <1>6 DEF ListChains
  <2> DEFINE jobs == RetentionJobs(policy)
  <2>3. \A i \in DOMAIN jobs : jobs[i].root \in NonExtendable
    BY JobsListed
  <2>4. ASSUME NEW f \in NonExtendable PROVE f < spares
    <3>1. f \in CompletedFulls /\ CompletedFulls \in SUBSET (0..created) /\ f # ExtendableRoot
      BY <1>2, CatalogSets DEF NonExtendable, CompletedFulls, Fulls
    <3>2. /\ Max(CompletedFulls) \in CompletedFulls /\ f <= Max(CompletedFulls)
          /\ \A x \in CompletedFulls : x <= Max(CompletedFulls)
      BY <1>2, <3>1, MaxOfNats
    <3>5. f \in Nat /\ Max(CompletedFulls) \in Nat /\ 0 <= Max(CompletedFulls)
      <4>1. \A x \in CompletedFulls : x \in Nat
        BY <1>2, CatalogSets DEF CompletedFulls, Fulls
      <4>2. f \in Nat /\ Max(CompletedFulls) \in Nat
        BY <3>1, <3>2, <4>1
      <4> HIDE DEF spares, jobs
      <4>3. \A x \in Nat : 0 <= x
        OBVIOUS
      <4> QED BY <4>2, <4>3
    <3>3. Max(CompletedFulls \cup {0}) = Max(CompletedFulls)
      <4>1. \A x \in CompletedFulls \cup {0} : x <= Max(CompletedFulls)
        BY <3>2, <3>5
      <4>2. CompletedFulls \cup {0} \in SUBSET Nat
        BY <3>1
      <4>3. Max(CompletedFulls) \in CompletedFulls \cup {0}
        BY <3>2
      <4> QED BY <4>1, <4>2, <4>3, MaxIs
    <3>4. ExtendableRoot \in {0, Max(CompletedFulls)}
      BY <3>3 DEF ExtendableRoot
    <3> QED BY <3>1, <3>2, <3>4, <3>5
  <2> HIDE DEF jobs, spares
  <2>5. cleaner' = [Idle EXCEPT !.jobs = jobs, !.spares = spares]
    BY <2>2 DEF jobs
  <2>6. cleaner'.jobs = jobs /\ cleaner'.spares = spares
    BY <2>5 DEF Idle
  <2>7. CompletedFulls' = CompletedFulls
    BY <2>9 DEF CompletedFulls, Completed, Fulls
  <2>8. \A f \in NonExtendable : f \in CompletedFulls
    BY DEF NonExtendable
  <2> QED BY <2>3, <2>4, <2>6, <2>7, <2>8 DEF JobsAreSpared
<1>7. CASE CleanChain
  <2>1. CASE cleaner' = Idle
    BY <1>2, <1>5, <2>1
  <2>2. CASE cleaner' = [cleaner EXCEPT !.jobs = Tail(cleaner.jobs)]
    <3>1. cleaner.jobs # <<>>
      BY <1>7 DEF CleanChain
    <3> DEFINE jobs == cleaner.jobs
               rest == Tail(jobs)
    <3>2. \A i \in DOMAIN rest : i + 1 \in DOMAIN jobs /\ rest[i] = jobs[i + 1]
      <4>1. jobs \in Seq(Job) /\ jobs # <<>>
        BY <1>2, <3>1
      <4> HIDE DEF jobs
      <4> QED BY <4>1
    <3>3. cleaner' = [cleaner EXCEPT !.jobs = rest]
      BY <2>2
    <3> HIDE DEF rest
    <3>4. cleaner'.jobs = rest /\ cleaner'.spares = cleaner.spares
      BY <3>3 DEF CleanerTyped, Cleaner
    <3> QED BY <1>3, <3>2, <3>4 DEF JobsAreSpared
  <2>3. cleaner' = Idle \/ cleaner' = [cleaner EXCEPT !.jobs = Tail(cleaner.jobs)]
    BY <1>7 DEF CleanChain
  <2> QED BY <2>1, <2>2, <2>3
<1>8. CASE ListOrphans
  BY <1>5, <1>8 DEF ListOrphans, Idle
<1>9. CASE SweepOrphan
  <2>1. PICK s : cleaner' = [cleaner EXCEPT !.orphans = cleaner.orphans \ {s}]
    BY <1>9 DEF SweepOrphan
  <2>2. cleaner'.jobs = cleaner.jobs /\ cleaner'.spares = cleaner.spares
    BY <2>1 DEF CleanerTyped, Cleaner
  <2> QED BY <1>3, <2>2 DEF JobsAreSpared
<1>10. CASE Scheduling \/ Process \/ User \/ Environment \/ UNCHANGED vars
  <2>1. cleaner' = cleaner \/ cleaner' = Idle
    BY <1>10 DEF Scheduling, Process, User, Environment, ClaimForcedFull, ClaimReplacementFull,
       ClaimForcedIncremental, ClaimScheduledFull, ClaimScheduledIncremental, Claim,
       DropIncrementalRequest, Begin, Complete, FailToOpen, Fail, BreakChain, Finish, Abandon,
       PersistFails, Restart, RequestFull, RequestIncremental, Cancel, Delete, Archive, Tick
  <2> QED BY <1>2, <1>4, <1>5, <2>1
<1> QED BY <1>6, <1>7, <1>8, <1>9, <1>10 DEF Next, Cleaning

\* The extendable chain is the newest completed full, and what it reaches begins past the
\* start of that full.
LEMMA NewestReach ==
  ASSUME RowsTyped, RowShape, InOrder, NEW e, ExtendableRoot = e, e # 0
  PROVE  /\ e \in CompletedFulls /\ \A g \in CompletedFulls : g <= e
         /\ Max(CompletedFulls) = e
         /\ IncrementalParent(e) \in DOMAIN backups
         /\ backups[e].start < backups[IncrementalParent(e)].stop
<1>1. created \in Nat /\ \A b \in DOMAIN backups : b \in Nat /\ b <= created
      /\ backups[b].start \in Nat /\ backups[b].stop \in Nat
  BY CatalogSets, SegmentBounds DEF Lsn
<1>2. e \in CompletedFulls
  BY ExtendableFull
<1>3. CompletedFulls \in SUBSET Nat
  BY <1>1 DEF CompletedFulls, Fulls
<1>4. \A g \in CompletedFulls : g <= e
  <2> DEFINE S == CompletedFulls \cup {0}
  <2>1. S \in SUBSET (0..created) /\ S # {}
    BY <1>1 DEF CompletedFulls, Fulls
  <2>2. e = Max(S)
    BY DEF ExtendableRoot
  <2>3. \A x \in S : x <= Max(S)
    <3> HIDE DEF S
    <3> QED BY <1>1, <2>1, MaxOfNats
  <2> QED BY <2>2, <2>3
<1>5. Max(CompletedFulls) = e
  BY <1>2, <1>3, <1>4, MaxIs
<1> DEFINE last == IncrementalParent(e)
<1>6. last = e \/ last \in Incrementals(e) \cap Completed
  BY ParentIsLast
<1>7. e \in DOMAIN backups /\ backups[e].start < backups[e].stop /\ e \in Completed
  BY <1>2 DEF CompletedFulls, Completed, RowShape
<1> HIDE DEF last
<1>8. ASSUME last = e
      PROVE  last \in DOMAIN backups /\ backups[e].start < backups[last].stop
  BY <1>7, <1>8
<1>9. ASSUME last \in Incrementals(e) \cap Completed
      PROVE  last \in DOMAIN backups /\ backups[e].start < backups[last].stop
  <2>1. last \in DOMAIN backups /\ last \in Completed /\ e < last
    BY <1>9 DEF Incrementals, InOrder
  <2>2. backups[e].stop <= backups[last].start /\ backups[last].start < backups[last].stop
    BY <1>7, <2>1 DEF InOrder, RowShape
  <2>3. /\ backups[e].start \in Nat /\ backups[e].stop \in Nat
        /\ backups[last].start \in Nat /\ backups[last].stop \in Nat
    BY <1>1, <1>7, <2>1
  <2> QED BY <1>7, <2>1, <2>2, <2>3
<1>10. last \in DOMAIN backups /\ backups[e].start < backups[last].stop
  BY <1>6, <1>8, <1>9 DEF last
<1> QED BY <1>2, <1>4, <1>5, <1>10 DEF last

\* The parent of the next incremental stays while the completed incrementals do.
LEMMA ParentStays ==
  ASSUME NEW f, (Incrementals(f) \cap Completed)' = Incrementals(f) \cap Completed,
         \A b \in Incrementals(f) \cap Completed : backups'[b] = backups[b]
  PROVE  IncrementalParent(f)' = IncrementalParent(f)
<1> DEFINE Last(b) == /\ b \in Incrementals(f) \cap Completed
                      /\ \A c \in Incrementals(f) \cap Completed :
                           backups[c].start <= backups[b].start
           LastThen(b) == /\ b \in (Incrementals(f) \cap Completed)'
                          /\ \A c \in (Incrementals(f) \cap Completed)' :
                               backups'[c].start <= backups'[b].start
<1>1. IncrementalParent(f) = IF Incrementals(f) \cap Completed = {} THEN f ELSE CHOOSE b : Last(b)
  BY DEF IncrementalParent
<1>2. IncrementalParent(f)' = IF (Incrementals(f) \cap Completed)' = {} THEN f
                              ELSE CHOOSE b : LastThen(b)
  BY DEF IncrementalParent
<1>3. \A b : Last(b) <=> LastThen(b)
  OBVIOUS
<1> HIDE DEF Last, LastThen
<1>4. (CHOOSE b : Last(b)) = (CHOOSE b : LastThen(b))
  BY <1>3, Zenon
<1> QED BY <1>1, <1>2, <1>4

\* Older chains may go, and the log before the last backup of the newest one: the point
\* reached stays.
LEMMA ReachStays ==
  ASSUME RowsTyped, RowShape, InOrder, NEW e, ExtendableRoot = e, e # 0,
         e \in DOMAIN backups', DOMAIN backups' \subseteq DOMAIN backups,
         \A b \in DOMAIN backups' : backups'[b] = backups[b],
         Incrementals(e) \subseteq DOMAIN backups', received' = received,
         \A s \in Segs : \/ removed'[s] = removed[s]
                         \/ SegEnd(s) <= backups[IncrementalParent(e)].stop
  PROVE  ExtendableRoot' = ExtendableRoot /\ LatestReach' = LatestReach
<1>1. /\ e \in CompletedFulls /\ \A g \in CompletedFulls : g <= e
      /\ Max(CompletedFulls) = e
      /\ IncrementalParent(e) \in DOMAIN backups
  BY NewestReach
<1>2. CompletedFulls \in SUBSET Nat
  BY CatalogSets DEF CompletedFulls, Fulls
<1>3. CompletedFulls' \subseteq CompletedFulls /\ e \in CompletedFulls'
  BY <1>1 DEF CompletedFulls, Completed, Fulls
<1>4. Max(CompletedFulls') = e
  BY <1>1, <1>2, <1>3, MaxIs
<1>5. Max(CompletedFulls' \cup {0}) = e
  <2>1. /\ CompletedFulls' \cup {0} \in SUBSET Nat /\ e \in CompletedFulls' \cup {0}
        /\ \A x \in CompletedFulls' \cup {0} : x <= e
    BY <1>1, <1>2, <1>3
  <2> QED BY <2>1, MaxIs
<1>6. Max(CompletedFulls \cup {0}) = e
  BY DEF ExtendableRoot
<1>7. Incrementals(e)' = Incrementals(e)
      /\ \A b \in Incrementals(e) : backups'[b] = backups[b]
  BY DEF Incrementals, Fulls
<1>8. ExtendableRoot' = e
  BY <1>5, <1>6, <1>7 DEF ExtendableRoot
<1>9. PICK last : last = IncrementalParent(e)
  OBVIOUS
<1>10. IncrementalParent(e)' = last
  <2>1. (Incrementals(e) \cap Completed)' = Incrementals(e) \cap Completed
    BY <1>7 DEF Completed, Incrementals
  <2> QED BY <1>7, <1>9, <2>1, ParentStays
<1>11. backups'[last] = backups[last]
  <2>1. last = e \/ last \in Incrementals(e)
    BY <1>9, ParentIsLast
  <2> QED BY <1>7, <2>1
<1>12. PICK from : from = backups[last].stop
  OBVIOUS
<1>13. from \in Nat
  BY <1>1, <1>9, <1>12, CatalogSets, SegmentBounds DEF Lsn
<1> DEFINE After == {s \in Segs : SegEnd(s) > from}
           Unbroken(wal) == {s \in After : \A t \in After : t <= s => t \in wal}
           Reach(wal) == IF Unbroken(wal) = {} THEN from ELSE SegEnd(Max(Unbroken(wal)))
<1>14. \A t \in After : t \in Wal' <=> t \in Wal
  <2>1. ASSUME NEW t \in After PROVE removed'[t] = removed[t]
    BY <1>9, <1>12, <1>13, SegmentBounds
  <2> QED BY <2>1 DEF Wal
<1>15. Unbroken(Wal') = Unbroken(Wal)
  BY <1>14
<1>16. LatestReach = Reach(Wal)
  BY <1>1, <1>9, <1>12 DEF LatestReach
<1>17. LatestReach' = Reach(Wal')
  BY <1>4, <1>10, <1>11, <1>12 DEF LatestReach, SegEnd
<1> HIDE DEF Unbroken
<1> QED BY <1>8, <1>15, <1>16, <1>17

\* The steps of the cleaner are removals the newest chain does not notice: an older chain
\* ends where a later full starts, and an orphan lies before every completed full.
LEMMA CleaningKeepsReach ==
  ASSUME IInv, InOrder, JobsAreSpared, CleanChain \/ SweepOrphan,
         ExtendableRoot # 0, ExtendableRoot >= cleaner.spares
  PROVE  ExtendableRoot' = ExtendableRoot /\ LatestReach' = LatestReach
<1> USE DEF catalogVars, logVars
<1>1. RowsTyped /\ LogTyped /\ RowShape /\ CleanerTyped
  BY DEF IInv
<1>2. PICK e : e = ExtendableRoot
  OBVIOUS
<1>3. PICK from : from = backups[IncrementalParent(e)].stop
  OBVIOUS
<1>4. /\ e \in CompletedFulls /\ \A g \in CompletedFulls : g <= e
      /\ IncrementalParent(e) \in DOMAIN backups
      /\ backups[e].start < from
  BY <1>1, <1>2, <1>3, NewestReach
<1>5. /\ e \in DOMAIN backups /\ e \in Completed /\ e \in Nat
      /\ backups[e].start \in Nat /\ from \in Nat
      /\ \A s \in Segs : SegEnd(s) \in Nat
  BY <1>1, <1>3, <1>4, CatalogSets, SegmentBounds DEF CompletedFulls, Completed, Lsn
<1>6. CASE SweepOrphan
  <2>1. PICK s : RemoveWal(IF IsOrphan(s) THEN {s} ELSE {}, "sweep", 0)
    BY <1>6 DEF SweepOrphan
  <2>2. UNCHANGED <<backups, received>>
    BY <1>6 DEF SweepOrphan
  <2>3. ASSUME NEW t \in Segs PROVE removed'[t] = removed[t] \/ SegEnd(t) <= from
    <3>1. removed'[t] = removed[t] \/ (t = s /\ IsOrphan(s))
      BY <2>1 DEF RemoveWal
    <3>2. t = s /\ IsOrphan(s) => ~(backups[e].start < SegEnd(t))
      BY <1>4 DEF IsOrphan, Orphans, IsCovered
    <3> QED BY <1>4, <1>5, <3>1, <3>2
  <2> QED BY <1>1, <1>2, <1>3, <1>5, <2>2, <2>3, ReachStays DEF Incrementals
<1>7. CASE CleanChain
  <2>1. received' = received
    BY <1>7 DEF CleanChain
  <2>2. 1 \in DOMAIN cleaner.jobs /\ Head(cleaner.jobs) = cleaner.jobs[1]
        /\ cleaner.spares \in Nat /\ cleaner.jobs[1] \in Job
    <3>1. cleaner.jobs \in Seq(Job) /\ cleaner.jobs # <<>> /\ cleaner.spares \in Nat
      BY <1>1, <1>7, PhysicalAssumption DEF CleanChain, CleanerTyped, Cleaner
    <3> QED BY <3>1
  <2>3. PICK f, keepFull :
          /\ f = cleaner.jobs[1].root /\ keepFull \in BOOLEAN
          /\ IF f \in DOMAIN backups THEN CascadeDelete(f, WalBudget, keepFull)
                                     ELSE UNCHANGED <<backups, removed>>
    BY <1>7, <2>2 DEF CleanChain, Job
  <2>4. f < cleaner.spares /\ (f \in DOMAIN backups => f \in CompletedFulls) /\ f \in Nat
    BY <2>2, <2>3, PhysicalAssumption DEF JobsAreSpared, Job, Ids
  <2>5. f < e
    BY <1>2, <1>5, <2>2, <2>4
  <2>6. CASE f \notin DOMAIN backups
    BY <1>1, <1>2, <1>5, <2>1, <2>3, <2>6, ReachStays DEF Incrementals
  <2>7. CASE f \in DOMAIN backups
    <3>1. CascadeDelete(f, WalBudget, keepFull) /\ f \in CompletedFulls
      BY <2>3, <2>4, <2>7
    <3>2. PICK gone \in {{}, Incrementals(f), Incrementals(f) \cup {f}} : RemoveRows(gone)
      BY <3>1 DEF CascadeDelete
    <3>3. DOMAIN backups' = DOMAIN backups \ gone
          /\ \A b \in DOMAIN backups' : backups'[b] = backups[b]
      BY <3>2 DEF RemoveRows
    <3>4. e \in DOMAIN backups' /\ Incrementals(e) \subseteq DOMAIN backups'
      BY <1>4, <1>5, <2>5, <3>1, <3>2, <3>3 DEF Incrementals, CompletedFulls
    <3>5. backups[f].stop <= backups[e].start /\ backups[f].start < backups[f].stop
      <4>1. f \in Completed /\ f \in DOMAIN backups
        BY <3>1 DEF CompletedFulls, Completed
      <4> QED BY <1>1, <1>5, <2>5, <4>1 DEF InOrder, RowShape
    <3>6. backups[f].start \in Nat /\ backups[f].stop \in Nat
      BY <1>1, <2>7, CatalogSets, SegmentBounds DEF Lsn
    <3>7. SpanEnd(f) \in Nat /\ SpanEnd(f) <= backups[e].start
      BY <1>1, <1>4, <1>5, <2>7, <3>5, <3>6, SpanEndsEarly
    <3>8. ASSUME NEW t \in Segs PROVE removed'[t] = removed[t] \/ SegEnd(t) <= from
      <4>1. removed'[t] = removed[t] \/ t \in RemovableWal(f, keepFull)
        BY <3>1 DEF CascadeDelete, RemoveWal, WithinBudget
      <4>2. t \in RemovableWal(f, keepFull) => SegEnd(t) <= SpanEnd(f)
        BY DEF RemovableWal, Contained
      <4> QED BY <1>4, <1>5, <3>7, <4>1, <4>2
    <3> QED BY <1>1, <1>2, <1>3, <2>1, <3>3, <3>4, <3>8, ReachStays
  <2> QED BY <2>6, <2>7
<1> QED BY <1>6, <1>7

-----------------------------------------------------------------------------
(***************************************************************************)
(* The theorems.                                                           *)
(***************************************************************************)
LEMMA InitKeeps == Init => IInv
<1> SUFFICES ASSUME Init PROVE IInv
  OBVIOUS
<1>1. DOMAIN backups = {} /\ created = 0
  BY DEF Init
<1>2. 1 \in Lsn /\ 0 \in Lsn
  <2>1. MaxLsn \in Nat /\ SegmentSize \in Nat /\ SegmentSize >= 1 /\ 1 \in Segs
    BY SegmentBounds, PhysicalAssumption DEF Segs
  <2>2. SegEnd(1) <= MaxLsn /\ SegEnd(1) = SegmentSize
    BY <2>1, SegmentBounds, PhysicalAssumption DEF SegEnd
  <2> QED BY <2>1, <2>2 DEF Lsn
<1>3. NoRun \in Run /\ NotRemoved \in Removal /\ Idle \in Cleaner
  BY <1>2, PhysicalAssumption DEF NoRun, Run, NotRemoved, Removal, Idle, Cleaner
<1>4. RowsTyped
  BY <1>1, PhysicalAssumption DEF RowsTyped
<1>5. LogTyped
  BY <1>2, <1>3, PhysicalAssumption DEF LogTyped, Init
<1>6. RunTyped
  <2>1. run = NoRun /\ forceFull = 0 /\ forceIncr = 0 /\ unserved = FALSE /\ events = MaxEvents
    BY DEF Init
  <2>2. MaxEvents \in 0..MaxEvents /\ 0 \in 0..MaxEvents
    BY PhysicalAssumption
  <2>3. unserved \in BOOLEAN
    BY <2>1
  <2> QED BY <1>3, <2>1, <2>2, <2>3 DEF RunTyped
<1>7. CleanerTyped /\ cleaner.jobs = <<>>
  BY <1>3 DEF CleanerTyped, Init, Idle
<1>8. RowShape /\ Running = {} /\ Completed = {} /\ CompletedFulls = {}
  BY <1>1 DEF RowShape, Running, Completed, CompletedFulls, Fulls
<1>9. run.stage = "idle" /\ run.full = 0 /\ forceFull = 0 /\ unserved = FALSE
  BY DEF Init, NoRun
<1>10. ArchivedThenRemoved
  BY DEF Init, ArchivedThenRemoved, NotRemoved
<1> QED BY <1>4, <1>5, <1>6, <1>7, <1>8, <1>9, <1>10 DEF IInv, OneRuns, StartIsAhead,
        RunningExtendsTheLast, JobsAreFulls, RequestsInOrder, WalKept, RestoreSetIsLineage,
        RequestKept

LEMMA StepKeeps == IInv /\ [Next]_vars => IInv'
<1> SUFFICES ASSUME IInv, [Next]_vars PROVE IInv'
  OBVIOUS
<1>1. /\ RowsTyped /\ LogTyped /\ RunTyped /\ CleanerTyped
      /\ RowShape /\ OneRuns /\ ArchivedThenRemoved /\ StartIsAhead
      /\ RunningExtendsTheLast /\ JobsAreFulls /\ RequestsInOrder
      /\ WalKept /\ RestoreSetIsLineage /\ RequestKept
  BY DEF IInv
<1>2. CreatesRow \/ EndsRows \/ RemovesRows
  BY <1>1, CatalogSteps
<1>3. LogMoves
  BY <1>1, LogSteps
<1>4. LogTyped'
  BY <1>3 DEF LogMoves, LogTyped
<1>5. RunTyped' /\ RequestsInOrder' /\ RequestKept'
  BY <1>1, RunSteps
<1>6. CleanerTyped' /\ JobsAreFulls'
  BY <1>1, CleanerSteps
<1>7. RowsTyped' /\ RowShape'
  BY <1>1, <1>2, <1>3, RowsKept
<1>8. OneRuns'
  BY <1>1, <1>2, OneRunsKept
<1>9. ArchivedThenRemoved'
  BY <1>1, <1>3, ArchivedKept
<1>10. StartIsAhead'
  <2>1. CASE run'.stage = "running" /\ run'.id \in Running'
    <3>1. /\ run'.start <= pos'
          /\ \A b \in Completed' : backups'[b].stop <= run'.start
          /\ run'.id \in Fulls' =>
               \A s \in Segs : removed'[s].by # "nobody" => SegEnd(s) <= run'.start
      BY <1>1, <1>2, <1>3, <2>1, StartStaysAhead
    <3>2. \A s \in Segs : SegEnd(s)' = SegEnd(s)
      BY DEF SegEnd
    <3> QED BY <2>1, <3>1, <3>2 DEF StartIsAhead
  <2> QED BY <2>1 DEF StartIsAhead
<1>11. WalKept'
  BY <1>1, <1>2, <1>3, WalStaysKept
<1>12. RunningExtendsTheLast' /\ RestoreSetIsLineage'
  <2>1. \A i \in Completed \ Fulls : LineOf(i)
    BY <1>1, LineageIsLineOf
  <2>2. RunningExtendsTheLast' /\ \A i \in Completed' \ Fulls' : LineOf(i)'
    BY <1>1, <1>2, <2>1, LineageKept
  <2>3. RestoreSetIsLineage'
    BY <2>2 DEF RestoreSetIsLineage, LineOf, Done
  <2> QED BY <2>2, <2>3
<1> QED BY <1>4, <1>5, <1>6, <1>7, <1>8, <1>9, <1>10, <1>11, <1>12 DEF IInv

\* The inductive invariant holds in every reachable state.
THEOREM Invariant == Spec => []IInv
<1> QED BY InitKeeps, StepKeeps, PTL DEF Spec

\* Every reachable state is well typed, with one row in progress at most: also after a
\* run whose outcome could not be written, a cancel or a restart (InsertRunning).
THEOREM TypeCorrect == Spec => []TypeOK
<1>1. IInv => TypeOK
  <2> SUFFICES ASSUME IInv PROVE TypeOK
    OBVIOUS
  <2>1. Cardinality(Running) <= 1
    <3>1. CASE Running = {}
      BY <3>1, FS_EmptySet
    <3>2. CASE Running # {}
      <4>1. PICK b \in Running : TRUE
        BY <3>2
      <4>2. Running = {b}
        BY <4>1 DEF IInv, OneRuns
      <4>3. Cardinality({b}) = 1
        BY FS_Singleton
      <4> QED BY <4>2, <4>3
    <3> QED BY <3>1, <3>2
  <2> QED BY <2>1 DEF IInv, TypeOK, RowsTyped, LogTyped, RunTyped, CleanerTyped
<1> QED BY <1>1, Invariant, PTL

\* Whatever the cleaner's stale lists, the user and late segments do between, no removal
\* takes a segment that a completed full still there needs (getFullRemovalWalPlan,
\* DeleteOrphanWalSegmentsInSpan).
THEOREM WalIsKept == Spec => []WalKept
<1>1. IInv => WalKept
  BY DEF IInv
<1> QED BY <1>1, Invariant, PTL

\* The backups restored for an incremental are its line of parents, after any cancels,
\* failures and deletions (restoreSetForIncremental, FindLatestCompletedByRootFull).
THEOREM RestoreSetsAreLineages == Spec => []RestoreSetIsLineage
<1>1. IInv => RestoreSetIsLineage
  BY DEF IInv
<1> QED BY <1>1, Invariant, PTL

\* A request for a full stays until a full was claimed after it (updateForceRequest).
THEOREM RequestsAreKept == Spec => []RequestKept
<1>1. IInv => RequestKept
  BY DEF IInv
<1> QED BY <1>1, Invariant, PTL

\* A backup that has ended keeps its outcome until it is deleted (transition,
\* markTerminal).
THEOREM EndedBackupsStay == Spec => OutcomeFinal
<1>1. IInv /\ [Next]_vars =>
        [\A b \in DOMAIN backups \ Running : b \in DOMAIN backups' => backups'[b] = backups[b]]_vars
  <2> SUFFICES ASSUME IInv, [Next]_vars, NEW b \in DOMAIN backups \ Running, b \in DOMAIN backups'
               PROVE  backups'[b] = backups[b]
    OBVIOUS
  <2>1. CreatesRow \/ EndsRows \/ RemovesRows
    BY CatalogSteps DEF IInv
  <2>2. CASE CreatesRow
    BY <2>2 DEF CreatesRow
  <2>3. CASE EndsRows
    BY <2>3, EndingRows
  <2>4. CASE RemovesRows
    BY <2>4 DEF RemovesRows
  <2> QED BY <2>1, <2>2, <2>3, <2>4
<1> QED BY <1>1, Invariant, PTL DEF Spec, OutcomeFinal

\* A pass of the cleaner, however stale its list, never moves the point a latest restore
\* reaches on the chain that was extendable at the listing or on one begun since
\* (FindNextCompletedFull, getFullRemovalWalPlan, DeleteOrphanWalSegmentsInSpan).
THEOREM ReachIsKept == Spec => ActiveReachKept
<1> DEFINE Older == InOrder /\ JobsAreSpared
<1>1. Init => Older
  <2> SUFFICES ASSUME Init PROVE Older
    OBVIOUS
  <2>1. DOMAIN backups = {} /\ cleaner.jobs = <<>>
    BY DEF Init, Idle
  <2> QED BY <2>1 DEF InOrder, JobsAreSpared, Running, Completed
<1>2. IInv /\ Older /\ [Next]_vars => Older'
  <2> SUFFICES ASSUME IInv, Older, [Next]_vars PROVE Older'
    OBVIOUS
  <2>1. CreatesRow \/ EndsRows \/ RemovesRows
    BY CatalogSteps DEF IInv
  <2>2. InOrder'
    BY <2>1, OrderKept DEF IInv
  <2>3. JobsAreSpared'
    BY JobsStaySpared DEF IInv
  <2> QED BY <2>2, <2>3
<1>3. IInv /\ Older =>
        [/\ cleaner # Idle
         /\ CleanChain \/ SweepOrphan
         /\ ExtendableRoot # 0 /\ ExtendableRoot >= cleaner.spares
         => ExtendableRoot' = ExtendableRoot /\ LatestReach' = LatestReach]_vars
  BY CleaningKeepsReach
<1> HIDE DEF Older
<1> QED BY <1>1, <1>2, <1>3, Invariant, PTL DEF Spec, ActiveReachKept
=============================================================================
