--------------------------- MODULE PagedListProofs ---------------------------
(* Proofs about PagedList, for every page size, set of filters, number of rows *)
(* and of requests under way.                                                  *)
EXTENDS PagedList, FiniteSetTheorems, TLAPS

-----------------------------------------------------------------------------
(* The inductive invariant.                                                  *)

\* Requests under way have a number of their own, which is never None.
Numbered ==
    /\ \A q \in requests : q.id \in 1..MaxInFlight
    /\ \A p, q \in requests : p.id = q.id => p = q

\* Flags are flags, locks are numbers and generations are counted.
Flags ==
    /\ isLoading \in BOOLEAN /\ isLoadingMore \in BOOLEAN
    /\ isActive \in BOOLEAN /\ isReady \in BOOLEAN
    /\ generation \in Nat

Inv == Numbered /\ Flags /\ IndicatorsOwned

-----------------------------------------------------------------------------
(* Requests.                                                                 *)

\* A new request gets a number no other one has.
LEMMA FreshId ==
  ASSUME HasRoom
  PROVE  FreeId \in 1..MaxInFlight /\ FreeId # None /\ \A q \in requests : q.id # FreeId
<1>1. FreeId \in FreeIds
  BY DEF HasRoom, FreeId
<1> QED BY <1>1, PagedListAssumption DEF FreeIds, None

\* The requests of this generation that are under way stay so.
Keeps ==
    \A q \in requests : \E p \in requests' :
        p.id = q.id /\ p.kind = q.kind /\ p.generation = q.generation

\* Sending a request keeps the requests that are under way.
LEMMA Sending ==
  ASSUME Numbered, HasRoom, NEW k, NEW g, NEW f, NEW a, NEW r,
         requests' = requests \cup {Sent(k, g, f, a, r)}
  PROVE  /\ Numbered' /\ Keeps
         /\ \E q \in requests' : q.kind = k /\ q.generation = g /\ q.id = FreeId
<1> DEFINE new == Sent(k, g, f, a, r)
<1>1. new.id = FreeId /\ new.kind = k /\ new.generation = g
  BY DEF Sent
<1>2. requests' = requests \cup {new}
  OBVIOUS
<1> HIDE DEF new
<1>3. Numbered'
  BY <1>1, <1>2, FreshId DEF Numbered
<1> QED BY <1>1, <1>2, <1>3 DEF Keeps

\* An answer that comes in leaves the request the same request.
LEMMA Answering ==
  ASSUME Numbered, NEW q \in requests, NEW x, requests' = Answered(q, x)
  PROVE  Numbered' /\ Keeps
<1> DEFINE new == [id |-> q.id, kind |-> q.kind, generation |-> q.generation,
                   filter |-> q.filter, after |-> q.after, row |-> q.row, answer |-> x]
<1>1. new.id = q.id /\ new.kind = q.kind /\ new.generation = q.generation
  OBVIOUS
<1>2. requests' = (requests \ {q}) \cup {new}
  BY DEF Answered
<1> HIDE DEF new
<1>3. Numbered'
  BY <1>1, <1>2 DEF Numbered
<1> QED BY <1>1, <1>2, <1>3 DEF Keeps

\* Where requests stay and the controller does not move, indicators stay owned.
LEMMA Stays ==
  ASSUME IndicatorsOwned,
         UNCHANGED <<isLoading, isLoadingMore, generation, isActive, isReady,
                     refreshRequest, nextPageRequest>>,
         Keeps
  PROVE  IndicatorsOwned'
BY DEF IndicatorsOwned, Pending, Keeps

-----------------------------------------------------------------------------
(* Steps.                                                                    *)

\* A reload takes every lock and indicator of the generations before it.
LEMMA ReloadingStep ==
  ASSUME Inv, NEW f, NEW n \in Nat, Reloading(f, n), isActive' \in BOOLEAN
  PROVE  Inv'
<1>1. Numbered'
  BY Sending DEF Inv, Reloading
<1>2. /\ generation' = generation + n /\ generation \in Nat
      /\ isLoading' = TRUE /\ isLoadingMore' = FALSE /\ isReady' = FALSE
      /\ refreshRequest' = None /\ nextPageRequest' = None
  BY DEF Inv, Flags, Reloading, InvalidateRequests
<1>3. generation' \in Nat
  BY <1>2
<1>4. Flags'
  BY <1>2, <1>3, Zenon DEF Flags
<1>5. IndicatorsOwned'
  BY <1>2, Zenon DEF IndicatorsOwned
<1> QED BY <1>1, <1>4, <1>5 DEF Inv

\* A refresh owns the lock it takes.
LEMMA RefreshingStep ==
  ASSUME Inv, Refreshing, refreshRequest = None
  PROVE  Inv'
<1>1. /\ Numbered' /\ Keeps
      /\ \E q \in requests' : q.kind = "refresh" /\ q.generation = generation /\ q.id = FreeId
  BY Sending DEF Inv, Refreshing, Request
<1>2. Flags'
  BY DEF Inv, Flags, Refreshing, state
<1>3. IndicatorsOwned'
  BY <1>1 DEF Inv, IndicatorsOwned, Pending, Keeps, Refreshing, state
<1> QED BY <1>1, <1>2, <1>3 DEF Inv

\* The answer of a request releases what that request owns, and nothing else.
LEMMA AnswerStep ==
  ASSUME Inv, NEW q \in requests, Answer(q)
  PROVE  Inv'
<1> USE DEF Inv, Numbered
<1>1. requests' = requests \ {q} /\ Numbered'
  BY DEF Answer
<1>2. CASE LoadAnswered(q)
  <2>1. Flags'
    BY <1>2 DEF LoadAnswered, Flags, state
  <2>2. IndicatorsOwned'
    BY <1>1, <1>2 DEF LoadAnswered, IndicatorsOwned, Pending, state, Flags
  <2> QED BY <1>1, <2>1, <2>2
<1>3. CASE RefreshAnswered(q)
  <2>1. Flags'
    BY <1>3 DEF RefreshAnswered, Flags
  <2>2. IndicatorsOwned'
    BY <1>1, <1>3 DEF RefreshAnswered, IndicatorsOwned, Pending, IsCurrentGeneration, Flags
  <2> QED BY <1>1, <2>1, <2>2
<1>4. CASE NextPageAnswered(q)
  <2>1. Flags'
    BY <1>4 DEF NextPageAnswered, Flags
  <2>2. IndicatorsOwned'
    BY <1>1, <1>4 DEF NextPageAnswered, IndicatorsOwned, Pending, IsCurrentNext,
                      IsCurrentGeneration, Flags
  <2> QED BY <1>1, <2>1, <2>2
<1>5. CASE ActAnswered(q)
  <2>1. Flags'
    BY <1>5 DEF ActAnswered, Flags, control
  <2>2. IndicatorsOwned'
    BY <1>1, <1>5 DEF ActAnswered, IndicatorsOwned, Pending, control, Flags
  <2> QED BY <1>1, <2>1, <2>2
<1> QED BY <1>2, <1>3, <1>4, <1>5 DEF Answer

\* Every step keeps the invariant.
LEMMA InvStep == Inv /\ [Next]_vars => Inv'
<1> SUFFICES ASSUME Inv, [Next]_vars PROVE Inv'
  OBVIOUS
<1>1. CASE ServerChange \/ Hide \/ UNCHANGED vars
  <2>1. UNCHANGED <<state, control, requests>>
    BY <1>1 DEF ServerChange, Hide, vars
  <2> QED BY <2>1 DEF Inv, Numbered, Flags, IndicatorsOwned, Pending, state, control
<1>2. CASE Reload
  BY <1>2, ReloadingStep DEF Reload, Inv, Flags
<1>3. ASSUME NEW f \in Filters, ChangeFilter(f) PROVE Inv'
  BY <1>3, ReloadingStep DEF ChangeFilter, Inv, Flags
<1>4. CASE Activate
  BY <1>4, ReloadingStep DEF Activate
<1>5. CASE Deactivate
  <2>1. /\ generation' = generation + 1 /\ generation \in Nat
        /\ isActive' = FALSE /\ isReady' = FALSE /\ UNCHANGED <<state, requests>>
    BY <1>5 DEF Deactivate, InvalidateRequests, Inv, Flags
  <2>2. generation' \in Nat
    BY <2>1
  <2>3. Flags'
    BY <2>1, <2>2 DEF Inv, Flags, state
  <2>4. Numbered'
    BY <2>1 DEF Inv, Numbered
  <2>5. IndicatorsOwned'
    BY <2>1, Zenon DEF IndicatorsOwned
  <2> QED BY <2>3, <2>4, <2>5 DEF Inv
<1>6. CASE RefreshFirstPage
  BY <1>6, RefreshingStep DEF RefreshFirstPage, MayRefresh
<1>7. CASE Show
  <2>1. CASE MayRefresh
    BY <1>7, <2>1, RefreshingStep DEF Show, MayRefresh
  <2>2. CASE ~MayRefresh
    BY <1>7, <2>2 DEF Show, Inv, Numbered, Flags, IndicatorsOwned, Pending, state, control
  <2> QED BY <2>1, <2>2
<1>8. CASE LoadNextPage
  <2>1. /\ Numbered' /\ Keeps /\ FreeId # None
        /\ \E q \in requests' : q.kind = "next" /\ q.generation = generation /\ q.id = FreeId
    BY <1>8, Sending, FreshId DEF Inv, LoadNextPage, Request
  <2>2. Flags'
    BY <1>8 DEF Inv, Flags, LoadNextPage
  <2>3. IndicatorsOwned'
    BY <1>8, <2>1 DEF Inv, IndicatorsOwned, Pending, Keeps, LoadNextPage
  <2> QED BY <2>1, <2>2, <2>3 DEF Inv
<1>9. CASE Act
  <2>1. Numbered' /\ Keeps
    BY <1>9, Sending DEF Inv, Act, Request
  <2>2. UNCHANGED <<state, control>>
    BY <1>9 DEF Act
  <2> QED BY <2>1, <2>2, Stays DEF Inv, Flags, state, control
<1>10. ASSUME NEW q \in requests, Serve(q) \/ Fail(q) \/ Refuse(q) PROVE Inv'
  <2>1. Numbered' /\ Keeps
    BY <1>10, Answering DEF Inv, Serve, Fail, Refuse
  <2>2. UNCHANGED <<state, control>>
    BY <1>10 DEF Serve, Fail, Refuse
  <2> QED BY <2>1, <2>2, Stays DEF Inv, Flags, state, control
<1>11. ASSUME NEW q \in requests, Answer(q) PROVE Inv'
  BY <1>11, AnswerStep
<1> QED BY <1>1, <1>2, <1>3, <1>4, <1>5, <1>6, <1>7, <1>8, <1>9, <1>10, <1>11 DEF Next

\* A list that opens has asked for its first page and nothing else.
LEMMA InitInv == Init => Inv
<1> SUFFICES ASSUME Init PROVE Inv
  OBVIOUS
<1>1. Numbered
  <2>1. \A q \in requests : q.id = 1
    BY DEF Init
  <2>2. \A p, q \in requests : p = q
    BY DEF Init
  <2>3. 1 \in 1..MaxInFlight
    BY PagedListAssumption
  <2> QED BY <2>1, <2>2, <2>3 DEF Numbered
<1>2. Flags
  BY DEF Init, Flags
<1>3. IndicatorsOwned
  BY DEF Init, IndicatorsOwned
<1> QED BY <1>1, <1>2, <1>3 DEF Inv

-----------------------------------------------------------------------------

\* The locks and indicators of an active list belong to requests of the current
\* generation that are still under way: no stale answer releases them, and none
\* stays behind when its request has ended.
THEOREM IndicatorsCorrect == Spec => []IndicatorsOwned
<1>1. Inv => IndicatorsOwned
  BY DEF Inv
<1> QED BY <1>1, InitInv, InvStep, PTL DEF Spec

-----------------------------------------------------------------------------
(* The numbers of a set in order.                                            *)

\* Every place of a finite set of numbers is taken: the place of a number is how
\* many are as large.
LEMMA PlacesAreTaken ==
  ASSUME NEW n \in Nat, NEW S \in SUBSET (1..n)
  PROVE  /\ IsFiniteSet(S) /\ Cardinality(S) \in Nat
         /\ \A i \in 1..Cardinality(S) :
              Largest(S, i) \in S /\ Cardinality({t \in S : t >= Largest(S, i)}) = i
<1> DEFINE size == Cardinality(S)
           AsLarge(r) == {t \in S : t >= r}
           place == [r \in S |-> Cardinality(AsLarge(r))]
<1>1. IsFiniteSet(S) /\ size \in Nat
  <2>1. IsFiniteSet(1..n)
    BY FS_Interval
  <2> QED BY <2>1, FS_Subset, FS_CardinalityType
<1>2. \A r \in S : IsFiniteSet(AsLarge(r)) /\ Cardinality(AsLarge(r)) \in Nat
  BY <1>1, FS_Subset, FS_CardinalityType
<1>3. ASSUME NEW q \in S, NEW r \in S, q < r PROVE place[r] < place[q]
  <2>0. \A t \in S : t \in Nat
    OBVIOUS
  <2>1. AsLarge(r) \in SUBSET AsLarge(q) /\ q \in AsLarge(q) /\ q \notin AsLarge(r)
    <3>1. \A t \in S : t >= r => t >= q
      BY <1>3, <2>0
    <3>2. q >= q /\ ~(q >= r)
      BY <1>3, <2>0
    <3> QED BY <3>1, <3>2, Zenon
  <2>2. Cardinality(AsLarge(r)) <= Cardinality(AsLarge(q))
        /\ Cardinality(AsLarge(r)) # Cardinality(AsLarge(q))
    <3> HIDE DEF AsLarge
    <3> QED BY <1>2, <2>1, FS_Subset
  <2> HIDE DEF AsLarge
  <2> QED BY <1>2, <2>2
<1>4. ASSUME NEW r \in S PROVE place[r] \in 1..size
  <2>1. AsLarge(r) \in SUBSET S /\ r \in AsLarge(r)
    OBVIOUS
  <2>2. Cardinality(AsLarge(r)) <= size /\ Cardinality(AsLarge(r)) # 0
    <3> HIDE DEF AsLarge
    <3> QED BY <1>1, <1>2, <2>1, FS_Subset, FS_EmptySet
  <2> HIDE DEF AsLarge
  <2> QED BY <1>1, <1>2, <2>2
<1>5. \A r \in S : place[r] = Cardinality({t \in S : t >= r})
  OBVIOUS
<1> HIDE DEF place
<1>6. place \in Injection(S, 1..size)
  <2>1. place \in [S -> 1..size]
    BY <1>4 DEF place
  <2>2. ASSUME NEW q \in S, NEW r \in S, place[q] = place[r] PROVE q = r
    <3>1. q \in Nat /\ r \in Nat /\ place[q] \in Nat
      BY <1>1, <1>4
    <3> QED BY <1>3, <2>2, <3>1
  <2> QED BY <2>1, <2>2 DEF Injection, IsInjective
<1>7. IsFiniteSet(1..size) /\ Cardinality(1..size) = size
  BY <1>1, FS_Interval
<1>8. place \in Surjection(S, 1..size)
  BY <1>6, <1>7, FS_Injection
<1>9. ASSUME NEW i \in 1..size
      PROVE  Largest(S, i) \in S /\ Cardinality({t \in S : t >= Largest(S, i)}) = i
  <2>1. \E r \in S : Cardinality({t \in S : t >= r}) = i
    BY <1>5, <1>8 DEF Surjection
  <2> QED BY <2>1 DEF Largest
<1> QED BY <1>1, <1>9

\* So different places hold different numbers.
LEMMA PlacesDiffer ==
  ASSUME NEW n \in Nat, NEW S \in SUBSET (1..n),
         NEW i \in 1..Cardinality(S), NEW j \in 1..Cardinality(S), Largest(S, i) = Largest(S, j)
  PROVE  i = j
<1>1. \A k \in 1..Cardinality(S) : Cardinality({t \in S : t >= Largest(S, k)}) = k
  BY PlacesAreTaken
<1> QED BY <1>1, Zenon

-----------------------------------------------------------------------------
(* Lists: rows shown once, and pages that keep to their filter.              *)

Item == [row: Rows, by: {"page", "action"}, status: Statuses]
ListType == [items: Seq(Item), cursor: Rows \cup {None}]

OneRowEach(items) == \A i, j \in DOMAIN items : items[i].row = items[j].row => i = j
PagesKeepTo(f, items) == \A i \in DOMAIN items : items[i].by = "page" => items[i].status \in f

Good(l, f) == l \in ListType /\ OneRowEach(l.items) /\ PagesKeepTo(f, l.items)

\* The parts of a list.
LEMMA ListParts ==
  ASSUME NEW l \in ListType
  PROVE  /\ l.items \in Seq(Item) /\ l.cursor \in Rows \cup {None}
         /\ Len(l.items) \in Nat /\ DOMAIN l.items = 1..Len(l.items)
         /\ \A i \in DOMAIN l.items : l.items[i] \in Item
BY DEF ListType

ServerTyped == table \in [Rows -> Statuses \cup {"none"}] /\ created \in 0..N

\* The pages the server answers with are good for the filter of the request.
LEMMA PagesAreGood ==
  ASSUME ServerTyped, NEW f \in SUBSET Statuses, NEW after
  PROVE  Good(Page(f, after), f)
<1> DEFINE rows == Listed(f, after)
           size == IF Cardinality(rows) < PageSize THEN Cardinality(rows) ELSE PageSize
           item(i) == [row |-> Largest(rows, i), by |-> "page", status |-> table[Largest(rows, i)]]
           items == [i \in 1..size |-> item(i)]
           cursor == IF Cardinality(rows) > PageSize THEN Largest(rows, PageSize) ELSE None
<1>1. rows \in SUBSET (1..N) /\ N \in Nat /\ PageSize \in Nat \ {0}
  BY PagedListAssumption DEF Listed, Rows
<1>2. \A r \in rows : table[r] \in f
  BY DEF Listed
<1>3. Page(f, after) = [items |-> items, cursor |-> cursor]
  BY DEF Page
<1> HIDE DEF rows
<1>4. Cardinality(rows) \in Nat /\ \A i \in 1..Cardinality(rows) : Largest(rows, i) \in rows
  BY <1>1, PlacesAreTaken
<1>5. size \in Nat /\ 1..size \subseteq 1..Cardinality(rows)
  BY <1>1, <1>4
<1>6. cursor \in Rows \cup {None}
  <2>1. CASE Cardinality(rows) > PageSize
    <3>1. PageSize \in 1..Cardinality(rows)
      BY <1>1, <1>4, <2>1
    <3>2. Largest(rows, PageSize) \in Rows
      BY <1>1, <1>4, <3>1 DEF Rows
    <3> QED BY <2>1, <3>2
  <2>2. CASE ~(Cardinality(rows) > PageSize)
    BY <2>2
  <2> QED BY <2>1, <2>2
<1> HIDE DEF size, cursor
<1>7. \A i \in 1..size : item(i) \in Item /\ item(i).row = Largest(rows, i) /\ item(i).status \in f
  BY <1>1, <1>2, <1>4, <1>5 DEF Item, Rows
<1> HIDE DEF item
<1>8. items \in Seq(Item) /\ DOMAIN items = 1..size
  BY <1>5, <1>7
<1>9. OneRowEach(items)
  <2> SUFFICES ASSUME NEW i \in 1..size, NEW j \in 1..size, items[i].row = items[j].row
               PROVE  i = j
    BY <1>8 DEF OneRowEach
  <2>1. Largest(rows, i) = Largest(rows, j)
    BY <1>7
  <2> QED BY <1>1, <1>5, <2>1, PlacesDiffer
<1>10. PagesKeepTo(f, items)
  BY <1>7, <1>8 DEF PagesKeepTo
<1> HIDE DEF items
<1> QED BY <1>3, <1>6, <1>8, <1>9, <1>10 DEF Good, ListType

\* What is left of the items of a page or a tail.
LEMMA WithoutKeeps ==
  ASSUME NEW items \in Seq(Item), OneRowEach(items), NEW rows
  PROVE  /\ Without(items, rows) \in Seq(Item) /\ OneRowEach(Without(items, rows))
         /\ \A k \in DOMAIN Without(items, rows) :
              /\ Without(items, rows)[k].row \notin rows
              /\ \E i \in DOMAIN items : Without(items, rows)[k] = items[i]
<1> DEFINE kept == {i \in DOMAIN items : items[i].row \notin rows}
           size == Cardinality(kept)
           at(k) == Largest(kept, size + 1 - k)
           rest == [k \in 1..size |-> items[at(k)]]
<1>1. Without(items, rows) = rest
  BY DEF Without
<1>2. Len(items) \in Nat /\ DOMAIN items = 1..Len(items) /\ kept \in SUBSET (1..Len(items))
  OBVIOUS
<1>3. \A i \in kept : i \in DOMAIN items /\ items[i] \in Item /\ items[i].row \notin rows
  OBVIOUS
<1> HIDE DEF kept
<1>4. size \in Nat /\ \A i \in 1..size : Largest(kept, i) \in kept
  BY <1>2, PlacesAreTaken
<1>5. \A k \in 1..size : size + 1 - k \in 1..size /\ at(k) \in kept
  BY <1>4
<1>6. \A k, l \in 1..size : at(k) = at(l) => k = l
  <2> SUFFICES ASSUME NEW k \in 1..size, NEW l \in 1..size, at(k) = at(l) PROVE k = l
    OBVIOUS
  <2>1. \A i, j \in 1..size : Largest(kept, i) = Largest(kept, j) => i = j
    BY <1>2, PlacesDiffer
  <2>2. size + 1 - k = size + 1 - l
    BY <1>5, <2>1
  <2> QED BY <1>4, <2>2
<1> HIDE DEF at, size
<1>7. rest \in Seq(Item) /\ DOMAIN rest = 1..size
  BY <1>3, <1>4, <1>5
<1>8. \A k \in 1..size : rest[k] = items[at(k)] /\ at(k) \in kept
  BY <1>5
<1> HIDE DEF rest
<1>9. OneRowEach(rest)
  BY <1>3, <1>6, <1>7, <1>8 DEF OneRowEach
<1> QED BY <1>1, <1>3, <1>7, <1>8, <1>9

\* Two lists without a common row make one list.
LEMMA Joined ==
  ASSUME NEW a \in Seq(Item), NEW b \in Seq(Item), NEW f,
         OneRowEach(a), OneRowEach(b), PagesKeepTo(f, a), PagesKeepTo(f, b),
         \A i \in DOMAIN a : \A j \in DOMAIN b : a[i].row # b[j].row
  PROVE  a \o b \in Seq(Item) /\ OneRowEach(a \o b) /\ PagesKeepTo(f, a \o b)
<1>1. /\ a \o b \in Seq(Item) /\ DOMAIN (a \o b) = 1..(Len(a) + Len(b))
      /\ DOMAIN a = 1..Len(a) /\ DOMAIN b = 1..Len(b) /\ Len(a) \in Nat /\ Len(b) \in Nat
  OBVIOUS
<1>2. \A i \in DOMAIN (a \o b) :
        \/ i \in DOMAIN a /\ (a \o b)[i] = a[i]
        \/ i - Len(a) \in DOMAIN b /\ (a \o b)[i] = b[i - Len(a)]
  BY <1>1
<1> DEFINE c == a \o b
<1> HIDE DEF c
<1>3. \A i, j \in DOMAIN c : c[i].row = c[j].row => i = j
  <2> SUFFICES ASSUME NEW i \in DOMAIN c, NEW j \in DOMAIN c, c[i].row = c[j].row PROVE i = j
    OBVIOUS
  <2>1. i \in Nat /\ j \in Nat
    BY <1>1 DEF c
  <2> QED BY <1>1, <1>2, <2>1 DEF c, OneRowEach
<1>4. PagesKeepTo(f, c)
  BY <1>2 DEF c, PagesKeepTo
<1> QED BY <1>1, <1>3, <1>4 DEF c, OneRowEach

\* Appending a next page keeps a good list good.
LEMMA AppendingIsGood ==
  ASSUME NEW l, NEW page, NEW f, Good(l, f), Good(page, f)
  PROVE  Good(AppendNextPage(l, page), f)
<1> DEFINE rest == Without(page.items, RowsOf(l.items))
<1>1. /\ l.items \in Seq(Item) /\ page.items \in Seq(Item)
      /\ page.cursor \in Rows \cup {None}
      /\ OneRowEach(l.items) /\ OneRowEach(page.items)
      /\ PagesKeepTo(f, l.items) /\ PagesKeepTo(f, page.items)
  BY ListParts DEF Good
<1>2. /\ rest \in Seq(Item) /\ OneRowEach(rest)
      /\ \A k \in DOMAIN rest : /\ rest[k].row \notin RowsOf(l.items)
                                /\ \E i \in DOMAIN page.items : rest[k] = page.items[i]
  BY <1>1, WithoutKeeps
<1>3. AppendNextPage(l, page) = [items |-> l.items \o rest, cursor |-> page.cursor]
  BY DEF AppendNextPage
<1> HIDE DEF rest
<1>4. PagesKeepTo(f, rest)
  BY <1>1, <1>2 DEF PagesKeepTo
<1>5. \A i \in DOMAIN l.items : \A j \in DOMAIN rest : l.items[i].row # rest[j].row
  BY <1>2 DEF RowsOf
<1>6. l.items \o rest \in Seq(Item) /\ OneRowEach(l.items \o rest) /\ PagesKeepTo(f, l.items \o rest)
  BY <1>1, <1>2, <1>4, <1>5, Joined
<1> QED BY <1>1, <1>3, <1>6 DEF Good, ListType

\* The tail below a refreshed page consists of loaded rows.
LEMMA TailIsLoaded ==
  ASSUME NEW l, NEW page, NEW f, Good(l, f)
  PROVE  /\ TailBelow(l, page) \in Seq(Item)
         /\ OneRowEach(TailBelow(l, page)) /\ PagesKeepTo(f, TailBelow(l, page))
<1> DEFINE last == page.items[Len(page.items)].row
           anchors == {i \in DOMAIN l.items : l.items[i].row = last}
           first == CHOOSE i \in anchors : \A j \in anchors : i <= j
           len == Len(l.items)
           tail == SubSeq(l.items, first + 1, len)
<1>1. /\ l.items \in Seq(Item) /\ len \in Nat /\ DOMAIN l.items = 1..len
      /\ OneRowEach(l.items) /\ PagesKeepTo(f, l.items)
  BY ListParts DEF Good
<1>2. CASE anchors = {}
  <2>1. TailBelow(l, page) = <<>>
    BY <1>2 DEF TailBelow
  <2> QED BY <2>1 DEF OneRowEach, PagesKeepTo
<1>3. CASE anchors # {}
  <2>1. TailBelow(l, page) = tail
    BY <1>3 DEF TailBelow
  <2>2. PICK a \in anchors : TRUE
    BY <1>3
  <2>3. anchors = {a}
    BY <1>1, <2>2 DEF OneRowEach
  <2>4. first = a
    <3>1. a <= a
      BY <1>1, <2>2
    <3> HIDE DEF anchors
    <3> QED BY <2>3, <3>1
  <2>5. first \in 1..len
    BY <1>1, <2>2, <2>4
  <2> HIDE DEF first
  <2>6. tail \in Seq(Item) /\ DOMAIN tail = 1..(len - first)
        /\ \A i \in 1..(len - first) : i + first \in 1..len /\ tail[i] = l.items[i + first]
    BY <1>1, <2>5
  <2> HIDE DEF tail
  <2>7. OneRowEach(tail)
    <3> SUFFICES ASSUME NEW i \in 1..(len - first), NEW j \in 1..(len - first),
                        tail[i].row = tail[j].row
                 PROVE  i = j
      BY <2>6 DEF OneRowEach
    <3>1. i + first = j + first
      BY <1>1, <2>6 DEF OneRowEach
    <3> QED BY <2>5, <1>1, <3>1
  <2>8. PagesKeepTo(f, tail)
    BY <1>1, <2>6 DEF PagesKeepTo
  <2> QED BY <2>1, <2>6, <2>7, <2>8
<1> QED BY <1>2, <1>3

\* Merging a refreshed first page keeps a good list good.
LEMMA MergingIsGood ==
  ASSUME NEW l, NEW page, NEW f, Good(l, f), Good(page, f)
  PROVE  Good(MergeRefreshedFirstPage(l, page), f)
<1> DEFINE tail == TailBelow(l, page)
           rest == Without(tail, RowsOf(page.items))
<1>1. CASE ReplacesList(l, page)
  BY <1>1 DEF MergeRefreshedFirstPage
<1>2. CASE ~ReplacesList(l, page)
  <2>1. /\ page.items \in Seq(Item) /\ l.cursor \in Rows \cup {None}
        /\ OneRowEach(page.items) /\ PagesKeepTo(f, page.items)
    BY ListParts DEF Good
  <2>2. tail \in Seq(Item) /\ OneRowEach(tail) /\ PagesKeepTo(f, tail)
    BY TailIsLoaded
  <2>3. MergeRefreshedFirstPage(l, page) = [items |-> page.items \o rest, cursor |-> l.cursor]
    BY <1>2 DEF MergeRefreshedFirstPage
  <2> HIDE DEF tail
  <2>4. /\ rest \in Seq(Item) /\ OneRowEach(rest)
        /\ \A k \in DOMAIN rest : /\ rest[k].row \notin RowsOf(page.items)
                                  /\ \E i \in DOMAIN tail : rest[k] = tail[i]
    BY <2>2, WithoutKeeps
  <2> HIDE DEF rest
  <2>5. PagesKeepTo(f, rest)
    BY <2>2, <2>4 DEF PagesKeepTo
  <2>6. \A i \in DOMAIN page.items : \A j \in DOMAIN rest : page.items[i].row # rest[j].row
    BY <2>4 DEF RowsOf
  <2>7. /\ page.items \o rest \in Seq(Item) /\ OneRowEach(page.items \o rest)
        /\ PagesKeepTo(f, page.items \o rest)
    BY <2>1, <2>4, <2>5, <2>6, Joined
  <2> QED BY <2>1, <2>3, <2>7 DEF Good, ListType
<1> QED BY <1>1, <1>2

\* Showing the answer of an action keeps a good list good.
LEMMA ActionIsGood ==
  ASSUME NEW f, Good(list, f), NEW item \in Item, item.by = "action", ReplaceOrPrependItem(item)
  PROVE  Good(list', f) /\ list'.cursor = list.cursor
<1>1. /\ list.items \in Seq(Item) /\ list.cursor \in Rows \cup {None}
      /\ DOMAIN list.items = 1..Len(list.items) /\ Len(list.items) \in Nat
      /\ OneRowEach(list.items) /\ PagesKeepTo(f, list.items)
      /\ list = [items |-> list.items, cursor |-> list.cursor]
  BY ListParts DEF Good, ListType
<1>2. CASE item.row \in Shown
  <2> DEFINE old == list.items
             new == [i \in DOMAIN old |-> IF old[i].row = item.row THEN item ELSE old[i]]
  <2>1. list' = [list EXCEPT !.items = new]
    BY <1>2 DEF ReplaceOrPrependItem
  <2>2. list' = [items |-> new, cursor |-> list.cursor]
    BY <1>1, <2>1
  <2>3. new \in Seq(Item) /\ DOMAIN new = DOMAIN old
    BY <1>1
  <2>4. \A i \in DOMAIN old : new[i].row = old[i].row
    OBVIOUS
  <2>5. \A i \in DOMAIN old : new[i] = item \/ new[i] = old[i]
    OBVIOUS
  <2> HIDE DEF new
  <2>6. OneRowEach(new)
    BY <1>1, <2>3, <2>4 DEF OneRowEach
  <2>7. PagesKeepTo(f, new)
    BY <1>1, <2>3, <2>5 DEF PagesKeepTo
  <2> QED BY <1>1, <2>2, <2>3, <2>6, <2>7 DEF Good, ListType
<1>3. CASE item.row \notin Shown
  <2> DEFINE top == <<item>>
  <2>1. list' = [list EXCEPT !.items = top \o list.items]
    BY <1>3 DEF ReplaceOrPrependItem
  <2>2. list' = [items |-> top \o list.items, cursor |-> list.cursor]
    BY <1>1, <2>1
  <2>3. top \in Seq(Item) /\ DOMAIN top = {1} /\ top[1] = item
    OBVIOUS
  <2> HIDE DEF top
  <2>4. OneRowEach(top) /\ PagesKeepTo(f, top)
    BY <2>3 DEF OneRowEach, PagesKeepTo
  <2>5. \A i \in DOMAIN top : \A j \in DOMAIN list.items : top[i].row # list.items[j].row
    BY <1>3, <2>3 DEF Shown
  <2>6. /\ top \o list.items \in Seq(Item) /\ OneRowEach(top \o list.items)
        /\ PagesKeepTo(f, top \o list.items)
    BY <1>1, <2>3, <2>4, <2>5, Joined
  <2> QED BY <1>1, <2>2, <2>6 DEF Good, ListType
<1> QED BY <1>2, <1>3
-----------------------------------------------------------------------------
(* The rows of a list and the answers that may still reach it.               *)

Paging == {"first", "refresh", "next"}
Acting == {"start", "cancel"}

\* What a request may be answered with.
WellAnswered(q) ==
    \/ q.answer = Unanswered
    \/ q.answer = Failed
    \/ q.kind \in Paging /\ Good(q.answer.page, q.filter)
    \/ q.kind \in Acting /\ q.answer.item \in Item /\ q.answer.item.by = "action"

\* A request is of a generation that has been, and one of the current generation
\* asks for the filter that is shown.
WellSent(q) ==
    /\ q.kind \in Paging \cup Acting /\ q.filter \in Filters
    /\ q.kind = "cancel" => q.row \in Rows
    /\ q.generation \in Nat /\ q.generation <= generation
    /\ q.generation = generation => q.filter = filter

RequestsGood == \A q \in requests : WellSent(q) /\ WellAnswered(q)

ScreenTyped ==
    /\ filter \in Filters /\ isVisible \in BOOLEAN /\ budget \in 0..Budget
    /\ refreshRequest \in 0..MaxInFlight /\ nextPageRequest \in 0..MaxInFlight
    /\ prepended \subseteq Rows

\* Until a first page is accepted nothing else is asked for, and no cursor is left
\* to continue from.
Unready ==
    ~isReady => /\ refreshRequest = None /\ nextPageRequest = None
                /\ isActive => list.cursor = None

ListInv ==
    /\ Inv /\ ServerTyped /\ ScreenTyped /\ RequestsGood /\ Unready
    /\ Good(list, filter)

\* Requests that are answered, or removed, with the generation at rest.
LEMMA RequestsRest ==
  ASSUME RequestsGood, UNCHANGED <<generation, filter>>,
         \A q \in requests' : q \in requests \/ (WellSent(q)' /\ WellAnswered(q)')
  PROVE  RequestsGood'
BY DEF RequestsGood, WellSent, WellAnswered

\* A request that is sent is a good one.
LEMMA SentIsGood ==
  ASSUME NEW kind \in Paging \cup Acting, NEW g \in Nat, NEW f \in Filters, NEW after, NEW row
  PROVE  LET q == Sent(kind, g, f, after, row)
         IN  /\ q.kind = kind /\ q.filter = f /\ q.generation = g /\ q.row = row
             /\ WellAnswered(q)
BY DEF Sent, WellAnswered

\* An answer that fits makes a good request of a good one.
LEMMA AnsweredIsGood ==
  ASSUME RequestsGood, UNCHANGED <<generation, filter>>,
         NEW q \in requests, NEW x, requests' = Answered(q, x),
         \/ x = Failed
         \/ q.kind \in Paging /\ Good(x.page, q.filter)
         \/ q.kind \in Acting /\ x.item \in Item /\ x.item.by = "action"
  PROVE  RequestsGood'
<1>0. PICK new : new = [id |-> q.id, kind |-> q.kind, generation |-> q.generation,
                        filter |-> q.filter, after |-> q.after, row |-> q.row, answer |-> x]
  OBVIOUS
<1>1. /\ new.kind = q.kind /\ new.generation = q.generation /\ new.filter = q.filter
      /\ new.row = q.row /\ new.answer = x
  BY <1>0
<1>2. requests' = (requests \ {q}) \cup {new}
  BY <1>0 DEF Answered
<1>3. WellSent(q)
  BY DEF RequestsGood
<1>4. WellSent(new)' /\ WellAnswered(new)'
  BY <1>1, <1>3 DEF WellSent, WellAnswered
<1> QED BY <1>2, <1>4, RequestsRest

\* A reload starts with an empty list and a request for its filter.
LEMMA ReloadingShows ==
  ASSUME ListInv, NEW f \in Filters, NEW n \in Nat \ {0}, Reloading(f, n), filter' = f,
         isActive' \in BOOLEAN, budget' \in 0..Budget, UNCHANGED <<server, isVisible>>
  PROVE  ListInv'
<1> USE DEF Reloading, InvalidateRequests
<1>1. Inv'
  BY ReloadingStep DEF ListInv
<1>2. generation' = generation + n /\ generation \in Nat /\ generation' \in Nat
  BY <1>1 DEF ListInv, Inv, Flags
<1>3. RequestsGood'
  <2>0. PICK new : new = Sent("first", generation', f, None, None)
    OBVIOUS
  <2>1. new.kind = "first" /\ new.filter = f /\ new.generation = generation' /\ WellAnswered(new)
    BY <1>2, <2>0, SentIsGood DEF Paging, Acting
  <2>2. requests' = requests \cup {new}
    BY <2>0
  <2>3. WellSent(new)' /\ WellAnswered(new)'
    BY <1>2, <2>1 DEF WellSent, WellAnswered, Paging
  <2>4. ASSUME NEW q \in requests PROVE WellSent(q)' /\ WellAnswered(q)'
    <3>1. WellSent(q) /\ WellAnswered(q)
      BY DEF ListInv, RequestsGood
    <3> QED BY <1>2, <3>1 DEF WellSent, WellAnswered
  <2> QED BY <2>2, <2>3, <2>4 DEF RequestsGood
<1>4. ServerTyped'
  BY DEF ListInv, ServerTyped, server
<1>5. ScreenTyped'
  <2>1. None \in 0..MaxInFlight
    BY PagedListAssumption DEF None
  <2> QED BY <2>1 DEF ListInv, ScreenTyped
<1>7. Unready'
  BY DEF Unready
<1>6. Good(list, filter)'
  BY DEF Good, ListType, OneRowEach, PagesKeepTo
<1> QED BY <1>1, <1>3, <1>4, <1>5, <1>6, <1>7 DEF ListInv

\* A request sent at rest is good.
LEMMA RequestIsGood ==
  ASSUME ListInv, NEW kind \in Paging \cup Acting, NEW after, NEW row,
         kind = "cancel" => row \in Rows,
         UNCHANGED <<generation, filter>>,
         requests' = requests \cup {Request(kind, after, row)}
  PROVE  RequestsGood'
<1>0. PICK new : new = Request(kind, after, row)
  OBVIOUS
<1>1. generation \in Nat /\ filter \in Filters
  BY DEF ListInv, Inv, Flags, ScreenTyped
<1>2. /\ new.kind = kind /\ new.filter = filter /\ new.generation = generation /\ new.row = row
      /\ WellAnswered(new)
  BY <1>0, <1>1, SentIsGood DEF Request
<1>3. WellSent(new)' /\ WellAnswered(new)'
  BY <1>1, <1>2 DEF WellSent, WellAnswered
<1> QED BY <1>0, <1>3, RequestsRest DEF ListInv

\* What a request is answered with is good.
LEMMA ServingIsGood ==
  ASSUME ListInv, NEW q \in requests, Serve(q)
  PROVE  RequestsGood' /\ ServerTyped'
<1>0. RequestsGood /\ ServerTyped /\ UNCHANGED <<generation, filter>>
  BY DEF Serve, ListInv, control
<1>1. WellSent(q)
  BY <1>0 DEF RequestsGood
<1>2. CASE q.kind \in Paging /\ UNCHANGED server
             /\ requests' = Answered(q, [is |-> "page", page |-> Page(q.filter, q.after)])
  <2>1. q.filter \in SUBSET Statuses
    BY <1>1, PagedListAssumption DEF WellSent
  <2>2. Good(Page(q.filter, q.after), q.filter)
    BY <1>0, <2>1, PagesAreGood
  <2> QED BY <1>0, <1>2, <2>2, AnsweredIsGood DEF ServerTyped, server
<1>3. CASE /\ q.kind = "start" /\ MayStart
           /\ created' = created + 1
           /\ table' = [table EXCEPT ![created + 1] = "running"]
           /\ requests' = Answered(q, [is |-> "item", item |-> ActionItem(created + 1, "running")])
  <2>1. created + 1 \in Rows /\ created + 1 \in 0..N
    BY <1>0, <1>3, PagedListAssumption DEF MayStart, ServerTyped, Rows
  <2>2. ActionItem(created + 1, "running") \in Item /\ ActionItem(created + 1, "running").by = "action"
    BY <2>1 DEF ActionItem, Item, Statuses
  <2>3. ServerTyped'
    BY <1>0, <1>3, <2>1 DEF ServerTyped, Statuses
  <2> QED BY <1>0, <1>3, <2>2, <2>3, AnsweredIsGood DEF Acting
<1>4. CASE /\ q.kind = "cancel" /\ table[q.row] = "running"
           /\ requests' = Answered(q, [is |-> "item", item |-> ActionItem(q.row, "running")])
           /\ UNCHANGED server
  <2>1. ActionItem(q.row, "running") \in Item /\ ActionItem(q.row, "running").by = "action"
    BY <1>1, <1>4 DEF WellSent, ActionItem, Item, Statuses
  <2> QED BY <1>0, <1>4, <2>1, AnsweredIsGood DEF Acting, ServerTyped, server
<1> QED BY <1>2, <1>3, <1>4 DEF Serve, Paging

\* What an answer leaves on the screen is good, whatever it overtook.
LEMMA AnswerShows ==
  ASSUME ListInv, NEW q \in requests, Answer(q)
  PROVE  Good(list, filter)' /\ prepended' \subseteq Rows /\ Unready'
<1> USE DEF state, control
<1>1. /\ WellSent(q) /\ WellAnswered(q) /\ q.answer # Unanswered /\ UNCHANGED filter
      /\ Good(list, filter) /\ prepended \subseteq Rows /\ Unready /\ q.id # None
  BY PagedListAssumption DEF ListInv, RequestsGood, ScreenTyped, Inv, Numbered, Answer, None
<1>2. q.kind \in Paging /\ IsCurrentGeneration(q) /\ q.answer # Failed => Good(q.answer.page, filter)
  BY <1>1 DEF WellSent, WellAnswered, IsCurrentGeneration, Paging, Acting
<1>3. CASE LoadAnswered(q)
  <2>1. CASE IsCurrentGeneration(q) /\ q.answer # Failed
    BY <1>1, <1>2, <1>3, <2>1 DEF LoadAnswered, Paging, Unready
  <2>2. CASE ~(IsCurrentGeneration(q) /\ q.answer # Failed)
    BY <1>1, <1>3, <2>2 DEF LoadAnswered, Unready
  <2> QED BY <2>1, <2>2
<1>4. CASE RefreshAnswered(q)
  <2>1. CASE IsCurrentGeneration(q) /\ refreshRequest = q.id /\ q.answer # Failed
    <3>1. list' = MergeRefreshedFirstPage(list, q.answer.page) /\ Good(q.answer.page, filter)
      BY <1>2, <1>4, <2>1 DEF RefreshAnswered, Paging
    <3>2. Good(list', filter)
      BY <1>1, <3>1, MergingIsGood
    <3>3. prepended' \subseteq prepended
      BY <1>4, <2>1 DEF RefreshAnswered
    <3>4. isReady /\ isReady'
      BY <1>1, <1>4, <2>1 DEF RefreshAnswered, Unready
    <3> QED BY <1>1, <3>2, <3>3, <3>4 DEF Unready
  <2>2. CASE ~(IsCurrentGeneration(q) /\ refreshRequest = q.id /\ q.answer # Failed)
    BY <1>1, <1>4, <2>2 DEF RefreshAnswered, Unready
  <2> QED BY <2>1, <2>2
<1>5. CASE NextPageAnswered(q)
  <2>1. CASE IsCurrentNext(q) /\ q.answer # Failed
    <3>1. list' = AppendNextPage(list, q.answer.page) /\ Good(q.answer.page, filter)
      BY <1>2, <1>5, <2>1 DEF NextPageAnswered, IsCurrentNext, Paging
    <3>2. Good(list', filter)
      BY <1>1, <3>1, AppendingIsGood
    <3>3. isReady /\ isReady' /\ UNCHANGED prepended
      BY <1>1, <1>5, <2>1 DEF NextPageAnswered, IsCurrentNext, Unready
    <3> QED BY <1>1, <3>2, <3>3 DEF Unready
  <2>2. CASE ~(IsCurrentNext(q) /\ q.answer # Failed)
    BY <1>1, <1>5, <2>2 DEF NextPageAnswered, Unready
  <2> QED BY <2>1, <2>2
<1>6. CASE ActAnswered(q)
  <2>1. CASE ReplaceOrPrependItem(q.answer.item) /\ q.answer # Failed
    <3>1. q.answer.item \in Item /\ q.answer.item.by = "action"
      BY <1>1, <1>6, <2>1 DEF ActAnswered, WellAnswered, Paging
    <3>2. Good(list', filter) /\ list'.cursor = list.cursor
      BY <1>1, <2>1, <3>1, ActionIsGood
    <3>3. prepended' \subseteq Rows
      BY <1>1, <2>1, <3>1 DEF ReplaceOrPrependItem, Item
    <3> QED BY <1>1, <1>6, <3>2, <3>3 DEF ActAnswered, Unready
  <2>2. CASE UNCHANGED <<list, prepended>>
    BY <1>1, <1>6, <2>2 DEF ActAnswered, Unready
  <2> QED BY <1>6, <2>1, <2>2 DEF ActAnswered
<1> QED BY <1>3, <1>4, <1>5, <1>6 DEF Answer

\* Every step keeps the rows and the answers good.
LEMMA ListStep == ListInv /\ [Next]_vars => ListInv'
<1> SUFFICES ASSUME ListInv, [Next]_vars PROVE ListInv'
  OBVIOUS
<1>0. /\ Inv /\ Inv' /\ ServerTyped /\ ScreenTyped /\ RequestsGood /\ Unready /\ Good(list, filter)
      /\ isActive \in BOOLEAN /\ budget \in 0..Budget /\ Budget \in Nat
  BY InvStep, PagedListAssumption DEF ListInv, Inv, Flags, ScreenTyped
<1>00. Spend => budget' \in 0..Budget
  BY <1>0 DEF Spend
<1> USE DEF state, control, server
\* A step that leaves the list, the locks and the requests as they are.
<1>a. ASSUME ServerTyped', UNCHANGED <<filter, list, control, requests, prepended>>,
             isVisible' \in BOOLEAN, budget' \in 0..Budget
      PROVE  ListInv'
  <2>1. RequestsGood' /\ Unready' /\ ScreenTyped' /\ Good(list, filter)'
    BY <1>0, <1>a DEF RequestsGood, WellSent, WellAnswered, Unready, ScreenTyped
  <2> QED BY <1>0, <1>a, <2>1 DEF ListInv
<1>1. CASE ServerChange
  <2>1. ServerTyped'
    <3>1. CASE MayStart /\ created' = created + 1 /\ table' = [table EXCEPT ![created + 1] = "running"]
      <4>1. created + 1 \in Rows /\ created + 1 \in 0..N
        BY <1>0, <3>1, PagedListAssumption DEF MayStart, ServerTyped, Rows
      <4> QED BY <1>0, <3>1, <4>1 DEF ServerTyped, Statuses
    <3>2. CASE \E r \in Rows, s \in Statuses \cup {"none"} :
                 table' = [table EXCEPT ![r] = s] /\ UNCHANGED created
      BY <1>0, <3>2 DEF ServerTyped
    <3> QED BY <1>1, <3>1, <3>2 DEF ServerChange, Statuses
  <2> QED BY <1>0, <1>00, <1>1, <1>a, <2>1 DEF ServerChange, ScreenTyped
<1>2. CASE Hide
  BY <1>0, <1>00, <1>2, <1>a DEF Hide, ServerTyped
<1>3. CASE UNCHANGED vars
  BY <1>0, <1>3, <1>a DEF vars, ScreenTyped, ServerTyped
<1>4. CASE Reload
  BY <1>0, <1>00, <1>4, ReloadingShows DEF Reload, ScreenTyped
<1>5. ASSUME NEW f \in Filters, ChangeFilter(f) PROVE ListInv'
  BY <1>0, <1>00, <1>5, ReloadingShows DEF ChangeFilter
<1>6. CASE Activate
  BY <1>0, <1>6, ReloadingShows DEF Activate, ScreenTyped
<1>7. CASE Deactivate
  <2>1. /\ generation' = generation + 1 /\ generation \in Nat
        /\ isActive' = FALSE /\ isReady' = FALSE
        /\ refreshRequest' = None /\ nextPageRequest' = None
        /\ UNCHANGED <<table, created, filter, list, requests, prepended, isVisible>>
    BY <1>0, <1>7 DEF Deactivate, InvalidateRequests, Inv, Flags
  <2>2. ASSUME NEW q \in requests' PROVE WellSent(q)' /\ WellAnswered(q)'
    <3>1. WellSent(q) /\ WellAnswered(q)
      BY <1>0, <2>1 DEF RequestsGood
    <3> QED BY <2>1, <3>1 DEF WellSent, WellAnswered
  <2>3. RequestsGood'
    BY <2>2 DEF RequestsGood
  <2>4. None \in 0..MaxInFlight
    BY PagedListAssumption DEF None
  <2>5. ScreenTyped' /\ ServerTyped' /\ Unready' /\ Good(list, filter)'
    BY <1>0, <1>00, <1>7, <2>1, <2>4 DEF Deactivate, ScreenTyped, ServerTyped, Unready
  <2> QED BY <1>0, <2>3, <2>5 DEF ListInv
<1>8. ASSUME MayRefresh, Refreshing, UNCHANGED <<server, filter, prepended, budget>>,
             isVisible' \in BOOLEAN
      PROVE  ListInv'
  <2>1. RequestsGood'
    BY <1>8, RequestIsGood DEF Refreshing, Paging
  <2>2. FreeId \in 0..MaxInFlight
    BY <1>8, FreshId DEF Refreshing
  <2>3. ScreenTyped' /\ ServerTyped' /\ Unready' /\ Good(list, filter)'
    BY <1>0, <1>8, <2>2 DEF MayRefresh, Refreshing, ScreenTyped, ServerTyped, Unready
  <2> QED BY <1>0, <2>1, <2>3 DEF ListInv
<1>9. CASE RefreshFirstPage
  BY <1>0, <1>8, <1>9 DEF RefreshFirstPage, ScreenTyped
<1>10. CASE Show
  <2>1. CASE MayRefresh
    BY <1>0, <1>8, <1>10, <2>1 DEF Show
  <2>2. CASE ~MayRefresh
    BY <1>0, <1>10, <1>a, <2>2 DEF Show, ServerTyped
  <2> QED BY <2>1, <2>2
<1>11. CASE LoadNextPage
  <2>1. RequestsGood'
    BY <1>11, RequestIsGood DEF LoadNextPage, Paging
  <2>2. FreeId \in 0..MaxInFlight
    BY <1>11, FreshId DEF LoadNextPage
  <2>3. ScreenTyped' /\ ServerTyped' /\ Unready' /\ Good(list, filter)'
    BY <1>0, <1>11, <2>2 DEF LoadNextPage, ScreenTyped, ServerTyped, Unready
  <2> QED BY <1>0, <2>1, <2>3 DEF ListInv
<1>12. CASE Act
  <2>1. CASE requests' = requests \cup {Request("start", None, None)}
    <3>1. RequestsGood'
      BY <1>12, <2>1, RequestIsGood DEF Act, Acting
    <3> QED BY <1>0, <1>00, <1>12, <3>1 DEF Act, ListInv, ScreenTyped, ServerTyped, Unready
  <2>2. ASSUME NEW i \in DOMAIN list.items,
               requests' = requests \cup {Request("cancel", None, list.items[i].row)}
        PROVE  ListInv'
    <3>1. list.items[i].row \in Rows
      BY <1>0, ListParts DEF Good, Item
    <3>2. RequestsGood'
      BY <1>12, <2>2, <3>1, RequestIsGood DEF Act, Acting
    <3> QED BY <1>0, <1>00, <1>12, <3>2 DEF Act, ListInv, ScreenTyped, ServerTyped, Unready
  <2> QED BY <1>12, <2>1, <2>2 DEF Act
<1>13. ASSUME NEW q \in requests, Serve(q) PROVE ListInv'
  <2>1. RequestsGood' /\ ServerTyped'
    BY <1>13, ServingIsGood
  <2> QED BY <1>0, <1>13, <2>1 DEF Serve, ListInv, ScreenTyped, Unready
<1>14. ASSUME NEW q \in requests, Fail(q) \/ Refuse(q) PROVE ListInv'
  <2>1. RequestsGood'
    BY <1>0, <1>14, AnsweredIsGood DEF Fail, Refuse
  <2>2. budget' \in 0..Budget
    BY <1>0, <1>00, <1>14 DEF Fail, Refuse
  <2> QED BY <1>0, <1>14, <2>1, <2>2 DEF Fail, Refuse, ListInv, ScreenTyped, ServerTyped, Unready
<1>15. ASSUME NEW q \in requests, Answer(q) PROVE ListInv'
  <2>1. Good(list, filter)' /\ prepended' \subseteq Rows /\ Unready'
    BY <1>15, AnswerShows
  <2>2. UNCHANGED <<table, created, filter, isVisible, budget, generation>> /\ requests' \subseteq requests
    BY <1>15 DEF Answer, LoadAnswered, RefreshAnswered, NextPageAnswered, ActAnswered
  <2>3. RequestsGood'
    BY <1>0, <2>2, RequestsRest
  <2>4. \A r \in {refreshRequest', nextPageRequest'} :
          r \in {None, refreshRequest, nextPageRequest}
    BY <1>15 DEF Answer, LoadAnswered, RefreshAnswered, NextPageAnswered, ActAnswered
  <2>5. None \in 0..MaxInFlight
    BY PagedListAssumption DEF None
  <2>6. ScreenTyped' /\ ServerTyped'
    BY <1>0, <2>1, <2>2, <2>4, <2>5 DEF ScreenTyped, ServerTyped
  <2> QED BY <1>0, <2>1, <2>3, <2>6 DEF ListInv
<1> QED BY <1>1, <1>2, <1>3, <1>4, <1>5, <1>6, <1>7, <1>9, <1>10, <1>11, <1>12, <1>13, <1>14, <1>15
        DEF Next

\* A list opens with no rows.
LEMMA InitList == Init => ListInv
<1> SUFFICES ASSUME Init PROVE ListInv
  OBVIOUS
<1>1. ServerTyped
  BY PagedListAssumption DEF Init, ServerTyped, Statuses
<1>2. ScreenTyped
  BY PagedListAssumption DEF Init, ScreenTyped, None
<1>3. RequestsGood
  BY DEF Init, RequestsGood, WellSent, WellAnswered, Paging, Acting
<1>4. Unready
  BY DEF Init, Unready
<1>5. Good(list, filter)
  BY DEF Init, Good, ListType, OneRowEach, PagesKeepTo
<1> QED BY <1>1, <1>2, <1>3, <1>4, <1>5, InitInv DEF ListInv

\* Every variable of a reachable screen has its type, and no cursor of an older
\* list is left before the first page is accepted.
THEOREM TypeCorrect == Spec => []TypeOK
<1>1. ASSUME ListInv PROVE TypeOK
  <2>1. \A i \in DOMAIN list.items :
          list.items[i] \in [row: Rows, by: {"page", "action"}, status: Statuses]
    BY <1>1, ListParts DEF ListInv, Good, Item
  <2>2. list.cursor \in Rows \cup {None} /\ (isActive /\ ~isReady => list.cursor = None)
    BY <1>1, ListParts DEF ListInv, Good, Unready
  <2>3. \A q \in requests : q.id \in 1..MaxInFlight /\ q.generation \in Nat
    BY <1>1 DEF ListInv, Inv, Numbered, RequestsGood, WellSent
  <2> QED BY <1>1, <2>1, <2>2, <2>3
          DEF TypeOK, ListInv, Inv, Flags, ServerTyped, ScreenTyped
<1> QED BY <1>1, InitList, ListStep, PTL DEF Spec

\* The rows of pages belong to the filter that is shown, and no row is shown twice,
\* in whatever order a refresh, the next page and the answer of an action bring it,
\* for every page size, however many rows change meanwhile.
THEOREM CurrentRowsOnly == Spec => []OnlyCurrentRows
<1>1. ListInv => OnlyCurrentRows
  BY DEF ListInv, Good, OneRowEach, PagesKeepTo, OnlyCurrentRows
<1> QED BY <1>1, InitList, ListStep, PTL DEF Spec

-----------------------------------------------------------------------------
(* The rows of a list in their order, against the rows of the server.        *)

\* Only the newest row runs, and rows are created in their order.
Counted ==
    \A r \in Rows : /\ table[r] # "none" => r <= created
                    /\ table[r] = "running" => r = created

\* No row of a sequence is one that was never created.
Created(items) == \A i \in DOMAIN items : items[i].row <= created

\* As many rows as a page holds are not below a cursor.
BelowAPage(c) == c # None => c + PageSize <= created + 1

Descending(items) ==
    \A i, j \in DOMAIN items : i < j => items[i].row > items[j].row

\* The cursor of a page is its last row.
EndsAtCursor(page) ==
    page.cursor # None => /\ page.items # <<>>
                          /\ page.items[Len(page.items)].row = page.cursor

\* What the filter lists and a page after "after" does not hold is still to come,
\* or is newer than a first page.
Whole(page, after) ==
    \A r \in Listed(filter, after) \ RowsOf(page.items) :
       \/ page.cursor # None /\ r < page.cursor
       \/ after = None /\ \A s \in RowsOf(page.items) : s < r

HasPage(q) == q.kind \in Paging /\ q.answer # Unanswered /\ q.answer # Failed
HasItem(q) == q.kind \in Acting /\ q.answer # Unanswered /\ q.answer # Failed

\* A page that is on its way, whatever has changed since it was served.
Coming(q) ==
    HasPage(q) => LET page == q.answer.page IN
      /\ Created(page.items) /\ BelowAPage(page.cursor)
      /\ Descending(page.items) /\ EndsAtCursor(page)
      /\ q.after # None => \A r \in RowsOf(page.items) : r < q.after
      /\ q.generation = generation => Whole(page, q.after)

Asked(q) ==
    /\ q.after \in Rows \cup {None} /\ BelowAPage(q.after)
    /\ q.kind \in {"first", "refresh"} => q.after = None
    /\ q.kind = "next" => q.after # None
    /\ HasItem(q) => q.answer.item.row <= created

\* The next page under way continues the list.
Continues ==
    \A q \in requests : q.kind = "next" /\ q.id = nextPageRequest => q.after = list.cursor

\* A first page is asked for once in a generation, before the list is ready.
OneFirst ==
    /\ \A q \in requests : q.kind = "first" /\ q.generation = generation => ~isReady
    /\ \A p, q \in requests :
         /\ p.kind = "first" /\ p.generation = generation
         /\ q.kind = "first" /\ q.generation = generation
         => p = q

\* No row on top is outrun.
Lined == isActive /\ isReady /\ \A p \in prepended : ~IsOutrun(p)

\* The rows that actions put on top, then the rows of pages, newest first.
TopFirst ==
    \A i, j \in DOMAIN list.items : i < j =>
       /\ list.items[j].row \in prepended => list.items[i].row \in prepended
       /\ list.items[i].row \notin prepended => list.items[i].row > list.items[j].row

AboveCursor ==
    list.cursor # None => \A s \in Shown \ prepended : s >= list.cursor

Covered ==
    \A r \in Listed(filter, None) \ Shown :
       \/ list.cursor # None /\ r < list.cursor
       \/ \A s \in Shown \ prepended : s < r

Order == TopFirst /\ AboveCursor /\ Covered

ReachInv ==
    /\ Counted /\ Created(list.items) /\ BelowAPage(list.cursor)
    /\ \A q \in requests : Coming(q) /\ Asked(q)
    /\ Continues /\ OneFirst
    /\ Lined => Order

-----------------------------------------------------------------------------
(* Pages as the server serves them.                                          *)

\* A later place holds a smaller number.
LEMMA PlacesDescend ==
  ASSUME NEW n \in Nat, NEW S \in SUBSET (1..n),
         NEW i \in 1..Cardinality(S), NEW j \in 1..Cardinality(S), i < j
  PROVE  Largest(S, i) > Largest(S, j)
<1> DEFINE AsLarge(r) == {t \in S : t >= r}
           a == Largest(S, i)
           b == Largest(S, j)
<1>1. /\ IsFiniteSet(S) /\ a \in S /\ b \in S
      /\ Cardinality(AsLarge(a)) = i /\ Cardinality(AsLarge(b)) = j
  BY PlacesAreTaken
<1> HIDE DEF a, b
<1>2. i \in Nat /\ j \in Nat
  BY PlacesAreTaken
<1>3. ASSUME ~(a > b) PROVE FALSE
  <2>1. a \in Nat /\ b \in Nat /\ \A t \in S : t \in Nat
    BY <1>1
  <2>2. \A t \in S : t >= b => t >= a
    BY <1>3, <2>1
  <2>3. AsLarge(b) \in SUBSET AsLarge(a) /\ AsLarge(a) \in SUBSET S
    BY <2>2
  <2> HIDE DEF AsLarge
  <2>4. Cardinality(AsLarge(b)) <= Cardinality(AsLarge(a))
    BY <1>1, <2>3, FS_Subset
  <2> QED BY <1>1, <1>2, <2>4
<1> QED BY <1>3 DEF a, b

\* Every number of the set has its place.
LEMMA PlacesCover ==
  ASSUME NEW n \in Nat, NEW S \in SUBSET (1..n), NEW r \in S
  PROVE  \E i \in 1..Cardinality(S) : Largest(S, i) = r
<1> DEFINE AsLarge(x) == {t \in S : t >= x}
           k == Cardinality(AsLarge(r))
           x == Largest(S, k)
<1>0. \A t \in S : t \in Nat
  OBVIOUS
<1>1. IsFiniteSet(S) /\ Cardinality(S) \in Nat /\ \A t \in S : t \in Nat
  BY <1>0, PlacesAreTaken, Zenon
<1>2. \A y : AsLarge(y) \in SUBSET S
  OBVIOUS
<1>3. r \in AsLarge(r)
  BY <1>1
<1>4. k \in 1..Cardinality(S)
  <2> HIDE DEF AsLarge
  <2>1. IsFiniteSet(AsLarge(r)) /\ k \in Nat /\ k <= Cardinality(S) /\ k # 0
    BY <1>1, <1>2, <1>3, FS_Subset, FS_CardinalityType, FS_EmptySet
  <2> QED BY <1>1, <2>1
<1>5. x \in S /\ Cardinality(AsLarge(x)) = k
  <2> HIDE DEF k
  <2> QED BY <1>4, PlacesAreTaken
<1>6. \A y, z \in S : y <= z => AsLarge(z) \in SUBSET AsLarge(y)
  <2> SUFFICES ASSUME NEW y \in S, NEW z \in S, y <= z, NEW t \in S, t >= z PROVE t >= y
    OBVIOUS
  <2> QED BY <1>1
<1> HIDE DEF x
<1>7. x >= x
  BY <1>1, <1>5
<1>8. \A y \in S : (y \in AsLarge(x) <=> y >= x) /\ (y \in AsLarge(r) <=> y >= r)
  OBVIOUS
<1> HIDE DEF AsLarge
<1>9. AsLarge(x) = AsLarge(r)
  <2>1. x <= r \/ r <= x
    BY <1>1, <1>5
  <2>2. IsFiniteSet(AsLarge(x)) /\ IsFiniteSet(AsLarge(r))
    BY <1>1, <1>2, FS_Subset
  <2>3. CASE x <= r
    <3>1. AsLarge(r) \in SUBSET AsLarge(x)
      BY <1>5, <1>6, <2>3
    <3> QED BY <1>5, <2>2, <3>1, FS_Subset
  <2>4. CASE r <= x
    <3>1. AsLarge(x) \in SUBSET AsLarge(r)
      BY <1>5, <1>6, <2>4
    <3> QED BY <1>5, <2>2, <3>1, FS_Subset
  <2> QED BY <2>1, <2>3, <2>4
<1>10. x >= r /\ r >= x
  BY <1>3, <1>5, <1>7, <1>8, <1>9
<1>11. x = r
  BY <1>1, <1>5, <1>10
<1> QED BY <1>4, <1>11 DEF x

\* The parts of a page the server answers with.
LEMMA PageFacts ==
  ASSUME ServerTyped, Counted, NEW f \in SUBSET Statuses, NEW after, NEW page, page = Page(f, after)
  PROVE  /\ page \in ListType /\ Created(page.items) /\ BelowAPage(page.cursor)
         /\ Descending(page.items) /\ EndsAtCursor(page)
         /\ \A r \in RowsOf(page.items) : r \in Listed(f, after)
         /\ \A r \in Listed(f, after) \ RowsOf(page.items) : page.cursor # None /\ r < page.cursor
<1> DEFINE rows == Listed(f, after)
           size == IF Cardinality(rows) < PageSize THEN Cardinality(rows) ELSE PageSize
           item(i) == [row |-> Largest(rows, i), by |-> "page", status |-> table[Largest(rows, i)]]
<1>0. page \in ListType
  BY PagesAreGood DEF Good
<1>1. rows \in SUBSET (1..N) /\ N \in Nat /\ PageSize \in Nat \ {0} /\ created \in Nat
  BY PagedListAssumption DEF Listed, Rows, ServerTyped
<1>2. \A r \in rows : r \in Nat /\ r # None /\ r <= created
  BY <1>1 DEF Listed, Counted, Statuses, None, Rows
<1>3. /\ page.items = [i \in 1..size |-> item(i)]
      /\ page.cursor = IF Cardinality(rows) > PageSize THEN Largest(rows, PageSize) ELSE None
  BY DEF Page
<1> HIDE DEF rows
<1>4. Cardinality(rows) \in Nat /\ IsFiniteSet(rows)
  BY <1>1, PlacesAreTaken
<1>5. \A i \in 1..Cardinality(rows) : Largest(rows, i) \in rows
  BY <1>1, PlacesAreTaken
<1>6. size \in Nat /\ 1..size \subseteq 1..Cardinality(rows)
  BY <1>1, <1>4
<1>7. size <= PageSize /\ (Cardinality(rows) > PageSize => size = PageSize)
      /\ (~(Cardinality(rows) > PageSize) => size = Cardinality(rows))
  BY <1>1, <1>4
<1> HIDE DEF size
<1>8. DOMAIN page.items = 1..size /\ \A i \in 1..size : page.items[i].row = Largest(rows, i)
  BY <1>3
<1>9. Len(page.items) = size
  BY <1>0, <1>6, <1>8, ListParts
<1>10. Created(page.items)
  BY <1>2, <1>5, <1>6, <1>8 DEF Created
<1>11. \A i, j \in 1..Cardinality(rows) : i < j => Largest(rows, i) > Largest(rows, j)
  BY <1>1, PlacesDescend
<1>12. Descending(page.items)
  BY <1>6, <1>8, <1>11 DEF Descending
<1>13. \A r \in RowsOf(page.items) : r \in rows
  BY <1>5, <1>6, <1>8 DEF RowsOf
<1>14. ASSUME page.cursor # None
       PROVE  /\ Cardinality(rows) > PageSize /\ page.cursor = Largest(rows, PageSize)
              /\ size = PageSize /\ PageSize \in 1..Cardinality(rows) /\ page.cursor \in rows
  BY <1>1, <1>3, <1>4, <1>5, <1>7, <1>14
<1>15. EndsAtCursor(page)
  <2> SUFFICES ASSUME page.cursor # None
               PROVE  page.items # <<>> /\ page.items[Len(page.items)].row = page.cursor
    BY DEF EndsAtCursor
  <2>1. Len(page.items) \in 1..size /\ Len(page.items) # 0
    BY <1>1, <1>9, <1>14
  <2> QED BY <1>8, <1>9, <1>14, <2>1
<1>16. BelowAPage(page.cursor)
  <2> SUFFICES ASSUME page.cursor # None PROVE page.cursor + PageSize <= created + 1
    BY DEF BelowAPage
  <2> DEFINE c == page.cursor
             above == {t \in rows : t >= c}
  <2>1. Cardinality(above) = PageSize
    BY <1>1, <1>14, PlacesAreTaken
  <2>2. c \in Nat /\ c <= created
    BY <1>2, <1>14
  <2>3. above \in SUBSET (c..created)
    BY <1>2, <2>2
  <2> HIDE DEF above, c
  <2>4. IsFiniteSet(c..created) /\ Cardinality(c..created) = created - c + 1
    BY <1>1, <2>2, FS_Interval
  <2>5. PageSize <= created - c + 1
    BY <2>1, <2>3, <2>4, FS_Subset
  <2> QED BY <1>1, <2>2, <2>5 DEF c
<1>17. ASSUME NEW r \in rows, r \notin RowsOf(page.items)
       PROVE  page.cursor # None /\ r < page.cursor
  <2>1. PICK k \in 1..Cardinality(rows) : Largest(rows, k) = r
    BY <1>1, PlacesCover
  <2>2. k \notin 1..size
    BY <1>8, <1>17, <2>1 DEF RowsOf
  <2>3. Cardinality(rows) > PageSize /\ k > PageSize
    BY <1>1, <1>4, <1>7, <2>1, <2>2
  <2>4. PageSize \in 1..Cardinality(rows) /\ page.cursor = Largest(rows, PageSize)
    BY <1>1, <1>3, <1>4, <2>3
  <2>5. page.cursor \in rows /\ page.cursor > r
    BY <1>5, <1>11, <2>1, <2>3, <2>4
  <2> QED BY <1>2, <2>5
<1> QED BY <1>0, <1>10, <1>12, <1>13, <1>15, <1>16, <1>17 DEF rows

-----------------------------------------------------------------------------
(* The order of the rows on the screen.                                      *)

\* What is left of some items keeps their order, and is all of them that may stay.
LEMMA WithoutInOrder ==
  ASSUME NEW items \in Seq(Item), NEW rows, NEW rest, rest = Without(items, rows)
  PROVE  /\ \A i \in DOMAIN items :
              items[i].row \notin rows => \E k \in DOMAIN rest : rest[k] = items[i]
         /\ Descending(items) => Descending(rest)
<1> DEFINE kept == {i \in DOMAIN items : items[i].row \notin rows}
           size == Cardinality(kept)
           at(k) == Largest(kept, size + 1 - k)
<1>1. DOMAIN rest = 1..size /\ \A k \in 1..size : rest[k] = items[at(k)]
  BY DEF Without
<1>2. Len(items) \in Nat /\ DOMAIN items = 1..Len(items) /\ kept \in SUBSET (1..Len(items))
  OBVIOUS
<1>3. \A i \in DOMAIN items : items[i].row \notin rows => i \in kept
  OBVIOUS
<1> HIDE DEF kept
<1>4. size \in Nat /\ \A k \in 1..size : Largest(kept, k) \in kept
  BY <1>2, PlacesAreTaken
<1>5. \A k, l \in 1..size : k < l => Largest(kept, k) > Largest(kept, l)
  BY <1>2, PlacesDescend
<1>6. \A i \in kept : \E k \in 1..size : Largest(kept, k) = i
  BY <1>2, PlacesCover
<1> HIDE DEF size
<1>7. ASSUME NEW i \in kept PROVE \E k \in 1..size : rest[k] = items[i]
  <2>1. PICK l \in 1..size : Largest(kept, l) = i
    BY <1>6
  <2> DEFINE k == size + 1 - l
  <2>2. k \in 1..size /\ size + 1 - k = l
    BY <1>4, <2>1
  <2> HIDE DEF k
  <2>3. rest[k] = items[i]
    BY <1>1, <2>1, <2>2
  <2> QED BY <2>2, <2>3
<1>8. ASSUME Descending(items), NEW k \in 1..size, NEW l \in 1..size, k < l
      PROVE  rest[k].row > rest[l].row
  <2>1. size + 1 - k \in 1..size /\ size + 1 - l \in 1..size /\ size + 1 - l < size + 1 - k
    BY <1>4, <1>8
  <2>2. at(l) \in kept /\ at(k) \in kept /\ at(l) > at(k)
    BY <1>4, <1>5, <2>1
  <2>3. at(l) \in DOMAIN items /\ at(k) \in DOMAIN items /\ at(k) < at(l)
    BY <1>2, <2>2
  <2> HIDE DEF at
  <2>4. items[at(k)].row > items[at(l)].row
    BY <1>8, <2>3 DEF Descending
  <2> QED BY <1>1, <2>4
<1>9. Descending(items) => Descending(rest)
  BY <1>1, <1>8 DEF Descending
<1> QED BY <1>1, <1>3, <1>7, <1>9

\* A tail starts below the loaded copy of the page's last row.
LEMMA TailStarts ==
  ASSUME NEW l, NEW page, NEW f, Good(l, f), TailBelow(l, page) # <<>>
  PROVE  \E a \in DOMAIN l.items :
           /\ l.items[a].row = page.items[Len(page.items)].row
           /\ Len(TailBelow(l, page)) \in Nat
           /\ DOMAIN TailBelow(l, page) = 1..(Len(l.items) - a)
           /\ \A i \in DOMAIN TailBelow(l, page) :
                i + a \in DOMAIN l.items /\ TailBelow(l, page)[i] = l.items[i + a]
<1> DEFINE last == page.items[Len(page.items)].row
           anchors == {i \in DOMAIN l.items : l.items[i].row = last}
           first == CHOOSE i \in anchors : \A j \in anchors : i <= j
           len == Len(l.items)
           tail == SubSeq(l.items, first + 1, len)
<1>1. /\ l.items \in Seq(Item) /\ len \in Nat /\ DOMAIN l.items = 1..len
      /\ OneRowEach(l.items)
  BY ListParts DEF Good
<1>2. anchors # {}
  BY DEF TailBelow
<1>3. TailBelow(l, page) = tail
  BY <1>2 DEF TailBelow
<1>4. PICK a \in anchors : TRUE
  BY <1>2
<1>5. anchors = {a}
  BY <1>1, <1>4 DEF OneRowEach
<1>6. first = a
  <2>1. a <= a
    BY <1>1, <1>4
  <2> HIDE DEF anchors
  <2> QED BY <1>5, <2>1
<1>7. a \in 1..len /\ l.items[a].row = last
  BY <1>1, <1>4
<1> HIDE DEF first, last
<1>8. tail \in Seq(Item) /\ DOMAIN tail = 1..(len - a)
      /\ \A i \in 1..(len - a) : i + a \in 1..len /\ tail[i] = l.items[i + a]
  <2> DEFINE below == SubSeq(l.items, a + 1, len)
  <2>1. tail = below
    BY <1>6
  <2>2. below \in Seq(Item) /\ DOMAIN below = 1..(len - a)
        /\ \A i \in 1..(len - a) : i + a \in 1..len /\ below[i] = l.items[i + a]
    <3> HIDE DEF len
    <3>1. l.items \in Seq(Item) /\ a \in 1..Len(l.items) /\ Len(l.items) = len
      BY <1>1, <1>7 DEF len
    <3> QED BY <3>1
  <2> HIDE DEF tail, below
  <2> QED BY <2>1, <2>2
<1> HIDE DEF tail
<1>9. Len(tail) \in Nat
  BY <1>8
<1> QED BY <1>1, <1>3, <1>7, <1>8, <1>9 DEF last

\* The rows of a page reach down to its cursor.
LEMMA RowsFromCursor ==
  ASSUME NEW page \in ListType, Descending(page.items), EndsAtCursor(page), page.cursor # None
  PROVE  page.cursor \in RowsOf(page.items) /\ \A s \in RowsOf(page.items) : s >= page.cursor
<1> DEFINE len == Len(page.items)
<1>1. /\ len \in Nat /\ DOMAIN page.items = 1..len /\ \A i \in 1..len : page.items[i].row \in Nat
      /\ page.items # <<>> /\ page.items[len].row = page.cursor
  BY ListParts DEF EndsAtCursor, Item, Rows
<1>2. len \in 1..len
  <2>1. len # 0
    BY <1>1, ListParts
  <2> QED BY <1>1, <2>1
<1>3. \A i \in 1..len : page.items[i].row >= page.cursor
  <2> SUFFICES ASSUME NEW i \in 1..len PROVE page.items[i].row >= page.cursor
    OBVIOUS
  <2>1. i = len \/ i < len
    BY <1>1
  <2> HIDE DEF len
  <2>2. i < len => page.items[i].row > page.items[len].row
    BY <1>1, <1>2 DEF Descending
  <2>3. page.items[i].row \in Nat /\ page.items[len].row \in Nat
    BY <1>1, <1>2
  <2> QED BY <1>1, <2>1, <2>2, <2>3
<1> QED BY <1>1, <1>2, <1>3 DEF RowsOf

\* The items of two lists put together.
LEMMA Concatenated ==
  ASSUME NEW a \in Seq(Item), NEW b \in Seq(Item)
  PROVE  /\ Len(a) \in Nat /\ DOMAIN a = 1..Len(a) /\ Len(b) \in Nat /\ DOMAIN b = 1..Len(b)
         /\ DOMAIN (a \o b) = 1..(Len(a) + Len(b))
         /\ \A i \in DOMAIN (a \o b) :
              IF i <= Len(a) THEN i \in DOMAIN a /\ (a \o b)[i] = a[i]
              ELSE i - Len(a) \in DOMAIN b /\ (a \o b)[i] = b[i - Len(a)]
         /\ \A i \in DOMAIN a : i \in DOMAIN (a \o b) /\ (a \o b)[i] = a[i]
         /\ \A k \in DOMAIN b : Len(a) + k \in DOMAIN (a \o b) /\ (a \o b)[Len(a) + k] = b[k]
<1>1. Len(a) \in Nat /\ DOMAIN a = 1..Len(a) /\ Len(b) \in Nat /\ DOMAIN b = 1..Len(b)
      /\ DOMAIN (a \o b) = 1..(Len(a) + Len(b))
  OBVIOUS
<1>2. ASSUME NEW i \in DOMAIN (a \o b)
      PROVE  IF i <= Len(a) THEN i \in DOMAIN a /\ (a \o b)[i] = a[i]
             ELSE i - Len(a) \in DOMAIN b /\ (a \o b)[i] = b[i - Len(a)]
  BY <1>1
<1>3. ASSUME NEW i \in DOMAIN a PROVE i \in DOMAIN (a \o b) /\ (a \o b)[i] = a[i]
  BY <1>1
<1>4. ASSUME NEW k \in DOMAIN b
      PROVE  Len(a) + k \in DOMAIN (a \o b) /\ (a \o b)[Len(a) + k] = b[k]
  BY <1>1
<1> QED BY <1>1, <1>2, <1>3, <1>4

\* A first page that is accepted is in order.
LEMMA LoadInOrder ==
  ASSUME NEW page \in ListType, Descending(page.items), EndsAtCursor(page), Whole(page, None),
         list' = page, prepended' = {}, UNCHANGED <<table, filter>>
  PROVE  Order'
<1>1. Shown' = RowsOf(page.items) /\ Shown' \ prepended' = RowsOf(page.items)
  BY DEF Shown, RowsOf
<1>2. Listed(filter, None)' = Listed(filter, None)
  BY DEF Listed
<1>3. TopFirst'
  BY DEF TopFirst, Descending
<1>4. AboveCursor'
  BY <1>1, RowsFromCursor DEF AboveCursor
<1>5. Covered'
  BY <1>1, <1>2 DEF Covered, Whole
<1> QED BY <1>3, <1>4, <1>5 DEF Order

\* A refreshed page that ends above the cursor and below the rows on top leaves
\* the pages below it in order.
LEMMA MergeInOrder ==
  ASSUME NEW page, Good(page, filter), Good(list, filter), Order,
         Descending(page.items), EndsAtCursor(page), Whole(page, None),
         ~ReplacesList(list, page), list' = MergeRefreshedFirstPage(list, page),
         \A p \in prepended : p > page.cursor,
         prepended \subseteq Rows, prepended' = {}, UNCHANGED <<table, filter>>
  PROVE  Order'
<1> DEFINE tail == TailBelow(list, page)
           rest == Without(tail, RowsOf(page.items))
           new == page.items \o rest
           last == page.cursor
           len == Len(page.items)
<1>1. /\ page.items \in Seq(Item) /\ len \in Nat /\ DOMAIN page.items = 1..len
      /\ list.items \in Seq(Item) /\ DOMAIN list.items = 1..Len(list.items)
      /\ \A i \in DOMAIN list.items : list.items[i].row \in Nat
      /\ \A i \in DOMAIN page.items : page.items[i].row \in Nat
      /\ list.cursor \in Nat /\ OneRowEach(list.items)
  <2>1. page \in ListType /\ list \in ListType /\ OneRowEach(list.items)
    BY DEF Good
  <2>2. \A x \in Rows \cup {None} : x \in Nat
    BY DEF Rows, None
  <2>3. \A x \in Item : x.row \in Rows
    BY DEF Item
  <2> QED BY <2>1, <2>2, <2>3, ListParts
<1>2. /\ last # None /\ last \in Nat /\ page.items # <<>> /\ tail # <<>>
      /\ page.items[len].row = last
  BY <1>1, ListParts DEF ReplacesList, EndsAtCursor, Good, Rows, None
<1>3. last \in RowsOf(page.items) /\ \A s \in RowsOf(page.items) : s >= last
  BY <1>2, RowsFromCursor DEF Good
<1>4. list' = [items |-> new, cursor |-> list.cursor]
  BY DEF MergeRefreshedFirstPage
<1>5. tail \in Seq(Item) /\ OneRowEach(tail)
  BY TailIsLoaded
<1>6. PICK a \in DOMAIN list.items :
        /\ list.items[a].row = last
        /\ DOMAIN tail = 1..(Len(list.items) - a)
        /\ \A i \in DOMAIN tail : i + a \in DOMAIN list.items /\ tail[i] = list.items[i + a]
  BY <1>2, TailStarts
<1>7. last \notin prepended /\ last \in Shown
  BY <1>2, <1>6 DEF Shown
<1>8. \A i \in DOMAIN list.items : a < i => i - a \in DOMAIN tail /\ tail[i - a] = list.items[i]
  BY <1>1, <1>6
<1> HIDE DEF tail
\* The rows of the tail are rows of pages, in order, below the page's last row.
<1>9. \A i \in DOMAIN tail : tail[i].row \in Nat /\ tail[i].row \notin prepended /\ tail[i].row < last
  <2> SUFFICES ASSUME NEW i \in DOMAIN tail
               PROVE  tail[i].row \in Nat /\ tail[i].row \notin prepended /\ tail[i].row < last
    OBVIOUS
  <2>1. i + a \in DOMAIN list.items /\ a < i + a /\ tail[i] = list.items[i + a]
    BY <1>1, <1>6
  <2>2. list.items[i + a].row \notin prepended /\ list.items[a].row > list.items[i + a].row
    BY <1>6, <1>7, <2>1 DEF Order, TopFirst
  <2> QED BY <1>1, <1>6, <2>1, <2>2
<1>10. Descending(tail)
  <2> SUFFICES ASSUME NEW i \in DOMAIN tail, NEW j \in DOMAIN tail, i < j
               PROVE  tail[i].row > tail[j].row
    BY DEF Descending
  <2>1. /\ i + a \in DOMAIN list.items /\ j + a \in DOMAIN list.items /\ i + a < j + a
        /\ tail[i] = list.items[i + a] /\ tail[j] = list.items[j + a]
    BY <1>1, <1>6
  <2>2. list.items[i + a].row \notin prepended
    BY <1>9, <2>1
  <2> QED BY <2>1, <2>2 DEF Order, TopFirst
<1>11. \A s \in RowsOf(tail) : s \notin RowsOf(page.items)
  <2> SUFFICES ASSUME NEW i \in DOMAIN tail, tail[i].row \in RowsOf(page.items) PROVE FALSE
    BY DEF RowsOf
  <2>1. tail[i].row >= last /\ tail[i].row < last /\ tail[i].row \in Nat
    BY <1>3, <1>9
  <2> QED BY <1>2, <2>1
<1>12. /\ rest \in Seq(Item)
       /\ \A k \in DOMAIN rest : \E i \in DOMAIN tail : rest[k] = tail[i]
       /\ \A i \in DOMAIN tail : tail[i].row \notin RowsOf(page.items) =>
                                   \E k \in DOMAIN rest : rest[k] = tail[i]
       /\ Descending(rest)
  BY <1>5, <1>10, WithoutKeeps, WithoutInOrder
<1> HIDE DEF rest
<1>13. RowsOf(rest) = RowsOf(tail)
  BY <1>11, <1>12 DEF RowsOf
<1>14. /\ DOMAIN rest = 1..Len(rest) /\ Len(rest) \in Nat
       /\ DOMAIN new = 1..(len + Len(rest))
       /\ \A i \in DOMAIN new : IF i <= len THEN i \in DOMAIN page.items /\ new[i] = page.items[i]
                                ELSE i - len \in DOMAIN rest /\ new[i] = rest[i - len]
       /\ \A i \in DOMAIN page.items : i \in DOMAIN new /\ new[i] = page.items[i]
       /\ \A k \in DOMAIN rest : len + k \in DOMAIN new /\ new[len + k] = rest[k]
  BY <1>1, <1>12, Concatenated
<1> HIDE DEF new
<1>15. RowsOf(new) = RowsOf(page.items) \cup RowsOf(tail)
  <2>1. RowsOf(new) = RowsOf(page.items) \cup RowsOf(rest)
    <3>1. ASSUME NEW i \in DOMAIN new PROVE new[i].row \in RowsOf(page.items) \cup RowsOf(rest)
      BY <1>14, <3>1 DEF RowsOf
    <3>2. ASSUME NEW i \in DOMAIN page.items PROVE page.items[i].row \in RowsOf(new)
      BY <1>14, <3>2 DEF RowsOf
    <3>3. ASSUME NEW i \in DOMAIN rest PROVE rest[i].row \in RowsOf(new)
      BY <1>14, <3>3 DEF RowsOf
    <3>4. RowsOf(new) \subseteq RowsOf(page.items) \cup RowsOf(rest)
      BY <3>1 DEF RowsOf
    <3>5. RowsOf(page.items) \subseteq RowsOf(new) /\ RowsOf(rest) \subseteq RowsOf(new)
      BY <3>2, <3>3 DEF RowsOf
    <3> QED BY <3>4, <3>5
  <2> QED BY <1>13, <2>1
<1>16. Shown' = RowsOf(new) /\ Shown' \ prepended' = RowsOf(new) /\ list'.cursor = list.cursor
       /\ list'.items = new
  BY <1>4 DEF Shown, RowsOf
<1>17. Descending(new)
  <2> SUFFICES ASSUME NEW i \in DOMAIN new, NEW j \in DOMAIN new, i < j
               PROVE  new[i].row > new[j].row
    BY DEF Descending
  <2>0. i \in Nat /\ j \in Nat
    BY <1>1, <1>14
  <2>1. CASE j <= len
    BY <1>14, <2>0, <2>1 DEF Descending
  <2>2. CASE i > len
    <3>1. /\ i - len \in DOMAIN rest /\ j - len \in DOMAIN rest /\ i - len < j - len
          /\ new[i] = rest[i - len] /\ new[j] = rest[j - len]
      BY <1>1, <1>14, <2>0, <2>2
    <3> QED BY <1>12, <3>1 DEF Descending
  <2>3. CASE i <= len /\ ~(j <= len)
    <3>1. new[i].row \in RowsOf(page.items) /\ new[j].row \in RowsOf(rest)
      BY <1>14, <2>3 DEF RowsOf
    <3>2. new[i].row \in Nat /\ new[i].row >= last
      BY <1>1, <1>3, <3>1 DEF RowsOf
    <3>3. new[j].row \in Nat /\ new[j].row < last
      BY <1>9, <1>13, <3>1 DEF RowsOf
    <3> QED BY <1>2, <3>2, <3>3
  <2> QED BY <1>1, <2>0, <2>1, <2>2, <2>3
<1>18. TopFirst'
  BY <1>16, <1>17 DEF TopFirst, Descending
<1>19. last >= list.cursor
  <2>1. list.cursor # None => last >= list.cursor
    BY <1>7 DEF Order, AboveCursor
  <2> QED BY <1>1, <1>2, <2>1 DEF None
<1>20. AboveCursor'
  <2> SUFFICES ASSUME list.cursor # None, NEW s \in RowsOf(new) PROVE s >= list.cursor
    BY <1>16 DEF AboveCursor
  <2>1. CASE s \in RowsOf(page.items)
    <3>1. s >= last /\ s \in Nat
      BY <1>1, <1>3, <2>1 DEF RowsOf
    <3> QED BY <1>1, <1>2, <1>19, <3>1
  <2>2. CASE s \in RowsOf(tail)
    <3>1. PICK i \in DOMAIN tail : s = tail[i].row
      BY <2>2 DEF RowsOf
    <3>2. s \in Shown /\ s \notin prepended
      BY <1>6, <1>9, <3>1 DEF Shown
    <3> QED BY <3>2 DEF Order, AboveCursor
  <2> QED BY <1>15, <2>1, <2>2
<1>21. Covered'
  <2> SUFFICES ASSUME NEW r \in Listed(filter, None), r \notin RowsOf(new)
               PROVE  \/ list.cursor # None /\ r < list.cursor
                      \/ \A s \in RowsOf(new) : s < r
    BY <1>16 DEF Covered, Listed
  <2>0. r \in Nat /\ r # last /\ r \notin RowsOf(page.items) /\ r \notin RowsOf(tail)
    BY <1>3, <1>15 DEF Listed, Rows
  <2>1. CASE r > last
    <3>1. \A s \in RowsOf(page.items) : s < r
      BY <1>2, <2>0, <2>1 DEF Whole
    <3>2. \A s \in RowsOf(tail) : s < r
      <4> SUFFICES ASSUME NEW i \in DOMAIN tail PROVE tail[i].row < r
        BY DEF RowsOf
      <4> QED BY <1>2, <1>9, <2>0, <2>1
    <3> QED BY <1>15, <3>1, <3>2
  <2>2. CASE r < last
    <3>1. r \notin Shown
      <4> SUFFICES ASSUME NEW i \in DOMAIN list.items, list.items[i].row = r PROVE FALSE
        BY DEF Shown
      <4>1. i \in Nat /\ a \in Nat /\ i # a
        BY <1>1, <1>6, <2>0
      <4>2. CASE a < i
        BY <1>8, <2>0, <4>2 DEF RowsOf
      <4>3. CASE i < a
        <5>1. CASE r \in prepended
          BY <1>2, <2>0, <2>2, <5>1
        <5>2. CASE r \notin prepended
          <6>1. list.items[i].row > list.items[a].row
            BY <4>3, <5>2 DEF Order, TopFirst
          <6> QED BY <1>2, <1>6, <2>0, <2>2, <6>1
        <5> QED BY <5>1, <5>2
      <4> QED BY <4>1, <4>2, <4>3
    <3>2. ~(last < r)
      BY <1>2, <2>0, <2>2
    <3> QED BY <1>7, <3>1, <3>2 DEF Order, Covered
  <2> QED BY <1>2, <2>0, <2>1, <2>2
<1> QED BY <1>18, <1>20, <1>21 DEF Order

\* A next page that continues the list at its cursor leaves it in order.
LEMMA AppendInOrder ==
  ASSUME NEW page, Good(page, filter), Good(list, filter), Order, list.cursor # None,
         Descending(page.items), EndsAtCursor(page), Whole(page, list.cursor),
         \A r \in RowsOf(page.items) : r < list.cursor,
         list' = AppendNextPage(list, page),
         \A p \in prepended : p > list.cursor,
         prepended \subseteq Rows, UNCHANGED <<prepended, table, filter>>
  PROVE  Order'
<1> DEFINE rest == Without(page.items, RowsOf(list.items))
           new == list.items \o rest
           len == Len(list.items)
           c == list.cursor
<1>1. /\ page.items \in Seq(Item) /\ list.items \in Seq(Item)
      /\ len \in Nat /\ DOMAIN list.items = 1..len /\ OneRowEach(page.items)
      /\ \A i \in DOMAIN list.items : list.items[i].row \in Nat
      /\ \A i \in DOMAIN page.items : page.items[i].row \in Nat
      /\ c \in Nat /\ page.cursor \in Nat /\ \A p \in prepended : p \in Nat
  <2>1. page \in ListType /\ list \in ListType /\ OneRowEach(page.items)
    BY DEF Good
  <2>2. \A x \in Rows \cup {None} : x \in Nat
    BY DEF Rows, None
  <2>3. \A x \in Item : x.row \in Rows
    BY DEF Item
  <2> QED BY <2>1, <2>2, <2>3, ListParts
<1>2. list' = [items |-> new, cursor |-> page.cursor]
  BY DEF AppendNextPage
<1>3. /\ rest \in Seq(Item)
      /\ \A k \in DOMAIN rest : \E i \in DOMAIN page.items : rest[k] = page.items[i]
      /\ \A i \in DOMAIN page.items : page.items[i].row \notin RowsOf(list.items) =>
                                   \E k \in DOMAIN rest : rest[k] = page.items[i]
      /\ Descending(rest)
  <2>1. /\ rest \in Seq(Item)
        /\ \A k \in DOMAIN rest : \E i \in DOMAIN page.items : rest[k] = page.items[i]
    BY <1>1, WithoutKeeps
  <2>2. rest = Without(page.items, RowsOf(list.items))
    OBVIOUS
  <2> HIDE DEF rest
  <2>3. /\ \A i \in DOMAIN page.items : page.items[i].row \notin RowsOf(list.items) =>
                                      \E k \in DOMAIN rest : rest[k] = page.items[i]
        /\ Descending(rest)
    BY <1>1, <2>2, WithoutInOrder
  <2> QED BY <2>1, <2>3
<1> HIDE DEF rest
<1>4. /\ DOMAIN rest = 1..Len(rest) /\ Len(rest) \in Nat
      /\ DOMAIN new = 1..(len + Len(rest))
      /\ \A i \in DOMAIN new : IF i <= len THEN i \in DOMAIN list.items /\ new[i] = list.items[i]
                               ELSE i - len \in DOMAIN rest /\ new[i] = rest[i - len]
      /\ \A i \in DOMAIN list.items : i \in DOMAIN new /\ new[i] = list.items[i]
      /\ \A k \in DOMAIN rest : len + k \in DOMAIN new /\ new[len + k] = rest[k]
  BY <1>1, <1>3, Concatenated
<1> HIDE DEF new, len
<1>5. \A s \in RowsOf(rest) : s \in RowsOf(page.items) /\ s \in Nat /\ s < c /\ s \notin prepended
  <2> SUFFICES ASSUME NEW k \in DOMAIN rest
               PROVE  /\ rest[k].row \in RowsOf(page.items) /\ rest[k].row \in Nat
                      /\ rest[k].row < c /\ rest[k].row \notin prepended
    BY DEF RowsOf
  <2>1. rest[k].row \in RowsOf(page.items) /\ rest[k].row \in Nat
    BY <1>1, <1>3 DEF RowsOf
  <2>2. rest[k].row < c
    BY <2>1
  <2>3. rest[k].row \notin prepended
    BY <1>1, <2>1, <2>2
  <2> QED BY <2>1, <2>2, <2>3
<1>6. \A s \in RowsOf(new) : s \in Shown \/ s \in RowsOf(rest)
  BY <1>4 DEF RowsOf, Shown
<1>7. (\A s \in Shown : s \in RowsOf(new)) /\ (\A s \in RowsOf(page.items) : s \in RowsOf(new))
  <2>1. ASSUME NEW i \in DOMAIN list.items PROVE list.items[i].row \in RowsOf(new)
    BY <1>4, <2>1 DEF RowsOf
  <2>2. ASSUME NEW i \in DOMAIN page.items PROVE page.items[i].row \in RowsOf(new)
    <3>1. CASE page.items[i].row \in RowsOf(list.items)
      BY <2>1, <3>1 DEF RowsOf
    <3>2. CASE page.items[i].row \notin RowsOf(list.items)
      <4>1. PICK k \in DOMAIN rest : rest[k] = page.items[i]
        BY <1>3, <3>2
      <4> QED BY <1>4, <4>1 DEF RowsOf
    <3> QED BY <3>1, <3>2
  <2> QED BY <2>1, <2>2 DEF RowsOf, Shown
<1>8. Shown' = RowsOf(new) /\ list'.cursor = page.cursor /\ list'.items = new
  BY <1>2 DEF Shown, RowsOf
<1>9. \A s \in Shown : s \in Nat /\ (s \notin prepended => s >= c)
  BY <1>1 DEF Order, AboveCursor, Shown
<1>10. ASSUME NEW i \in DOMAIN new, NEW j \in DOMAIN new, i < j
       PROVE  /\ new[j].row \in prepended => new[i].row \in prepended
              /\ new[i].row \notin prepended => new[i].row > new[j].row
  <2>0. i \in Nat /\ j \in Nat /\ len \in Nat
    BY <1>1, <1>4
  <2>1. CASE j <= len
    BY <1>4, <1>10, <2>0, <2>1 DEF Order, TopFirst
  <2>2. CASE i > len
    <3>1. /\ i - len \in DOMAIN rest /\ j - len \in DOMAIN rest /\ i - len < j - len
          /\ new[i] = rest[i - len] /\ new[j] = rest[j - len]
      BY <1>4, <1>10, <2>0, <2>2
    <3>2. new[j].row \notin prepended
      BY <1>5, <3>1 DEF RowsOf
    <3> QED BY <1>3, <3>1, <3>2 DEF Descending
  <2>3. CASE i <= len /\ ~(j <= len)
    <3>1. new[i].row \in Shown /\ new[j].row \in RowsOf(rest)
      BY <1>4, <2>3 DEF RowsOf, Shown
    <3> QED BY <1>1, <1>5, <1>9, <3>1
  <2> QED BY <1>10, <2>0, <2>1, <2>2, <2>3
<1>11. TopFirst'
  BY <1>8, <1>10 DEF TopFirst
<1>12. AboveCursor'
  <2> SUFFICES ASSUME page.cursor # None, NEW s \in RowsOf(new), s \notin prepended
               PROVE  s >= page.cursor
    BY <1>8 DEF AboveCursor
  <2>1. page.cursor < c /\ \A x \in RowsOf(page.items) : x >= page.cursor
    BY RowsFromCursor DEF Good
  <2>2. CASE s \in Shown
    BY <1>1, <1>9, <2>1, <2>2
  <2> QED BY <1>5, <1>6, <2>1, <2>2
<1>13. Covered'
  <2> SUFFICES ASSUME NEW r \in Listed(filter, None), r \notin RowsOf(new)
               PROVE  \/ page.cursor # None /\ r < page.cursor
                      \/ \A s \in RowsOf(new) \ prepended : s < r
    BY <1>8 DEF Covered, Listed
  <2>1. r \in Nat /\ r \notin Shown /\ r \notin RowsOf(page.items)
    BY <1>7 DEF Listed, Rows
  <2>2. CASE r < c
    <3>1. r \in Listed(filter, c) \ RowsOf(page.items)
      BY <2>1, <2>2 DEF Listed
    <3> QED BY <3>1 DEF Whole
  <2>3. CASE ~(r < c)
    <3>1. \A s \in Shown \ prepended : s < r
      BY <2>1, <2>3 DEF Order, Covered
    <3>2. \A s \in RowsOf(rest) : s < r
      BY <1>1, <1>5, <2>1, <2>3
    <3> QED BY <1>6, <3>1, <3>2
  <2> QED BY <2>2, <2>3
<1> QED BY <1>11, <1>12, <1>13 DEF Order

\* A row an action shows replaces its copy or goes on top of the others.
LEMMA ActInOrder ==
  ASSUME Good(list, filter), Order, NEW item \in Item, ReplaceOrPrependItem(item),
         UNCHANGED <<table, filter>>
  PROVE  Order'
<1>1. /\ list.items \in Seq(Item) /\ DOMAIN list.items = 1..Len(list.items)
      /\ Len(list.items) \in Nat /\ list = [items |-> list.items, cursor |-> list.cursor]
  BY ListParts DEF Good, ListType
<1>2. CASE item.row \in Shown
  <2> DEFINE old == list.items
             new == [i \in DOMAIN old |-> IF old[i].row = item.row THEN item ELSE old[i]]
  <2>1. list' = [list EXCEPT !.items = new] /\ UNCHANGED prepended
    BY <1>2 DEF ReplaceOrPrependItem
  <2>2. list' = [items |-> new, cursor |-> list.cursor]
    BY <1>1, <2>1
  <2>3. DOMAIN new = DOMAIN old /\ \A i \in DOMAIN old : new[i].row = old[i].row
    OBVIOUS
  <2> HIDE DEF new
  <2>4. list'.items = new /\ list'.cursor = list.cursor
    BY <2>2
  <2>5. Shown' = Shown
    BY <2>3, <2>4 DEF Shown
  <2>6. TopFirst'
    BY <2>1, <2>3, <2>4 DEF Order, TopFirst
  <2> QED BY <2>1, <2>4, <2>5, <2>6 DEF Order, AboveCursor, Covered, Listed
<1>3. CASE item.row \notin Shown
  <2> DEFINE top == <<item>>
             new == top \o list.items
  <2>1. list' = [list EXCEPT !.items = new] /\ prepended' = prepended \cup {item.row}
    BY <1>3 DEF ReplaceOrPrependItem
  <2>2. list' = [items |-> new, cursor |-> list.cursor]
    BY <1>1, <2>1
  <2>3. top \in Seq(Item) /\ Len(top) = 1 /\ DOMAIN top = {1} /\ top[1] = item
    OBVIOUS
  <2> HIDE DEF top
  <2>4. /\ DOMAIN new = 1..(1 + Len(list.items))
        /\ \A i \in DOMAIN new : IF i <= 1 THEN i \in DOMAIN top /\ new[i] = top[i]
                                 ELSE i - 1 \in DOMAIN list.items /\ new[i] = list.items[i - 1]
        /\ \A k \in DOMAIN list.items : 1 + k \in DOMAIN new /\ new[1 + k] = list.items[k]
    <3>1. /\ DOMAIN new = 1..(Len(top) + Len(list.items))
          /\ \A i \in DOMAIN new :
               IF i <= Len(top) THEN i \in DOMAIN top /\ new[i] = top[i]
               ELSE i - Len(top) \in DOMAIN list.items /\ new[i] = list.items[i - Len(top)]
          /\ \A k \in DOMAIN list.items :
               Len(top) + k \in DOMAIN new /\ new[Len(top) + k] = list.items[k]
      BY <1>1, <2>3, Concatenated
    <3> HIDE DEF new
    <3> QED BY <2>3, <3>1
  <2> HIDE DEF new
  <2>5. list'.items = new /\ list'.cursor = list.cursor
    BY <2>2
  <2>6. \A i \in DOMAIN new : \/ i = 1 /\ new[i].row = item.row
                              \/ i - 1 \in DOMAIN list.items /\ new[i] = list.items[i - 1] /\ i > 1
    BY <1>1, <2>3, <2>4
  <2>7. Shown' \ prepended' = Shown \ prepended /\ \A r \in Shown : r \in Shown'
    <3>1. ASSUME NEW i \in DOMAIN new PROVE new[i].row = item.row \/ new[i].row \in Shown
      BY <2>6 DEF Shown
    <3>2. ASSUME NEW k \in DOMAIN list.items PROVE list.items[k].row \in Shown'
      BY <2>4, <2>5 DEF Shown
    <3>3. \A r \in Shown : r \in Shown'
      BY <3>2 DEF Shown
    <3>4. \A r \in Shown' : r = item.row \/ r \in Shown
      BY <2>5, <3>1 DEF Shown
    <3> QED BY <1>3, <2>1, <3>3, <3>4
  <2>8. TopFirst'
    <3> SUFFICES ASSUME NEW i \in DOMAIN new, NEW j \in DOMAIN new, i < j
                 PROVE  /\ new[j].row \in prepended' => new[i].row \in prepended'
                        /\ new[i].row \notin prepended' => new[i].row > new[j].row
      BY <2>5 DEF TopFirst
    <3>0. i \in Nat /\ j \in Nat
      BY <1>1, <2>4
    <3>1. CASE i = 1
      BY <2>1, <2>6, <3>1
    <3>2. CASE i # 1
      <4>1. /\ i - 1 \in DOMAIN list.items /\ j - 1 \in DOMAIN list.items /\ i - 1 < j - 1
            /\ new[i] = list.items[i - 1] /\ new[j] = list.items[j - 1]
        BY <2>6, <3>0, <3>2
      <4>2. new[j].row # item.row
        BY <1>3, <4>1 DEF Shown
      <4> QED BY <2>1, <4>1, <4>2 DEF Order, TopFirst
    <3> QED BY <3>1, <3>2
  <2> QED BY <2>5, <2>7, <2>8 DEF Order, AboveCursor, Covered, Listed
<1> QED BY <1>2, <1>3

\* The rows that enter a filter are not below the newest one.
OnlyNewest ==
    /\ created' \in Nat /\ created' >= created
    /\ \A r \in Rows : r < created => table'[r] \in {table[r], "none"}

\* So a list that rests stays in order.
LEMMA RestInOrder ==
  ASSUME OnlyNewest, ServerTyped, filter \in SUBSET Statuses, Good(list, filter),
         Created(list.items), Order, UNCHANGED <<filter, list, prepended>>
  PROVE  Order'
<1>1. TopFirst' /\ AboveCursor'
  BY DEF Order, TopFirst, AboveCursor, Shown
<1>2. Covered'
  <2> SUFFICES ASSUME NEW r \in Rows, table'[r] \in filter, r \notin Shown
               PROVE  \/ list.cursor # None /\ r < list.cursor
                      \/ \A s \in Shown \ prepended : s < r
    BY DEF Covered, Listed, Shown
  <2>0. r \in Nat /\ created \in Nat
    BY DEF ServerTyped, Rows
  <2>1. CASE r < created
    <3>1. table'[r] \in {table[r], "none"} /\ "none" \notin filter
      BY <2>1 DEF OnlyNewest, Statuses
    <3> QED BY <3>1 DEF Order, Covered, Listed
  <2>2. CASE ~(r < created)
    <3>1. \A s \in Shown : s <= created /\ s \in Nat /\ s # r
      BY ListParts DEF Good, Created, Shown, Item, Rows
    <3> QED BY <2>0, <2>2, <3>1
  <2> QED BY <2>1, <2>2
<1> QED BY <1>1, <1>2 DEF Order

\* And a page on its way stays whole, whatever the server did since it was served.
LEMMA PageStaysWhole ==
  ASSUME OnlyNewest, ServerTyped, filter \in SUBSET Statuses, UNCHANGED filter,
         NEW page \in ListType, NEW after \in Rows \cup {None}, BelowAPage(after),
         Created(page.items), Whole(page, after)
  PROVE  Whole(page, after)'
<1> SUFFICES ASSUME NEW r \in Rows, table'[r] \in filter, after = None \/ r < after,
                    r \notin RowsOf(page.items)
             PROVE  \/ page.cursor # None /\ r < page.cursor
                    \/ after = None /\ \A s \in RowsOf(page.items) : s < r
  BY DEF Whole, Listed
<1>0. r \in Nat /\ created \in Nat /\ PageSize \in Nat \ {0}
  BY PagedListAssumption DEF ServerTyped, Rows
<1>1. CASE r < created
  <2>1. table'[r] \in {table[r], "none"} /\ "none" \notin filter
    BY <1>1 DEF OnlyNewest, Statuses
  <2> QED BY <2>1 DEF Whole, Listed
<1>2. CASE ~(r < created)
  <2>1. \A s \in RowsOf(page.items) : s <= created /\ s \in Nat /\ s # r
    BY ListParts DEF Created, RowsOf, Item, Rows
  <2>2. after = None
    BY <1>0, <1>2, PagedListAssumption DEF BelowAPage, Rows, None
  <2> QED BY <1>0, <1>2, <2>1, <2>2
<1> QED BY <1>1, <1>2

-----------------------------------------------------------------------------
(* The parts of the invariant.                                               *)

\* A merged list shows rows of the page and of the list.
LEMMA MergedRows ==
  ASSUME NEW l, NEW page, NEW f, Good(l, f), Good(page, f),
         NEW m, m = MergeRefreshedFirstPage(l, page)
  PROVE  /\ \A i \in DOMAIN m.items : m.items[i].row \in RowsOf(page.items) \cup RowsOf(l.items)
         /\ ReplacesList(l, page) => m = page
         /\ ~ReplacesList(l, page) => m.cursor = l.cursor
<1>1. CASE ReplacesList(l, page)
  BY <1>1 DEF MergeRefreshedFirstPage, RowsOf
<1>2. CASE ~ReplacesList(l, page)
  <2> DEFINE tail == TailBelow(l, page)
             rest == Without(tail, RowsOf(page.items))
             new == page.items \o rest
  <2>1. m = [items |-> new, cursor |-> l.cursor]
    BY <1>2 DEF MergeRefreshedFirstPage
  <2>2. tail \in Seq(Item) /\ OneRowEach(tail) /\ page.items \in Seq(Item)
    BY TailIsLoaded, ListParts DEF Good
  <2>3. \A i \in DOMAIN tail : \E j \in DOMAIN l.items : tail[i] = l.items[j]
    BY <1>2, TailStarts DEF ReplacesList
  <2> HIDE DEF tail
  <2>4. rest \in Seq(Item) /\ \A k \in DOMAIN rest : \E i \in DOMAIN tail : rest[k] = tail[i]
    BY <2>2, WithoutKeeps
  <2> HIDE DEF rest
  <2>5. \A i \in DOMAIN new :
          IF i <= Len(page.items) THEN i \in DOMAIN page.items /\ new[i] = page.items[i]
          ELSE i - Len(page.items) \in DOMAIN rest /\ new[i] = rest[i - Len(page.items)]
    BY <2>2, <2>4, Concatenated
  <2> HIDE DEF new
  <2>6. ASSUME NEW i \in DOMAIN new PROVE new[i].row \in RowsOf(page.items) \cup RowsOf(l.items)
    BY <2>3, <2>4, <2>5, <2>6 DEF RowsOf
  <2> QED BY <1>2, <2>1, <2>6
<1> QED BY <1>1, <1>2

\* An appended list shows rows of the list and of the page.
LEMMA AppendedRows ==
  ASSUME NEW l, NEW page, NEW f, Good(l, f), Good(page, f), NEW m, m = AppendNextPage(l, page)
  PROVE  /\ \A i \in DOMAIN m.items : m.items[i].row \in RowsOf(page.items) \cup RowsOf(l.items)
         /\ m.cursor = page.cursor
<1> DEFINE rest == Without(page.items, RowsOf(l.items))
           new == l.items \o rest
<1>1. m = [items |-> new, cursor |-> page.cursor]
  BY DEF AppendNextPage
<1>2. page.items \in Seq(Item) /\ l.items \in Seq(Item) /\ OneRowEach(page.items)
  BY ListParts DEF Good
<1>3. rest \in Seq(Item) /\ \A k \in DOMAIN rest : \E i \in DOMAIN page.items : rest[k] = page.items[i]
  BY <1>2, WithoutKeeps
<1> HIDE DEF rest
<1>4. \A i \in DOMAIN new :
        IF i <= Len(l.items) THEN i \in DOMAIN l.items /\ new[i] = l.items[i]
        ELSE i - Len(l.items) \in DOMAIN rest /\ new[i] = rest[i - Len(l.items)]
  BY <1>2, <1>3, Concatenated
<1> HIDE DEF new
<1>5. ASSUME NEW i \in DOMAIN new PROVE new[i].row \in RowsOf(page.items) \cup RowsOf(l.items)
  BY <1>3, <1>4, <1>5 DEF RowsOf
<1> QED BY <1>1, <1>5

\* The server creates a row only when none runs, and a row's status ends in none.
LEMMA ServerMoves ==
  ASSUME ServerTyped, Counted, [Next]_vars
  PROVE  Counted' /\ OnlyNewest
<1>0. /\ created \in Nat /\ \A r \in Rows : r \in Nat
      /\ table \in [Rows -> Statuses \cup {"none"}]
  BY PagedListAssumption DEF ServerTyped, Rows
<1>1. ASSUME MayStart, created' = created + 1, table' = [table EXCEPT ![created + 1] = "running"]
      PROVE  Counted' /\ OnlyNewest
  <2>1. \A r \in Rows : table'[r] = IF r = created + 1 THEN "running" ELSE table[r]
    BY <1>0, <1>1
  <2>2. Counted'
    <3> SUFFICES ASSUME NEW r \in Rows
                 PROVE  /\ table'[r] # "none" => r <= created + 1
                        /\ table'[r] = "running" => r = created + 1
      BY <1>1 DEF Counted
    <3> QED BY <1>0, <1>1, <2>1 DEF Counted, MayStart
  <2>3. OnlyNewest
    <3>1. \A r \in Rows : r < created => r # created + 1
      BY <1>0
    <3> QED BY <1>0, <1>1, <2>1, <3>1 DEF OnlyNewest
  <2> QED BY <2>2, <2>3
<1>2. ASSUME NEW r \in Rows, table[r] = "running", table' = [table EXCEPT ![r] = "ended"],
             UNCHANGED created
      PROVE  Counted' /\ OnlyNewest
  <2>1. r = created /\ \A s \in Rows : table'[s] = IF s = r THEN "ended" ELSE table[s]
    BY <1>0, <1>2 DEF Counted
  <2> QED BY <1>0, <1>2, <2>1 DEF Counted, OnlyNewest
<1>3. ASSUME NEW r \in Rows, table' = [table EXCEPT ![r] = "none"], UNCHANGED created
      PROVE  Counted' /\ OnlyNewest
  <2>1. \A s \in Rows : table'[s] = IF s = r THEN "none" ELSE table[s]
    BY <1>0, <1>3
  <2> QED BY <1>0, <1>3, <2>1 DEF Counted, OnlyNewest
<1>4. ASSUME UNCHANGED server PROVE Counted' /\ OnlyNewest
  BY <1>0, <1>4 DEF server, Counted, OnlyNewest
<1>5. CASE ServerChange
  BY <1>1, <1>2, <1>3, <1>5 DEF ServerChange
<1>6. ASSUME NEW q \in requests, Serve(q) PROVE Counted' /\ OnlyNewest
  BY <1>1, <1>4, <1>6 DEF Serve
<1>7. CASE UNCHANGED server
  BY <1>4, <1>7
<1> QED
  <2>1. CASE Reload \/ Deactivate \/ Activate \/ Hide \/ Show \/ RefreshFirstPage \/ LoadNextPage
             \/ Act \/ UNCHANGED vars \/ \E f \in Filters : ChangeFilter(f)
    BY <1>7, <2>1 DEF Reload, Deactivate, Activate, Hide, Show, RefreshFirstPage, LoadNextPage,
                      Act, vars, ChangeFilter
  <2>2. CASE \E q \in requests : Fail(q) \/ Refuse(q) \/ Answer(q)
    BY <1>7, <2>2 DEF Fail, Refuse, Answer
  <2> QED BY <1>5, <1>6, <2>1, <2>2 DEF Next

\* A bound that grows is kept to.
LEMMA BoundGrows ==
  ASSUME NEW c \in Nat, NEW p \in Nat, NEW x \in Nat, NEW y \in Nat, y >= x, c + p <= x + 1
  PROVE  c + p <= y + 1
OBVIOUS

\* A cursor that rows come on top of stays below a page.
LEMMA StaysBelowAPage ==
  ASSUME created \in Nat, created' \in Nat, created' >= created
  PROVE  \A c \in Rows \cup {None} : BelowAPage(c) => BelowAPage(c)'
<1> SUFFICES ASSUME NEW c \in Rows, c + PageSize <= created + 1
             PROVE  c + PageSize <= created' + 1
  BY DEF BelowAPage
<1>1. c \in Nat /\ PageSize \in Nat
  BY PagedListAssumption DEF Rows
<1> QED BY <1>1, BoundGrows

\* A request that stays under way keeps what its answer was worth.
LEMMA CarriesOver ==
  ASSUME ListInv, ReachInv, OnlyNewest, NEW q \in requests,
         \/ generation' = generation /\ filter' = filter
         \/ generation' \in Nat /\ generation' > generation
  PROVE  Coming(q)' /\ Asked(q)'
<1>1. /\ created \in Nat /\ created' \in Nat /\ created' >= created /\ PageSize \in Nat \ {0}
      /\ ServerTyped /\ filter \in SUBSET Statuses /\ WellSent(q) /\ WellAnswered(q)
      /\ Coming(q) /\ Asked(q) /\ generation \in Nat
  BY PagedListAssumption
     DEF ListInv, ServerTyped, ScreenTyped, OnlyNewest, RequestsGood, ReachInv, Inv, Flags
<1>2. \A c \in Rows \cup {None} : BelowAPage(c) => BelowAPage(c)'
  BY <1>1, StaysBelowAPage
<1>3. Asked(q)'
  <2>1. HasItem(q) => q.answer.item.row \in Nat
    BY <1>1 DEF HasItem, WellAnswered, Item, Rows, Paging, Acting
  <2> QED BY <1>1, <1>2, <2>1 DEF Asked, HasItem
<1>4. CASE HasPage(q)
  <2>0. PICK page : page = q.answer.page
    OBVIOUS
  <2>1. page \in ListType
    BY <1>1, <1>4, <2>0 DEF HasPage, WellAnswered, Good, Paging, Acting
  <2>2. /\ Created(page.items) /\ BelowAPage(page.cursor)
        /\ Descending(page.items) /\ EndsAtCursor(page)
        /\ q.after # None => \A r \in RowsOf(page.items) : r < q.after
        /\ q.generation = generation => Whole(page, q.after)
    BY <1>1, <1>4, <2>0 DEF Coming
  <2>3. Created(page.items)'
    <3>1. \A i \in DOMAIN page.items : page.items[i].row \in Nat
      BY <2>1, ListParts DEF Item, Rows
    <3> QED BY <1>1, <2>2, <3>1 DEF Created
  <2>4. BelowAPage(page.cursor)'
    BY <1>2, <2>1, <2>2, ListParts
  <2>5. q.generation = generation' => Whole(page, q.after)'
    <3>1. CASE generation' = generation /\ filter' = filter
      BY <1>1, <2>1, <2>2, <3>1, PageStaysWhole DEF Asked
    <3>2. CASE generation' \in Nat /\ generation' > generation
      BY <1>1, <3>2 DEF WellSent
    <3> QED BY <3>1, <3>2
  <2>6. (Descending(page.items) => Descending(page.items)') /\ (EndsAtCursor(page) => EndsAtCursor(page)')
    BY DEF Descending, EndsAtCursor
  <2> QED BY <1>3, <2>0, <2>2, <2>3, <2>4, <2>5, <2>6 DEF Coming
<1>5. CASE ~HasPage(q)
  BY <1>3, <1>5 DEF Coming, HasPage
<1> QED BY <1>4, <1>5

-----------------------------------------------------------------------------
(* Steps that keep what the list shows within reach.                         *)

\* The facts about the server and the screen that every step below needs.
LEMMA ReachFacts ==
  ASSUME ListInv
  PROVE  /\ created \in Nat /\ generation \in Nat /\ filter \in SUBSET Statuses
         /\ ServerTyped /\ Good(list, filter) /\ prepended \subseteq Rows
         /\ isActive \in BOOLEAN /\ isReady \in BOOLEAN
         /\ \A q \in requests : q.id # None /\ q.generation <= generation /\ q.generation \in Nat
         /\ list.cursor \in Rows \cup {None} /\ \A r \in Rows : r \in Nat
<1>1. \A r \in Rows : r \in Nat
  BY DEF Rows
<1>2. \A q \in requests : q.id # None /\ q.generation <= generation /\ q.generation \in Nat
  BY DEF ListInv, Inv, Numbered, RequestsGood, WellSent, None
<1>3. filter \in SUBSET Statuses
  BY PagedListAssumption DEF ListInv, ScreenTyped
<1>4. list.cursor \in Rows \cup {None}
  BY ListParts DEF ListInv, Good
<1>5. created \in Nat
  BY PagedListAssumption DEF ListInv, ServerTyped
<1> QED BY <1>1, <1>2, <1>3, <1>4, <1>5 DEF ListInv, Inv, Flags, ScreenTyped

\* Where the list rests, it is in order as long as it was.
LEMMA RestStaysLined ==
  ASSUME ListInv, ReachInv, OnlyNewest,
         UNCHANGED <<filter, list, prepended, isActive, isReady>>
  PROVE  /\ Created(list.items)' /\ BelowAPage(list.cursor)'
         /\ (Lined => Order)'
<1>0. /\ created \in Nat /\ created' \in Nat /\ created' >= created
      /\ Created(list.items) /\ BelowAPage(list.cursor) /\ UNCHANGED list
  BY ReachFacts DEF OnlyNewest, ReachInv
<1>1. Created(list.items)'
  <2>1. \A i \in DOMAIN list.items : list.items[i].row \in Nat
    BY ReachFacts, ListParts DEF Good, Item
  <2>2. \A x \in Nat : x <= created => x <= created'
    BY <1>0
  <2> QED BY <1>0, <2>1, <2>2 DEF Created
<1>2. BelowAPage(list.cursor)'
  BY <1>0, ReachFacts, StaysBelowAPage DEF BelowAPage
<1>3. ASSUME Lined' PROVE Order'
  <2>1. \A p \in prepended : ~IsOutrun(p)
    <3> SUFFICES ASSUME NEW p \in prepended, IsOutrun(p) PROVE FALSE
      OBVIOUS
    <3>1. p \in Nat /\ PageSize \in Nat
      BY ReachFacts, PagedListAssumption
    <3>2. ~(created' + 1 >= p + PageSize)
      BY <1>3 DEF Lined, IsOutrun
    <3>3. p + PageSize <= created + 1
      BY <1>0, <3>1 DEF IsOutrun
    <3>4. p + PageSize <= created' + 1
      BY <1>0, <3>1, <3>3, BoundGrows
    <3> QED BY <1>0, <3>1, <3>2, <3>4
  <2>2. Lined
    BY <1>3, <2>1 DEF Lined
  <2> QED BY <2>2, ReachFacts, RestInOrder DEF ReachInv
<1> QED BY <1>1, <1>2, <1>3

\* The requests stay as they are, or one of them gets its answer.
LEMMA RestReach ==
  ASSUME ListInv, ReachInv, Counted', OnlyNewest,
         UNCHANGED <<filter, list, prepended, control, requests>>
  PROVE  ReachInv'
<1> USE DEF control
<1>1. \A q \in requests' : Coming(q)' /\ Asked(q)'
  <2> SUFFICES ASSUME NEW q \in requests PROVE Coming(q)' /\ Asked(q)'
    OBVIOUS
  <2> QED BY CarriesOver
<1>2. Continues' /\ OneFirst'
  BY DEF ReachInv, Continues, OneFirst
<1> QED BY <1>1, <1>2, RestStaysLined DEF ReachInv

\* Getting an answer that is worth something.
LEMMA AnsweredReach ==
  ASSUME ListInv, ReachInv, Counted', OnlyNewest, UNCHANGED <<filter, list, prepended, control>>,
         NEW q \in requests, NEW x, requests' = Answered(q, x), x # Unanswered,
         x # Failed /\ q.kind \in Acting => x.item.row <= created',
         x # Failed /\ q.kind \in Paging =>
           /\ Created(x.page.items)' /\ BelowAPage(x.page.cursor)'
           /\ Descending(x.page.items) /\ EndsAtCursor(x.page)
           /\ q.after # None => \A r \in RowsOf(x.page.items) : r < q.after
           /\ q.generation = generation => Whole(x.page, q.after)'
  PROVE  ReachInv'
<1> USE DEF control
<1>0. PICK new : new = [id |-> q.id, kind |-> q.kind, generation |-> q.generation,
                        filter |-> q.filter, after |-> q.after, row |-> q.row, answer |-> x]
  OBVIOUS
<1>1. /\ new.id = q.id /\ new.kind = q.kind /\ new.generation = q.generation
      /\ new.after = q.after /\ new.answer = x
  BY <1>0
<1>2. requests' = (requests \ {q}) \cup {new}
  BY <1>0 DEF Answered
<1>3. \A p \in requests : Coming(p)' /\ Asked(p)'
  <2> SUFFICES ASSUME NEW p \in requests PROVE Coming(p)' /\ Asked(p)'
    OBVIOUS
  <2> QED BY CarriesOver
<1>4. Asked(new)'
  <2>1. Asked(q)'
    BY <1>3
  <2> QED BY <1>1, <2>1 DEF Asked, HasItem
<1>5. Coming(new)'
  <2>1. CASE HasPage(new)
    <3>1. PICK page : page = x.page
      OBVIOUS
    <3>2. /\ Created(page.items)' /\ BelowAPage(page.cursor)'
          /\ Descending(page.items) /\ EndsAtCursor(page)
          /\ q.after # None => \A r \in RowsOf(page.items) : r < q.after
          /\ q.generation = generation => Whole(page, q.after)'
      BY <1>1, <2>1, <3>1 DEF HasPage
    <3>3. Descending(page.items)' /\ EndsAtCursor(page)'
      BY <3>2 DEF Descending, EndsAtCursor
    <3> QED BY <1>1, <3>1, <3>2, <3>3 DEF Coming
  <2>2. CASE ~HasPage(new)
    BY <2>2 DEF Coming, HasPage
  <2> QED BY <2>1, <2>2
<1>6. Continues'
  <2> SUFFICES ASSUME NEW p \in requests', p.kind = "next", p.id = nextPageRequest
               PROVE  p.after = list.cursor
    BY DEF Continues
  <2>1. CASE p \in requests
    BY <2>1 DEF ReachInv, Continues
  <2>2. CASE p = new
    BY <1>1, <2>2 DEF ReachInv, Continues
  <2> QED BY <1>2, <2>1, <2>2
<1>7. OneFirst'
  <2>1. \A p \in requests' : p.kind = "first" /\ p.generation = generation => ~isReady
    BY <1>1, <1>2 DEF ReachInv, OneFirst
  <2>2. \A p \in requests' : \/ p = new /\ new.kind = q.kind /\ new.generation = q.generation
                             \/ p \in requests /\ p # q
    BY <1>1, <1>2
  <2>3. \A p, r \in requests' :
          /\ p.kind = "first" /\ p.generation = generation
          /\ r.kind = "first" /\ r.generation = generation
          => p = r
    BY <2>2 DEF ReachInv, OneFirst
  <2> QED BY <2>1, <2>3 DEF OneFirst
<1> QED BY <1>2, <1>3, <1>4, <1>5, <1>6, <1>7, RestStaysLined DEF ReachInv

\* A request that is sent brings nothing yet.
LEMMA SendReach ==
  ASSUME ListInv, ReachInv, HasRoom,
         NEW kind \in {"refresh", "next", "start", "cancel"}, NEW after, NEW row,
         after = IF kind = "next" THEN list.cursor ELSE None,
         kind = "next" => list.cursor # None,
         requests' = requests \cup {Request(kind, after, row)},
         nextPageRequest' = IF kind = "next" THEN FreeId ELSE nextPageRequest,
         UNCHANGED <<server, filter, list, prepended, generation, isActive, isReady>>
  PROVE  ReachInv'
<1> USE DEF server
<1>0. PICK new : new = Request(kind, after, row)
  OBVIOUS
<1>1. /\ new.id = FreeId /\ new.kind = kind /\ new.generation = generation
      /\ new.after = after /\ new.answer = Unanswered
  BY <1>0 DEF Request, Sent
<1>2. requests' = requests \cup {new}
  BY <1>0
<1>3. Counted' /\ OnlyNewest
  BY ReachFacts DEF ReachInv, Counted, OnlyNewest
<1>4. \A q \in requests : Coming(q)' /\ Asked(q)'
  <2> SUFFICES ASSUME NEW q \in requests PROVE Coming(q)' /\ Asked(q)'
    OBVIOUS
  <2> QED BY <1>3, CarriesOver
<1>5. Coming(new)' /\ Asked(new)'
  <2>1. BelowAPage(list.cursor)
    BY DEF ReachInv
  <2> QED BY <1>1, <2>1, ReachFacts DEF Coming, Asked, HasPage, HasItem, BelowAPage, None
<1>6. Continues'
  <2> SUFFICES ASSUME NEW p \in requests', p.kind = "next", p.id = nextPageRequest'
               PROVE  p.after = list.cursor
    BY DEF Continues
  <2>1. CASE p = new
    BY <1>1, <2>1
  <2>2. CASE p \in requests
    <3>1. kind # "next"
      BY <2>2, FreshId
    <3> QED BY <2>2, <3>1 DEF ReachInv, Continues
  <2> QED BY <1>2, <2>1, <2>2
<1>7. OneFirst'
  BY <1>1, <1>2 DEF ReachInv, OneFirst
<1> QED BY <1>2, <1>3, <1>4, <1>5, <1>6, <1>7, RestStaysLined DEF ReachInv

\* A reload starts over.
LEMMA ReloadReach ==
  ASSUME ListInv, ReachInv, NEW f, NEW n \in Nat \ {0}, Reloading(f, n), UNCHANGED server
  PROVE  ReachInv'
<1> USE DEF server
<1>0. PICK new : new = Sent("first", generation', f, None, None)
  OBVIOUS
<1>1. /\ new.id = FreeId /\ new.kind = "first" /\ new.generation = generation'
      /\ new.after = None /\ new.answer = Unanswered
  BY <1>0 DEF Sent
<1>2. requests' = requests \cup {new} /\ list' = [items |-> <<>>, cursor |-> None]
      /\ isReady' = FALSE /\ nextPageRequest' = None
  BY <1>0 DEF Reloading, InvalidateRequests
<1>3. Counted' /\ OnlyNewest
  BY ReachFacts DEF ReachInv, Counted, OnlyNewest
<1>4. generation' \in Nat /\ generation' > generation /\ HasRoom
  BY ReachFacts DEF Reloading, InvalidateRequests
<1>5. \A q \in requests : Coming(q)' /\ Asked(q)'
  <2> SUFFICES ASSUME NEW q \in requests PROVE Coming(q)' /\ Asked(q)'
    OBVIOUS
  <2> QED BY <1>3, <1>4, CarriesOver
<1>6. Coming(new)' /\ Asked(new)'
  BY <1>1 DEF Coming, Asked, HasPage, HasItem, BelowAPage, None
<1>7. Continues'
  BY <1>1, <1>2, ReachFacts DEF Continues
<1>8. OneFirst'
  <2>1. \A q \in requests : q.generation # generation'
    BY <1>4, ReachFacts
  <2> QED BY <1>2, <2>1 DEF OneFirst
<1>9. Created(list.items)' /\ BelowAPage(list.cursor)' /\ (Lined => Order)'
  BY <1>2 DEF Created, BelowAPage, Lined
<1> QED BY <1>2, <1>3, <1>5, <1>6, <1>7, <1>8, <1>9 DEF ReachInv

\* A list that is left keeps its rows and owes nothing.
LEMMA DeactivateReach ==
  ASSUME ListInv, ReachInv, Deactivate
  PROVE  ReachInv'
<1> USE DEF server, state
<1>1. /\ generation' = generation + 1 /\ isActive' = FALSE /\ isReady' = FALSE
      /\ nextPageRequest' = None
      /\ UNCHANGED <<table, created, filter, list, requests, prepended>>
  BY DEF Deactivate, InvalidateRequests
<1>2. Counted' /\ OnlyNewest
  BY <1>1, ReachFacts DEF ReachInv, Counted, OnlyNewest
<1>3. generation' \in Nat /\ generation' > generation
  BY <1>1, ReachFacts
<1>4. \A q \in requests' : Coming(q)' /\ Asked(q)'
  <2> SUFFICES ASSUME NEW q \in requests PROVE Coming(q)' /\ Asked(q)'
    BY <1>1
  <2> QED BY <1>2, <1>3, CarriesOver
<1>5. Continues'
  BY <1>1, ReachFacts DEF Continues
<1>6. OneFirst'
  <2>1. \A q \in requests : q.generation # generation'
    BY <1>3, ReachFacts
  <2> QED BY <1>1, <2>1 DEF OneFirst
<1>7. Created(list.items)' /\ BelowAPage(list.cursor)' /\ (Lined => Order)'
  BY <1>1 DEF ReachInv, Created, BelowAPage, Lined
<1> QED BY <1>2, <1>4, <1>5, <1>6, <1>7 DEF ReachInv

\* An action adds its row at most.
LEMMA ActedRows ==
  ASSUME Good(list, filter), NEW item \in Item, ReplaceOrPrependItem(item)
  PROVE  \A r \in Shown' : r \in Shown \/ r = item.row
<1>1. /\ list.items \in Seq(Item) /\ DOMAIN list.items = 1..Len(list.items)
      /\ Len(list.items) \in Nat /\ list = [items |-> list.items, cursor |-> list.cursor]
  BY ListParts DEF Good, ListType
<1>2. CASE item.row \in Shown
  <2> DEFINE old == list.items
             new == [i \in DOMAIN old |-> IF old[i].row = item.row THEN item ELSE old[i]]
  <2>1. list' = [list EXCEPT !.items = new]
    BY <1>2 DEF ReplaceOrPrependItem
  <2>2. list' = [items |-> new, cursor |-> list.cursor]
    BY <1>1, <2>1
  <2>3. DOMAIN new = DOMAIN old /\ \A i \in DOMAIN old : new[i].row = old[i].row
    OBVIOUS
  <2> HIDE DEF new
  <2> QED BY <2>2, <2>3 DEF Shown
<1>3. CASE item.row \notin Shown
  <2> DEFINE top == <<item>>
             new == top \o list.items
  <2>1. list' = [list EXCEPT !.items = new]
    BY <1>3 DEF ReplaceOrPrependItem
  <2>2. list' = [items |-> new, cursor |-> list.cursor]
    BY <1>1, <2>1
  <2>3. top \in Seq(Item) /\ DOMAIN top = {1} /\ top[1] = item
    OBVIOUS
  <2> HIDE DEF top
  <2>4. \A i \in DOMAIN new : IF i <= Len(top) THEN i \in DOMAIN top /\ new[i] = top[i]
                               ELSE i - Len(top) \in DOMAIN list.items
                                    /\ new[i] = list.items[i - Len(top)]
    BY <1>1, <2>3, Concatenated
  <2> HIDE DEF new
  <2>5. ASSUME NEW i \in DOMAIN new PROVE new[i].row = item.row \/ new[i].row \in Shown
    BY <2>3, <2>4, <2>5 DEF Shown
  <2> QED BY <2>2, <2>5 DEF Shown
<1> QED BY <1>2, <1>3

\* What the server answers with is worth its place.
LEMMA ServeReach ==
  ASSUME ListInv, ReachInv, [Next]_vars, NEW q \in requests, Serve(q)
  PROVE  ReachInv'
<1>0. Counted' /\ OnlyNewest
  BY ServerMoves DEF ListInv, ReachInv
<1>1. /\ UNCHANGED <<filter, list, prepended, control>>
      /\ q.filter \in SUBSET Statuses /\ (q.generation = generation => q.filter = filter)
      /\ (q.kind = "cancel" => q.row \in Rows) /\ Asked(q)
  BY PagedListAssumption DEF Serve, state, ListInv, RequestsGood, WellSent, ReachInv
<1>2. CASE q.kind \in Paging /\ UNCHANGED server
             /\ requests' = Answered(q, [is |-> "page", page |-> Page(q.filter, q.after)])
  <2>0. PICK page : page = Page(q.filter, q.after)
    OBVIOUS
  <2>1. PICK x : x = [is |-> "page", page |-> page]
    OBVIOUS
  <2>2. x.page = page /\ x # Unanswered /\ q.kind \notin Acting
    BY <1>2, <2>1 DEF Unanswered, Paging, Acting
  <2>3. /\ Created(page.items) /\ BelowAPage(page.cursor)
        /\ Descending(page.items) /\ EndsAtCursor(page)
        /\ \A r \in RowsOf(page.items) : r \in Listed(q.filter, q.after)
        /\ \A r \in Listed(q.filter, q.after) \ RowsOf(page.items) :
             page.cursor # None /\ r < page.cursor
    BY <1>1, <2>0, PageFacts, ReachFacts DEF ReachInv
  <2>4. Created(page.items)' /\ BelowAPage(page.cursor)'
    BY <1>2, <2>3 DEF Created, BelowAPage, server
  <2>5. q.after # None => \A r \in RowsOf(page.items) : r < q.after
    BY <2>3 DEF Listed
  <2>6. q.generation = generation => Whole(page, q.after)'
    BY <1>1, <1>2, <2>3 DEF Whole, Listed, server
  <2>7. requests' = Answered(q, x)
    BY <1>2, <2>0, <2>1
  <2> QED BY <1>0, <1>1, <2>2, <2>3, <2>4, <2>5, <2>6, <2>7, AnsweredReach
<1>3. ASSUME NEW r, r <= created', q.kind \in Acting,
             requests' = Answered(q, [is |-> "item", item |-> ActionItem(r, "running")])
      PROVE  ReachInv'
  <2>1. PICK x : x = [is |-> "item", item |-> ActionItem(r, "running")]
    OBVIOUS
  <2>2. x.item.row = r /\ x # Unanswered /\ q.kind \notin Paging
    BY <1>3, <2>1 DEF ActionItem, Unanswered, Paging, Acting
  <2>3. requests' = Answered(q, x)
    BY <1>3, <2>1
  <2> QED BY <1>0, <1>1, <1>3, <2>2, <2>3, AnsweredReach
<1>4. CASE /\ q.kind = "start" /\ created' = created + 1
           /\ requests' = Answered(q, [is |-> "item", item |-> ActionItem(created + 1, "running")])
  BY <1>3, <1>4, ReachFacts DEF Acting
<1>5. CASE /\ q.kind = "cancel" /\ table[q.row] = "running" /\ UNCHANGED server
           /\ requests' = Answered(q, [is |-> "item", item |-> ActionItem(q.row, "running")])
  <2>1. q.row <= created'
    BY <1>1, <1>5, ReachFacts DEF ReachInv, Counted, server
  <2> QED BY <1>3, <1>5, <2>1 DEF Acting
<1> QED BY <1>2, <1>4, <1>5 DEF Serve, Paging

\* A failed answer owes nothing.
LEMMA FailReach ==
  ASSUME ListInv, ReachInv, [Next]_vars, NEW q \in requests, Fail(q) \/ Refuse(q)
  PROVE  ReachInv'
<1>1. Counted' /\ OnlyNewest
  BY ServerMoves DEF ListInv, ReachInv
<1>2. UNCHANGED <<filter, list, prepended, control>> /\ requests' = Answered(q, Failed)
  BY DEF Fail, Refuse, state
<1>3. Failed # Unanswered
  BY DEF Failed, Unanswered
<1> QED BY <1>1, <1>2, <1>3, AnsweredReach

\* An answer that comes is in line with the list, whatever came in between.
LEMMA AnswerReach ==
  ASSUME ListInv, ReachInv, NEW q \in requests, Answer(q)
  PROVE  ReachInv'
<1> USE DEF control, server, state
<1>1. /\ requests' = requests \ {q} /\ q.answer # Unanswered
      /\ UNCHANGED <<table, created, filter, generation, isActive>>
  BY DEF Answer, LoadAnswered, RefreshAnswered, NextPageAnswered, ActAnswered
<1>2. Counted' /\ OnlyNewest
  BY <1>1, ReachFacts DEF ReachInv, Counted, OnlyNewest
<1>3. \A p \in requests' : Coming(p)' /\ Asked(p)'
  <2> SUFFICES ASSUME NEW p \in requests PROVE Coming(p)' /\ Asked(p)'
    BY <1>1
  <2> QED BY <1>1, <1>2, CarriesOver
<1>4. /\ Created(list.items) /\ BelowAPage(list.cursor) /\ Continues /\ OneFirst
      /\ (Lined => Order) /\ Coming(q) /\ Asked(q) /\ WellSent(q) /\ WellAnswered(q) /\ Unready
  BY DEF ReachInv, ListInv, RequestsGood
<1>5. ASSUME UNCHANGED <<list, prepended, isReady>>
      PROVE  Created(list.items)' /\ BelowAPage(list.cursor)' /\ (Lined => Order)'
  BY <1>2, <1>1, <1>5, RestStaysLined
<1>6. ASSUME UNCHANGED isReady \/ (q.kind = "first" /\ q.generation = generation) PROVE OneFirst'
  BY <1>1, <1>4, <1>6 DEF OneFirst
<1>70. nextPageRequest' = None => Continues'
  BY <1>1, ReachFacts DEF Continues
<1>7. nextPageRequest' = nextPageRequest /\ list'.cursor = list.cursor => Continues'
  BY <1>1, <1>4 DEF Continues
<1>8. PICK page : page = q.answer.page
  OBVIOUS
<1>9. ASSUME HasPage(q), IsCurrentGeneration(q)
      PROVE  /\ Good(page, filter) /\ page \in ListType
             /\ Created(page.items) /\ BelowAPage(page.cursor)
             /\ Descending(page.items) /\ EndsAtCursor(page)
             /\ q.after # None => \A r \in RowsOf(page.items) : r < q.after
             /\ Whole(page, q.after)
  BY <1>4, <1>8, <1>9 DEF HasPage, IsCurrentGeneration, Coming, WellSent, WellAnswered, Good,
                          Paging, Acting
<1>10. CASE LoadAnswered(q)
  <2>1. CASE IsCurrentGeneration(q) /\ q.answer # Failed
    <3>1. /\ list' = page /\ isReady' = TRUE /\ prepended' = {} /\ UNCHANGED nextPageRequest
          /\ HasPage(q) /\ q.after = None
      BY <1>1, <1>4, <1>8, <1>10, <2>1 DEF LoadAnswered, HasPage, Paging, Asked
    <3>2. nextPageRequest = None
      BY <1>4, <1>10, <2>1 DEF LoadAnswered, IsCurrentGeneration, OneFirst, Unready
    <3>3. Order'
      BY <1>1, <1>9, <2>1, <3>1, LoadInOrder
    <3>4. Created(list.items)' /\ BelowAPage(list.cursor)'
      BY <1>1, <1>9, <2>1, <3>1 DEF Created, BelowAPage
    <3>5. OneFirst' /\ Continues'
      <4>1. OneFirst'
        BY <1>6, <1>10, <2>1 DEF LoadAnswered, IsCurrentGeneration
      <4>2. nextPageRequest' = None
        BY <3>1, <3>2
      <4> QED BY <1>70, <4>1, <4>2
    <3> QED BY <1>2, <1>3, <3>3, <3>4, <3>5 DEF ReachInv
  <2>2. CASE ~(IsCurrentGeneration(q) /\ q.answer # Failed)
    <3>1. UNCHANGED <<list, prepended, isReady, nextPageRequest>>
      BY <1>10, <2>2 DEF LoadAnswered
    <3> QED BY <1>2, <1>3, <1>5, <1>6, <1>7, <1>70, <3>1 DEF ReachInv
  <2> QED BY <2>1, <2>2
<1>11. CASE RefreshAnswered(q)
  <2>1. CASE IsCurrentGeneration(q) /\ refreshRequest = q.id /\ q.answer # Failed
    <3>1. /\ list' = MergeRefreshedFirstPage(list, page) /\ UNCHANGED isReady
          /\ prepended' = {r \in prepended : IsOutrun(r)}
          /\ IF IsPendingCursorInvalid(page) THEN nextPageRequest' = None
                                              ELSE UNCHANGED nextPageRequest
          /\ HasPage(q) /\ q.after = None
      BY <1>1, <1>4, <1>8, <1>11, <2>1 DEF RefreshAnswered, HasPage, Paging, Asked
    <3>2. /\ Good(page, filter) /\ page \in ListType
          /\ Created(page.items) /\ BelowAPage(page.cursor)
          /\ Descending(page.items) /\ EndsAtCursor(page) /\ Whole(page, None)
      BY <1>9, <2>1, <3>1
    <3>3. /\ \A i \in DOMAIN list'.items :
               list'.items[i].row \in RowsOf(page.items) \cup RowsOf(list.items)
          /\ ReplacesList(list, page) => list' = page
          /\ ~ReplacesList(list, page) => list'.cursor = list.cursor
      BY <3>1, <3>2, MergedRows, ReachFacts
    <3>4. Created(list.items)'
      BY <1>1, <1>4, <3>2, <3>3 DEF Created, RowsOf
    <3>5. BelowAPage(list.cursor)'
      BY <1>1, <1>4, <3>2, <3>3 DEF BelowAPage
    <3>6. Continues'
      <4>1. CASE IsPendingCursorInvalid(page)
        <5>1. nextPageRequest' = None
          BY <3>1, <4>1
        <5> QED BY <1>70, <5>1
      <4>2. CASE ~IsPendingCursorInvalid(page)
        <5>1. UNCHANGED nextPageRequest
          BY <3>1, <4>2
        <5>2. list'.cursor = list.cursor
          BY <3>3, <4>2 DEF IsPendingCursorInvalid
        <5> QED BY <1>7, <5>1, <5>2
      <4> QED BY <4>1, <4>2
    <3>7. OneFirst'
      BY <1>6, <3>1
    <3>8. ASSUME Lined' PROVE Order'
      <4>1. \A r \in prepended : ~IsOutrun(r)
        BY <1>1, <3>1, <3>8 DEF Lined, IsOutrun
      <4>2. prepended' = {}
        BY <3>1, <4>1
      <4>3. Order
        BY <1>1, <1>4, <3>1, <3>8, <4>1 DEF Lined
      <4>4. CASE ReplacesList(list, page)
        BY <1>1, <3>2, <3>3, <4>2, <4>4, LoadInOrder
      <4>5. CASE ~ReplacesList(list, page)
        <5>1. page.cursor # None /\ page.cursor \in Rows
          BY <3>2, <4>5, ListParts DEF ReplacesList
        <5>2. page.cursor \in Nat /\ created \in Nat /\ PageSize \in Nat
          BY <5>1, ReachFacts, PagedListAssumption
        <5>3. \A p \in prepended : p > page.cursor
          <6> SUFFICES ASSUME NEW p \in prepended PROVE p > page.cursor
            OBVIOUS
          <6>1. p \in Nat /\ ~(created + 1 >= p + PageSize)
            BY <4>1, ReachFacts DEF IsOutrun
          <6>2. page.cursor + PageSize <= created + 1
            BY <3>2, <5>1 DEF BelowAPage
          <6> QED BY <5>2, <6>1, <6>2
        <5> QED BY <1>1, <3>1, <3>2, <4>2, <4>3, <4>5, <5>3, MergeInOrder, ReachFacts
      <4> QED BY <4>4, <4>5
    <3> QED BY <1>2, <1>3, <3>4, <3>5, <3>6, <3>7, <3>8 DEF ReachInv
  <2>2. CASE ~(IsCurrentGeneration(q) /\ refreshRequest = q.id /\ q.answer # Failed)
    <3>1. UNCHANGED <<list, prepended, isReady, nextPageRequest>>
      BY <1>11, <2>2 DEF RefreshAnswered
    <3> QED BY <1>2, <1>3, <1>5, <1>6, <1>7, <1>70, <3>1 DEF ReachInv
  <2> QED BY <2>1, <2>2
<1>12. CASE NextPageAnswered(q)
  <2>0. UNCHANGED <<prepended, isReady>>
    BY <1>12 DEF NextPageAnswered
  <2>1. CASE IsCurrentNext(q) /\ q.answer # Failed
    <3>1. /\ list' = AppendNextPage(list, page) /\ nextPageRequest' = None
          /\ HasPage(q) /\ q.after # None /\ q.after = list.cursor
          /\ IsCurrentGeneration(q)
      BY <1>1, <1>4, <1>8, <1>12, <2>1
         DEF NextPageAnswered, IsCurrentNext, HasPage, Paging, Asked, Continues
    <3>2. /\ Good(page, filter) /\ page \in ListType
          /\ Created(page.items) /\ BelowAPage(page.cursor)
          /\ Descending(page.items) /\ EndsAtCursor(page)
          /\ \A r \in RowsOf(page.items) : r < list.cursor
          /\ Whole(page, list.cursor)
      BY <1>9, <3>1
    <3>3. /\ \A i \in DOMAIN list'.items :
               list'.items[i].row \in RowsOf(page.items) \cup RowsOf(list.items)
          /\ list'.cursor = page.cursor
      BY <3>1, <3>2, AppendedRows, ReachFacts
    <3>4. Created(list.items)'
      BY <1>1, <1>4, <3>2, <3>3 DEF Created, RowsOf
    <3>5. BelowAPage(list.cursor)'
      BY <1>1, <3>2, <3>3 DEF BelowAPage
    <3>6. OneFirst' /\ Continues'
      <4>1. OneFirst'
        BY <1>6, <2>0
      <4>2. Continues'
        BY <1>70, <3>1
      <4> QED BY <4>1, <4>2
    <3>7. ASSUME Lined' PROVE Order'
      <4>1. Lined /\ \A r \in prepended : ~IsOutrun(r)
        BY <1>1, <2>0, <3>7 DEF Lined, IsOutrun
      <4>2. /\ list.cursor \in Rows /\ list.cursor \in Nat /\ created \in Nat /\ PageSize \in Nat
            /\ list.cursor + PageSize <= created + 1
        BY <1>4, <3>1, ReachFacts, PagedListAssumption DEF BelowAPage
      <4>3. \A p \in prepended : p > list.cursor
        <5> SUFFICES ASSUME NEW p \in prepended PROVE p > list.cursor
          OBVIOUS
        <5>1. p \in Nat /\ ~(created + 1 >= p + PageSize)
          BY <4>1, ReachFacts DEF IsOutrun
        <5> QED BY <4>2, <5>1
      <4> QED BY <1>1, <1>4, <2>0, <3>1, <3>2, <4>1, <4>3, AppendInOrder, ReachFacts
    <3> QED BY <1>2, <1>3, <3>4, <3>5, <3>6, <3>7 DEF ReachInv
  <2>2. CASE ~(IsCurrentNext(q) /\ q.answer # Failed)
    <3>1. UNCHANGED list /\ (nextPageRequest' = None \/ UNCHANGED nextPageRequest)
      BY <1>12, <2>2 DEF NextPageAnswered
    <3> QED BY <1>2, <1>3, <1>5, <1>6, <1>7, <1>70, <2>0, <3>1 DEF ReachInv
  <2> QED BY <2>1, <2>2
<1>13. CASE ActAnswered(q)
  <2>0. UNCHANGED <<isReady, nextPageRequest>>
    BY <1>13 DEF ActAnswered
  <2>1. CASE ReplaceOrPrependItem(q.answer.item) /\ q.answer # Failed /\ isActive
    <3>0. PICK item : item = q.answer.item
      OBVIOUS
    <3>1. /\ item \in Item /\ item.by = "action" /\ item.row <= created
          /\ ReplaceOrPrependItem(item)
      BY <1>1, <1>4, <1>13, <2>1, <3>0
         DEF ActAnswered, WellAnswered, Asked, HasItem, Paging, Acting
    <3>2. list'.cursor = list.cursor
      BY <3>1, ReachFacts, ActionIsGood
    <3>3. Created(list.items)'
      <4>1. Good(list', filter)
        BY <3>1, ReachFacts, ActionIsGood
      <4>2. \A r \in Shown' : r \in Shown \/ r = item.row
        BY <3>1, ReachFacts, ActedRows
      <4>3. \A r \in Shown : r <= created
        BY <1>4 DEF Created, Shown
      <4>4. \A r \in Shown' : r <= created'
        BY <1>1, <3>1, <4>2, <4>3
      <4> QED BY <4>4 DEF Created, Shown
    <3>4. BelowAPage(list.cursor)'
      BY <1>1, <1>4, <3>2 DEF BelowAPage
    <3>5. ASSUME Lined' PROVE Order'
      <4>1. \A p \in prepended : p \in prepended'
        BY <3>1 DEF ReplaceOrPrependItem
      <4>2. Lined
        BY <1>1, <2>0, <3>5, <4>1 DEF Lined, IsOutrun
      <4> QED BY <1>1, <1>4, <3>1, <4>2, ActInOrder, ReachFacts
    <3>6. OneFirst' /\ Continues'
      BY <1>6, <1>7, <2>0, <3>2
    <3> QED BY <1>2, <1>3, <3>3, <3>4, <3>5, <3>6 DEF ReachInv
  <2>2. CASE UNCHANGED <<list, prepended>>
    BY <1>2, <1>3, <1>5, <1>6, <1>7, <1>70, <2>0, <2>2 DEF ReachInv
  <2> QED BY <1>13, <2>1, <2>2 DEF ActAnswered
<1> QED BY <1>10, <1>11, <1>12, <1>13 DEF Answer

\* Every step keeps the rows within reach.
LEMMA ReachStep == ListInv /\ ReachInv /\ [Next]_vars => ReachInv'
<1> SUFFICES ASSUME ListInv, ReachInv, [Next]_vars PROVE ReachInv'
  OBVIOUS
<1>0. Counted' /\ OnlyNewest
  BY ServerMoves DEF ListInv, ReachInv
<1>1. CASE ServerChange \/ Hide \/ UNCHANGED vars
  <2>1. UNCHANGED <<filter, list, prepended, control, requests>>
    BY <1>1 DEF ServerChange, Hide, vars, state, control
  <2> QED BY <1>0, <2>1, RestReach
<1>2. CASE Reload \/ Activate
  BY <1>2, ReloadReach DEF Reload, Activate
<1>3. ASSUME NEW f \in Filters, ChangeFilter(f) PROVE ReachInv'
  BY <1>3, ReloadReach DEF ChangeFilter
<1>4. CASE Deactivate
  BY <1>4, DeactivateReach
<1>5. ASSUME Refreshing, UNCHANGED <<server, filter, prepended>> PROVE ReachInv'
  <2>1. PICK kind \in {"refresh", "next", "start", "cancel"} : kind = "refresh"
    OBVIOUS
  <2>2. PICK row : row = None
    OBVIOUS
  <2>3. /\ HasRoom /\ requests' = requests \cup {Request(kind, None, row)}
        /\ UNCHANGED <<list, generation, isActive, isReady, nextPageRequest>>
    BY <1>5, <2>1, <2>2 DEF Refreshing, state
  <2> QED BY <1>5, <2>1, <2>3, SendReach
<1>6. CASE RefreshFirstPage
  BY <1>5, <1>6 DEF RefreshFirstPage
<1>7. CASE Show
  <2>1. CASE MayRefresh
    BY <1>5, <1>7, <2>1 DEF Show
  <2>2. CASE ~MayRefresh
    BY <1>0, <1>7, <2>2, RestReach DEF Show, state
  <2> QED BY <2>1, <2>2
<1>8. CASE LoadNextPage
  <2>1. PICK kind \in {"refresh", "next", "start", "cancel"} : kind = "next"
    OBVIOUS
  <2>2. PICK row : row = None
    OBVIOUS
  <2>3. PICK after : after = list.cursor
    OBVIOUS
  <2>4. /\ HasRoom /\ requests' = requests \cup {Request(kind, after, row)}
        /\ nextPageRequest' = FreeId /\ list.cursor # None
        /\ UNCHANGED <<server, filter, list, prepended, generation, isActive, isReady>>
    BY <1>8, <2>1, <2>2, <2>3 DEF LoadNextPage
  <2> QED BY <2>1, <2>3, <2>4, SendReach
<1>9. ASSUME NEW kind \in {"start", "cancel"}, NEW row, HasRoom,
             requests' = requests \cup {Request(kind, None, row)},
             UNCHANGED <<server, filter, state, control, prepended>>
      PROVE  ReachInv'
  <2>1. /\ kind \in {"refresh", "next", "start", "cancel"} /\ kind # "next"
        /\ UNCHANGED <<list, generation, isActive, isReady, nextPageRequest>>
    BY <1>9 DEF state, control
  <2> QED BY <1>9, <2>1, SendReach
<1>10. CASE Act
  BY <1>9, <1>10 DEF Act
<1>11. ASSUME NEW q \in requests, Serve(q) PROVE ReachInv'
  BY <1>11, ServeReach
<1>12. ASSUME NEW q \in requests, Fail(q) \/ Refuse(q) PROVE ReachInv'
  BY <1>12, FailReach
<1>13. ASSUME NEW q \in requests, Answer(q) PROVE ReachInv'
  BY <1>13, AnswerReach
<1> QED BY <1>1, <1>2, <1>3, <1>4, <1>6, <1>7, <1>8, <1>10, <1>11, <1>12, <1>13 DEF Next

\* A list opens with its first page to come.
LEMMA InitReach == Init => ReachInv
<1> SUFFICES ASSUME Init PROVE ReachInv
  OBVIOUS
<1>1. Counted
  BY DEF Init, Counted
<1>2. Created(list.items) /\ BelowAPage(list.cursor) /\ (Lined => Order)
  BY DEF Init, Created, BelowAPage, Lined
<1>3. \A q \in requests : /\ q.kind = "first" /\ q.generation = 1 /\ q.after = None
                          /\ q.answer = Unanswered
  BY DEF Init
<1>4. \A q \in requests : Coming(q) /\ Asked(q)
  BY <1>3 DEF Coming, Asked, HasPage, HasItem, BelowAPage, None
<1>5. Continues
  BY <1>3 DEF Continues
<1>6. OneFirst
  BY DEF Init, OneFirst
<1> QED BY <1>1, <1>2, <1>4, <1>5, <1>6 DEF ReachInv

\* Every row the filter lists is shown, is to come after the cursor or is newer than
\* the rows of the pages, whatever answers overtake each other and however many rows
\* are created and removed between the pages, until a row that an action put on top
\* is outrun.
THEOREM RowsStayReachable == Spec => []Reachable
<1>1. ListInv /\ ReachInv => Reachable
  BY DEF ReachInv, Lined, Order, Covered, Reachable
<1> QED BY <1>1, InitList, ListStep, InitReach, ReachStep, PTL DEF Spec

=============================================================================
