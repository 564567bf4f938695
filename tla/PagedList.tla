----------------------------- MODULE PagedList -----------------------------
(***************************************************************************)
(* The polled, paged list of a frontend screen: PagedListController with   *)
(* the hooks that drive it, as the logical backup list uses it.            *)
(*                                                                         *)
(* The controller starts requests for the first page (a load), for the     *)
(* first page again (a refresh) and for the next page, and merges what     *)
(* comes back into the rows it shows.  Every await is a gap in which the   *)
(* server's rows change, the user changes the filter, reloads or leaves,   *)
(* and other answers arrive.  So a request is sent, served and answered in *)
(* three steps.                                                            *)
(*                                                                         *)
(* Simplifications.                                                        *)
(*  - Rows are numbered in the order of their creation.  A row's content   *)
(*    is its status; the filter of a list is the set of statuses it shows. *)
(*    A shown copy also records whether a page or an action brought it.    *)
(*  - The page metadata is data of the first page and is left out.         *)
(*  - A symbol that tells requests apart is a number no other request of   *)
(*    the moment has.                                                      *)
(*  - "budget" bounds the changes, failures and user actions, MaxInFlight  *)
(*    the requests that are under way.                                     *)
(***************************************************************************)
EXTENDS Naturals, Sequences, FiniteSets

CONSTANTS
    N,            \* number of rows a behaviour can see
    Loaded,       \* rows that exist at the start
    PageSize,     \* limit of a page
    Filters,      \* the filters the user can choose, sets of statuses
    MaxInFlight,  \* bound on requests under way
    Budget        \* bound on changes, failures and user actions

Rows == 1..N
Statuses == {"running", "ended"}

ASSUME PagedListAssumption ==
    /\ N \in Nat /\ Loaded \in 0..N /\ PageSize \in Nat \ {0}
    /\ MaxInFlight \in Nat \ {0} /\ Budget \in Nat
    /\ Filters # {} /\ \A f \in Filters : f # {} /\ f \subseteq Statuses

None == 0      \* no cursor, no request

VARIABLES
    table,            \* the server's rows: none, running, ended
    created,          \* number of rows ever created
    filter,           \* the screen's filter
    list,             \* state.list: the items shown and the next cursor
    isLoading,        \* state.isLoading
    isLoadingMore,    \* state.isLoadingMore
    generation,       \* counts the invalidations
    isActive,         \* the screen is mounted
    isReady,          \* a first page has been accepted
    refreshRequest,   \* the refresh that is under way
    nextPageRequest,  \* the next-page request that is under way
    requests,         \* requests sent and not yet answered
    prepended,        \* history: rows an action put on top that no page has lined
                      \* up with the rows below them since
    isVisible,        \* the browser tab is visible
    budget            \* changes still to come

server == <<table, created>>
state == <<list, isLoading, isLoadingMore>>
control == <<generation, isActive, isReady, refreshRequest, nextPageRequest>>
vars == <<server, filter, state, control, requests, prepended, isVisible, budget>>

Spend == budget > 0 /\ budget' = budget - 1

Shown == {list.items[i].row : i \in DOMAIN list.items}

(***************************************************************************)
(* The server.                                                             *)
(***************************************************************************)

\* The rows a filter lists after a cursor.
Listed(f, after) ==
    {r \in Rows : table[r] \in f /\ (after = None \/ r < after)}

\* The i-th largest number of a set: of rows, the i-th newest.
Largest(S, i) == CHOOSE r \in S : Cardinality({t \in S : t >= r}) = i

\* ListBackups: a page newest first, and the cursor of its last row when more
\* rows follow.
Page(f, after) ==
    LET rows == Listed(f, after)
        size == IF Cardinality(rows) < PageSize THEN Cardinality(rows) ELSE PageSize
    IN  [items |-> [i \in 1..size |-> [row |-> Largest(rows, i), by |-> "page",
                                       status |-> table[Largest(rows, i)]]],
         cursor |-> IF Cardinality(rows) > PageSize THEN Largest(rows, PageSize)
                                                    ELSE None]

\* A database has one running backup at most.
MayStart == created < N /\ \A r \in Rows : table[r] # "running"

\* A backup is started by the schedule, ends, or is removed by retention.
ServerChange ==
    /\ Spend
    /\ \/ /\ MayStart
          /\ created' = created + 1
          /\ table' = [table EXCEPT ![created + 1] = "running"]
       \/ \E r \in Rows : /\ table[r] = "running"
                          /\ table' = [table EXCEPT ![r] = "ended"]
                          /\ UNCHANGED created
       \/ \E r \in Rows : /\ table[r] = "ended"
                          /\ table' = [table EXCEPT ![r] = "none"]
                          /\ UNCHANGED created
    /\ UNCHANGED <<filter, state, control, requests, prepended, isVisible>>

(***************************************************************************)
(* Merging pages.                                                          *)
(***************************************************************************)

\* The items of other rows, in their order.
Without(items, rows) ==
    LET kept == {i \in DOMAIN items : items[i].row \notin rows}
        size == Cardinality(kept)
    IN  [n \in 1..size |-> items[Largest(kept, size + 1 - n)]]

RowsOf(items) == {items[i].row : i \in DOMAIN items}

\* Rows already held win over the copies of the next page.
AppendNextPage(loaded, page) ==
    [items |-> loaded.items \o Without(page.items, RowsOf(loaded.items)),
     cursor |-> page.cursor]

\* The loaded rows below the last row of a refreshed first page; empty when
\* that row is not loaded.
TailBelow(loaded, page) ==
    LET last == page.items[Len(page.items)].row
        anchors == {i \in DOMAIN loaded.items : loaded.items[i].row = last}
    IN  IF anchors = {} THEN <<>>
        ELSE LET first == CHOOSE i \in anchors : \A j \in anchors : i <= j
             IN  SubSeq(loaded.items, first + 1, Len(loaded.items))

\* The refreshed page stands for the whole list when it is complete, empty or
\* has no loaded rows below it.
ReplacesList(loaded, page) ==
    page.cursor = None \/ page.items = <<>> \/ TailBelow(loaded, page) = <<>>

\* Mutant: a refreshed page with the rows that are shown counts as unchanged.
MergeUnlessSameRows(loaded, page) ==
    IF RowsOf(page.items) \subseteq RowsOf(loaded.items) THEN loaded
    ELSE IF ReplacesList(loaded, page) THEN page
    ELSE [items |-> page.items \o Without(TailBelow(loaded, page), RowsOf(page.items)),
          cursor |-> loaded.cursor]

\* The refreshed page replaces the loaded rows down to its last row; the tail
\* below it and its cursor stay.
MergeRefreshedFirstPage(loaded, page) ==
    IF ReplacesList(loaded, page) THEN page
    ELSE [items |-> page.items \o Without(TailBelow(loaded, page), RowsOf(page.items)),
          cursor |-> loaded.cursor]

(***************************************************************************)
(* Requests.                                                               *)
(***************************************************************************)

ActionItem(r, s) == [row |-> r, by |-> "action", status |-> s]

Unanswered == [is |-> "pending"]
Failed == [is |-> "failed"]

FreeIds == {id \in 1..MaxInFlight : \A q \in requests : q.id # id}
FreeId == CHOOSE id \in FreeIds : TRUE
HasRoom == FreeIds # {}

\* A request as it is sent, under a generation and a filter.
Sent(kind, g, f, after, row) ==
    [id |-> FreeId, kind |-> kind, generation |-> g, filter |-> f,
     after |-> after, row |-> row, answer |-> Unanswered]

\* A request under the generation and the filter of this moment.
Request(kind, after, row) == Sent(kind, generation, filter, after, row)

\* The requests when q has got its answer.
Answered(q, answer) ==
    (requests \ {q}) \cup
      {[id |-> q.id, kind |-> q.kind, generation |-> q.generation, filter |-> q.filter,
        after |-> q.after, row |-> q.row, answer |-> answer]}

\* The server serves a request that is under way.  Cancelling answers with the
\* row as it was read, before the run ends.
Serve(q) ==
    /\ q.answer = Unanswered
    /\ \/ /\ q.kind \in {"first", "refresh", "next"}
          /\ requests' = Answered(q, [is |-> "page", page |-> Page(q.filter, q.after)])
          /\ UNCHANGED server
       \/ /\ q.kind = "start" /\ MayStart
          /\ created' = created + 1
          /\ table' = [table EXCEPT ![created + 1] = "running"]
          /\ requests' = Answered(q, [is |-> "item", item |-> ActionItem(created + 1, "running")])
       \/ /\ q.kind = "cancel" /\ table[q.row] = "running"
          /\ requests' = Answered(q, [is |-> "item", item |-> ActionItem(q.row, "running")])
          /\ UNCHANGED server
    /\ UNCHANGED <<filter, state, control, prepended, isVisible, budget>>

\* The request fails, on its way or on the server.
Fail(q) ==
    /\ q.answer = Unanswered /\ Spend
    /\ requests' = Answered(q, Failed)
    /\ UNCHANGED <<server, filter, state, control, prepended, isVisible>>

\* The server refuses a start while a backup runs, and the cancellation of a
\* backup that does not run any more.
Refuse(q) ==
    /\ q.answer = Unanswered
    /\ \/ q.kind = "cancel" /\ table[q.row] # "running"
       \/ q.kind = "start" /\ ~MayStart
    /\ requests' = Answered(q, Failed)
    /\ UNCHANGED <<server, filter, state, control, prepended, isVisible, budget>>

(***************************************************************************)
(* The lifecycle of the list.                                              *)
(***************************************************************************)

\* invalidateRequests, once or twice in a row.
InvalidateRequests(times) ==
    /\ generation' = generation + times
    /\ isReady' = FALSE
    /\ refreshRequest' = None /\ nextPageRequest' = None

\* Mutant: a list that reloads keeps its cursor.
ReloadingKeepsCursor(f, times) ==
    /\ HasRoom
    /\ InvalidateRequests(times)
    /\ list' = [list EXCEPT !.items = <<>>]
    /\ isLoading' = TRUE /\ isLoadingMore' = FALSE
    /\ prepended' = {}
    /\ requests' = requests \cup {Sent("first", generation', f, None, None)}

\* reload, after "times" invalidations of which the last is its own.
Reloading(f, times) ==
    /\ HasRoom
    /\ InvalidateRequests(times)
    /\ list' = [items |-> <<>>, cursor |-> None]
    /\ isLoading' = TRUE /\ isLoadingMore' = FALSE
    /\ prepended' = {}
    /\ requests' = requests \cup {Sent("first", generation', f, None, None)}

\* A reload the user asks for, or one that follows the deletion of a row.
Reload ==
    /\ Spend /\ isActive
    /\ Reloading(filter, 1)
    /\ UNCHANGED <<server, filter, isActive, isVisible>>

\* The filter changes: the effect's cleanup deactivates, its setup activates
\* with the new options and reloads.
ChangeFilter(f) ==
    /\ Spend /\ isActive /\ f # filter
    /\ filter' = f
    /\ Reloading(f, 2)
    /\ UNCHANGED <<server, isActive, isVisible>>

\* The user leaves the screen.
Deactivate ==
    /\ Spend /\ isActive
    /\ isActive' = FALSE
    /\ InvalidateRequests(1)
    /\ UNCHANGED <<server, filter, state, requests, prepended, isVisible>>

\* The lifecycle is set up again.
Activate ==
    /\ ~isActive /\ isActive' = TRUE
    /\ Reloading(filter, 1)
    /\ UNCHANGED <<server, filter, isVisible, budget>>

\* The browser tab is hidden.
Hide ==
    /\ Spend /\ isVisible
    /\ isVisible' = FALSE
    /\ UNCHANGED <<server, filter, state, control, requests, prepended>>

(***************************************************************************)
(* Starting requests.                                                      *)
(***************************************************************************)

MayRefresh == isActive /\ isReady /\ refreshRequest = None

\* refreshFirstPage sends its request.
Refreshing ==
    /\ HasRoom
    /\ refreshRequest' = FreeId
    /\ requests' = requests \cup {Request("refresh", None, None)}
    /\ UNCHANGED <<state, generation, isActive, isReady, nextPageRequest>>

\* A tick of the interval refreshes a visible list.
RefreshFirstPage ==
    /\ isVisible /\ MayRefresh
    /\ Refreshing
    /\ UNCHANGED <<server, filter, prepended, isVisible, budget>>

\* The tab is shown again and the list refreshes at once.
Show ==
    /\ ~isVisible /\ isVisible' = TRUE
    /\ IF MayRefresh THEN Refreshing ELSE UNCHANGED <<state, control, requests>>
    /\ UNCHANGED <<server, filter, prepended, budget>>

\* loadNextPage, from scrolling to the bottom.
LoadNextPage ==
    /\ isActive /\ isReady /\ nextPageRequest = None /\ list.cursor # None /\ HasRoom
    /\ nextPageRequest' = FreeId
    /\ isLoadingMore' = TRUE
    /\ requests' = requests \cup {Request("next", list.cursor, None)}
    /\ UNCHANGED <<server, filter, list, isLoading, generation, isActive, isReady,
                   refreshRequest, prepended, isVisible, budget>>

\* startBackup and cancelBackup of the screen's actions.
Act ==
    /\ Spend /\ isActive /\ HasRoom
    /\ \/ requests' = requests \cup {Request("start", None, None)}
       \/ \E i \in DOMAIN list.items :
            /\ list.items[i].status = "running"
            /\ requests' = requests \cup {Request("cancel", None, list.items[i].row)}
    /\ UNCHANGED <<server, filter, state, control, prepended, isVisible>>

(***************************************************************************)
(* Answers.                                                                *)
(***************************************************************************)

\* Mutant: any generation of an active list is the current one.
IsAnyGeneration(q) == isActive

IsCurrentGeneration(q) == isActive /\ q.generation = generation

\* The first page of a load is shown, or its failure ends the loading.
LoadAnswered(q) ==
    /\ q.kind = "first"
    /\ IF ~IsCurrentGeneration(q) THEN UNCHANGED <<state, isReady, prepended>>
       ELSE /\ isLoading' = FALSE
            /\ IF q.answer = Failed THEN UNCHANGED <<list, isReady, prepended>>
               ELSE list' = q.answer.page /\ isReady' = TRUE /\ prepended' = {}
            /\ UNCHANGED isLoadingMore
    /\ UNCHANGED <<generation, isActive, refreshRequest, nextPageRequest>>

\* Mutant: a refresh that replaces the list leaves the next page coming.
CursorStaysValid(page) == FALSE

\* The next page under way continues a list that the refresh replaces.
IsPendingCursorInvalid(page) ==
    ReplacesList(list, page) /\ (page.cursor = None \/ page.cursor # list.cursor)

\* The rows from r on may fill a page, so that a refreshed one ends at r or above.
IsOutrun(r) == created + 1 >= r + PageSize

\* Mutant: a failed refresh keeps its lock.
RefreshAnsweredKeepsLock(q) ==
    /\ q.kind = "refresh"
    /\ IF ~(IsCurrentGeneration(q) /\ refreshRequest = q.id) \/ q.answer = Failed
       THEN UNCHANGED <<list, isLoadingMore, refreshRequest, nextPageRequest, prepended>>
       ELSE LET page == q.answer.page IN
            /\ refreshRequest' = None
            /\ list' = MergeRefreshedFirstPage(list, page)
            /\ prepended' = {r \in prepended : IsOutrun(r)}
            /\ IF IsPendingCursorInvalid(page)
               THEN nextPageRequest' = None /\ isLoadingMore' = FALSE
               ELSE UNCHANGED <<nextPageRequest, isLoadingMore>>
    /\ UNCHANGED <<isLoading, generation, isActive, isReady>>

\* A refreshed first page is merged; a failed refresh changes nothing.
RefreshAnswered(q) ==
    /\ q.kind = "refresh"
    /\ IF ~(IsCurrentGeneration(q) /\ refreshRequest = q.id)
       THEN UNCHANGED <<list, isLoadingMore, refreshRequest, nextPageRequest, prepended>>
       ELSE /\ refreshRequest' = None
            /\ IF q.answer = Failed
               THEN UNCHANGED <<list, isLoadingMore, nextPageRequest, prepended>>
               ELSE LET page == q.answer.page IN
                    /\ list' = MergeRefreshedFirstPage(list, page)
                    /\ prepended' = {r \in prepended : IsOutrun(r)}
                    /\ IF IsPendingCursorInvalid(page)
                       THEN nextPageRequest' = None /\ isLoadingMore' = FALSE
                       ELSE UNCHANGED <<nextPageRequest, isLoadingMore>>
    /\ UNCHANGED <<isLoading, generation, isActive, isReady>>

IsCurrentNext(q) == IsCurrentGeneration(q) /\ nextPageRequest = q.id

\* The next page is appended; a failure keeps rows and cursor.
NextPageAnswered(q) ==
    /\ q.kind = "next"
    /\ IF ~IsCurrentNext(q) THEN UNCHANGED <<list, isLoadingMore, nextPageRequest>>
       ELSE /\ nextPageRequest' = None /\ isLoadingMore' = FALSE
            /\ list' = IF q.answer = Failed THEN list
                       ELSE AppendNextPage(list, q.answer.page)
    /\ UNCHANGED <<isLoading, generation, isActive, isReady, refreshRequest, prepended>>

\* replaceOrPrependItem: the loaded copy is replaced, a new row goes on top.
ReplaceOrPrependItem(item) ==
    IF item.row \in Shown
    THEN /\ list' = [list EXCEPT !.items =
                       [i \in DOMAIN @ |-> IF @[i].row = item.row THEN item ELSE @[i]]]
         /\ UNCHANGED prepended
    ELSE /\ list' = [list EXCEPT !.items = <<item>> \o @]
         /\ prepended' = prepended \cup {item.row}

\* isLogicalBackupListedByFilter.
IsListedByFilter(item, f) == item.status \in f

\* The answer of an action shows its row, a started one only if the filter
\* it was started under lists it.
ActAnswered(q) ==
    /\ q.kind \in {"start", "cancel"}
    /\ IF /\ isActive /\ q.answer # Failed
          /\ q.kind = "start" => IsListedByFilter(q.answer.item, q.filter)
       THEN ReplaceOrPrependItem(q.answer.item)
       ELSE UNCHANGED <<list, prepended>>
    /\ UNCHANGED <<isLoading, isLoadingMore, control>>

Answer(q) ==
    /\ q.answer # Unanswered
    /\ requests' = requests \ {q}
    /\ LoadAnswered(q) \/ RefreshAnswered(q) \/ NextPageAnswered(q) \/ ActAnswered(q)
    /\ UNCHANGED <<server, filter, isVisible, budget>>

Init ==
    /\ table = [r \in Rows |-> IF r <= Loaded THEN "ended" ELSE "none"]
    /\ created = Loaded
    /\ filter \in Filters
    /\ list = [items |-> <<>>, cursor |-> None]
    /\ isLoading = TRUE /\ isLoadingMore = FALSE
    /\ generation = 1 /\ isActive = TRUE /\ isReady = FALSE
    /\ refreshRequest = None /\ nextPageRequest = None
    /\ requests = {[id |-> 1, kind |-> "first", generation |-> 1, filter |-> filter,
                    after |-> None, row |-> None, answer |-> Unanswered]}
    /\ prepended = {}
    /\ isVisible = TRUE
    /\ budget = Budget

Next ==
    \/ ServerChange \/ Reload \/ Deactivate \/ Activate \/ Hide \/ Show
    \/ \E f \in Filters : ChangeFilter(f)
    \/ RefreshFirstPage \/ LoadNextPage \/ Act
    \/ \E q \in requests : Serve(q) \/ Fail(q) \/ Refuse(q) \/ Answer(q)

Spec == Init /\ [][Next]_vars

\* Requests are answered, with success unless the budget pays for a failure,
\* and the interval of a visible list keeps running.
Fairness ==
    /\ WF_vars(RefreshFirstPage)
    /\ WF_vars(\E q \in requests : Serve(q) \/ Refuse(q) \/ Answer(q))

FairSpec == Spec /\ Fairness

(***************************************************************************)
(* Properties.                                                             *)
(***************************************************************************)

\* Every variable has its type; a list without an accepted first page has no
\* cursor, so that scrolling cannot continue an older list.
TypeOK ==
    /\ table \in [Rows -> Statuses \cup {"none"}] /\ created \in 0..N
    /\ filter \in Filters
    /\ \A i \in DOMAIN list.items :
         list.items[i] \in [row: Rows, by: {"page", "action"}, status: Statuses]
    /\ list.cursor \in Rows \cup {None}
    /\ isActive /\ ~isReady => list.cursor = None
    /\ isLoading \in BOOLEAN /\ isLoadingMore \in BOOLEAN
    /\ isActive \in BOOLEAN /\ isReady \in BOOLEAN /\ isVisible \in BOOLEAN
    /\ generation \in Nat /\ budget \in 0..Budget
    /\ refreshRequest \in 0..MaxInFlight /\ nextPageRequest \in 0..MaxInFlight
    /\ \A q \in requests : q.id \in 1..MaxInFlight /\ q.generation \in Nat
    /\ prepended \subseteq Rows

Pending(kind, id) == \E q \in requests :
    q.kind = kind /\ q.generation = generation /\ q.id = id

\* A loading indicator or a lock always belongs to a request of the current
\* generation that is still under way: no stale answer releases it, and none
\* is left behind to keep the list from refreshing or growing.
IndicatorsOwned ==
    isActive =>
      /\ isLoadingMore <=> nextPageRequest # None
      /\ nextPageRequest # None => Pending("next", nextPageRequest)
      /\ refreshRequest # None => Pending("refresh", refreshRequest)
      /\ isReady => ~isLoading

\* The rows a page brought are rows of the filter that is shown, since what a
\* superseded request answers is never published; and no row is shown twice, in
\* whatever order a refresh, the next page and the answer of an action bring it.
OnlyCurrentRows ==
    isActive => \A i \in DOMAIN list.items :
        /\ list.items[i].by = "page" => list.items[i].status \in filter
        /\ \A j \in DOMAIN list.items : list.items[i].row = list.items[j].row => i = j

\* Every row the filter lists is shown, is still to come after the cursor, or
\* is newer than the rows of the pages, so that the next refresh brings it.
\* Rows started since the last page may be missing below a row an action put on
\* top; the refreshed page brings them as long as it reaches below that row, so
\* the list is whole until a row on top is outrun.
Reachable ==
    (isActive /\ isReady /\ \A p \in prepended : ~IsOutrun(p)) =>
      \A r \in Listed(filter, None) \ Shown :
         \/ list.cursor # None /\ r < list.cursor
         \/ \A s \in Shown \ prepended : s < r

\* The list starts with the server's first page.
Fresh == LET page == Page(filter, None)
         IN  /\ Len(list.items) >= Len(page.items)
             /\ SubSeq(list.items, 1, Len(page.items)) = page.items

\* Once nothing changes any more, no list is left loading, and a visible one comes
\* to show the server's first page and stays with it, whatever failed or was
\* overtaken before.
Converges ==
    <>[](isActive => ~isLoading /\ (isVisible /\ isReady => Fresh))
=============================================================================
