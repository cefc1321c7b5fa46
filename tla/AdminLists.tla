----------------------------- MODULE AdminLists -----------------------------
(***************************************************************************)
(* The administrator's paged lists: GET /api/admin/reservations with its   *)
(* signed cursors (src/src/lib/admin-pagination.ts,                        *)
(* src/src/lib/admin-reservations.ts) and the browser hook that shows the  *)
(* pages (src/src/app/admin/use-admin-console-reads.ts).  The lists of     *)
(* students and of the audit log are the same code over another table.     *)
(*                                                                         *)
(* A row is its place in the order of the query (period, creation time,    *)
(* identity): a row of the first period that is created late stands before *)
(* rows that are older.  A page is read by two kinds of requests of the    *)
(* browser: the read of the section, which an AbortController cancels, and *)
(* "load more" or "start again", which a counter makes stale.              *)
(***************************************************************************)
EXTENDS Integers, FiniteSets, SequencesExt

CONSTANTS
    Places,         \* the places of rows in the order of the query
    Filters,        \* what the administrator may ask for (date, query, status)
    FilterAll,      \* the filter every row passes
    PageSize,       \* ADMIN_PAGE_SIZE
    VisibleLimit,   \* ADMIN_VISIBLE_ITEM_LIMIT
    CursorLife,     \* ADMIN_CURSOR_TTL_MS in ticks
    LastListTick,   \* bound: ticks of the clock
    MaxChanges,     \* bound: rows that change while the list is read
    MaxAsks         \* bound: clicks of the administrator

ASSUME ListAssumption ==
    /\ Places \subseteq Nat /\ IsFiniteSet(Places)
    /\ FilterAll \notin Filters
    /\ {PageSize, VisibleLimit, CursorLife} \subseteq Nat \ {0}
    /\ {LastListTick, MaxChanges, MaxAsks} \subseteq Nat

VARIABLES
    table,     \* the rows: place |-> creation time and what filters it passes
    listTick,      \* the clock of the server
    list,      \* reservationPage with its flags, and the section it belongs to
    reading,   \* the read of the section under way
    paging,    \* the "load more" requests under way
    changed,   \* history: the rows that changed since they were created
    asks       \* the administrator's clicks so far

listVars == <<table, listTick, list, reading, paging, changed, asks>>

AllFilters == Filters \cup {FilterAll}
NoRowAt    == [born |-> -1, filter |-> FilterAll]
NoCursor   == [after |-> -1, cutoff |-> -1, filter |-> FilterAll, exp |-> -1]
NoPage     == [items |-> <<>>, next |-> NoCursor, filter |-> FilterAll,
               hidden |-> FALSE, present |-> {}, loaded |-> FALSE]
NoReading  == [stage |-> "none", filter |-> FilterAll, answer |-> NoPage]

Present == {p \in Places : table[p] # NoRowAt}
Passes(p, f) == p \in Present /\ f \in {FilterAll, table[p].filter}

ListInit ==
    /\ table \in [Places -> {NoRowAt} \cup [born : {0}, filter : Filters]]
    /\ listTick = 0
    /\ list = [page |-> NoPage, filter |-> FilterAll, shown |-> TRUE,
               request |-> 0, restart |-> FALSE, loading |-> FALSE,
               failed |-> FALSE, crossed |-> FALSE]
    /\ reading = [NoReading EXCEPT !.stage = "sent"]
    /\ paging = {}
    /\ changed = {}
    /\ asks = 0

-----------------------------------------------------------------------------
(* The route.                                                              *)

\* parseAdminCursor: why a cursor is refused, or "ok".
CursorCheck(c, f) ==
    IF listTick >= c.exp THEN "CURSOR_EXPIRED"
    ELSE IF c.filter # f THEN "CURSOR_FILTER_MISMATCH" ELSE "ok"

\* buildAdminReservationWhere.
Where(after, cutoff, f) ==
    {p \in Places : Passes(p, f) /\ table[p].born <= cutoff /\ p > after}

\* The places of S in the order of the query.
InOrder(S) ==
    CHOOSE s \in [1..Cardinality(S) -> S] :
        \A i, j \in 1..Cardinality(S) : i < j => s[i] < s[j]

\* How many rows the query takes: one more than it shows.
Taken == PageSize + 1

\* The page of GET for filter f: the first one, or the one after cursor c,
\* whose cutoff it keeps.  present is a history variable.
PageOf(f, c) ==
    LET first  == c = NoCursor
        cutoff == IF first THEN listTick ELSE c.cutoff
        all    == InOrder(Where(c.after, cutoff, f))
        rows   == SubSeq(all, 1, IF Len(all) < Taken THEN Len(all) ELSE Taken)
        items  == SubSeq(rows, 1, IF Len(rows) < PageSize THEN Len(rows) ELSE PageSize)
    IN  [items   |-> items,
         next    |-> IF Len(rows) > PageSize
                     THEN [after |-> Last(items), cutoff |-> cutoff, filter |-> f,
                           exp |-> listTick + CursorLife]
                     ELSE NoCursor,
         filter  |-> f,
         hidden  |-> FALSE,
         present |-> Where(-1, cutoff, f),
         loaded  |-> TRUE]

\* The table and the clock move while pages are read.
RowAppears(p, f) ==
    /\ p \notin Present
    /\ Cardinality(changed) < MaxChanges
    /\ table' = [table EXCEPT ![p] = [born |-> listTick, filter |-> f]]
    /\ changed' = changed \cup {p}
    /\ UNCHANGED <<listTick, list, reading, paging, asks>>

RowChanges(p, f) ==
    /\ p \in Present /\ table[p].filter # f
    /\ Cardinality(changed) < MaxChanges
    /\ table' = [table EXCEPT ![p].filter = f]
    /\ changed' = changed \cup {p}
    /\ UNCHANGED <<listTick, list, reading, paging, asks>>

ListTick ==
    /\ listTick < LastListTick
    /\ listTick' = listTick + 1
    /\ UNCHANGED <<table, list, reading, paging, changed, asks>>

ServeReading ==
    /\ reading.stage = "sent"
    /\ reading' = [reading EXCEPT !.stage = "served",
                               !.answer = PageOf(reading.filter, NoCursor)]
    /\ UNCHANGED <<table, listTick, list, paging, changed, asks>>

ServeMore(q) ==
    /\ q.stage = "sent"
    /\ LET check == IF q.cursor = NoCursor THEN "ok" ELSE CursorCheck(q.cursor, q.filter)
       IN  paging' = (paging \ {q}) \cup
             {[q EXCEPT !.stage = check,
                        !.answer = IF check = "ok" THEN PageOf(q.filter, q.cursor)
                                   ELSE NoPage]}
    /\ UNCHANGED <<table, listTick, list, reading, changed, asks>>

-----------------------------------------------------------------------------
(* The browser.                                                            *)

Ask == asks < MaxAsks /\ asks' = asks + 1

Bug_Invalidated(s) ==
    [s EXCEPT !.loading = FALSE, !.restart = FALSE]
\* invalidateActivePagination of the section that is shown.
Invalidated(s) ==
    [s EXCEPT !.request = @ + 1, !.loading = FALSE, !.restart = FALSE]

\* The effect of the section, with state s: the read before it is aborted.
Effect(s) ==
    IF s.shown
    THEN /\ list' = [Invalidated(s) EXCEPT !.failed = FALSE]
         /\ reading' = [NoReading EXCEPT !.stage = "sent", !.filter = s.filter]
    ELSE /\ list' = [s EXCEPT !.failed = FALSE]
         /\ reading' = NoReading

\* Another date, query, status or period; the date may change in another section.
ChangeFilter(f) ==
    /\ f # list.filter
    /\ Ask
    /\ Effect([list EXCEPT !.filter = f])
    /\ UNCHANGED <<table, listTick, paging, changed>>

SwitchSection ==
    /\ Ask
    /\ Effect([list EXCEPT !.shown = ~@])
    /\ UNCHANGED <<table, listTick, paging, changed>>

RefreshActive ==
    /\ list.shown
    /\ Ask
    /\ Effect(list)
    /\ UNCHANGED <<table, listTick, paging, changed>>

\* mergeAdminReadPages.  What an answer adds stays in its order, which is that
\* of the query.
Visible(items) ==
    IF Len(items) > VisibleLimit
    THEN SubSeq(items, Len(items) - VisibleLimit + 1, Len(items)) ELSE items
Merged(old, new, mode) ==
    LET fresh == InOrder(ToSet(new.items) \ ToSet(old.items))
        both  == old.items \o fresh
        hides == old.hidden \/ Len(both) > VisibleLimit
    IN  IF mode = "replace" \/ ~old.loaded THEN new
        ELSE IF new.items = <<>> /\ new.next = NoCursor /\ old.next # NoCursor THEN old
        ELSE [new EXCEPT !.items = IF hides THEN Visible(both) ELSE both,
                         !.hidden = hides,
                         !.filter = old.filter,
                         !.present = old.present]

\* loadReservations after its await; a request that fails leaves the page.
ReadingArrives ==
    /\ reading.stage = "served"
    /\ list' = [list EXCEPT !.page = Merged(@, reading.answer, "replace"),
                            !.restart = FALSE,
                            !.crossed = \E q \in paging : q.request = list.request]
    /\ reading' = NoReading
    /\ UNCHANGED <<table, listTick, paging, changed, asks>>

ReadingFails ==
    /\ reading.stage # "none"
    /\ list' = [list EXCEPT !.failed = TRUE]
    /\ reading' = NoReading
    /\ UNCHANGED <<table, listTick, paging, changed, asks>>

\* loadMoreReservations up to its await: the cursor is the one on the screen.
LoadMore(mode) ==
    /\ list.shown
    /\ IF mode = "append" THEN list.page.next # NoCursor /\ ~list.loading ELSE list.restart
    /\ Ask
    /\ list' = [list EXCEPT !.request = @ + 1, !.loading = TRUE,
                            !.restart = IF mode = "replace" THEN FALSE ELSE @]
    /\ paging' = paging \cup
         {[request |-> list.request + 1, filter |-> list.filter, mode |-> mode,
           cursor |-> IF mode = "append" THEN list.page.next ELSE NoCursor,
           stage |-> "sent", answer |-> NoPage]}
    /\ UNCHANGED <<table, listTick, reading, changed>>

\* Only the newest request speaks.
IsNewest(q) == q.request = list.request

MoreArrives(q) ==
    /\ q.stage # "sent"
    /\ paging' = paging \ {q}
    /\ list' = IF ~IsNewest(q) THEN list
               ELSE IF q.stage = "ok"
               THEN [list EXCEPT !.page = Merged(@, q.answer, q.mode),
                                 !.loading = FALSE, !.failed = FALSE,
                                 !.crossed = IF q.mode = "replace" THEN FALSE ELSE @]
               ELSE [list EXCEPT !.loading = FALSE, !.failed = TRUE,
                                 !.restart = @ \/ q.stage = "CURSOR_EXPIRED"]
    /\ UNCHANGED <<table, listTick, reading, changed, asks>>

MoreFails(q) ==
    /\ paging' = paging \ {q}
    /\ list' = IF IsNewest(q) THEN [list EXCEPT !.loading = FALSE, !.failed = TRUE] ELSE list
    /\ UNCHANGED <<table, listTick, reading, changed, asks>>

-----------------------------------------------------------------------------
ListNext ==
    \/ ListTick \/ ServeReading \/ ReadingArrives \/ ReadingFails
    \/ SwitchSection \/ RefreshActive
    \/ \E f \in Filters : \E p \in Places : RowAppears(p, f) \/ RowChanges(p, f)
    \/ \E f \in AllFilters : ChangeFilter(f)
    \/ \E mode \in {"append", "replace"} : LoadMore(mode)
    \/ \E q \in paging : ServeMore(q) \/ MoreArrives(q) \/ MoreFails(q)

ListSpec == ListInit /\ [][ListNext]_listVars

-----------------------------------------------------------------------------
(* What the lists promise.                                                 *)

\* Once the reads are over and none failed, the list is the one of the filter
\* that is shown: no answer to an earlier question is left on the screen.
ListAnswersTheFilter ==
    list.shown /\ reading.stage = "none" /\ ~list.failed /\ list.page.loaded
    => list.page.filter = list.filter

\* A traversal loses nothing: a row that was there when the first page was
\* read and did not change since is on the screen, unless it stands before
\* the oldest row still shown or after the cursor, or "load more" was pressed
\* while a refresh of the list was under way.
TraversalIsWhole ==
    LET page == list.page IN
    page.loaded /\ ~list.crossed =>
        \A p \in page.present \ changed :
            (page.hidden => p >= Head(page.items)) /\ (page.next # NoCursor => p <= page.next.after)
              => p \in ToSet(page.items)

\* No row is shown twice, and without such a crossing the rows stand in the
\* order of the query.
RowsAreInOrder ==
    LET items == list.page.items
    IN  \A i, j \in DOMAIN items : i < j =>
          /\ items[i] # items[j]
          /\ ~list.crossed => items[i] < items[j]

\* A list is the whole answer to its filter, in order.
ListsAreTrue == ListAnswersTheFilter /\ TraversalIsWhole /\ RowsAreInOrder
=============================================================================
