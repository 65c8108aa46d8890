-------------------------------- MODULE RunReads --------------------------------
(***************************************************************************)
(* Reading the run history while it is written: the pages of runs behind   *)
(* GET /runs (listRuns of the stores, queryRunList of run-query.ts) and    *)
(* the pages of one run's events behind GET /runs/{id} (listRunEvents,     *)
(* queryRunDetail).  A page is one SELECT with a keyset cursor; nothing    *)
(* holds a snapshot from one page to the next.                             *)
(*                                                                         *)
(* Runs stand for the row order of their ids.  The filters a run keeps all *)
(* its life (repository, issue, dates) select a smaller board and are left *)
(* out; the one on status is the flag `open`.                              *)
(***************************************************************************)
EXTENDS Integers, Sequences, FiniteSets, SequencesExt

CONSTANTS
    Rows,        \* run ids, numbers so that they are ordered
    Stamped,     \* values of created_at
    Owners,      \* whom a run is attributed to, Unowned included
    Unowned,     \* no attribution
    Viewers,     \* operators and customers reading the list
    Limit,       \* page size asked for
    FillPages,   \* MAX_SCOPE_FILL_PAGES
    Appenders,   \* processes that append to the run's events
    MaxMoves,    \* bound: see BoardMoves
    MaxSerial,   \* bound: values of the sequence handed out
    NoCursor     \* no cursor

ASSUME ReadsAssumption ==
    /\ Rows \subseteq Nat /\ Stamped \subseteq Nat
    /\ Unowned \in Owners
    /\ Limit \in Nat \ {0} /\ FillPages \in Nat \ {0}
    /\ MaxMoves \in Nat /\ MaxSerial \in Nat

VARIABLES
    board,     \* the summary rows
    viewer,    \* one walk over the list each
    moves,     \* board moves while somebody reads (counter of a bound)
    serial,    \* the last value of df_run_events.sequence handed out
    logged,    \* the committed events of the run
    writing,   \* the uncommitted event of each process, 0 when there is none
    follower   \* one walk over the events

listVars == <<board, viewer, moves>>
followVars == <<serial, logged, writing, follower>>

\* A status by its place in the alphabet: "running" < "succeeded".
RunningStatus == 1
EndedStatus == 2

RunRow == [key : Stamped, owner : Owners, status : {RunningStatus, EndedStatus}]
Order == [sort : {"createdAt", "status"}, desc : BOOLEAN]
\* A viewer without a tenant sees nothing, so a customer has one.
Scope == {"operator"} \cup (Owners \ {Unowned})
Cursor == [order : Order, key : Stamped \cup {RunningStatus, EndedStatus},
           row : Rows]

\* No cursor is none.
ASSUME CursorAssumption == NoCursor \notin Cursor

\* next: the cursor the next request presents; cursor, passes, page: where its
\* walk over store pages is; got: what the answers listed.  Of the past: since,
\* the rows there were when the reading began; moved, those that have left
\* their place in it since; cut, those an answer had no room for.
Viewer == [at : {"idle", "reading", "answered", "over"}, scope : Scope,
           order : Order, open : BOOLEAN, next : Cursor \cup {NoCursor},
           cursor : Cursor \cup {NoCursor}, passes : 0..FillPages,
           page : Seq(Rows), got : Seq(Rows), since : SUBSET Rows,
           moved : SUBSET Rows, cut : SUBSET Rows]

Follower == [at : {"idle", "reading", "over"}, after : 0..MaxSerial,
             seen : Seq(1..MaxSerial)]

ReadsTypeOK ==
    /\ DOMAIN board \subseteq Rows
    /\ \A r \in DOMAIN board : board[r] \in RunRow
    /\ viewer \in [Viewers -> Viewer]
    /\ moves \in 0..MaxMoves
    /\ serial \in 0..MaxSerial
    /\ logged \subseteq 1..serial
    /\ writing \in [Appenders -> 0..serial]
    /\ follower \in Follower

\* The store lists by creation, newest first, unless asked otherwise.
Default == [sort |-> "createdAt", desc |-> TRUE]
ByStatus == [sort |-> "status", desc |-> FALSE]

Unopened == [at |-> "idle", scope |-> "operator", order |-> Default,
             open |-> FALSE, next |-> NoCursor, cursor |-> NoCursor,
             passes |-> 0, page |-> <<>>, got |-> <<>>, since |-> {},
             moved |-> {}, cut |-> {}]

ListInit ==
    /\ board = [r \in {} |-> Unowned]
    /\ moves = 0
    /\ viewer = [v \in Viewers |-> Unopened]

FollowInit ==
    /\ serial = 0 /\ logged = {}
    /\ writing = [a \in Appenders |-> 0]
    /\ follower = [at |-> "idle", after |-> 0, seen |-> <<>>]

-----------------------------------------------------------------------------
(* The list of runs                                                        *)

\* Bound: the board moves MaxMoves times from the first request on.
BoardMoves ==
    IF \A v \in Viewers : viewer[v].at = "idle" THEN UNCHANGED moves
    ELSE /\ \E v \in Viewers : viewer[v].at # "over"
         /\ moves < MaxMoves
         /\ moves' = moves + 1

\* The stamp is the clock of whichever process received the delivery.
AcceptRow(r) ==
    /\ r \notin DOMAIN board
    /\ BoardMoves
    /\ \E k \in Stamped, o \in Owners :
          board' = [x \in DOMAIN board \cup {r} |->
                      IF x = r
                      THEN [key |-> k, owner |-> o, status |-> RunningStatus]
                      ELSE board[x]]
    /\ UNCHANGED viewer

\* Bound: one run ends.
EndRow(r) ==
    /\ r \in DOMAIN board
    /\ \A x \in DOMAIN board : board[x].status = RunningStatus
    /\ BoardMoves
    /\ board' = [board EXCEPT ![r].status = EndedStatus]
    /\ viewer' = [v \in Viewers |->
          IF /\ viewer[v].at \in {"reading", "answered"}
             /\ viewer[v].open \/ viewer[v].order.sort = "status"
          THEN [viewer[v] EXCEPT !.moved = @ \cup {r}] ELSE viewer[v]]

\* sortKeyOf
KeyOf(r, order) ==
    IF order.sort = "createdAt" THEN board[r].key ELSE board[r].status

Ahead(order, a, b) == IF order.desc THEN a > b ELSE a < b

\* ORDER BY column, run_id
Precedes(order, a, b) ==
    \/ Ahead(order, KeyOf(a, order), KeyOf(b, order))
    \/ KeyOf(a, order) = KeyOf(b, order) /\ Ahead(order, a, b)

\* Mutant: the cursor compares the sort column alone.
IsAfterKey(order, cursor, r) ==
    cursor # NoCursor => Ahead(order, cursor.key, KeyOf(r, order))

\* (column < key OR (column = key AND run_id < runId))
IsAfter(order, cursor, r) ==
    cursor # NoCursor =>
        \/ Ahead(order, cursor.key, KeyOf(r, order))
        \/ cursor.key = KeyOf(r, order) /\ Ahead(order, cursor.row, r)

\* S in the order `before`, a set of pairs of which each two of S have one: at
\* each place the element with as many before it.
InOrder(S, before) ==
    [i \in 1..Cardinality(S) |->
        CHOOSE x \in S : Cardinality({y \in S : <<y, x>> \in before}) = i - 1]

Along(order) ==
    {pair \in (DOMAIN board) \X (DOMAIN board) : Precedes(order, pair[1], pair[2])}

\* listRuns: the rows of the WHERE clause, in order.
Selected(order, open, cursor) ==
    {r \in DOMAIN board : /\ open => board[r].status = RunningStatus
                          /\ IsAfter(order, cursor, r)}
Matching(order, open, cursor) == InOrder(Selected(order, open, cursor), Along(order))

\* LIMIT limit + 1 tells whether there is more.
FirstOf(rows) == SubSeq(rows, 1, IF Len(rows) > Limit THEN Limit ELSE Len(rows))

\* nextCursor
CursorAfter(order, rows) ==
    LET last == rows[Limit] IN
        IF Len(rows) > Limit
        THEN [order |-> order, key |-> KeyOf(last, order), row |-> last]
        ELSE NoCursor

\* isRunVisible
IsVisible(scope, r) == scope = "operator" \/ board[r].owner = scope

\* items.filter, which keeps their order.
VisibleOf(rows, order, scope) ==
    InOrder({r \in ToSet(rows) : IsVisible(scope, r)}, Along(order))

\* A first request, without a cursor (only a list by creation is filtered).
AskFirst(v) ==
    /\ viewer[v].at = "idle"
    /\ \E scope \in Scope, order \in {Default, ByStatus}, open \in BOOLEAN :
          /\ open => order = Default
          /\ viewer' = [viewer EXCEPT ![v] =
                [Unopened EXCEPT !.at = "reading", !.scope = scope,
                    !.order = order, !.open = open,
                    !.since = Selected(order, open, NoCursor)]]
    /\ UNCHANGED <<board, moves>>

\* Mutant: a cursor of any ordering is honoured.
HonoursAny(cursor, order) == TRUE

\* validateRunCursor: a cursor resumes the ordering it was issued for.
Honours(cursor, order) == cursor.order = order

\* The next page, perhaps in another direction; a refusal changes nothing.
AskNext(v) ==
    /\ viewer[v].at = "answered"
    /\ \E desc \in BOOLEAN :
          LET order == [viewer[v].order EXCEPT !.desc = desc] IN
          /\ Honours(viewer[v].next, order)
          /\ viewer' = [viewer EXCEPT ![v] =
                [@ EXCEPT !.at = "reading", !.order = order,
                          !.cursor = viewer[v].next, !.passes = 0,
                          !.page = <<>>]]
    /\ UNCHANGED <<board, moves>>

\* An unscoped read is one pass over the store; a customer's goes on until it
\* has a page, the rows end, or it has walked FillPages pages.  The answer is
\* the first Limit visible rows, the cursor the one of the last store page.
ReadPage(v) ==
    /\ viewer[v].at = "reading"
    /\ LET scope == viewer[v].scope
           rows == Matching(viewer[v].order, viewer[v].open,
                            viewer[v].cursor)
           next == CursorAfter(viewer[v].order, rows)
           page == viewer[v].page \o VisibleOf(FirstOf(rows), viewer[v].order, scope)
           passes == viewer[v].passes + 1
       IN  viewer' = [viewer EXCEPT ![v] =
             IF \/ scope = "operator" \/ passes = FillPages
                \/ Len(page) >= Limit \/ next = NoCursor
             THEN [@ EXCEPT !.at = IF next = NoCursor THEN "over" ELSE "answered",
                            !.next = next, !.cursor = NoCursor, !.passes = 0,
                            !.page = <<>>, !.got = viewer[v].got \o FirstOf(page),
                            !.cut = viewer[v].cut
                                       \cup (ToSet(page) \ ToSet(FirstOf(page)))]
             ELSE [@ EXCEPT !.cursor = next, !.passes = passes, !.page = page]]
    /\ UNCHANGED <<board, moves>>

\* The store fails: 503, and the same request is made again.
ReadFails(v) ==
    /\ viewer[v].at = "reading"
    /\ viewer' = [viewer EXCEPT ![v].cursor = viewer[v].next, ![v].passes = 0,
                                ![v].page = <<>>]
    /\ UNCHANGED <<board, moves>>

ListNext ==
    \/ \E r \in Rows : AcceptRow(r) \/ EndRow(r)
    \/ \E v \in Viewers : AskFirst(v) \/ AskNext(v) \/ ReadPage(v) \/ ReadFails(v)

-----------------------------------------------------------------------------
(* The events of one run                                                   *)

\* Mutant: appending does not hold the summary row.
RowIsFreeAlways == TRUE

\* SELECT ... FROM df_run_summaries ... FOR UPDATE, before the event's INSERT.
RowIsFree == \A a \in Appenders : writing[a] = 0

\* The INSERT takes the next value of the sequence, the COMMIT shows the row.
InsertLogged(a) ==
    /\ writing[a] = 0 /\ RowIsFree
    /\ serial < MaxSerial
    /\ serial' = serial + 1
    /\ writing' = [writing EXCEPT ![a] = serial']
    /\ UNCHANGED <<logged, follower>>

\* A rolled back value is not handed out again.
EndInsert(a) ==
    /\ writing[a] # 0
    /\ writing' = [writing EXCEPT ![a] = 0]
    /\ logged' \in {logged, logged \cup {writing[a]}}
    /\ UNCHANGED <<serial, follower>>

\* queryRunDetail and listRunEvents, from the first page.
StartFollowing ==
    /\ follower.at # "reading"
    /\ follower' = [at |-> "reading", after |-> 0, seen |-> <<>>]
    /\ UNCHANGED <<serial, logged, writing>>

\* ORDER BY sequence
Increasing == {pair \in (1..MaxSerial) \X (1..MaxSerial) : pair[1] < pair[2]}

ReadEvents ==
    /\ follower.at = "reading"
    /\ LET rows == InOrder({n \in logged : n > follower.after}, Increasing)
           items == FirstOf(rows)
       IN  follower' = [at |-> IF Len(rows) > Limit THEN "reading" ELSE "over",
                        after |-> IF items = <<>> THEN follower.after
                                  ELSE Last(items),
                        seen |-> follower.seen \o items]
    /\ UNCHANGED <<serial, logged, writing>>

FollowNext ==
    \/ \E a \in Appenders : InsertLogged(a) \/ EndInsert(a)
    \/ StartFollowing \/ ReadEvents

-----------------------------------------------------------------------------
(* Properties                                                              *)

\* Rows come, end and fail to be read between the pages, and still: a viewer
\* is shown no row out of its scope and none twice; and when the last page is
\* reached it has been shown every row of its scope that was there all along,
\* but for those an answer had no room for.  A row that leaves its place, by
\* ending, in a list sorted or filtered by status may be missed or repeated.
PagesListEachRunOnce ==
    \A v \in Viewers :
        LET got == viewer[v].got
            stayed == viewer[v].since \ viewer[v].moved
        IN  /\ \A r \in ToSet(got) : IsVisible(viewer[v].scope, r)
            /\ \A m, n \in DOMAIN got :
                   got[m] = got[n] => m = n \/ got[m] \in viewer[v].moved
            /\ viewer[v].at = "over" =>
                   {r \in stayed : IsVisible(viewer[v].scope, r)}
                       \subseteq ToSet(got) \cup viewer[v].cut

\* Events are appended between the pages of a run's log, and no page skips
\* one: what was read is the log up to the cursor, in its order.
PagesFollowTheLog ==
    follower.seen = InOrder({n \in logged : n <= follower.after}, Increasing)

\* Both walks: a reader that goes from page to page ends up with the whole.
ReadsAreWhole == PagesListEachRunOnce /\ PagesFollowTheLog
=============================================================================
