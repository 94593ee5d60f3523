------------------------------- MODULE Pages -------------------------------
(***************************************************************************)
(* The administrators' list of orders and the merchants' list of           *)
(* certificates: pages over (createdAt DESC, id DESC), each read by a      *)
(* statement of its own, while rows come and change in between.            *)
(*                                                                         *)
(* A cursor is the key of the last row of the page before; the statement   *)
(* asks for one row more than the page holds, and that row only says       *)
(* whether there is a next page.  A filter (status, venue, merchant, the   *)
(* venue's owner) is the set of the states in which a row matches.         *)
(***************************************************************************)
EXTENDS Integers, FiniteSets

CONSTANTS Rows,        \* ids, in uuid order; rows come in any order of ids
          States,      \* what the filters tell apart in a row
          PageMax,     \* bound: the largest page a client asks for
          MaxTime,     \* bound on the clock, in microseconds
          Delay,       \* bound on the age of a transaction when it commits
          MaxMoves     \* bound on the changes of state

ASSUME ConstantsAssumption ==
    /\ Rows \subseteq Nat
    /\ PageMax \in Nat \ {0}
    /\ MaxTime \in Nat
    /\ Delay \in Nat
    /\ MaxMoves \in Nat

VARIABLES clock,
          stored,      \* the rows committed so far
          createdAt,   \* of each of them: now() of its transaction
          state,
          moves,
          asked,       \* the filter of the client's list
          page,        \* the page the client holds
          cursor,      \* nextCursor of that page
          seen,        \* the rows of the pages before it
          steady,      \* history: the rows that matched ever since the first page
          quiet        \* history: no row changed since the page was read

table == <<clock, stored, createdAt, state, moves>>
list  == <<asked, page, cursor, seen, steady, quiet>>
vars  == <<table, list>>

\* nextCursor is null: the list is at its end, or was not asked for yet.
NoCursor == [at |-> -1, id |-> -1]

Init ==
    /\ clock = 0
    /\ stored = {}
    /\ createdAt = [r \in Rows |-> 0]
    /\ state \in [Rows -> States]
    /\ moves = 0
    /\ asked = {} /\ page = {} /\ cursor = NoCursor
    /\ seen = {} /\ steady = {} /\ quiet = TRUE

Tick == clock < MaxTime /\ clock' = clock + 1 /\ UNCHANGED <<stored, createdAt, state, moves, list>>

\* createdAt defaults to now(), when the transaction began: a certificate whose
\* transaction waited for its order's lock turns up below rows that are newer.
Insert(r, at) ==
    /\ r \notin stored
    /\ at \in (clock - Delay) .. clock /\ at >= 0
    /\ stored' = stored \cup {r}
    /\ createdAt' = [createdAt EXCEPT ![r] = at]
    /\ UNCHANGED <<clock, state, moves, list>>

\* A row is paid, used, expires, or its venue changes hands.
Change(r, s) ==
    /\ r \in stored /\ s # state[r] /\ moves < MaxMoves
    /\ state' = [state EXCEPT ![r] = s]
    /\ moves' = moves + 1
    /\ steady' = IF s \in asked THEN steady ELSE steady \ {r}
    /\ quiet' = FALSE
    /\ UNCHANGED <<clock, stored, createdAt, asked, page, cursor, seen>>

----------------------------------------------------------------------------
Matching(filter) == {r \in stored : state[r] \in filter}

\* A definition marked "Regression" is not part of the specification: it is a
\* bug of the kind the properties are there for, kept to show that they see it.

\* Regression: a cursor built from a JavaScript Date, which keeps milliseconds
\* (of two microseconds here).
CursorOfDate(r) == [at |-> createdAt[r] - (createdAt[r] % 2), id |-> r]

\* CURSOR_AT: createdAt to the microsecond, as it is stored.
CursorOf(r) == [at |-> createdAt[r], id |-> r]

Key(r) == [at |-> createdAt[r], id |-> r]

\* The row comparison of SQL, (a.at, a.id) < (b.at, b.id).
Less(a, b) == a.at < b.at \/ (a.at = b.at /\ a.id < b.id)

\* The rows the statement's WHERE leaves.
Below(c, filter) == {r \in Matching(filter) : c = NoCursor \/ Less(Key(r), c)}

\* ORDER BY createdAt DESC, id DESC LIMIT n.
Newest(rows, n) == {r \in rows : Cardinality({q \in rows : Less(Key(r), Key(q))}) < n}

Last(rows) == CHOOSE r \in rows : \A q \in rows : ~Less(Key(q), Key(r))

\* Regression: a cursor for every full page.
NextCursorOfFull(rows, shown, limit) ==
    IF Cardinality(rows) >= limit THEN CursorOf(Last(shown)) ELSE NoCursor

\* toPage: there is a next page if there is a row more than the page holds.
NextCursor(rows, shown, limit) ==
    IF Cardinality(rows) > limit THEN CursorOf(Last(shown)) ELSE NoCursor

Read(c, filter, limit) ==
    LET rows  == Newest(Below(c, filter), limit + 1)
        shown == Newest(rows, limit)
    IN  /\ page' = shown
        /\ cursor' = NextCursor(rows, shown, limit)
        /\ quiet' = TRUE

FirstPage(filter, limit) ==
    /\ asked = {}
    /\ asked' = filter
    /\ Read(NoCursor, filter, limit)
    /\ steady' = Matching(filter)
    /\ UNCHANGED <<table, seen>>

\* The same filters with the cursor of the page before; the limit may differ.
NextPage(limit) ==
    /\ cursor # NoCursor
    /\ seen' = seen \cup page
    /\ Read(cursor, asked, limit)
    /\ UNCHANGED <<table, asked, steady>>

Filters == (SUBSET States) \ {{}}

Next ==
    \/ Tick
    \/ \E r \in Rows, at \in 0 .. MaxTime : Insert(r, at)
    \/ \E r \in Rows, s \in States : Change(r, s)
    \/ \E filter \in Filters, limit \in 1 .. PageMax : FirstPage(filter, limit)
    \/ \E limit \in 1 .. PageMax : NextPage(limit)

Spec == Init /\ [][Next]_vars

----------------------------------------------------------------------------
\* Every variable keeps its type; a cursor is the key of a row.
TypeOK ==
    /\ clock \in 0 .. MaxTime
    /\ stored \subseteq Rows
    /\ createdAt \in [Rows -> 0 .. MaxTime]
    /\ state \in [Rows -> States]
    /\ moves \in 0 .. MaxMoves
    /\ asked \subseteq States
    /\ page \subseteq stored /\ seen \subseteq stored
    /\ steady \subseteq stored /\ quiet \in BOOLEAN
    /\ cursor = NoCursor \/ cursor \in {Key(r) : r \in stored}

\* No row is on two pages of a list, and each page goes on where the one before
\* ended, however rows come and change between the pages: the comment of
\* keyset-page.ts says that new rows never shift a page already read.  And if no
\* row changed its state since the page was read, its cursor leads to some more:
\* no client is sent to a blank last page.
PagesGoDown ==
    /\ \A r \in page, q \in seen : Less(Key(r), Key(q))
    /\ cursor # NoCursor /\ quiet => Below(cursor, asked) # {}

\* A row that matched from the first page on is not skipped: once the client has
\* a page that reaches below it, the row is on that page or on one before.  The
\* last page, the one without a cursor, reaches below everything.
NothingSkipped ==
    asked # {} =>
        \A r \in steady : (cursor = NoCursor \/ ~Less(Key(r), cursor)) => r \in page \cup seen

=============================================================================
