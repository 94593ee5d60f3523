------------------------------- MODULE PagesProofs -----------------------------
(***************************************************************************)
(* Theorems about Pages for any rows, filters, page sizes and clocks.  Rows *)
(* are in a strict order by their keys, so the newest few of them are those *)
(* above the rest, and a cursor splits what matches in two.                *)
(***************************************************************************)
EXTENDS Pages, FiniteSetTheorems, TLAPS

\* The rows of a set that come before r on the pages.
Above(S, r) == {q \in S : Less(Key(r), Key(q))}

\* A step from a set of rows to the rows at its top.
IsTop(T, S) == T \subseteq S /\ \A r \in T : Above(S, r) \subseteq T

Committed == stored \subseteq Rows /\ createdAt \in [Rows -> Nat] /\ IsFiniteSet(stored)

-------------------------------------------------------------------------------
(* The order of the rows.                                                    *)

LEMMA KeysOrder ==
  ASSUME Committed, NEW r \in stored, NEW q \in stored
  PROVE  /\ ~Less(Key(r), Key(r))
         /\ r # q => Less(Key(r), Key(q)) \/ Less(Key(q), Key(r))
         /\ ~(Less(Key(r), Key(q)) /\ Less(Key(q), Key(r)))
         /\ \A p \in stored : Less(Key(r), Key(q)) /\ Less(Key(q), Key(p)) => Less(Key(r), Key(p))
<1>1. stored \subseteq Nat /\ \A p \in stored : createdAt[p] \in Nat
  BY ConstantsAssumption DEF Committed
<1> QED
  BY <1>1 DEF Less, Key

LEMMA SmallestPart ==
  ASSUME NEW S, IsFiniteSet(S), NEW C, C \subseteq SUBSET S, C # {}
  PROVE  \E T \in C : \A U \in C : U \subseteq T => U = T
<1>1. IsWellFoundedOn(StrictSubsetOrdering(S), SUBSET S)
  BY FS_FiniteSubsetsOfFinite, FS_StrictSubsetOrderingWellFounded
<1>2. \E T \in C : \A U \in C : ~ (<<U, T>> \in StrictSubsetOrdering(S))
  BY <1>1, WFMin
<1> QED
  BY <1>2 DEF StrictSubsetOrdering

LEMMA AboveIsFinite ==
  ASSUME Committed, NEW S \in SUBSET stored, NEW r \in S
  PROVE  /\ IsFiniteSet(S) /\ IsFiniteSet(Above(S, r)) /\ r \notin Above(S, r)
         /\ Above(S, r) \in SUBSET S /\ Cardinality(Above(S, r)) \in Nat
<1>1. IsFiniteSet(S)
  BY FS_Subset DEF Committed
<1>2. Above(S, r) \in SUBSET S /\ r \notin Above(S, r)
  BY KeysOrder DEF Above
<1> QED
  BY <1>1, <1>2, FS_Subset, FS_CardinalityType

\* Any set of rows has one that none of them comes before.
LEMMA FirstOfSome ==
  ASSUME Committed, NEW S \in SUBSET stored, S # {}
  PROVE  \E r \in S : Above(S, r) = {}
<1> DEFINE C == {Above(S, r) : r \in S}
<1>1. C \subseteq SUBSET S /\ C # {} /\ IsFiniteSet(S)
  BY AboveIsFinite
<1>2. PICK T \in C : \A U \in C : U \subseteq T => U = T
  <2> HIDE DEF C
  <2> QED
    BY <1>1, SmallestPart
<1>3. PICK r \in S : T = Above(S, r)
  BY <1>2
<1>4. ASSUME NEW q \in Above(S, r) PROVE FALSE
  <2>1. q \in S /\ Above(S, q) \subseteq Above(S, r)
    BY KeysOrder DEF Above
  <2>2. Above(S, q) = Above(S, r)
    BY <1>2, <1>3, <2>1
  <2> QED
    BY <2>1, <2>2, AboveIsFinite
<1> QED
  BY <1>4

\* And one that comes before none.
LEMMA LastOfSome ==
  ASSUME Committed, NEW S \in SUBSET stored, S # {}
  PROVE  Last(S) \in S /\ \A q \in S : q = Last(S) \/ Less(Key(Last(S)), Key(q))
<1> DEFINE Under(r) == {q \in S : Less(Key(q), Key(r))}
           C == {Under(r) : r \in S}
<1>1. C \subseteq SUBSET S /\ C # {} /\ IsFiniteSet(S)
  <2>1. IsFiniteSet(S)
    BY FS_Subset DEF Committed
  <2> QED
    BY <2>1
<1>2. PICK T \in C : \A U \in C : U \subseteq T => U = T
  <2> HIDE DEF C
  <2> QED
    BY <1>1, SmallestPart
<1>3. PICK r \in S : T = Under(r)
  BY <1>2
<1>4. ASSUME NEW q \in Under(r) PROVE FALSE
  <2>1. q \in S /\ Under(q) \subseteq Under(r) /\ q \notin Under(q)
    BY KeysOrder
  <2>2. Under(q) = Under(r)
    BY <1>2, <1>3, <2>1
  <2> QED
    BY <2>1, <2>2
<1>5. \E p \in S : \A q \in S : ~Less(Key(q), Key(p))
  BY <1>4
<1>6. Last(S) \in S /\ \A q \in S : ~Less(Key(q), Key(Last(S)))
  BY <1>5 DEF Last
<1> QED
  BY <1>6, KeysOrder

-------------------------------------------------------------------------------
(* What ORDER BY ... LIMIT n leaves.                                         *)

LEMMA NewestIs ==
  ASSUME NEW S, NEW n
  PROVE  Newest(S, n) = {r \in S : Cardinality(Above(S, r)) < n}
BY DEF Newest, Above

\* The newest are at the top.
LEMMA NewestAtTop ==
  ASSUME Committed, NEW S \in SUBSET stored, NEW n \in Nat
  PROVE  IsTop(Newest(S, n), S)
<1>1. ASSUME NEW r \in Newest(S, n), NEW q \in Above(S, r) PROVE q \in Newest(S, n)
  <2>1. r \in S /\ q \in S /\ Cardinality(Above(S, r)) < n
    BY <1>1, NewestIs DEF Above
  <2>2. Above(S, q) \in SUBSET Above(S, r)
    BY <1>1, <2>1, KeysOrder DEF Above
  <2>3. Cardinality(Above(S, q)) <= Cardinality(Above(S, r))
    BY <2>1, <2>2, AboveIsFinite, FS_Subset
  <2>4. Cardinality(Above(S, q)) < n
    BY <2>1, <2>3, AboveIsFinite
  <2> QED
    BY <2>1, <2>4, NewestIs
<1>2. Newest(S, n) \subseteq S
  BY NewestIs
<1> QED
  BY <1>1, <1>2 DEF IsTop

LEMMA TopOfTop ==
  ASSUME NEW S, NEW T, NEW U, IsTop(T, S), IsTop(U, T)
  PROVE  IsTop(U, S)
BY DEF IsTop, Above

\* There are n of them or all, and one unless n is 0.
LEMMA NewestCount ==
  ASSUME Committed, NEW S \in SUBSET stored, NEW n \in Nat \ {0}
  PROVE  /\ IsFiniteSet(Newest(S, n)) /\ Cardinality(Newest(S, n)) \in 0..n
         /\ Newest(S, n) # S => Cardinality(Newest(S, n)) = n
         /\ S # {} => Newest(S, n) # {}
<1> DEFINE N == Newest(S, n)
<1>1. IsTop(N, S) /\ N \in SUBSET stored /\ IsFiniteSet(S) /\ IsFiniteSet(stored)
  BY NewestAtTop, FS_Subset DEF IsTop, Committed
<1>2. IsFiniteSet(N) /\ Cardinality(N) \in Nat
  BY <1>1, FS_Subset, FS_CardinalityType
<1>3. Cardinality(N) <= n
  <2>1. CASE N = {}
    BY <2>1, FS_EmptySet
  <2>2. CASE N # {}
    <3> DEFINE r == Last(N)
               A == Above(S, r)
    <3>1. r \in N /\ \A q \in N : q = r \/ Less(Key(r), Key(q))
      BY <1>1, <2>2, LastOfSome
    <3>2. r \in S /\ Cardinality(A) < n
      BY <3>1, NewestIs
    <3>3. N \in SUBSET (A \cup {r})
      BY <1>1, <3>1 DEF Above, IsTop
    <3>4. IsFiniteSet(A) /\ Cardinality(A) \in Nat /\ r \notin A
      BY <3>2, AboveIsFinite
    <3> HIDE DEF A, r, N
    <3>5. IsFiniteSet(A \cup {r}) /\ Cardinality(A \cup {r}) = Cardinality(A) + 1
      BY <3>4, FS_AddElement
    <3>6. Cardinality(N) <= Cardinality(A \cup {r})
      BY <3>3, <3>5, FS_Subset
    <3> QED
      BY <1>2, <3>2, <3>4, <3>5, <3>6
  <2> QED
    BY <2>1, <2>2
<1>4. ASSUME N # S PROVE Cardinality(N) >= n
  <2>1. S \ N # {} /\ S \ N \in SUBSET stored
    BY <1>1, <1>4 DEF IsTop
  <2>2. PICK r \in S \ N : Above(S \ N, r) = {}
    BY <2>1, FirstOfSome
  <2>3. Cardinality(Above(S, r)) \in Nat /\ ~(Cardinality(Above(S, r)) < n)
    BY <2>2, NewestIs, AboveIsFinite
  <2>4. Above(S, r) \in SUBSET N
    BY <2>2 DEF Above
  <2>5. Cardinality(Above(S, r)) <= Cardinality(N)
    BY <1>2, <2>4, FS_Subset
  <2> QED
    BY <1>2, <2>3, <2>5
<1>5. ASSUME S # {} PROVE N # {}
  <2>1. PICK r \in S : Above(S, r) = {}
    BY <1>5, FirstOfSome
  <2>2. Cardinality(Above(S, r)) = 0
    BY <2>1, FS_EmptySet
  <2> QED
    BY <2>1, <2>2, NewestIs
<1> QED
  BY <1>2, <1>3, <1>4, <1>5

-------------------------------------------------------------------------------
(* A page and its cursor, of the rows below the cursor before.               *)

\* A page that ends a list is all there is; another one's cursor is its last row,
\* with all that is left below it, which is something.
IsPage(rows, shown, next) ==
  /\ shown \subseteq rows
  /\ next = NoCursor => shown = rows
  /\ next # NoCursor =>
       /\ \E r \in shown : next = Key(r) /\ \A q \in shown : q = r \/ Less(next, Key(q))
       /\ \A q \in rows \ shown : Less(Key(q), next)
       /\ rows \ shown # {}

LEMMA KeyIsCursor == ASSUME Committed, NEW r \in stored PROVE Key(r) # NoCursor
BY DEF Committed, Key, NoCursor

LEMMA PageIsPage ==
  ASSUME Committed, NEW B \in SUBSET stored, NEW limit \in Nat \ {0}
  PROVE  LET rows  == Newest(B, limit + 1)
             shown == Newest(rows, limit)
         IN  IsPage(B, shown, NextCursor(rows, shown, limit))
<1> DEFINE rows == Newest(B, limit + 1)
           shown == Newest(rows, limit)
           next == NextCursor(rows, shown, limit)
<1>1. /\ IsTop(rows, B) /\ rows \in SUBSET stored /\ IsFiniteSet(rows)
      /\ Cardinality(rows) \in Nat /\ (rows # B => Cardinality(rows) = limit + 1)
  <2>1. limit + 1 \in Nat \ {0} /\ limit + 1 \in Nat
    OBVIOUS
  <2>2. IsTop(rows, B)
    BY <2>1, NewestAtTop
  <2>3. /\ IsFiniteSet(rows) /\ Cardinality(rows) \in 0..(limit + 1)
        /\ rows # B => Cardinality(rows) = limit + 1
    BY <2>1, NewestCount
  <2>4. rows \in SUBSET stored
    BY <2>2 DEF IsTop
  <2> QED
    BY <2>1, <2>2, <2>3, <2>4
<1>2. /\ IsTop(shown, rows) /\ shown \in SUBSET stored /\ IsFiniteSet(shown)
      /\ Cardinality(shown) \in 0..limit /\ (shown # rows => Cardinality(shown) = limit)
      /\ rows # {} => shown # {}
  <2> HIDE DEF rows
  <2> QED
    BY <1>1, NewestAtTop, NewestCount DEF IsTop
<1>3. next = IF Cardinality(rows) > limit THEN Key(Last(shown)) ELSE NoCursor
  BY DEF NextCursor, CursorOf, Key
<1> HIDE DEF rows, shown, next
<1> SUFFICES IsPage(B, shown, next)
  BY DEF next, shown, rows
<1>4. IsTop(shown, B)
  BY <1>1, <1>2, TopOfTop
<1>5. CASE Cardinality(rows) > limit
  <2>1. shown # rows
    BY <1>1, <1>2, <1>5
  <2>2. rows # {}
    BY <1>5, FS_EmptySet
  <2>3. Last(shown) \in shown /\ \A q \in shown : q = Last(shown) \/ Less(Key(Last(shown)), Key(q))
    BY <1>2, <2>2, LastOfSome
  <2>4. next = Key(Last(shown)) /\ next # NoCursor
    BY <1>2, <1>3, <1>5, <2>3, KeyIsCursor
  <2>5. ASSUME NEW q \in B \ shown PROVE Less(Key(q), next)
    <3>1. Last(shown) # q /\ q \in stored /\ Last(shown) \in stored
      BY <1>2, <2>3
    <3>2. ~Less(Key(Last(shown)), Key(q))
      BY <1>4, <2>3 DEF IsTop, Above
    <3> QED
      BY <2>4, <3>1, <3>2, KeysOrder
  <2>6. B \ shown # {}
    BY <1>1, <1>2, <2>1 DEF IsTop
  <2>7. shown \subseteq B
    BY <1>4 DEF IsTop
  <2>8. \E r \in shown : next = Key(r) /\ \A q \in shown : q = r \/ Less(next, Key(q))
    BY <2>3, <2>4
  <2> QED
    BY <2>4, <2>5, <2>6, <2>7, <2>8 DEF IsPage
<1>6. CASE ~(Cardinality(rows) > limit)
  <2>1. rows = B
    BY <1>1, <1>6
  <2>2. shown = rows
    <3>1. SUFFICES ASSUME shown # rows PROVE FALSE
      OBVIOUS
    <3>2. Cardinality(shown) = limit /\ Cardinality(rows) <= limit
      BY <1>1, <1>2, <1>6, <3>1
    <3>3. shown \in SUBSET rows
      BY <1>2 DEF IsTop
    <3>4. Cardinality(shown) <= Cardinality(rows)
      BY <1>1, <3>3, FS_Subset
    <3>5. Cardinality(shown) = Cardinality(rows)
      BY <1>1, <3>2, <3>4
    <3> QED
      BY <1>1, <3>1, <3>3, <3>5, FS_Subset
  <2>3. next = NoCursor /\ shown = B
    BY <1>3, <1>6, <2>1, <2>2
  <2> QED
    BY <2>3 DEF IsPage
<1> QED
  BY <1>5, <1>6

-------------------------------------------------------------------------------
(* The invariant.                                                            *)

\* The client's cursor is the last row of its page; all rows that matched since the
\* first page and are not below it were shown.
List ==
  /\ steady \subseteq Matching(asked)
  /\ asked = {} => page = {} /\ seen = {} /\ cursor = NoCursor /\ steady = {}
  /\ \A r \in page, q \in seen : Less(Key(r), Key(q))
  /\ cursor # NoCursor =>
       \E r \in page : cursor = Key(r) /\ \A q \in page : q = r \/ Less(cursor, Key(q))
  /\ asked # {} =>
       \A r \in steady : cursor = NoCursor \/ ~Less(Key(r), cursor) => r \in page \cup seen
  /\ cursor # NoCursor /\ quiet => Below(cursor, asked) # {}

Inv == TypeOK /\ IsFiniteSet(stored) /\ List

LEMMA InvCommitted == Inv => Committed
BY ConstantsAssumption DEF Inv, TypeOK, Committed

LEMMA InvInit == Init => Inv
<1> SUFFICES ASSUME Init PROVE Inv
  OBVIOUS
<1>1. TypeOK
  BY ConstantsAssumption DEF Init, TypeOK
<1>2. List
  BY DEF Init, List
<1> QED
  BY <1>1, <1>2, FS_EmptySet DEF Inv, Init

\* Time goes by.
LEMMA TickKeeps == ASSUME Inv, Tick PROVE Inv'
<1>1. clock' \in 0..MaxTime /\ UNCHANGED <<stored, createdAt, state, moves, list>>
  BY ConstantsAssumption DEF Tick, Inv, TypeOK
<1>2. TypeOK'
  BY <1>1 DEF Inv, TypeOK, list, Key
<1>3. List'
  BY <1>1 DEF Inv, List, list, Matching, Below, Key
<1> QED
  BY <1>1, <1>2, <1>3 DEF Inv

\* A new row matches or not, above the cursor or below it: the keys of the others,
\* and their states, are what they were.
LEMMA InsertKeeps ==
  ASSUME Inv, NEW r \in Rows, NEW at \in 0..MaxTime, Insert(r, at)
  PROVE  Inv'
<1>1. /\ r \notin stored /\ stored' = stored \cup {r}
      /\ createdAt' = [createdAt EXCEPT ![r] = at]
      /\ UNCHANGED <<clock, state, moves, list>>
  BY DEF Insert
<1>2. \A q \in stored : Key(q)' = Key(q)
  BY <1>1 DEF Key, Inv, TypeOK
<1>4. cursor # NoCursor => cursor \in {Key(q)' : q \in stored}
  BY <1>2 DEF Inv, TypeOK
<1>5. TypeOK'
  <2>1. cursor' = NoCursor \/ cursor' \in {Key(q) : q \in stored}'
    BY <1>1, <1>4 DEF list
  <2>2. createdAt' \in [Rows -> 0..MaxTime] /\ stored' \subseteq Rows
    BY <1>1 DEF Inv, TypeOK
  <2> QED
    BY <1>1, <2>1, <2>2 DEF Inv, TypeOK, list
<1>6. IsFiniteSet(stored)'
  BY <1>1, FS_AddElement DEF Inv
<1>7. List'
  <2>1. page \subseteq stored /\ seen \subseteq stored /\ steady \subseteq stored
    BY DEF Inv, TypeOK
  <2>2. steady' \subseteq Matching(asked)'
    BY <1>1 DEF Inv, List, Matching, list
  <2>3. \A p \in page, q \in seen : Less(Key(p)', Key(q)')
    BY <1>2, <2>1 DEF Inv, List
  <2>4. cursor # NoCursor =>
          \E p \in page : cursor = Key(p)' /\ \A q \in page : q = p \/ Less(cursor, Key(q)')
    BY <1>2, <2>1 DEF Inv, List
  <2>5. asked # {} =>
          \A p \in steady : cursor = NoCursor \/ ~Less(Key(p)', cursor) => p \in page \cup seen
    BY <1>2, <2>1 DEF Inv, List
  <2>6. cursor # NoCursor /\ quiet => Below(cursor, asked)' # {}
    <3>2. UNCHANGED <<cursor, asked>>
      BY <1>1 DEF list
    <3>3. Below(cursor, asked) \subseteq Below(cursor, asked)'
      BY <1>1, <1>2, <3>2 DEF Below, Matching
    <3> QED
      BY <3>3 DEF Inv, List
  <2>7. asked = {} => page = {} /\ seen = {} /\ cursor = NoCursor /\ steady = {}
    BY DEF Inv, List
  <2> QED
    BY <1>1, <2>2, <2>3, <2>4, <2>5, <2>6, <2>7 DEF List, list
<1> QED
  BY <1>5, <1>6, <1>7 DEF Inv

\* A change moves no key; a row that no longer matches is no longer steady.
LEMMA ChangeKeeps ==
  ASSUME Inv, NEW r \in Rows, NEW s \in States, Change(r, s)
  PROVE  Inv'
<1>1. /\ state' = [state EXCEPT ![r] = s] /\ moves' \in 0..MaxMoves /\ quiet' = FALSE
      /\ steady' = (IF s \in asked THEN steady ELSE steady \ {r})
      /\ UNCHANGED <<clock, stored, createdAt, asked, page, cursor, seen>>
  BY ConstantsAssumption DEF Change, Inv, TypeOK
<1>2. state' \in [Rows -> States]
  BY <1>1 DEF Inv, TypeOK
<1>3. steady' \subseteq steady
  BY <1>1
<1>4. TypeOK'
  BY <1>1, <1>2, <1>3 DEF Inv, TypeOK, Key
<1>5. steady' \subseteq Matching(asked)'
  BY <1>1, <1>3 DEF Inv, TypeOK, List, Matching
<1>6. List'
  BY <1>1, <1>3, <1>5 DEF Inv, List, Key
<1> QED
  BY <1>1, <1>4, <1>6 DEF Inv

\* What a statement finds is the page of the rows its WHERE leaves.
LEMMA ReadIsPage ==
  ASSUME Inv, NEW c, NEW filter, NEW limit \in Nat \ {0}, Read(c, filter, limit)
  PROVE  IsPage(Below(c, filter), page', cursor') /\ quiet'
<1>1. Committed /\ Below(c, filter) \in SUBSET stored
  BY InvCommitted DEF Below, Matching
<1>2. LET rows  == Newest(Below(c, filter), limit + 1)
          shown == Newest(rows, limit)
      IN  IsPage(Below(c, filter), shown, NextCursor(rows, shown, limit))
  BY <1>1, PageIsPage
<1> QED
  BY <1>2 DEF Read

\* The first page, of all that matches.
LEMMA FirstPageKeeps ==
  ASSUME Inv, NEW filter \in Filters, NEW limit \in 1..PageMax, FirstPage(filter, limit)
  PROVE  Inv'
<1>1. /\ asked = {} /\ asked' = filter /\ Read(NoCursor, filter, limit)
      /\ steady' = Matching(filter) /\ UNCHANGED <<table, seen>>
  BY DEF FirstPage
<1>2. IsPage(Below(NoCursor, filter), page', cursor') /\ quiet' = TRUE
  <2>1. limit \in Nat \ {0}
    BY ConstantsAssumption
  <2> QED
    BY <1>1, <2>1, ReadIsPage DEF Read
<1>3. Below(NoCursor, filter) = Matching(filter) /\ Matching(filter) \subseteq stored
  BY DEF Below, Matching
<1>4. UNCHANGED <<clock, stored, createdAt, state, moves, seen>>
  BY <1>1 DEF table
<1>5. Matching(filter)' = Matching(filter) /\ \A p : Key(p)' = Key(p)
  BY <1>4 DEF Matching, Key
<1>6. cursor' # NoCursor =>
        \E p \in page' : cursor' = Key(p) /\ \A q \in page' : q = p \/ Less(cursor', Key(q))
  BY <1>2 DEF IsPage
<1>7. \A p \in Matching(filter) :
        cursor' = NoCursor \/ ~Less(Key(p), cursor') => p \in page'
  BY <1>2, <1>3 DEF IsPage
<1>8. cursor' # NoCursor => \E p \in Matching(filter) : Less(Key(p), cursor')
  BY <1>2, <1>3 DEF IsPage
<1>9. page' \subseteq stored /\ seen = {} /\ filter \subseteq States /\ filter # {}
  <2>1. page' \subseteq stored
    BY <1>2, <1>3 DEF IsPage
  <2>2. seen = {}
    BY <1>1 DEF Inv, List
  <2>3. filter \subseteq States /\ filter # {}
    BY DEF Filters
  <2> QED
    BY <2>1, <2>2, <2>3
<1>10. TypeOK'
  <2>1. cursor' = NoCursor \/ cursor' \in {Key(p) : p \in stored}
    BY <1>6, <1>9
  <2> QED
    BY <1>1, <1>2, <1>3, <1>4, <1>9, <2>1 DEF Inv, TypeOK, Key
<1>11. List'
  <2>1. steady' \subseteq Matching(asked)'
    BY <1>1, <1>5
  <2>2. \A p \in page', q \in seen' : Less(Key(p)', Key(q)')
    BY <1>4, <1>9
  <2>3. cursor' # NoCursor =>
          \E p \in page' : cursor' = Key(p)' /\ \A q \in page' : q = p \/ Less(cursor', Key(q)')
    BY <1>5, <1>6
  <2>4. \A p \in steady' : cursor' = NoCursor \/ ~Less(Key(p)', cursor') => p \in page' \cup seen'
    BY <1>1, <1>5, <1>7
  <2>5. cursor' # NoCursor => Below(cursor, asked)' # {}
    BY <1>1, <1>5, <1>8 DEF Below
  <2> QED
    BY <1>1, <1>9, <2>1, <2>2, <2>3, <2>4, <2>5 DEF List
<1> QED
  BY <1>4, <1>10, <1>11 DEF Inv

\* The next page, of all that matches below the cursor.
LEMMA NextPageKeeps ==
  ASSUME Inv, NEW limit \in 1..PageMax, NextPage(limit)
  PROVE  Inv'
<1> DEFINE B == Below(cursor, asked)
<1>1. /\ cursor # NoCursor /\ seen' = seen \cup page /\ Read(cursor, asked, limit)
      /\ UNCHANGED <<clock, stored, createdAt, state, moves, asked, steady>>
  BY DEF NextPage, table
<1>2. IsPage(B, page', cursor') /\ quiet' = TRUE
  <2>1. limit \in Nat \ {0}
    BY ConstantsAssumption
  <2> QED
    BY <1>1, <2>1, ReadIsPage DEF Read
<1>3. \A p \in Matching(asked) : p \in stored /\ (p \in B <=> Less(Key(p), cursor))
  BY <1>1 DEF Below, Matching
<1>4. B \subseteq Matching(asked) /\ B \subseteq stored
  BY DEF Below, Matching
<1>5. Matching(asked)' = Matching(asked) /\ \A p : Key(p)' = Key(p)
  BY <1>1 DEF Matching, Key
<1>6. \A p \in B : Less(Key(p), cursor)
  BY <1>3, <1>4
<1> HIDE DEF B
<1>7. cursor' # NoCursor =>
        \E p \in page' : cursor' = Key(p) /\ \A q \in page' : q = p \/ Less(cursor', Key(q))
  BY <1>2 DEF IsPage
<1>8. page' \subseteq B /\ page' \subseteq stored
  BY <1>2, <1>4 DEF IsPage
<1>9. \A p \in B, q \in page \cup seen : Less(Key(p), Key(q))
  <2>1. PICK last \in page : cursor = Key(last) /\ \A q \in page : q = last \/ Less(cursor, Key(q))
    BY <1>1 DEF Inv, List
  <2>2. \A q \in page \cup seen : q = last \/ Less(Key(last), Key(q))
    BY <2>1 DEF Inv, List
  <2>3. Committed /\ page \cup seen \subseteq stored /\ last \in stored
    BY <2>1, InvCommitted DEF Inv, TypeOK
  <2>4. \A p \in B : p \in stored /\ Less(Key(p), Key(last))
    BY <1>4, <1>6, <2>1
  <2> QED
    BY <2>2, <2>3, <2>4, KeysOrder
<1>10. \A p \in steady :
         cursor' = NoCursor \/ ~Less(Key(p), cursor') => p \in page' \cup (seen \cup page)
  <2> SUFFICES ASSUME NEW p \in steady, cursor' = NoCursor \/ ~Less(Key(p), cursor'),
                      p \notin seen \cup page
               PROVE  p \in page'
    OBVIOUS
  <2>1. asked # {} /\ p \in Matching(asked)
    BY <1>1 DEF Inv, List
  <2>2. Less(Key(p), cursor)
    BY <1>1, <2>1 DEF Inv, List
  <2>3. p \in B
    BY <1>3, <2>1, <2>2
  <2> QED
    BY <1>2, <2>3 DEF IsPage
<1>11. cursor' # NoCursor => \E p \in Matching(asked) : Less(Key(p), cursor')
  BY <1>2, <1>4 DEF IsPage
<1>12. TypeOK'
  <2>1. cursor' = NoCursor \/ cursor' \in {Key(p) : p \in stored}
    BY <1>7, <1>8
  <2> QED
    BY <1>1, <1>2, <1>8, <2>1 DEF Inv, TypeOK, Key
<1>13. List'
  <2>1. steady' \subseteq Matching(asked)'
    BY <1>1, <1>5 DEF Inv, List
  <2>2. \A p \in page', q \in seen' : Less(Key(p)', Key(q)')
    BY <1>1, <1>5, <1>8, <1>9
  <2>3. cursor' # NoCursor =>
          \E p \in page' : cursor' = Key(p)' /\ \A q \in page' : q = p \/ Less(cursor', Key(q)')
    BY <1>5, <1>7
  <2>4. \A p \in steady' : cursor' = NoCursor \/ ~Less(Key(p)', cursor') => p \in page' \cup seen'
    BY <1>1, <1>5, <1>10
  <2>5. cursor' # NoCursor => Below(cursor, asked)' # {}
    BY <1>1, <1>5, <1>11 DEF Below
  <2>6. asked' # {}
    BY <1>1 DEF Inv, List
  <2> QED
    BY <2>1, <2>2, <2>3, <2>4, <2>5, <2>6 DEF List
<1> QED
  BY <1>1, <1>12, <1>13 DEF Inv

LEMMA InvNext == Inv /\ [Next]_vars => Inv'
<1> SUFFICES ASSUME Inv, [Next]_vars PROVE Inv'
  OBVIOUS
<1>1. CASE Tick
  BY <1>1, TickKeeps
<1>2. ASSUME NEW r \in Rows, NEW at \in 0..MaxTime, Insert(r, at) PROVE Inv'
  BY <1>2, InsertKeeps
<1>3. ASSUME NEW r \in Rows, NEW s \in States, Change(r, s) PROVE Inv'
  BY <1>3, ChangeKeeps
<1>4. ASSUME NEW filter \in Filters, NEW limit \in 1..PageMax, FirstPage(filter, limit) PROVE Inv'
  BY <1>4, FirstPageKeeps
<1>5. ASSUME NEW limit \in 1..PageMax, NextPage(limit) PROVE Inv'
  BY <1>5, NextPageKeeps
<1>6. CASE UNCHANGED vars
  BY <1>6 DEF vars, table, list, Inv, TypeOK, List, Matching, Below, Key
<1> QED
  BY <1>1, <1>2, <1>3, <1>4, <1>5, <1>6 DEF Next

LEMMA InvHolds == Spec => []Inv
<1> QED
  BY InvInit, InvNext, PTL DEF Spec

-------------------------------------------------------------------------------
(* The theorems.                                                             *)

\* The types: what a client holds is made of rows there are, and its cursor is the
\* key of one, for any ids, clock and age of a transaction.
THEOREM PageTypesHold == Spec => []TypeOK
<1>1. Inv => TypeOK
  BY DEF Inv
<1> QED
  BY <1>1, InvHolds, PTL

\* No row is on two pages and no page goes above the one before (keyset-page.ts:
\* the cursor condition and toPage), whatever comes and changes in between; and no
\* cursor leads to a blank page while nothing changes.
THEOREM PagesGoDownHolds == Spec => []PagesGoDown
<1>1. Inv => PagesGoDown
  BY DEF Inv, List, PagesGoDown
<1> QED
  BY <1>1, InvHolds, PTL

\* A row that matched from the first page on is shown once the pages reach below
\* it (keyset-page.ts), for any page sizes, even when they differ.
THEOREM NothingSkippedHolds == Spec => []NothingSkipped
<1>1. Inv => NothingSkipped
  BY DEF Inv, List, NothingSkipped
<1> QED
  BY <1>1, InvHolds, PTL

===============================================================================
