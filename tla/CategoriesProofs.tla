--------------------------- MODULE CategoriesProofs ----------------------------
(***************************************************************************)
(* Theorems about Categories for any number of categories and requests and *)
(* any orders asked for: a reorder writes the rows it has found, because   *)
(* it holds the lock of each of them until it commits.                     *)
(***************************************************************************)
EXTENDS Categories, FiniteSetTheorems, SequenceTheorems, TLAPS

Stages == {"idle", "insert", "reread", "save", "delete", "update", "done"}

Forms ==
  [pc : Stages, id : Ids \cup {None}, ids : Seq(Ids), at : Nat \ {0}, found : SUBSET Ids,
   seen : Nat \cup {None}, row : Nat \cup {None}]

\* Requests work on ids that were handed out, and lock no others; there are finitely
\* many of them.
Types ==
  /\ request \in [Requests -> Forms]
  /\ lock \in [Ids -> Requests \cup {None}]
  /\ order \in [Ids -> Nat \cup {None}]
  /\ DOMAIN last \subseteq Ids /\ Range(last) \subseteq Nat
  /\ faults \in 0..MaxFaults
  /\ Existing \subseteq used /\ used \subseteq Ids /\ IsFiniteSet(used)
  /\ \A r \in Requests : request[r].pc \in {"insert", "reread", "save", "delete"} =>
                           request[r].id \in used
  /\ \A c \in Ids : lock[c] # None => c \in used

\* A reorder has locked each row it found, of those it asked for, and no other
\* request holds a row.
Locks ==
  \A r \in Requests :
    /\ request[r].found \subseteq Held(r) /\ Held(r) \subseteq Range(request[r].ids)
    /\ request[r].pc # "update" => Held(r) = {}

Inv == Types /\ Locks /\ ListIsAsAsked

-------------------------------------------------------------------------------
(* Finite sets of numbers have a greatest and a least member.                *)

LEMMA SmallestPart ==
  ASSUME NEW S, IsFiniteSet(S), NEW C, C \subseteq SUBSET S, C # {}
  PROVE  \E T \in C : \A U \in C : U \subseteq T => U = T
<1>1. IsWellFoundedOn(StrictSubsetOrdering(S), SUBSET S)
  BY FS_FiniteSubsetsOfFinite, FS_StrictSubsetOrderingWellFounded
<1>2. \E T \in C : \A U \in C : ~ (<<U, T>> \in StrictSubsetOrdering(S))
  BY <1>1, WFMin
<1> QED
  BY <1>2 DEF StrictSubsetOrdering

\* Of finitely many parts of a set, one has no other inside.
LEMMA SmallestOfParts ==
  ASSUME NEW S, IsFiniteSet(S), S # {}, NEW f, \A x \in S : f[x] \in SUBSET S
  PROVE  \E x \in S : \A y \in S : f[y] \subseteq f[x] => f[y] = f[x]
<1> DEFINE C == {f[x] : x \in S}
<1>1. C \subseteq SUBSET S /\ C # {}
  OBVIOUS
<1>2. PICK T \in C : \A U \in C : U \subseteq T => U = T
  <2> HIDE DEF C
  <2> QED
    BY <1>1, SmallestPart
<1> QED
  BY <1>2

LEMMA GreatestMember ==
  ASSUME NEW S, \A x \in S : x \in Int, IsFiniteSet(S), S # {}
  PROVE  \E x \in S : \A y \in S : x >= y
<1> DEFINE up == [x \in S |-> {y \in S : y > x}]
<1>1. \A x \in S : up[x] \in SUBSET S
  OBVIOUS
<1>2. PICK x \in S : \A y \in S : up[y] \subseteq up[x] => up[y] = up[x]
  <2> HIDE DEF up
  <2> QED
    BY <1>1, SmallestOfParts
<1>3. ASSUME NEW y \in S, y > x PROVE FALSE
  <2>1. x \in Int /\ y \in Int /\ \A z \in S : z \in Int
    OBVIOUS
  <2>2. \A z \in S : z > y => z > x
    BY <1>3, <2>1
  <2>3. up[y] = up[x]
    BY <1>2, <2>2
  <2>4. y \in up[x] /\ y \notin up[y]
    BY <1>3, <2>1
  <2> QED
    BY <2>3, <2>4
<1> QED
  BY <1>3

LEMMA MaxIsMember ==
  ASSUME NEW S, \A x \in S : x \in Int, IsFiniteSet(S), S # {}
  PROVE  Max(S) \in S /\ \A y \in S : Max(S) >= y
BY GreatestMember DEF Max

LEMMA LeastMember ==
  ASSUME NEW S, \A x \in S : x \in Int, IsFiniteSet(S), S # {}
  PROVE  \E x \in S : \A y \in S : x =< y
<1> DEFINE down == [x \in S |-> {y \in S : y < x}]
<1>1. \A x \in S : down[x] \in SUBSET S
  OBVIOUS
<1>2. PICK x \in S : \A y \in S : down[y] \subseteq down[x] => down[y] = down[x]
  <2> HIDE DEF down
  <2> QED
    BY <1>1, SmallestOfParts
<1>3. ASSUME NEW y \in S, y < x PROVE FALSE
  <2>1. x \in Int /\ y \in Int /\ \A z \in S : z \in Int
    OBVIOUS
  <2>2. \A z \in S : z < y => z < x
    BY <1>3, <2>1
  <2>3. down[y] = down[x]
    BY <1>2, <2>2
  <2>4. y \in down[x] /\ y \notin down[y]
    BY <1>3, <2>1
  <2> QED
    BY <2>3, <2>4
<1> QED
  BY <1>3

\* Where a category is in an ordering that has it.
LEMMA IndexInRange ==
  ASSUME NEW ids \in Seq(Ids), NEW c \in Range(ids)
  PROVE  IndexIn(ids, c) \in 1..Len(ids)
<1> DEFINE I == {i \in 1..Len(ids) : ids[i] = c}
<1>1. Len(ids) \in Nat /\ DOMAIN ids = 1..Len(ids)
  OBVIOUS
<1>2. I # {}
  BY <1>1 DEF Range
<1>3. IsFiniteSet(I) /\ I \in SUBSET Int
  <2>1. IsFiniteSet(1..Len(ids))
    BY <1>1, FS_Interval
  <2>2. I \in SUBSET (1..Len(ids))
    OBVIOUS
  <2> HIDE DEF I
  <2>3. IsFiniteSet(I)
    BY <2>1, <2>2, FS_Subset
  <2> QED
    BY <2>2, <2>3
<1>4. Min(I) \in I
  <2> HIDE DEF I
  <2> QED
    BY <1>2, <1>3, LeastMember DEF Min
<1>5. IndexIn(ids, c) = Min(I)
  BY <1>2 DEF IndexIn, SelectInSeq
<1> QED
  BY <1>4, <1>5

-------------------------------------------------------------------------------
(* Initially.                                                                *)

LEMMA InvInit == Init => Inv
<1> SUFFICES ASSUME Init PROVE Inv
  OBVIOUS
<1> USE CategoryAssumption
<1>1. First \in Seq(Ids) /\ Range(First) = {First[i] : i \in DOMAIN First}
  BY DEF Range
<1>2. DOMAIN First = 1..Len(First) /\ Len(First) \in Nat
  BY <1>1
<1>3. Range(First) \subseteq Ids
  BY <1>1, <1>2
<1>4. IsFiniteSet(Range(First))
  <2>1. First \in Surjection(1..Len(First), Range(First))
    BY <1>1, <1>2 DEF Surjection, Range
  <2> QED
    BY <1>2, <2>1, FS_Interval, FS_Surjection
<1>5. Existing \subseteq used
  BY <1>3 DEF Init, Existing
<1>6. order \in [Ids -> Nat \cup {None}]
  <2>1. \A c \in Range(First) : IndexIn(First, c) - 1 \in Nat
    BY <1>1, <1>2, IndexInRange
  <2> QED
    BY <2>1 DEF Init
<1>7. DOMAIN last = {} /\ Range(last) = {}
  BY DEF Init, NoReorder, Range
<1>9. Types
  BY <1>3, <1>4, <1>5, <1>6, <1>7 DEF Init, Types, Idle, Forms, Stages
<1>10. Locks
  BY DEF Init, Locks, Held, Idle
<1>8. ListIsAsAsked
  BY DEF Init, ListIsAsAsked, NoReorder
<1> QED
  BY <1>8, <1>9, <1>10 DEF Inv

-------------------------------------------------------------------------------
(* What the steps do to the requests and to the locks.                       *)

LEMMA IdleIsForm == Idle \in Forms /\ Idle.found = {} /\ Idle.pc = "idle"
BY CategoryAssumption DEF Idle, Forms, Stages

LEMMA DoneHasNoId ==
  [Idle EXCEPT !.pc = "done"].pc \notin {"insert", "reread", "save", "delete"}
BY DEF Idle

\* A request that holds no row, and goes on holding none.
LEMMA HoldsNone ==
  ASSUME Types, Locks, NEW r \in Requests, NEW new \in Forms, Goes(r, new), UNCHANGED lock,
         request[r].pc # "update", new.found = {}
  PROVE  Locks'
<1>1. request' = [request EXCEPT ![r] = new] /\ DOMAIN request = Requests
  BY DEF Goes, Types
<1>2. \A q \in Requests : Held(q)' = Held(q)
  BY DEF Held
<1>3. ASSUME NEW q \in Requests
      PROVE  /\ request'[q].found \subseteq Held(q) /\ Held(q) \subseteq Range(request'[q].ids)
             /\ request'[q].pc # "update" => Held(q) = {}
  <2>1. CASE q = r
    BY <1>1, <2>1 DEF Locks
  <2>2. CASE q # r
    BY <1>1, <2>2 DEF Locks
  <2> QED
    BY <2>1, <2>2
<1> QED
  BY <1>2, <1>3 DEF Locks

\* A request that is over gives its rows back.
LEMMA GivesBack ==
  ASSUME Types, Locks, NEW r \in Requests, Unlock(r), Done(r)
  PROVE  /\ Locks' /\ lock' \in [Ids -> Requests \cup {None}]
         /\ \A c \in Ids : lock'[c] \in {None, lock[c]}
         /\ request' \in [Requests -> Forms]
         /\ \A q \in Requests : request'[q] = IF q = r THEN [Idle EXCEPT !.pc = "done"]
                                              ELSE request[q]
<1>1. /\ [Idle EXCEPT !.pc = "done"] \in Forms
      /\ [Idle EXCEPT !.pc = "done"].found = {} /\ [Idle EXCEPT !.pc = "done"].pc = "done"
  BY IdleIsForm DEF Forms, Stages
<1> DEFINE new == [Idle EXCEPT !.pc = "done"]
<1>2. request' = [request EXCEPT ![r] = new] /\ request \in [Requests -> Forms]
  BY DEF Done, Goes, Types
<1> HIDE DEF new
<1>3. lock' = [c \in Ids |-> IF lock[c] = r THEN None ELSE lock[c]]
  BY DEF Unlock
<1>4. \A q \in Requests : Held(q)' = IF q = r THEN {} ELSE Held(q)
  BY <1>3, CategoryAssumption DEF Held
<1>5. ASSUME NEW q \in Requests
      PROVE  /\ request'[q].found \subseteq Held(q)' /\ Held(q)' \subseteq Range(request'[q].ids)
             /\ request'[q].pc # "update" => Held(q)' = {}
  <2>1. CASE q = r
    BY <1>1, <1>2, <1>4, <2>1 DEF new
  <2>2. CASE q # r
    BY <1>2, <1>4, <2>2 DEF Locks
  <2> QED
    BY <2>1, <2>2
<1>6. /\ lock' \in [Ids -> Requests \cup {None}]
      /\ \A c \in Ids : lock'[c] \in {None, lock[c]}
  BY <1>3 DEF Types
<1>7. request' \in [Requests -> Forms]
  BY <1>1, <1>2 DEF new
<1>8. \A q \in Requests : request'[q] = IF q = r THEN new ELSE request[q]
  BY <1>2
<1> QED
  BY <1>5, <1>6, <1>7, <1>8 DEF Locks, new

\* Types are kept where no row comes, but one whose id was handed out.
LEMMA TypesStay ==
  ASSUME Types, NEW r \in Requests, NEW new \in Forms, Goes(r, new), UNCHANGED lock,
         used' \in SUBSET Ids, used \subseteq used', IsFiniteSet(used'),
         order' \in [Ids -> Nat \cup {None}], Existing' \subseteq used',
         DOMAIN last' \subseteq Ids, Range(last') \subseteq Nat, UNCHANGED faults,
         new.pc \in {"insert", "reread", "save", "delete"} => new.id \in used'
  PROVE  Types'
<1>1. request' = [request EXCEPT ![r] = new] /\ request \in [Requests -> Forms]
  BY DEF Goes, Types
<1>2. request' \in [Requests -> Forms]
  BY <1>1
<1>3. ASSUME NEW q \in Requests, request'[q].pc \in {"insert", "reread", "save", "delete"}
      PROVE  request'[q].id \in used'
  <2>1. CASE q = r
    BY <1>1, <1>3, <2>1
  <2>2. CASE q # r
    BY <1>1, <1>3, <2>2 DEF Types
  <2> QED
    BY <2>1, <2>2
<1> QED
  BY <1>2, <1>3 DEF Types

\* A row written outside any reorder, or none.
LEMMA Written ==
  ASSUME Types, NEW c \in used, NEW n \in Nat \cup {None}, Write(c, n)
  PROVE  /\ order' \in [Ids -> Nat \cup {None}] /\ Existing' \subseteq used
         /\ DOMAIN last' = {} /\ Range(last') = {} /\ ListIsAsAsked'
<1>1. order' = [order EXCEPT ![c] = n] /\ last' = NoReorder
  BY DEF Write
<1>2. order' \in [Ids -> Nat \cup {None}] /\ \A d \in Ids : d # c => order'[d] = order[d]
  BY <1>1 DEF Types
<1>3. DOMAIN last' = {} /\ Range(last') = {} /\ ListIsAsAsked'
  BY <1>1 DEF ListIsAsAsked, NoReorder, Range
<1>4. Existing' \subseteq used
  BY <1>2 DEF Existing, Types
<1> QED
  BY <1>2, <1>3, <1>4

-------------------------------------------------------------------------------
(* The actions, one by one.                                                  *)

\* One more than the highest.
LEMMA NextOrderIsOne == Types => NextOrder \in Nat
<1> SUFFICES ASSUME Types PROVE NextOrder \in Nat
  OBVIOUS
<1> DEFINE f == [c \in Existing |-> order[c]]
           S == {order[c] : c \in Existing} \cup {-1}
<1>1. \A c \in Existing : order[c] \in Nat
  BY DEF Types, Existing
<1>2. IsFiniteSet({order[c] : c \in Existing})
  <2>1. IsFiniteSet(Existing)
    BY FS_Subset DEF Types
  <2>2. f \in Surjection(Existing, {order[c] : c \in Existing})
    BY DEF Surjection
  <2> QED
    BY <2>1, <2>2, FS_Surjection
<1>3. IsFiniteSet(S) /\ S \in SUBSET Int /\ -1 \in S
  BY <1>1, <1>2, FS_AddElement
<1>4. Max(S) \in Int /\ Max(S) >= -1
  <2> HIDE DEF S
  <2> QED
    BY <1>3, MaxIsMember
<1> QED
  BY <1>4 DEF NextOrder

LEMMA CreateKeeps ==
  ASSUME Inv, NEW r \in Requests, NEW n \in Orders \cup {None}, Create(r, n)
  PROVE  Inv'
<1>1. PICK c \in Ids \ used :
        /\ used' = used \cup {c}
        /\ Goes(r, [Idle EXCEPT !.pc = "insert", !.id = c,
                                !.seen = IF n = None THEN NextOrder ELSE n])
  BY DEF Create
<1> DEFINE new == [Idle EXCEPT !.pc = "insert", !.id = c,
                               !.seen = IF n = None THEN NextOrder ELSE n]
<1>2. new \in Forms /\ new.found = {} /\ new.id = c
  <2>1. (IF n = None THEN NextOrder ELSE n) \in Nat \cup {None}
    BY NextOrderIsOne, CategoryAssumption DEF Inv
  <2> QED
    BY <2>1, IdleIsForm DEF Forms, Stages
<1>3. Goes(r, new) /\ request[r].pc # "update" /\ UNCHANGED <<order, lock, last, faults>>
  BY <1>1, IdleIsForm DEF Create
<1> HIDE DEF new
<1>4. Locks'
  BY <1>2, <1>3, HoldsNone DEF Inv
<1>5. Types'
  <2>1. used' \in SUBSET Ids /\ used \subseteq used' /\ IsFiniteSet(used')
    BY <1>1, FS_AddElement DEF Inv, Types
  <2>2. Existing' \subseteq used'
    BY <1>1, <1>3 DEF Existing, Inv, Types
  <2>3. c \in used'
    BY <1>1
  <2> QED
    BY <1>2, <1>3, <2>1, <2>2, <2>3, TypesStay DEF Inv, Types
<1>6. ListIsAsAsked'
  BY <1>3 DEF ListIsAsAsked, Inv
<1> QED
  BY <1>4, <1>5, <1>6 DEF Inv

\* A request goes on, or is over, and nothing is written.
LEMMA GoesOn ==
  ASSUME Inv, NEW r \in Requests, NEW new \in Forms, Goes(r, new), request[r].pc # "update",
         new.found = {}, UNCHANGED <<order, used, lock, last, faults>>,
         new.pc \in {"insert", "reread", "save", "delete"} => new.id \in used
  PROVE  Inv'
<1>1. Locks'
  BY HoldsNone DEF Inv
<1>2. Existing' = Existing
  BY DEF Existing
<1>3. Types'
  BY <1>2, TypesStay DEF Inv, Types
<1>4. ListIsAsAsked'
  BY DEF ListIsAsAsked, Inv
<1> QED
  BY <1>1, <1>3, <1>4 DEF Inv

\* A request is over, and at most one row was written, as no reorder asks.
LEMMA EndsWriting ==
  ASSUME Inv, NEW r \in Requests, Done(r), request[r].pc # "update",
         UNCHANGED <<used, lock, faults>>, order' \in [Ids -> Nat \cup {None}],
         Existing' \subseteq used, DOMAIN last' \subseteq Ids, Range(last') \subseteq Nat,
         ListIsAsAsked'
  PROVE  Inv'
<1> DEFINE new == [Idle EXCEPT !.pc = "done"]
<1>1. new \in Forms /\ new.found = {} /\ new.pc = "done"
  BY IdleIsForm DEF Forms, Stages, Idle
<1>2. Goes(r, new)
  BY DEF Done
<1> HIDE DEF new
<1>3. Locks'
  BY <1>1, <1>2, HoldsNone DEF Inv
<1>4. Types'
  BY <1>1, <1>2, TypesStay DEF Inv, Types
<1> QED
  BY <1>3, <1>4 DEF Inv

LEMMA InsertKeeps == ASSUME Inv, NEW r \in Requests, Insert(r) PROVE Inv'
<1>1. /\ request[r].pc = "insert" /\ Write(request[r].id, request[r].seen) /\ Done(r)
      /\ UNCHANGED <<used, lock, faults>>
  BY DEF Insert
<1>2. request[r].id \in used /\ request[r].seen \in Nat \cup {None}
  BY <1>1 DEF Inv, Types, Forms
<1> QED
  BY <1>1, <1>2, Written, EndsWriting DEF Inv

LEMMA RenameKeeps == ASSUME Inv, NEW r \in Requests, NEW c \in Ids, Rename(r, c) PROVE Inv'
<1> DEFINE new == [Idle EXCEPT !.pc = "reread", !.id = c, !.seen = order[c]]
<1>1. new \in Forms /\ new.found = {} /\ new.id = c
  <2>1. order[c] \in Nat \cup {None}
    BY DEF Inv, Types
  <2> QED
    BY <2>1, IdleIsForm DEF Forms, Stages
<1>2. c \in used
  BY DEF Rename, Inv, Types
<1>3. Goes(r, new) /\ request[r].pc # "update" /\ UNCHANGED <<order, used, lock, last, faults>>
  BY IdleIsForm DEF Rename
<1> HIDE DEF new
<1> QED
  BY <1>1, <1>2, <1>3, GoesOn

LEMMA RereadKeeps == ASSUME Inv, NEW r \in Requests, Reread(r) PROVE Inv'
<1> DEFINE new == [request[r] EXCEPT !.pc = "save", !.row = order[request[r].id]]
<1>1. request[r] \in Forms /\ request[r].pc = "reread" /\ request[r].id \in used
  BY DEF Reread, Inv, Types
<1>2. order[request[r].id] \in Nat \cup {None}
  BY <1>1 DEF Inv, Types
<1>3. request[r].found = {}
  BY <1>1 DEF Inv, Locks
<1>4. new \in Forms /\ new.found = {} /\ new.id \in used
  BY <1>1, <1>2, <1>3 DEF Forms, Stages
<1>5. Goes(r, new) /\ request[r].pc # "update" /\ UNCHANGED <<order, used, lock, last, faults>>
  BY DEF Reread
<1> HIDE DEF new
<1> QED
  BY <1>4, <1>5, GoesOn

LEMMA SaveKeeps == ASSUME Inv, NEW r \in Requests, Save(r) PROVE Inv'
<1>1. /\ request[r].pc = "save" /\ Done(r) /\ UNCHANGED <<used, lock, faults>>
      /\ Write(request[r].id, request[r].seen) \/ UNCHANGED <<order, last>>
  BY DEF Save
<1>2. request[r].id \in used /\ request[r].seen \in Nat \cup {None}
  BY <1>1 DEF Inv, Types, Forms
<1>3. CASE Write(request[r].id, request[r].seen)
  BY <1>1, <1>2, <1>3, Written, EndsWriting DEF Inv
<1>4. CASE UNCHANGED <<order, last>>
  <2>1. /\ order' \in [Ids -> Nat \cup {None}] /\ Existing' \subseteq used
        /\ DOMAIN last' \subseteq Ids /\ Range(last') \subseteq Nat /\ ListIsAsAsked'
    BY <1>4 DEF Inv, Types, Existing, ListIsAsAsked
  <2> QED
    BY <1>1, <2>1, EndsWriting
<1> QED
  BY <1>1, <1>3, <1>4

LEMMA AskToRemoveKeeps ==
  ASSUME Inv, NEW r \in Requests, NEW c \in Ids, AskToRemove(r, c) PROVE Inv'
<1> DEFINE new == [Idle EXCEPT !.pc = "delete", !.id = c]
<1>1. new \in Forms /\ new.found = {} /\ new.id = c
  BY IdleIsForm DEF Forms, Stages
<1>2. c \in used
  BY DEF AskToRemove, Inv, Types
<1>3. Goes(r, new) /\ request[r].pc # "update" /\ UNCHANGED <<order, used, lock, last, faults>>
  BY IdleIsForm DEF AskToRemove
<1> HIDE DEF new
<1> QED
  BY <1>1, <1>2, <1>3, GoesOn

LEMMA DeleteKeeps == ASSUME Inv, NEW r \in Requests, Delete(r) PROVE Inv'
<1>1. /\ request[r].pc = "delete" /\ Done(r) /\ UNCHANGED <<used, lock, last, faults>>
      /\ order' = [order EXCEPT ![request[r].id] = None]
  BY DEF Delete
<1>2. request[r].id \in Ids
  BY <1>1 DEF Inv, Types
<1>3. /\ order' \in [Ids -> Nat \cup {None}]
      /\ \A c \in Ids : order'[c] \in {None, order[c]}
  BY <1>1, <1>2 DEF Inv, Types
<1>4. Existing' \subseteq used
  BY <1>3 DEF Existing, Inv, Types
<1>5. ListIsAsAsked'
  BY <1>1, <1>3 DEF ListIsAsAsked, Inv, Types
<1> QED
  BY <1>1, <1>3, <1>4, <1>5, EndsWriting DEF Inv, Types

LEMMA ReorderKeeps == ASSUME Inv, NEW r \in Requests, Reorder(r) PROVE Inv'
<1>1. PICK ids \in Orderings : Goes(r, [Idle EXCEPT !.pc = "update", !.ids = ids])
  BY DEF Reorder
<1> DEFINE new == [Idle EXCEPT !.pc = "update", !.ids = ids]
<1>2. ids \in Seq(Ids)
  <2>1. ids \in [1..Cardinality(Existing) -> Existing]
    BY DEF Orderings, SetToSeqs
  <2>2. Cardinality(Existing) \in Nat
    BY FS_Subset, FS_CardinalityType DEF Inv, Types
  <2>3. ids \in Seq(Existing) /\ Existing \subseteq Ids
    BY <2>1, <2>2, SeqDef DEF Existing
  <2> QED
    BY <2>3
<1>3. new \in Forms /\ new.found = {} /\ new.pc = "update"
  BY <1>2, IdleIsForm DEF Forms, Stages
<1>4. Goes(r, new) /\ request[r].pc # "update" /\ UNCHANGED <<order, used, lock, last, faults>>
  BY <1>1, IdleIsForm DEF Reorder
<1> HIDE DEF new
<1> QED
  BY <1>3, <1>4, GoesOn

LEMMA UpdateRowKeeps == ASSUME Inv, NEW r \in Requests, UpdateRow(r) PROVE Inv'
<1> DEFINE q == request[r]
           c == q.ids[q.at]
           new == [q EXCEPT !.at = @ + 1, !.found = IF order[c] = None THEN @ ELSE @ \cup {c}]
<1>1. /\ q.pc = "update" /\ q.at <= Len(q.ids) /\ lock[c] = None
      /\ lock' = IF order[c] = None THEN lock ELSE [lock EXCEPT ![c] = r]
      /\ request' = [request EXCEPT ![r] = new]
      /\ UNCHANGED <<order, used, last, faults>>
  BY DEF UpdateRow, Found, Goes
<1>2. q \in Forms /\ request \in [Requests -> Forms]
  BY DEF Inv, Types
<1>3. c \in Ids /\ c \in Range(q.ids)
  <2>1. q.ids \in Seq(Ids) /\ q.at \in Nat \ {0}
    BY <1>2 DEF Forms
  <2>2. q.at \in 1..Len(q.ids) /\ 1..Len(q.ids) = DOMAIN q.ids
    BY <1>1, <2>1
  <2> QED
    BY <2>1, <2>2 DEF Range
<1>4. /\ new \in Forms /\ new.pc = "update" /\ new.ids = q.ids
      /\ new.found = IF order[c] = None THEN q.found ELSE q.found \cup {c}
  <2> HIDE DEF q, c
  <2> DEFINE found == IF order[c] = None THEN q.found ELSE q.found \cup {c}
  <2>1. q.found \in SUBSET Ids /\ q.at + 1 \in Nat \ {0}
    BY <1>2 DEF Forms
  <2>2. found \in SUBSET Ids
    BY <1>3, <2>1
  <2>3. new = [q EXCEPT !.at = q.at + 1, !.found = found]
    OBVIOUS
  <2> HIDE DEF found, new
  <2>4. new \in Forms /\ new.pc = "update" /\ new.ids = q.ids /\ new.found = found
    BY <1>1, <1>2, <2>1, <2>2, <2>3 DEF Forms
  <2> QED
    BY <2>4 DEF found
<1>5. /\ request' \in [Requests -> Forms]
      /\ \A p \in Requests : request'[p] = IF p = r THEN new ELSE request[p]
  BY <1>1, <1>2, <1>4
<1> HIDE DEF q, c, new
<1>6. lock \in [Ids -> Requests \cup {None}] /\ lock' \in [Ids -> Requests \cup {None}]
  BY <1>1 DEF Inv, Types
<1>7. \A p \in Requests :
        Held(p)' = IF p = r /\ order[c] # None THEN Held(p) \cup {c} ELSE Held(p)
  <2>1. CASE order[c] = None
    BY <1>1, <2>1 DEF Held
  <2>2. CASE order[c] # None
    BY <1>1, <1>3, <1>6, <2>2, CategoryAssumption DEF Held
  <2> QED
    BY <2>1, <2>2
<1>8. ASSUME NEW p \in Requests
      PROVE  /\ request'[p].found \subseteq Held(p)' /\ Held(p)' \subseteq Range(request'[p].ids)
             /\ request'[p].pc # "update" => Held(p)' = {}
  <2>1. CASE p = r
    <3>1. q.found \subseteq Held(r) /\ Held(r) \subseteq Range(q.ids)
      BY DEF Inv, Locks, q
    <3> QED
      BY <1>3, <1>4, <1>5, <1>7, <2>1, <3>1
  <2>2. CASE p # r
    BY <1>5, <1>7, <2>2 DEF Inv, Locks
  <2> QED
    BY <2>1, <2>2
<1>9. ASSUME NEW p \in Requests, request'[p].pc \in {"insert", "reread", "save", "delete"}
      PROVE  request'[p].id \in used'
  <2>1. p # r
    BY <1>4, <1>5, <1>9
  <2> QED
    BY <1>1, <1>5, <1>9, <2>1 DEF Inv, Types
<1>10. Types'
  BY <1>1, <1>5, <1>6, <1>9 DEF Inv, Types, Existing
<1>11. Locks'
  BY <1>8 DEF Locks
<1>12. ListIsAsAsked'
  BY <1>1 DEF ListIsAsAsked, Inv
<1> QED
  BY <1>10, <1>11, <1>12 DEF Inv

\* What a reorder found it still holds, so its COMMIT writes every row of it.
LEMMA CommitKeeps == ASSUME Inv, NEW r \in Requests, Commit(r) PROVE Inv'
<1> DEFINE ids == request[r].ids
           found == request[r].found
<1>1. /\ order' = [c \in Ids |-> IF c \in Held(r) THEN IndexIn(ids, c) - 1 ELSE order[c]]
      /\ last' = [c \in found |-> IndexIn(ids, c) - 1]
      /\ Unlock(r) /\ Done(r) /\ UNCHANGED <<used, faults>>
  BY DEF Commit
<1>2. ids \in Seq(Ids) /\ found \subseteq Held(r) /\ Held(r) \subseteq Range(ids)
  BY DEF Inv, Types, Forms, Locks
<1> HIDE DEF ids, found
<1>3. \A c \in Held(r) : IndexIn(ids, c) - 1 \in Nat
  BY <1>2, IndexInRange
<1>4. Held(r) \subseteq Ids
  BY DEF Held
<1>5. order' \in [Ids -> Nat \cup {None}]
  BY <1>1, <1>3 DEF Inv, Types
<1>6. DOMAIN last' \subseteq Ids /\ Range(last') \subseteq Nat
  BY <1>1, <1>2, <1>3, <1>4 DEF Range
<1>7. Existing' \subseteq used
  <2>1. Held(r) \subseteq used
    BY CategoryAssumption DEF Held, Inv, Types
  <2> QED
    BY <1>1, <2>1 DEF Existing, Inv, Types
<1>8. ListIsAsAsked'
  BY <1>1, <1>2, <1>4 DEF ListIsAsAsked
<1>9. /\ Locks' /\ lock' \in [Ids -> Requests \cup {None}]
      /\ \A c \in Ids : lock'[c] \in {None, lock[c]}
      /\ request' \in [Requests -> Forms]
      /\ \A q \in Requests : request'[q] = IF q = r THEN [Idle EXCEPT !.pc = "done"]
                                           ELSE request[q]
  BY <1>1, GivesBack DEF Inv
<1>10. Types'
  BY <1>1, <1>5, <1>6, <1>7, <1>9, DoneHasNoId DEF Inv, Types
<1> QED
  BY <1>8, <1>9, <1>10 DEF Inv

\* A request is ended by Postgres, or dies: nothing is written.
LEMMA RollbackKeeps ==
  ASSUME Inv, NEW r \in Requests, Unlock(r), Done(r), UNCHANGED <<order, used, last>>,
         faults' \in 0..MaxFaults
  PROVE  Inv'
<1>1. /\ Locks' /\ lock' \in [Ids -> Requests \cup {None}]
      /\ \A c \in Ids : lock'[c] \in {None, lock[c]}
      /\ request' \in [Requests -> Forms]
      /\ \A q \in Requests : request'[q] = IF q = r THEN [Idle EXCEPT !.pc = "done"]
                                           ELSE request[q]
  BY GivesBack DEF Inv
<1>2. Types'
  BY <1>1, DoneHasNoId DEF Inv, Types, Existing
<1>3. ListIsAsAsked'
  BY DEF ListIsAsAsked, Inv
<1> QED
  BY <1>1, <1>2, <1>3 DEF Inv

LEMMA DeadlockKeeps == ASSUME Inv, NEW r \in Requests, Deadlock(r) PROVE Inv'
<1>1. Unlock(r) /\ Done(r) /\ UNCHANGED <<order, used, last>> /\ faults' \in 0..MaxFaults
  BY DEF Deadlock, Inv, Types
<1> QED
  BY <1>1, RollbackKeeps

LEMMA DieKeeps == ASSUME Inv, NEW r \in Requests, Die(r) PROVE Inv'
<1>1. faults' \in 0..MaxFaults
  BY CategoryAssumption DEF Die, Inv, Types
<1>2. Unlock(r) /\ Done(r) /\ UNCHANGED <<order, used, last>>
  BY DEF Die
<1> QED
  BY <1>1, <1>2, RollbackKeeps

-------------------------------------------------------------------------------
(* The theorems.                                                             *)

LEMMA InvNext == Inv /\ [Next]_vars => Inv'
<1> SUFFICES ASSUME Inv, [Next]_vars PROVE Inv'
  OBVIOUS
<1>1. CASE UNCHANGED vars
  <2>1. Types' /\ Locks'
    BY <1>1 DEF vars, Inv, Types, Locks, Held, Existing
  <2>2. ListIsAsAsked'
    BY <1>1 DEF vars, Inv, ListIsAsAsked
  <2> QED
    BY <2>1, <2>2 DEF Inv
<1>2. ASSUME NEW r \in Requests, NEW n \in Orders \cup {None}, Create(r, n) PROVE Inv'
  BY <1>2, CreateKeeps
<1>3. ASSUME NEW r \in Requests, NEW c \in Ids, Rename(r, c) \/ AskToRemove(r, c) PROVE Inv'
  BY <1>3, RenameKeeps, AskToRemoveKeeps
<1>4. ASSUME NEW r \in Requests, Reorder(r) \/ Step(r) \/ Die(r) PROVE Inv'
  BY <1>4, ReorderKeeps, InsertKeeps, RereadKeeps, SaveKeeps, DeleteKeeps, UpdateRowKeeps,
     CommitKeeps, DeadlockKeeps, DieKeeps DEF Step
<1> QED
  BY <1>1, <1>2, <1>3, <1>4 DEF Next

LEMMA InvHolds == Spec => []Inv
BY InvInit, InvNext, PTL DEF Spec

\* Every row and request of the categories holds what it can hold: an order is a
\* natural, also one worked out from the highest there is.
THEOREM CategoryTypesHold == Spec => []TypeOK
<1>1. Inv => TypeOK
  BY DEF Inv, Types, TypeOK
<1> QED BY <1>1, InvHolds, PTL

\* Whatever reorders run at once, in whatever order they take the rows, and whoever
\* is rolled back, dies or removes a category meanwhile, the list is as the reorder
\* committed last asked for it, until something else is written.
THEOREM ListIsAsAskedHolds == Spec => []ListIsAsAsked
<1>1. Inv => ListIsAsAsked
  BY DEF Inv
<1> QED BY <1>1, InvHolds, PTL
===============================================================================
