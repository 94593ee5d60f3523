------------------------------- MODULE Categories ------------------------------
(***************************************************************************)
(* The list of categories and its order.  Administrators create, rename,   *)
(* reorder and remove them; a reorder writes one row after the other in a  *)
(* transaction, in the order it was asked for, and keeps each row locked   *)
(* until it commits.                                                       *)
(***************************************************************************)
EXTENDS Integers, FiniteSetsExt, SequencesExt

CONSTANTS
  Ids,        \* what the serial column hands out
  First,      \* the categories there are to begin with, in order
  Requests,   \* requests of administrators
  Orders,     \* values of the optional "order" of a new category
  MaxFaults,  \* bound: requests that die half-way
  None

ASSUME CategoryAssumption ==
  /\ First \in Seq(Ids) /\ IsInjective(First)
  /\ Orders \subseteq Nat /\ MaxFaults \in Nat
  /\ None \notin Ids \cup Requests \cup Nat

VARIABLES
  order,     \* categories.order, None where there is no row
  used,      \* ids handed out
  lock,      \* which request's transaction holds the row
  request,
  last,      \* ghost: what the reorder committed last asked for the rows it found,
             \* if nothing else was written since
  faults

vars == <<order, used, lock, request, last, faults>>

Idle == [pc |-> "idle", id |-> None, ids |-> <<>>, at |-> 1, found |-> {},
         seen |-> None, row |-> None]
NoReorder == [c \in {} |-> 0]

IndexIn(ids, c) == SelectInSeq(ids, LAMBDA x : x = c)

Init ==
  /\ order = [c \in Ids |-> IF c \in Range(First) THEN IndexIn(First, c) - 1 ELSE None]
  /\ used = Range(First)
  /\ lock = [c \in Ids |-> None]
  /\ request = [r \in Requests |-> Idle]
  /\ last = NoReorder
  /\ faults = 0

Existing == {c \in Ids : order[c] # None}

Goes(r, new) == request' = [request EXCEPT ![r] = new]
Done(r) == Goes(r, [Idle EXCEPT !.pc = "done"])

\* A row is written outside any reorder.
Write(c, n) == order' = [order EXCEPT ![c] = n] /\ last' = NoReorder

-------------------------------------------------------------------------------
(* POST /admin/categories                                                    *)

NextOrder == Max({order[c] : c \in Existing} \cup {-1}) + 1

\* The order asked for, or one more than the highest.  (The id is taken here and
\* not at the INSERT, which no one can tell.)
Create(r, n) ==
  /\ request[r] = Idle
  /\ \E c \in Ids \ used :
       /\ used' = used \cup {c}
       /\ Goes(r, [Idle EXCEPT !.pc = "insert", !.id = c,
                               !.seen = IF n = None THEN NextOrder ELSE n])
  /\ UNCHANGED <<order, lock, last, faults>>

Insert(r) ==
  /\ request[r].pc = "insert"
  /\ Write(request[r].id, request[r].seen)
  /\ Done(r)
  /\ UNCHANGED <<used, lock, faults>>

-------------------------------------------------------------------------------
(* PATCH /admin/categories/:id: the row is loaded, given its new name, and   *)
(* handed to TypeORM's save(), which reads it again.                         *)

Rename(r, c) ==
  /\ request[r] = Idle /\ c \in Existing
  /\ Goes(r, [Idle EXCEPT !.pc = "reread", !.id = c, !.seen = order[c]])
  /\ UNCHANGED <<order, used, lock, last, faults>>

Reread(r) ==
  /\ request[r].pc = "reread"
  /\ Goes(r, [request[r] EXCEPT !.pc = "save", !.row = order[request[r].id]])
  /\ UNCHANGED <<order, used, lock, last, faults>>

\* A row that is gone is inserted anew; of one that is there the name is written,
\* and the order too if it differs from the one loaded.
Save(r) ==
  LET c == request[r].id
      back == \/ request[r].row = None /\ order[c] = None
              \/ request[r].row \notin {None, request[r].seen} /\ order[c] # None
  IN
  /\ request[r].pc = "save" /\ lock[c] = None
  /\ IF back THEN Write(c, request[r].seen) ELSE UNCHANGED <<order, last>>
  /\ Done(r)
  /\ UNCHANGED <<used, lock, faults>>

-------------------------------------------------------------------------------
(* DELETE /admin/categories/:id.  What it does to venues is in Storefront.   *)

AskToRemove(r, c) ==
  /\ request[r] = Idle /\ c \in Existing
  /\ Goes(r, [Idle EXCEPT !.pc = "delete", !.id = c])
  /\ UNCHANGED <<order, used, lock, last, faults>>

\* The DELETE waits for the row; COMMIT follows.
Delete(r) ==
  LET c == request[r].id IN
  /\ request[r].pc = "delete" /\ lock[c] = None
  /\ order' = [order EXCEPT ![c] = None]
  /\ Done(r)
  /\ UNCHANGED <<used, lock, last, faults>>

-------------------------------------------------------------------------------
(* PATCH /admin/categories/reorder                                           *)

\* All the ids there are, each once; anything else is a 400.
Orderings == SetToSeqs(Existing)

Reorder(r) ==
  /\ request[r] = Idle
  /\ \E ids \in Orderings : Goes(r, [Idle EXCEPT !.pc = "update", !.ids = ids])
  /\ UNCHANGED <<order, used, lock, last, faults>>

Found(r, c) ==
  Goes(r, [request[r] EXCEPT !.at = @ + 1, !.found = IF order[c] = None THEN @ ELSE @ \cup {c}])

\* Regression: no transaction, every UPDATE commits on its own.
UpdateRowAlone(r) ==
  LET c == request[r].ids[request[r].at] IN
  /\ request[r].pc = "update" /\ request[r].at <= Len(request[r].ids)
  /\ IF order[c] = None THEN UNCHANGED order
     ELSE order' = [order EXCEPT ![c] = request[r].at - 1]
  /\ Found(r, c)
  /\ UNCHANGED <<used, lock, last, faults>>

\* One UPDATE: it waits until the row is free, and finds it or not.
UpdateRow(r) ==
  LET c == request[r].ids[request[r].at] IN
  /\ request[r].pc = "update" /\ request[r].at <= Len(request[r].ids)
  /\ lock[c] = None
  /\ lock' = IF order[c] = None THEN lock ELSE [lock EXCEPT ![c] = r]
  /\ Found(r, c)
  /\ UNCHANGED <<order, used, last, faults>>

Held(r) == {c \in Ids : lock[c] = r}

\* Regression: a reorder that finds a category gone returns without rolling back.
UnlockFullOnly(r) ==
  lock' = IF Held(r) = Range(request[r].ids)
          THEN [c \in Ids |-> IF lock[c] = r THEN None ELSE lock[c]] ELSE lock

Unlock(r) == lock' = [c \in Ids |-> IF lock[c] = r THEN None ELSE lock[c]]

Commit(r) ==
  LET ids == request[r].ids IN
  /\ request[r].pc = "update" /\ request[r].at > Len(ids)
  /\ order' = [c \in Ids |-> IF c \in Held(r) THEN IndexIn(ids, c) - 1 ELSE order[c]]
  /\ last' = [c \in request[r].found |-> IndexIn(ids, c) - 1]
  /\ Unlock(r) /\ Done(r)
  /\ UNCHANGED <<used, faults>>

WaitsFor(r, q) ==
  /\ q # r /\ request[r].pc = "update" /\ request[r].at <= Len(request[r].ids)
  /\ lock[request[r].ids[request[r].at]] = q

\* Postgres ends one of the reorders that wait for each other in a circle: 500,
\* nothing written.
Deadlock(r) ==
  /\ request[r].pc = "update"
  /\ \E S \in SUBSET Requests :
       /\ r \in S
       /\ \A p \in S : (\E q \in S : WaitsFor(p, q)) /\ (\E q \in S : WaitsFor(q, p))
  /\ Unlock(r) /\ Done(r)
  /\ UNCHANGED <<order, used, last, faults>>

Die(r) ==
  /\ request[r].pc \notin {"idle", "done"} /\ faults < MaxFaults
  /\ faults' = faults + 1
  /\ Unlock(r) /\ Done(r)
  /\ UNCHANGED <<order, used, last>>

-------------------------------------------------------------------------------
Step(r) ==
  Insert(r) \/ Reread(r) \/ Save(r) \/ Delete(r) \/ UpdateRow(r) \/ Commit(r) \/ Deadlock(r)

Next ==
  \E r \in Requests :
    \/ \E n \in Orders \cup {None} : Create(r, n)
    \/ \E c \in Ids : Rename(r, c) \/ AskToRemove(r, c)
    \/ Reorder(r) \/ Step(r) \/ Die(r)

Spec == Init /\ [][Next]_vars

\* Requests are served, and Postgres grants free rows and breaks deadlocks.
FairSpec == Spec /\ \A r \in Requests : WF_vars(Step(r))

-------------------------------------------------------------------------------
\* Every row and request holds what it can hold.
TypeOK ==
  /\ order \in [Ids -> Nat \cup {None}]
  /\ used \subseteq Ids
  /\ lock \in [Ids -> Requests \cup {None}]
  /\ DOMAIN request = Requests
  /\ DOMAIN last \subseteq Ids /\ Range(last) \subseteq Nat
  /\ faults \in 0..MaxFaults

\* Two reorders never mix, also when they take the rows in opposite orders, when
\* one is rolled back, or when a category goes while they run: until something
\* else is written, the list is as the reorder committed last asked for it.
ListIsAsAsked == \A c \in DOMAIN last : order[c] \in {None, last[c]}

\* No reorder waits for a row for ever, nor leaves one behind for others to wait for.
RequestsEnd == \A r \in Requests : request[r].pc # "idle" ~> request[r].pc = "done"
===============================================================================
