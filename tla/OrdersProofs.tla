----------------------------- MODULE OrdersProofs -----------------------------
(***************************************************************************)
(* Theorems about Orders for any number of orders, handlers, operators,    *)
(* messages and codes, and any bounds: what holds of the rows, and then    *)
(* where the money is.                                                     *)
(***************************************************************************)
EXTENDS OrderProperties, FiniteSetTheorems, SequenceTheorems, TLAPS

\* What the code in the middle of a request or a transaction relies on: a handler
\* past "idle" has its message and the event row it saved; one that holds a
\* lock works on a known order and on the status it read.
HandlersConsistent ==
  \A h \in Handlers :
    /\ work[h].pc # "idle" =>
         work[h].msg \in Messages /\ work[h].row \in 1..Len(events[work[h].msg])
    /\ work[h].pc = "locked" =>
         work[h].msg.order \in Orders /\ work[h].seen \in Statuses
    /\ work[h].pc \in {"done", "recorded"} => work[h].result \in Results

CasesConsistent ==
  \A r \in Operators : desk[r] # NoCase =>
    /\ desk[r].order \in Orders
    /\ desk[r].action \in ResolutionActions
    /\ desk[r].seen \in Statuses

TypeInv == TypeOK /\ HandlersConsistent /\ CasesConsistent

\* The verdict is always one of the results the event row may hold.
LEMMA VerdictType ==
  ASSUME NEW m, NEW s PROVE Verdict(m, s) \in Results
BY DEF Verdict, Results, WriteResults, SaleResults

\* What a handler's progress changes: its own place and outcome.
LEMMA AdvanceWork ==
  ASSUME work \in [Handlers -> WorkRecord], NEW h \in Handlers,
         NEW p \in Progress, NEW v \in Results, Advance(h, p, v)
  PROVE  /\ work' \in [Handlers -> WorkRecord]
         /\ \A g \in Handlers \ {h} : work'[g] = work[g]
         /\ work'[h].pc = p /\ work'[h].result = v /\ work'[h].msg = work[h].msg
         /\ work'[h].row = work[h].row /\ work'[h].seen = work[h].seen
BY DEF Advance, WorkRecord

LEMMA LockWork ==
  ASSUME work \in [Handlers -> WorkRecord], NEW h \in Handlers, NEW s \in Statuses,
         ReadRow(h, s)
  PROVE  /\ work' \in [Handlers -> WorkRecord]
         /\ \A g \in Handlers \ {h} : work'[g] = work[g]
         /\ work'[h].pc = "locked" /\ work'[h].msg = work[h].msg
         /\ work'[h].row = work[h].row /\ work'[h].seen = s
BY DEF ReadRow, WorkRecord, Progress

\* What a request starts from.
Started(m, n) == [NoWork EXCEPT !.pc = "received", !.msg = m, !.row = n]

LEMMA StartWork ==
  ASSUME NEW m \in Messages, NEW n \in Nat
  PROVE  /\ Started(m, n) \in WorkRecord
         /\ Started(m, n).pc = "received" /\ Started(m, n).msg = m
         /\ Started(m, n).row = n
BY DEF Started, NoWork, WorkRecord, Progress

\* A request that ended leaves nothing behind.
LEMMA NoWorkType == NoWork \in WorkRecord /\ NoWork.pc = "idle"
BY DEF NoWork, WorkRecord, Progress

\* Changing one entry of an event list keeps it a list of results of its length.
LEMMA EventStep ==
  ASSUME events \in [Messages -> Seq(Results)], NEW h \in Handlers, NEW v \in Results,
         work[h].msg \in Messages, work[h].row \in 1..Len(events[work[h].msg]),
         SetEvent(h, v)
  PROVE  /\ events' \in [Messages -> Seq(Results)]
         /\ \A n \in Messages : Len(events'[n]) = Len(events[n])
<1> DEFINE m == work[h].msg
           e == [events[m] EXCEPT ![work[h].row] = v]
<1>1. e \in Seq(Results) /\ Len(e) = Len(events[m])
  BY ExceptSeq
<1>2. events' = [events EXCEPT ![m] = e]
  BY DEF SetEvent
<1> QED BY <1>1, <1>2

\* The handlers stay consistent when one of them advances to its outcome.
LEMMA AdvanceConsistent ==
  ASSUME TypeInv, NEW h \in Handlers, work[h].pc # "idle", NEW v \in Results,
         NEW p \in {"done", "recorded"}, Advance(h, p, v),
         \A n \in Messages : Len(events'[n]) = Len(events[n])
  PROVE  work' \in [Handlers -> WorkRecord] /\ HandlersConsistent'
<1>1. work \in [Handlers -> WorkRecord] /\ HandlersConsistent
  BY DEF TypeInv, TypeOK
<1>2. p \in Progress
  BY DEF Progress
<1>3. /\ work' \in [Handlers -> WorkRecord]
      /\ \A g \in Handlers \ {h} : work'[g] = work[g]
      /\ work'[h].pc = p /\ work'[h].result = v /\ work'[h].msg = work[h].msg
      /\ work'[h].row = work[h].row /\ work'[h].seen = work[h].seen
  BY <1>1, <1>2, AdvanceWork
<1>4. HandlersConsistent'
  BY <1>1, <1>3 DEF HandlersConsistent
<1> QED BY <1>3, <1>4

\* The time recorded for a payment is what its message and the clock make it.
LEMMA PaidAtFromIsPaidBy ==
  ASSUME NEW m \in Messages, clock \in Nat
  PROVE  PaidAtFrom(m.at) = PaidBy(m, clock) /\ PaidBy(m, clock) \in Nat
<1>1. /\ m.at \in Nat \cup {None} /\ None \notin Nat
      /\ MaxAge \in Nat /\ MaxAhead \in Nat
  BY ConstantsAssumption DEF MessageShape
<1> QED BY <1>1 DEF PaidAtFrom, PaidBy

LEMMA PaidByType ==
  ASSUME NEW m \in Messages, NEW now \in Nat
  PROVE  PaidBy(m, now) \in Nat /\ PaidBy(m, now) # None
<1>1. m.at \in Nat \cup {None} /\ None \notin Nat
  BY ConstantsAssumption DEF MessageShape
<1> QED BY <1>1 DEF PaidBy

LEMMA TypeInit == Init => TypeInv
<1> SUFFICES ASSUME Init PROVE TypeInv
  OBVIOUS
<1>1. work \in [Handlers -> WorkRecord]
  BY NoWorkType DEF Init
<1>2. TypeOK
  BY <1>1, ConstantsAssumption DEF Init, TypeOK, Statuses, NoCase
<1>3. HandlersConsistent /\ CasesConsistent
  BY DEF Init, HandlersConsistent, CasesConsistent, NoWork
<1> QED BY <1>2, <1>3 DEF TypeInv

\* Every step of every actor keeps the types.
LEMMA TypeStep == TypeInv /\ [Next]_vars => TypeInv'
<1> SUFFICES ASSUME TypeInv, [Next]_vars PROVE TypeInv'
  OBVIOUS
<1> USE DEF TypeInv, TypeOK, vars, orderVars, issueVars, createVars, webhookVars, netVars,
            sweepVars
<1>1. CASE UNCHANGED vars
  BY <1>1 DEF HandlersConsistent, CasesConsistent
<1>2. ASSUME NEW o \in Orders, CreateStep(o) \/ OpenPayment(o) \/ Elapse(o) PROVE TypeInv'
  <2> USE DEF HandlersConsistent, CasesConsistent
  <2>1. CASE PlaceOrder(o)
    BY <2>1 DEF PlaceOrder, Statuses
  <2>2. CASE PaymentCreated(o) \/ PaymentFailed(o)
    BY <2>2 DEF PaymentCreated, PaymentFailed
  <2>3. CASE StoreUrl(o)
    BY <2>3 DEF StoreUrl
  <2>4. CASE ExpireFailed(o)
    BY <2>4 DEF ExpireFailed, Statuses
  <2>5. CASE OpenPayment(o) \/ Elapse(o)
    BY <2>5 DEF OpenPayment, Elapse
  <2> QED BY <1>2, <2>1, <2>2, <2>3, <2>4, <2>5 DEF CreateStep
<1>3. CASE SweepStep
  <2> USE DEF HandlersConsistent, CasesConsistent
  <2>1. CASE SweepStart
    BY <2>1 DEF SweepStart
  <2>2. ASSUME NEW o \in Orders, SweepTake(o) PROVE TypeInv'
    BY <2>2 DEF SweepTake, Actors
  <2>3. ASSUME NEW o \in Orders, SweepSkip(o) PROVE TypeInv'
    BY <2>3 DEF SweepSkip
  <2>4. CASE SweepCommit
    BY <2>4 DEF SweepCommit, Statuses
  <2> QED BY <1>3, <2>1, <2>2, <2>3, <2>4 DEF SweepStep
<1>4. ASSUME NEW m \in Messages, Send(m) PROVE TypeInv'
  BY <1>4 DEF Send, HandlersConsistent, CasesConsistent
<1>5. ASSUME NEW h \in Handlers, HandlerStep(h) \/ LoseCommit(h) PROVE TypeInv'
  <2>0. /\ "done" \in {"done", "recorded"} /\ "recorded" \in {"done", "recorded"}
        /\ "error" \in Results /\ "order_not_found" \in Results
        /\ "invalid_signature" \in Results /\ "needs_review" \in Results
        /\ {"paid", "needs_review"} \subseteq Statuses
    BY DEF Results, WriteResults, SaleResults, Statuses
  <2>c. desk' = desk => CasesConsistent'
    BY DEF CasesConsistent
  <2>d. /\ work[h].pc # "idle" => work[h].msg \in Messages
        /\ work[h].pc = "locked" =>
             /\ work[h].msg.order \in Orders /\ PaidAtFrom(work[h].msg.at) \in Nat
             /\ work[h].msg.tx \in Txs \cup {None}
    BY ConstantsAssumption, PaidAtFromIsPaidBy DEF HandlersConsistent, MessageShape
  <2>1. CASE RejectUnsigned(h)
    <3>1. /\ work[h].msg \in Messages /\ work[h].row \in 1..Len(events[work[h].msg])
          /\ SetEvent(h, "invalid_signature")
      BY <2>1 DEF RejectUnsigned, HandlersConsistent
    <3>2. /\ events' \in [Messages -> Seq(Results)]
          /\ \A n \in Messages : Len(events'[n]) = Len(events[n])
      BY <3>1, <2>0, EventStep
    <3>3. work' \in [Handlers -> WorkRecord]
      BY <2>1, NoWorkType DEF RejectUnsigned
    <3>4. HandlersConsistent'
      BY <2>1, <3>2, NoWorkType DEF RejectUnsigned, HandlersConsistent
    <3> QED BY <2>1, <2>c, <3>2, <3>3, <3>4 DEF RejectUnsigned
  <2>2. CASE OrderNotFound(h)
    <3>1. work' \in [Handlers -> WorkRecord] /\ HandlersConsistent'
      BY <2>0, <2>2, AdvanceConsistent DEF OrderNotFound
    <3> QED BY <2>2, <2>c, <3>1 DEF OrderNotFound
  <2>3. CASE LockOrder(h)
    <3>b. PICK o \in Orders : /\ o = work[h].msg.order /\ Exists(o)
                            /\ locks' = [locks EXCEPT ![o] = h]
                            /\ ReadRow(h, status[o])
      BY <2>3 DEF LockOrder
    <3>1. status[o] \in Statuses
      BY <3>b DEF Exists
    <3>a. work \in [Handlers -> WorkRecord]
      OBVIOUS
    <3>2. /\ work' \in [Handlers -> WorkRecord]
          /\ \A g \in Handlers \ {h} : work'[g] = work[g]
          /\ work'[h].pc = "locked" /\ work'[h].msg = work[h].msg
          /\ work'[h].row = work[h].row /\ work'[h].seen = status[o]
      BY <3>a, <3>b, <3>1, LockWork
    <3>3. events' = events /\ work[h].pc # "idle" /\ work[h].msg.order \in Orders
      BY <2>3, <3>b DEF LockOrder
    <3>4. HandlersConsistent'
      BY <3>1, <3>2, <3>3 DEF HandlersConsistent
    <3> QED BY <2>3, <2>c, <3>b, <3>2, <3>4 DEF LockOrder, Actors
  <2>4. CASE LeaveAlone(h)
    <3>1. work' \in [Handlers -> WorkRecord] /\ HandlersConsistent'
      BY <2>0, <2>4, VerdictType, AdvanceConsistent DEF LeaveAlone, EndTransaction
    <3> QED BY <2>4, <2>c, <3>1 DEF LeaveAlone, EndTransaction
  <2>5. CASE HoldForReview(h)
    <3>1. work' \in [Handlers -> WorkRecord] /\ HandlersConsistent'
      BY <2>0, <2>5, AdvanceConsistent DEF HoldForReview, EndTransaction
    <3> QED BY <2>0, <2>5, <2>c, <2>d, <3>1 DEF HoldForReview, EndTransaction
  <2>6. ASSUME NEW c \in Codes, Sell(h, c) PROVE TypeInv'
    <3>1. work' \in [Handlers -> WorkRecord] /\ HandlersConsistent'
      BY <2>0, <2>6, VerdictType, AdvanceConsistent DEF Sell, EndTransaction
    <3> QED BY <2>0, <2>6, <2>c, <2>d, <3>1 DEF Sell, EndTransaction, IssueCertificate
  <2>7. CASE Abort(h)
    <3>1. work' \in [Handlers -> WorkRecord] /\ HandlersConsistent'
      BY <2>0, <2>7, AdvanceConsistent DEF Abort, EndTransaction
    <3> QED BY <2>7, <2>c, <3>1 DEF Abort, EndTransaction
  <2>8. CASE LoseCommit(h)
    <3>1. work' \in [Handlers -> WorkRecord] /\ HandlersConsistent'
      BY <2>0, <2>8, AdvanceConsistent DEF LoseCommit
    <3> QED BY <2>8, <2>c, <3>1, ConstantsAssumption DEF LoseCommit
  <2>9. CASE RecordOutcome(h)
    <3>1. /\ work[h].msg \in Messages /\ work[h].row \in 1..Len(events[work[h].msg])
          /\ work[h].result \in Results /\ SetEvent(h, work[h].result)
      BY <2>9 DEF RecordOutcome, HandlersConsistent
    <3>2. /\ events' \in [Messages -> Seq(Results)]
          /\ \A n \in Messages : Len(events'[n]) = Len(events[n])
      BY <3>1, EventStep
    <3>3. work' \in [Handlers -> WorkRecord] /\ HandlersConsistent'
      BY <2>0, <2>9, <3>1, <3>2, AdvanceConsistent DEF RecordOutcome
    <3> QED BY <2>9, <2>c, <3>2, <3>3 DEF RecordOutcome
  <2>10. CASE Answer(h)
    <3>1. work' \in [Handlers -> WorkRecord]
      BY <2>10, NoWorkType DEF Answer
    <3>2. HandlersConsistent'
      BY <2>10, NoWorkType DEF Answer, HandlersConsistent
    <3>3. acked' \subseteq Messages
      BY <2>10, <2>d DEF Answer
    <3> QED BY <2>10, <2>c, <3>1, <3>2, <3>3 DEF Answer, Notify
  <2> QED
    BY <1>5, <2>1, <2>2, <2>3, <2>4, <2>5, <2>6, <2>7, <2>8, <2>9, <2>10 DEF HandlerStep
<1>6. ASSUME NEW h \in Handlers, NEW m \in Messages, Receive(h, m) PROVE TypeInv'
  <2> DEFINE w == Started(m, Len(events[m]) + 1)
  <2>1. /\ Append(events[m], "received") \in Seq(Results)
        /\ Len(Append(events[m], "received")) = Len(events[m]) + 1
        /\ Len(events[m]) \in Nat
    BY DEF Results
  <2>2. w \in WorkRecord /\ w.pc = "received" /\ w.msg = m /\ w.row = Len(events[m]) + 1
    BY <2>1, StartWork
  <2>3. /\ events' = [events EXCEPT ![m] = Append(@, "received")]
        /\ work' = [work EXCEPT ![h] = w]
    BY <1>6 DEF Receive, Started
  <2> HIDE DEF w
  <2>4. events' \in [Messages -> Seq(Results)] /\ work' \in [Handlers -> WorkRecord]
    BY <2>1, <2>2, <2>3
  <2>5. HandlersConsistent'
    BY <2>1, <2>2, <2>3 DEF HandlersConsistent
  <2> QED BY <1>6, <2>4, <2>5 DEF Receive, CasesConsistent
<1>7. ASSUME NEW r \in Operators, OperatorStep(r) PROVE TypeInv'
  <2> USE DEF CloseCase, NoCase, Statuses, ResolutionActions, HandlersConsistent,
              CasesConsistent
  <2>1. CASE RefuseCase(r)
    BY <2>1 DEF RefuseCase
  <2>2. CASE RefundByHand(r)
    BY <2>2 DEF RefundByHand, AddResolution
  <2>3. CASE DropCase(r)
    BY <2>3, ConstantsAssumption DEF DropCase
  <2>4. ASSUME NEW c \in Codes, IssueByHand(r, c) PROVE TypeInv'
    BY <2>4 DEF IssueByHand, AddResolution, IssueCertificate
  <2> QED BY <1>7, <2>1, <2>2, <2>3, <2>4 DEF OperatorStep
<1>8. ASSUME NEW r \in Operators, NEW o \in Orders, NEW a \in ResolutionActions,
             OpenCase(r, o, a)
      PROVE  TypeInv'
  BY <1>8 DEF OpenCase, NoCase, Exists, Actors, HandlersConsistent, CasesConsistent
<1>9. CASE Crash
  <2>1. work' \in [Handlers -> WorkRecord] /\ HandlersConsistent'
    BY <1>9, NoWorkType DEF Crash, HandlersConsistent
  <2>2. /\ locks' \in [Orders -> Actors \cup {None}]
        /\ faults' \in 0..MaxFaults
    BY <1>9, ConstantsAssumption DEF Crash
  <2> QED BY <1>9, <2>1, <2>2 DEF Crash, CasesConsistent
<1>10. CASE Tick
  BY <1>10, ConstantsAssumption DEF Tick, HandlersConsistent, CasesConsistent
<1> QED BY <1>1, <1>2, <1>3, <1>4, <1>5, <1>6, <1>7, <1>8, <1>9, <1>10 DEF Next

\* Types, for any number of anything: the state of every actor and row stays in
\* the range its column or its code path allows.
THEOREM TypesHold == Spec => []TypeOK
<1>1. Init => TypeInv
  BY TypeInit
<1>2. TypeInv /\ [Next]_vars => TypeInv'
  BY TypeStep
<1>3. TypeInv => TypeOK
  BY DEF TypeInv
<1> QED BY <1>1, <1>2, <1>3, PTL DEF Spec

-------------------------------------------------------------------------------
(* Safety. PaidIffCertified and ResolutionTrail are not inductive: a handler *)
(* writes what it decided from the status it read, so they need that whoever *)
(* is inside a transaction holds the row lock and that what it read is still *)
(* the status of the order.                                                  *)

HandlersLock ==
  \A h \in Handlers : work[h].pc = "locked" =>
    locks[work[h].msg.order] = h /\ work[h].seen = status[work[h].msg.order]

CasesLock ==
  \A r \in Operators : desk[r] # NoCase =>
    locks[desk[r].order] = r /\ desk[r].seen = status[desk[r].order]

SweepLocks == \A o \in sweepHeld : locks[o] = Cron /\ status[o] = "pending"

Trail ==
  \A o \in Orders :
    /\ resolutions[o] \in {<<>>, <<"issue">>, <<"refunded">>}
    /\ status[o] = "refunded" <=> resolutions[o] = <<"refunded">>
    /\ resolutions[o] = <<"issue">> => status[o] = "paid"

LocksHeld == HandlersLock /\ CasesLock /\ SweepLocks
SafetyInv == TypeInv /\ LocksHeld /\ PaidIffCertified /\ Trail

LEMMA SafetyInit == Init => SafetyInv
<1> SUFFICES ASSUME Init PROVE SafetyInv
  OBVIOUS
<1>1. TypeInv
  BY TypeInit
<1>2. LocksHeld
  BY DEF Init, LocksHeld, HandlersLock, CasesLock, SweepLocks, NoWork
<1>3. PaidIffCertified /\ Trail
  BY DEF Init, PaidIffCertified, CertificatesOf, Trail
<1> QED BY <1>1, <1>2, <1>3 DEF SafetyInv

\* No transaction is working on an order.
Unwatched(o) ==
  /\ \A h \in Handlers : work[h].pc = "locked" => work[h].msg.order # o
  /\ \A r \in Operators : desk[r] # NoCase => desk[r].order # o
  /\ o \notin sweepHeld

\* Nor can one be, when the row is not locked or is not there yet.
LEMMA FreeIsUnwatched ==
  ASSUME SafetyInv, NEW o \in Orders, Free(o) \/ status[o] = "absent"
  PROVE  Unwatched(o)
<1>1. /\ HandlersConsistent /\ CasesConsistent /\ sweepHeld \subseteq Orders
      /\ HandlersLock /\ CasesLock /\ SweepLocks
  BY DEF SafetyInv, TypeInv, TypeOK, LocksHeld
<1>2. None \notin Actors /\ "absent" \notin Statuses
  BY ConstantsAssumption DEF Statuses
<1> QED
  BY <1>1, <1>2 DEF Unwatched, Free, Actors, HandlersConsistent, CasesConsistent,
       HandlersLock, CasesLock, SweepLocks, Statuses

\* A status change of an order nobody works on disturbs no transaction.
LEMMA FreeStatusChange ==
  ASSUME SafetyInv, NEW o \in Orders, Unwatched(o), NEW s,
         status' = [status EXCEPT ![o] = s],
         status[o] \in {"absent", "pending"}, s \in {"pending", "expired"},
         UNCHANGED <<certificates, resolutions, locks, work, desk, sweepHeld>>
  PROVE  LocksHeld' /\ PaidIffCertified' /\ Trail'
<1> USE DEF SafetyInv, TypeInv
<1>1. status \in [Orders -> Statuses \cup {"absent"}] /\ sweepHeld \subseteq Orders
  BY DEF TypeOK
<1>2. HandlersLock'
  BY <1>1 DEF LocksHeld, HandlersLock, Unwatched, HandlersConsistent
<1>3. CasesLock'
  BY <1>1 DEF LocksHeld, CasesLock, Unwatched, CasesConsistent
<1>4. SweepLocks'
  BY <1>1 DEF LocksHeld, SweepLocks, Unwatched
<1>5. PaidIffCertified' /\ Trail'
  BY <1>1 DEF PaidIffCertified, CertificatesOf, Trail
<1> QED BY <1>2, <1>3, <1>4, <1>5 DEF LocksHeld

\* A handler that ends its transaction had the only lock on its order, so what
\* it wrote there invalidates nothing that another transaction has read.
LEMMA HandlerRelease ==
  ASSUME SafetyInv, NEW h \in Handlers, work[h].pc = "locked", NEW v \in Results,
         EndTransaction(h, v), UNCHANGED <<desk, sweepHeld>>,
         \A p \in Orders \ {work[h].msg.order} : status'[p] = status[p]
  PROVE  LocksHeld'
<1> DEFINE o == work[h].msg.order
<1>1. /\ work \in [Handlers -> WorkRecord] /\ locks \in [Orders -> Actors \cup {None}]
      /\ sweepHeld \subseteq Orders /\ HandlersConsistent /\ CasesConsistent
      /\ HandlersLock /\ CasesLock /\ SweepLocks
  BY DEF SafetyInv, TypeInv, TypeOK, LocksHeld
<1>2. o \in Orders /\ locks[o] = h
  BY <1>1 DEF HandlersConsistent, HandlersLock
<1>3. h \notin Operators /\ h # Cron
  BY ConstantsAssumption
<1>4. /\ \A g \in Handlers \ {h} : work'[g] = work[g]
      /\ work'[h].pc = "done"
  BY <1>1, AdvanceWork DEF EndTransaction, Progress
<1>5. \A p \in Orders \ {o} : locks'[p] = locks[p]
  BY <1>1 DEF EndTransaction
<1>6. HandlersLock'
  BY <1>1, <1>2, <1>4, <1>5 DEF HandlersLock, HandlersConsistent
<1>7. CasesLock'
  BY <1>1, <1>2, <1>3, <1>5 DEF CasesLock, CasesConsistent
<1>8. SweepLocks'
  BY <1>1, <1>2, <1>3, <1>5 DEF SweepLocks
<1> QED BY <1>6, <1>7, <1>8 DEF LocksHeld

\* The same of an operator's transaction.
LEMMA CaseRelease ==
  ASSUME SafetyInv, NEW r \in Operators, desk[r] # NoCase, CloseCase(r),
         UNCHANGED <<work, sweepHeld>>,
         \A p \in Orders \ {desk[r].order} : status'[p] = status[p]
  PROVE  LocksHeld'
<1> DEFINE o == desk[r].order
<1>1. /\ locks \in [Orders -> Actors \cup {None}]
      /\ desk' = [desk EXCEPT ![r] = NoCase] /\ DOMAIN desk = Operators
      /\ sweepHeld \subseteq Orders /\ HandlersConsistent /\ CasesConsistent
      /\ HandlersLock /\ CasesLock /\ SweepLocks
  BY DEF SafetyInv, TypeInv, TypeOK, LocksHeld, CloseCase
<1>2. o \in Orders /\ locks[o] = r
  BY <1>1 DEF CasesConsistent, CasesLock
<1>3. r \notin Handlers /\ r # Cron
  BY ConstantsAssumption
<1>4. \A p \in Orders \ {o} : locks'[p] = locks[p]
  BY <1>1 DEF CloseCase
<1>5. HandlersLock'
  BY <1>1, <1>2, <1>3, <1>4 DEF HandlersLock, HandlersConsistent
<1>6. CasesLock'
  BY <1>1, <1>2, <1>4 DEF CasesLock, CasesConsistent
<1>7. SweepLocks'
  BY <1>1, <1>2, <1>3, <1>4 DEF SweepLocks
<1> QED BY <1>5, <1>6, <1>7 DEF LocksHeld

\* Issuing a certificate in the step that makes an order paid.
LEMMA IssueCertifies ==
  ASSUME SafetyInv, NEW o \in Orders, status[o] # "paid", NEW c \in Codes,
         IssueCertificate(o, c), status' = [status EXCEPT ![o] = "paid"]
  PROVE  PaidIffCertified'
<1>1. PaidIffCertified /\ status \in [Orders -> Statuses \cup {"absent"}]
  BY DEF SafetyInv, TypeInv, TypeOK
<1>2. certificates' = certificates \cup {[code |-> c, order |-> o]}
  BY DEF IssueCertificate
<1>3. \A k \in certificates : k.order # o /\ k.code # c
  BY <1>1 DEF PaidIffCertified, CertificatesOf, IssueCertificate, UsedCodes
<1>4. \A p \in Orders : status'[p] = "paid" <=> CertificatesOf(p)' # {}
  <2> TAKE p \in Orders
  <2>1. CASE p = o
    <3>1. [code |-> c, order |-> o] \in CertificatesOf(o)'
      BY <1>2 DEF CertificatesOf
    <3> QED BY <1>1, <2>1, <3>1
  <2>2. CASE p # o
    <3>1. CertificatesOf(p)' = CertificatesOf(p)
      BY <1>2, <2>2 DEF CertificatesOf
    <3> QED BY <1>1, <2>2, <3>1 DEF PaidIffCertified
  <2> QED BY <2>1, <2>2
<1>5. \A k, l \in certificates' : k.order = l.order \/ k.code = l.code => k = l
  BY <1>1, <1>2, <1>3 DEF PaidIffCertified
<1> QED BY <1>4, <1>5 DEF PaidIffCertified

\* The transactions of the order service keep what is paid certified, what is
\* decided by hand recorded, and what has been read true until they end.
LEMMA SafetyStep == SafetyInv /\ [Next]_vars => SafetyInv'
<1> SUFFICES ASSUME SafetyInv, [Next]_vars PROVE SafetyInv'
  OBVIOUS
<1>a. TypeInv /\ TypeInv' /\ PaidIffCertified /\ Trail /\ LocksHeld
  BY TypeStep DEF SafetyInv
<1>b. status \in [Orders -> Statuses \cup {"absent"}]
  BY <1>a DEF TypeInv, TypeOK
<1> SUFFICES LocksHeld' /\ PaidIffCertified' /\ Trail'
  BY <1>a DEF SafetyInv
<1> USE DEF vars, orderVars, issueVars, createVars, webhookVars, netVars, sweepVars
<1>c. UNCHANGED <<status, certificates>> => PaidIffCertified'
  BY <1>a DEF PaidIffCertified, CertificatesOf
<1>d. UNCHANGED <<status, resolutions>> => Trail'
  BY <1>a DEF Trail
<1>e. UNCHANGED <<status, locks, work, desk, sweepHeld>> => LocksHeld'
  BY <1>a DEF LocksHeld, HandlersLock, CasesLock, SweepLocks
<1>1. CASE UNCHANGED vars
  BY <1>1, <1>c, <1>d, <1>e
<1>2. ASSUME NEW o \in Orders, CreateStep(o) \/ OpenPayment(o) \/ Elapse(o)
      PROVE  LocksHeld' /\ PaidIffCertified' /\ Trail'
  <2>1. CASE PlaceOrder(o)
    BY <2>1, FreeIsUnwatched, FreeStatusChange DEF PlaceOrder
  <2>2. CASE ExpireFailed(o)
    <3>1. CASE status[o] = "pending"
      BY <2>2, <3>1, FreeIsUnwatched, FreeStatusChange DEF ExpireFailed
    <3>2. CASE status[o] # "pending"
      BY <1>b, <1>c, <1>d, <1>e, <2>2, <3>2 DEF ExpireFailed
    <3> QED BY <3>1, <3>2
  <2>3. CASE PaymentCreated(o) \/ PaymentFailed(o) \/ StoreUrl(o) \/ OpenPayment(o) \/ Elapse(o)
    BY <1>c, <1>d, <1>e, <2>3
       DEF PaymentCreated, PaymentFailed, StoreUrl, OpenPayment, Elapse
  <2> QED BY <1>2, <2>1, <2>2, <2>3 DEF CreateStep
<1>3. CASE SweepStep
  <2>1. CASE SweepStart
    BY <1>c, <1>d, <1>e, <2>1 DEF SweepStart
  <2>2. ASSUME NEW o \in Orders, SweepTake(o) PROVE LocksHeld' /\ PaidIffCertified' /\ Trail'
    <3>1. Unwatched(o)
      BY <2>2, FreeIsUnwatched DEF SweepTake
    <3>2. /\ locks' = [locks EXCEPT ![o] = Cron] /\ sweepHeld' = sweepHeld \cup {o}
          /\ status[o] = "pending" /\ UNCHANGED <<status, work, desk, certificates, resolutions>>
          /\ locks \in [Orders -> Actors \cup {None}] /\ sweepHeld \subseteq Orders
      BY <1>a, <2>2 DEF SweepTake, Stale, TypeInv, TypeOK
    <3>3. LocksHeld'
      BY <1>a, <3>1, <3>2 DEF LocksHeld, HandlersLock, CasesLock, SweepLocks, Unwatched,
           TypeInv, HandlersConsistent, CasesConsistent
    <3> QED BY <1>c, <1>d, <3>2, <3>3
  <2>3. ASSUME NEW o \in Orders, SweepSkip(o) PROVE LocksHeld' /\ PaidIffCertified' /\ Trail'
    BY <1>c, <1>d, <1>e, <2>3 DEF SweepSkip
  <2>4. CASE SweepCommit
    <3>1. /\ status' = [o \in Orders |-> IF o \in sweepHeld THEN "expired" ELSE status[o]]
          /\ locks' = [o \in Orders |-> IF o \in sweepHeld THEN None ELSE locks[o]]
          /\ sweepHeld' = {} /\ UNCHANGED <<work, desk, certificates, resolutions>>
      BY <2>4 DEF SweepCommit
    <3>2. \A o \in sweepHeld : locks[o] = Cron /\ status[o] = "pending"
      BY <1>a DEF LocksHeld, SweepLocks
    <3>3. Cron \notin Handlers /\ Cron \notin Operators
      BY ConstantsAssumption
    <3>4. LocksHeld'
      BY <1>a, <3>1, <3>2, <3>3 DEF LocksHeld, HandlersLock, CasesLock, SweepLocks, TypeInv,
           HandlersConsistent, CasesConsistent
    <3>5. PaidIffCertified' /\ Trail'
      BY <1>a, <3>1, <3>2 DEF PaidIffCertified, CertificatesOf, Trail
    <3> QED BY <3>4, <3>5
  <2> QED BY <1>3, <2>1, <2>2, <2>3, <2>4 DEF SweepStep
<1>4. ASSUME NEW m \in Messages, Send(m) PROVE LocksHeld' /\ PaidIffCertified' /\ Trail'
  BY <1>4, <1>c, <1>d, <1>e DEF Send
<1>5. ASSUME NEW h \in Handlers, HandlerStep(h) \/ LoseCommit(h)
      PROVE  LocksHeld' /\ PaidIffCertified' /\ Trail'
  <2> DEFINE o == work[h].msg.order
  <2>a. /\ work \in [Handlers -> WorkRecord]
        /\ locks \in [Orders -> Actors \cup {None}]
        /\ "error" \in Results /\ "needs_review" \in Results
    BY <1>a DEF TypeInv, TypeOK, Results, WriteResults
  <2>b. work[h].pc = "locked" => o \in Orders /\ work[h].seen = status[o]
    BY <1>a DEF TypeInv, HandlersConsistent, LocksHeld, HandlersLock
  <2>f. ASSUME work[h].pc # "locked", work'[h].pc # "locked",
               \A g \in Handlers \ {h} : work'[g] = work[g],
               UNCHANGED <<status, locks, desk, sweepHeld>>
        PROVE  LocksHeld'
    BY <1>a, <2>f DEF LocksHeld, HandlersLock, CasesLock, SweepLocks
  <2>1. CASE RejectUnsigned(h) \/ Answer(h)
    <3>1. LocksHeld'
      BY <2>1, <2>a, <2>f, NoWorkType DEF RejectUnsigned, Answer
    <3> QED BY <1>c, <1>d, <2>1, <3>1 DEF RejectUnsigned, Answer
  <2>2. CASE OrderNotFound(h) \/ LoseCommit(h) \/ RecordOutcome(h)
    <3>1. PICK p \in {"done", "recorded"}, v \in Results : Advance(h, p, v)
      BY <1>a, <2>2, <2>a DEF OrderNotFound, LoseCommit, RecordOutcome, Results, TypeInv,
           HandlersConsistent
    <3>2. (\A g \in Handlers \ {h} : work'[g] = work[g]) /\ work'[h].pc = p
      BY <2>a, <3>1, AdvanceWork DEF Progress
    <3>3. LocksHeld'
      BY <2>2, <2>f, <3>2 DEF OrderNotFound, LoseCommit, RecordOutcome
    <3> QED BY <1>c, <1>d, <2>2, <3>3 DEF OrderNotFound, LoseCommit, RecordOutcome
  <2>3. CASE LockOrder(h)
    <3>1. PICK q \in Orders : /\ q = o /\ Free(q) /\ status[q] # "absent"
                              /\ locks' = [locks EXCEPT ![q] = h] /\ ReadRow(h, status[q])
      BY <2>3 DEF LockOrder, Exists
    <3>2. Unwatched(q) /\ status[q] \in Statuses
      BY <1>b, <3>1, FreeIsUnwatched
    <3>3. /\ \A g \in Handlers \ {h} : work'[g] = work[g]
          /\ work'[h].msg = work[h].msg /\ work'[h].seen = status[q]
      BY <2>a, <3>1, <3>2, LockWork
    <3>4. UNCHANGED <<status, desk, sweepHeld, certificates, resolutions>>
      BY <2>3 DEF LockOrder
    <3>5. /\ HandlersLock /\ CasesLock /\ SweepLocks /\ HandlersConsistent
          /\ CasesConsistent /\ sweepHeld \subseteq Orders
      BY <1>a DEF LocksHeld, TypeInv, TypeOK
    <3>6. HandlersLock'
      BY <2>a, <3>1, <3>2, <3>3, <3>4, <3>5 DEF HandlersLock, Unwatched, HandlersConsistent
    <3>7. CasesLock'
      BY <2>a, <3>1, <3>2, <3>4, <3>5 DEF CasesLock, Unwatched, CasesConsistent
    <3>8. SweepLocks'
      BY <2>a, <3>1, <3>2, <3>4, <3>5 DEF SweepLocks, Unwatched
    <3> QED BY <1>c, <1>d, <3>4, <3>6, <3>7, <3>8 DEF LocksHeld
  <2>4. CASE LeaveAlone(h)
    BY <2>4, <1>c, <1>d, VerdictType, HandlerRelease DEF LeaveAlone
  <2>5. CASE Abort(h)
    BY <2>5, <2>a, <1>c, <1>d, HandlerRelease DEF Abort
  <2>6. CASE HoldForReview(h)
    <3>1. /\ o \in Orders /\ status[o] \notin Settled
          /\ status' = [status EXCEPT ![o] = "needs_review"]
          /\ UNCHANGED <<certificates, resolutions, desk, sweepHeld>>
      BY <2>6, <2>b DEF HoldForReview, Verdict
    <3>2. LocksHeld'
      BY <1>b, <2>6, <2>a, <3>1, HandlerRelease DEF HoldForReview
    <3>3. PaidIffCertified' /\ Trail'
      BY <1>a, <1>b, <3>1 DEF PaidIffCertified, CertificatesOf, Trail, Settled
    <3> QED BY <3>2, <3>3
  <2>7. ASSUME NEW c \in Codes, Sell(h, c) PROVE LocksHeld' /\ PaidIffCertified' /\ Trail'
    <3>1. /\ o \in Orders /\ status[o] \notin Settled
          /\ status' = [status EXCEPT ![o] = "paid"] /\ IssueCertificate(o, c)
          /\ UNCHANGED <<resolutions, desk, sweepHeld>>
      BY <2>7, <2>b DEF Sell, Verdict, SaleResults
    <3>2. LocksHeld'
      BY <1>b, <2>7, <3>1, VerdictType, HandlerRelease DEF Sell
    <3>3. PaidIffCertified'
      BY <3>1, IssueCertifies DEF Settled
    <3>4. Trail'
      BY <1>a, <1>b, <3>1 DEF Trail, Settled
    <3> QED BY <3>2, <3>3, <3>4
  <2> QED BY <1>5, <2>1, <2>2, <2>3, <2>4, <2>5, <2>6, <2>7 DEF HandlerStep
<1>6. ASSUME NEW h \in Handlers, NEW m \in Messages, Receive(h, m)
      PROVE  LocksHeld' /\ PaidIffCertified' /\ Trail'
  <2>1. /\ Len(events[m]) + 1 \in Nat /\ work \in [Handlers -> WorkRecord]
        /\ work' = [work EXCEPT ![h] = Started(m, Len(events[m]) + 1)]
    BY <1>6, <1>a DEF Receive, Started, TypeInv, TypeOK
  <2>2. (\A g \in Handlers \ {h} : work'[g] = work[g]) /\ work'[h].pc = "received"
    BY <2>1, StartWork
  <2>3. LocksHeld'
    BY <1>6, <1>a, <2>2 DEF Receive, LocksHeld, HandlersLock, CasesLock, SweepLocks
  <2> QED BY <1>6, <1>c, <1>d, <2>3 DEF Receive
<1>7. ASSUME NEW r \in Operators, OperatorStep(r)
      PROVE  LocksHeld' /\ PaidIffCertified' /\ Trail'
  <2> DEFINE o == desk[r].order
  <2>a. desk[r] # NoCase => o \in Orders /\ desk[r].seen = status[o]
    BY <1>a DEF TypeInv, CasesConsistent, LocksHeld, CasesLock
  <2>1. CASE RefuseCase(r) \/ DropCase(r)
    BY <2>1, <1>c, <1>d, CaseRelease DEF RefuseCase, DropCase
  <2>2. CASE RefundByHand(r)
    <3>1. /\ o \in Orders /\ status[o] = "needs_review"
          /\ status' = [status EXCEPT ![o] = "refunded"]
          /\ resolutions' = [resolutions EXCEPT ![o] = Append(@, "refunded")]
          /\ UNCHANGED certificates
      BY <2>2, <2>a DEF RefundByHand, AddResolution
    <3>2. LocksHeld'
      BY <1>b, <2>2, <3>1, CaseRelease DEF RefundByHand
    <3>3. resolutions[o] = <<>>
      BY <1>a, <3>1 DEF Trail
    <3>4. PaidIffCertified' /\ Trail'
      <4>1. resolutions' = [resolutions EXCEPT ![o] = <<"refunded">>]
        BY <3>1, <3>3
      <4>2. DOMAIN resolutions = Orders
        BY <1>a DEF TypeInv, TypeOK
      <4>3. <<"refunded">> # <<"issue">>
        BY <<"refunded">>[1] # <<"issue">>[1]
      <4>4. PaidIffCertified'
        BY <1>a, <1>b, <3>1 DEF PaidIffCertified, CertificatesOf
      <4>5. Trail'
        BY <1>a, <1>b, <3>1, <4>1, <4>2, <4>3 DEF Trail
      <4> QED BY <4>4, <4>5
    <3> QED BY <3>2, <3>4
  <2>3. ASSUME NEW c \in Codes, IssueByHand(r, c)
        PROVE  LocksHeld' /\ PaidIffCertified' /\ Trail'
    <3>1. /\ o \in Orders /\ status[o] = "needs_review"
          /\ status' = [status EXCEPT ![o] = "paid"] /\ IssueCertificate(o, c)
          /\ resolutions' = [resolutions EXCEPT ![o] = Append(@, "issue")]
      BY <2>3, <2>a DEF IssueByHand, AddResolution
    <3>2. LocksHeld'
      BY <1>b, <2>3, <3>1, CaseRelease DEF IssueByHand
    <3>3. PaidIffCertified'
      BY <3>1, IssueCertifies
    <3>4. Trail'
      <4>1. resolutions[o] = <<>>
        BY <1>a, <3>1 DEF Trail
      <4>2. resolutions' = [resolutions EXCEPT ![o] = <<"issue">>]
        BY <3>1, <4>1
      <4>3. DOMAIN resolutions = Orders
        BY <1>a DEF TypeInv, TypeOK
      <4>4. <<"refunded">> # <<"issue">>
        BY <<"refunded">>[1] # <<"issue">>[1]
      <4> QED BY <1>a, <1>b, <3>1, <4>2, <4>3, <4>4 DEF Trail
    <3> QED BY <3>2, <3>3, <3>4
  <2> QED BY <1>7, <2>1, <2>2, <2>3 DEF OperatorStep
<1>8. ASSUME NEW r \in Operators, NEW o \in Orders, NEW a \in ResolutionActions,
             OpenCase(r, o, a)
      PROVE  LocksHeld' /\ PaidIffCertified' /\ Trail'
  <2>1. Unwatched(o)
    BY <1>8, FreeIsUnwatched DEF OpenCase
  <2>2. /\ locks' = [locks EXCEPT ![o] = r]
        /\ desk' = [desk EXCEPT ![r] = [order |-> o, action |-> a, seen |-> status[o]]]
        /\ UNCHANGED <<status, work, sweepHeld, certificates, resolutions>>
    BY <1>8 DEF OpenCase
  <2>3. /\ HandlersLock /\ CasesLock /\ SweepLocks /\ HandlersConsistent
        /\ CasesConsistent /\ sweepHeld \subseteq Orders
        /\ locks \in [Orders -> Actors \cup {None}] /\ DOMAIN desk = Operators
    BY <1>a DEF LocksHeld, TypeInv, TypeOK
  <2>4. HandlersLock'
    BY <2>1, <2>2, <2>3 DEF HandlersLock, Unwatched, HandlersConsistent
  <2>5. CasesLock'
    BY <2>1, <2>2, <2>3 DEF CasesLock, Unwatched, CasesConsistent
  <2>6. SweepLocks'
    BY <2>1, <2>2, <2>3 DEF SweepLocks, Unwatched
  <2> QED BY <1>c, <1>d, <2>2, <2>4, <2>5, <2>6 DEF LocksHeld
<1>9. CASE Crash
  <2>1. LocksHeld'
    BY <1>9, <1>a, NoWorkType DEF Crash, LocksHeld, HandlersLock, CasesLock, SweepLocks,
         TypeInv, CasesConsistent
  <2> QED BY <1>9, <1>c, <1>d, <2>1 DEF Crash
<1>10. CASE Tick
  BY <1>10, <1>a, <1>c, <1>d DEF Tick, LocksHeld, HandlersLock, CasesLock, SweepLocks
<1> QED BY <1>1, <1>2, <1>3, <1>4, <1>5, <1>6, <1>7, <1>8, <1>9, <1>10 DEF Next

LEMMA SafetyHolds == Spec => []SafetyInv
BY SafetyInit, SafetyStep, PTL DEF Spec

\* However many duplicate deliveries, handlers, operators and crashes race, an
\* order is paid exactly when it has its one certificate, under a code of its own.
THEOREM PaidIffCertifiedHolds == Spec => []PaidIffCertified
<1>1. SafetyInv => PaidIffCertified
  BY DEF SafetyInv
<1> QED BY <1>1, SafetyHolds, PTL

\* order_resolutions has a row for an order if and only if a person decided it.
THEOREM ResolutionTrailHolds == Spec => []ResolutionTrail
<1>1. SafetyInv => ResolutionTrail
  <2>1. Len(<<>>) = 0 /\ Len(<<"issue">>) = 1 /\ Len(<<"refunded">>) = 1
    OBVIOUS
  <2>2. ASSUME NEW x, x = <<>> \/ x = <<"issue">> \/ x = <<"refunded">>
        PROVE  Len(x) <= 1
    <3>1. Len(x) = 0 \/ Len(x) = 1
      BY <2>1, <2>2
    <3> QED BY <3>1
  <2> QED BY <2>2 DEF SafetyInv, Trail, ResolutionTrail
<1> QED BY <1>1, SafetyHolds, PTL

-------------------------------------------------------------------------------
(* Every step of Orders is one of seven moves of the order table, and each   *)
(* move is a step of Sale: the concurrent service keeps the promise.         *)

Places(o) ==
  /\ status[o] = "absent" /\ status' = [status EXCEPT ![o] = "pending"]
  /\ UNCHANGED <<certificates, resolutions>>

Lapses(S) ==
  /\ \A o \in S : status[o] = "pending"
  /\ status' = [o \in Orders |-> IF o \in S THEN "expired" ELSE status[o]]
  /\ UNCHANGED <<certificates, resolutions>>

Sells(o, c) ==
  /\ status[o] \in {"pending", "expired"} /\ status' = [status EXCEPT ![o] = "paid"]
  /\ certificates' = certificates \cup {[code |-> c, order |-> o]}
  /\ UNCHANGED resolutions

Holds(o) ==
  /\ status[o] \in {"pending", "expired"} /\ status' = [status EXCEPT ![o] = "needs_review"]
  /\ UNCHANGED <<certificates, resolutions>>

Resolves(o) == resolutions[o] = <<>> /\ status[o] = "needs_review"

HandSells(o, c) ==
  /\ Resolves(o) /\ status' = [status EXCEPT ![o] = "paid"]
  /\ certificates' = certificates \cup {[code |-> c, order |-> o]}
  /\ resolutions' = [resolutions EXCEPT ![o] = <<"issue">>]

HandRefunds(o) ==
  /\ Resolves(o) /\ status' = [status EXCEPT ![o] = "refunded"]
  /\ UNCHANGED certificates
  /\ resolutions' = [resolutions EXCEPT ![o] = <<"refunded">>]

Move ==
  \/ UNCHANGED <<status, certificates, resolutions>>
  \/ \E o \in Orders : Places(o) \/ Holds(o) \/ HandRefunds(o)
  \/ \E S \in SUBSET Orders : Lapses(S)
  \/ \E o \in Orders, c \in Codes : Sells(o, c) \/ HandSells(o, c)

\* No step of any handler, cron run or operator does anything else to the table.
LEMMA StepsAreMoves == SafetyInv /\ [Next]_vars => Move
<1> SUFFICES ASSUME SafetyInv, [Next]_vars PROVE Move
  OBVIOUS
<1>a. /\ status \in [Orders -> Statuses \cup {"absent"}] /\ sweepHeld \subseteq Orders
      /\ HandlersConsistent /\ CasesConsistent /\ HandlersLock /\ CasesLock /\ SweepLocks
      /\ Trail
  BY DEF SafetyInv, TypeInv, TypeOK, LocksHeld
<1> USE DEF vars, orderVars, issueVars
<1>1. CASE UNCHANGED vars
  BY <1>1 DEF Move
<1>2. ASSUME NEW o \in Orders, CreateStep(o) \/ OpenPayment(o) \/ Elapse(o) PROVE Move
  <2>1. CASE PlaceOrder(o)
    BY <2>1 DEF PlaceOrder, Move, Places
  <2>2. CASE ExpireFailed(o)
    <3>1. CASE status[o] = "pending"
      <4>1. Lapses({o})
        BY <1>a, <2>2, <3>1 DEF ExpireFailed, Lapses
      <4> QED BY <4>1 DEF Move
    <3>2. CASE status[o] # "pending"
      BY <1>a, <2>2, <3>2 DEF ExpireFailed, Move
    <3> QED BY <3>1, <3>2
  <2>3. CASE PaymentCreated(o) \/ PaymentFailed(o) \/ StoreUrl(o) \/ OpenPayment(o) \/ Elapse(o)
    BY <2>3 DEF PaymentCreated, PaymentFailed, StoreUrl, OpenPayment, Elapse, Move
  <2> QED BY <1>2, <2>1, <2>2, <2>3 DEF CreateStep
<1>3. CASE SweepStep
  <2>1. CASE SweepCommit
    <3>1. Lapses(sweepHeld)
      BY <1>a, <2>1 DEF SweepCommit, Lapses, SweepLocks
    <3> QED BY <1>a, <3>1 DEF Move
  <2>2. CASE SweepStart \/ \E o \in Orders : SweepTake(o) \/ SweepSkip(o)
    BY <2>2 DEF SweepStart, SweepTake, SweepSkip, Move
  <2> QED BY <1>3, <2>1, <2>2 DEF SweepStep
<1>4. ASSUME NEW m \in Messages, Send(m) PROVE Move
  BY <1>4 DEF Send, Move
<1>5. ASSUME NEW h \in Handlers, HandlerStep(h) \/ LoseCommit(h) PROVE Move
  <2> DEFINE o == work[h].msg.order
  <2>b. work[h].pc = "locked" => o \in Orders /\ work[h].seen = status[o]
    BY <1>a DEF HandlersConsistent, HandlersLock
  <2>1. CASE HoldForReview(h)
    <3>1. o \in Orders /\ status[o] \notin Settled
      BY <2>1, <2>b DEF HoldForReview, Verdict
    <3>3. Holds(o)
      <4>1. work[h].seen # "absent"
        BY <2>1, <1>a DEF HoldForReview, HandlersConsistent, Statuses
      <4> QED BY <1>a, <2>1, <2>b, <3>1, <4>1 DEF HoldForReview, Holds, Settled, Statuses
    <3> QED BY <3>1, <3>3 DEF Move
  <2>2. ASSUME NEW c \in Codes, Sell(h, c) PROVE Move
    <3>1. o \in Orders /\ status[o] \notin Settled
      BY <2>2, <2>b DEF Sell, Verdict, SaleResults
    <3>3. Sells(o, c)
      <4>1. work[h].seen # "absent"
        BY <2>2, <1>a DEF Sell, HandlersConsistent, Statuses
      <4> QED BY <1>a, <2>2, <2>b, <3>1, <4>1
             DEF Sell, IssueCertificate, Sells, Settled, Statuses
    <3> QED BY <3>1, <3>3 DEF Move
  <2>3. CASE RejectUnsigned(h) \/ OrderNotFound(h) \/ LockOrder(h) \/ LeaveAlone(h) \/ Abort(h)
    BY <2>3 DEF RejectUnsigned, OrderNotFound, LockOrder, LeaveAlone, Abort, Move
  <2>4. CASE LoseCommit(h) \/ RecordOutcome(h) \/ Answer(h)
    BY <2>4 DEF LoseCommit, RecordOutcome, Answer, Move
  <2> QED BY <1>5, <2>1, <2>2, <2>3, <2>4 DEF HandlerStep
<1>6. ASSUME NEW h \in Handlers, NEW m \in Messages, Receive(h, m) PROVE Move
  BY <1>6 DEF Receive, Move
<1>7. ASSUME NEW r \in Operators, OperatorStep(r) PROVE Move
  <2> DEFINE o == desk[r].order
  <2>a. desk[r] # NoCase => o \in Orders /\ desk[r].seen = status[o]
    BY <1>a DEF CasesConsistent, CasesLock
  <2>b. status[o] = "needs_review" /\ o \in Orders => resolutions[o] = <<>>
    BY <1>a DEF Trail
  <2>1. CASE RefuseCase(r) \/ DropCase(r)
    BY <2>1 DEF RefuseCase, DropCase, Move
  <2>2. CASE RefundByHand(r)
    <3>1. /\ o \in Orders /\ Resolves(o) /\ UNCHANGED certificates
          /\ status' = [status EXCEPT ![o] = "refunded"]
          /\ resolutions' = [resolutions EXCEPT ![o] = Append(@, "refunded")]
      BY <2>2, <2>a, <2>b DEF RefundByHand, AddResolution, Resolves
    <3>2. resolutions' = [resolutions EXCEPT ![o] = <<"refunded">>]
      BY <3>1 DEF Resolves
    <3>3. HandRefunds(o)
      BY <3>1, <3>2 DEF HandRefunds
    <3> QED BY <3>1, <3>3 DEF Move
  <2>3. ASSUME NEW c \in Codes, IssueByHand(r, c) PROVE Move
    <3>1. /\ o \in Orders /\ Resolves(o)
          /\ status' = [status EXCEPT ![o] = "paid"]
          /\ certificates' = certificates \cup {[code |-> c, order |-> o]}
          /\ resolutions' = [resolutions EXCEPT ![o] = Append(@, "issue")]
      BY <2>3, <2>a, <2>b DEF IssueByHand, AddResolution, IssueCertificate, Resolves
    <3>2. resolutions' = [resolutions EXCEPT ![o] = <<"issue">>]
      BY <3>1 DEF Resolves
    <3>3. HandSells(o, c)
      BY <3>1, <3>2 DEF HandSells
    <3> QED BY <3>1, <3>3 DEF Move
  <2> QED BY <1>7, <2>1, <2>2, <2>3 DEF OperatorStep
<1>8. ASSUME NEW r \in Operators, NEW o \in Orders, NEW a \in ResolutionActions,
             OpenCase(r, o, a)
      PROVE  Move
  BY <1>8 DEF OpenCase, Move
<1>9. CASE Crash
  BY <1>9 DEF Crash, Move
<1>10. CASE Tick
  BY <1>10 DEF Tick, Move
<1> QED BY <1>1, <1>2, <1>3, <1>4, <1>5, <1>6, <1>7, <1>8, <1>9, <1>10 DEF Next

\* No interleaving of deliveries, cron, operators and crashes moves an order
\* against StatusMoves or ends a review without its resolution row.
THEOREM MovesAreLegalHolds == Spec => MovesAreLegal
<1> DEFINE Legal(o) ==
      /\ status'[o] # status[o] => <<status[o], status'[o]>> \in StatusMoves
      /\ status[o] = "needs_review" /\ status'[o] # "needs_review"
           => Len(resolutions'[o]) = Len(resolutions[o]) + 1
<1>1. ASSUME SafetyInv, [Next]_vars, NEW o \in Orders PROVE Legal(o)
  <2>a. /\ status \in [Orders -> Statuses \cup {"absent"}] /\ DOMAIN resolutions = Orders
    BY <1>1 DEF SafetyInv, TypeInv, TypeOK
  <2>b. Len(<<>>) = 0 /\ Len(<<"issue">>) = 1 /\ Len(<<"refunded">>) = 1
    OBVIOUS
  <2>m. Move
    BY <1>1, StepsAreMoves
  <2>1. CASE UNCHANGED <<status, certificates, resolutions>>
    BY <2>1
  <2>2. ASSUME NEW p \in Orders, Places(p) \/ Holds(p) PROVE Legal(o)
    BY <2>a, <2>2 DEF Places, Holds, StatusMoves
  <2>3. ASSUME NEW S \in SUBSET Orders, Lapses(S) PROVE Legal(o)
    BY <2>a, <2>3 DEF Lapses, StatusMoves
  <2>4. ASSUME NEW p \in Orders, NEW c \in Codes, Sells(p, c) PROVE Legal(o)
    BY <2>a, <2>4 DEF Sells, StatusMoves
  <2>5. ASSUME NEW p \in Orders, HandRefunds(p) PROVE Legal(o)
    <3>1. CASE o = p
      <4>1. Len(resolutions'[o]) = Len(resolutions[o]) + 1
        BY <2>a, <2>b, <2>5, <3>1 DEF HandRefunds, Resolves
      <4> QED BY <2>a, <2>5, <3>1, <4>1 DEF HandRefunds, Resolves, StatusMoves
    <3>2. CASE o # p
      BY <2>a, <2>5, <3>2 DEF HandRefunds
    <3> QED BY <3>1, <3>2
  <2>6. ASSUME NEW p \in Orders, NEW c \in Codes, HandSells(p, c) PROVE Legal(o)
    <3>1. CASE o = p
      <4>1. Len(resolutions'[o]) = Len(resolutions[o]) + 1
        BY <2>a, <2>b, <2>6, <3>1 DEF HandSells, Resolves
      <4> QED BY <2>a, <2>6, <3>1, <4>1 DEF HandSells, Resolves, StatusMoves
    <3>2. CASE o # p
      BY <2>a, <2>6, <3>2 DEF HandSells
    <3> QED BY <3>1, <3>2
  <2> HIDE DEF Legal
  <2> QED BY <2>m, <2>1, <2>2, <2>3, <2>4, <2>5, <2>6 DEF Move
<1>2. SafetyInv /\ [Next]_vars => [\A o \in Orders : Legal(o)]_vars
  BY <1>1
<1> QED BY <1>2, SafetyHolds, PTL DEF Spec, MovesAreLegal

\* The service implements Sale: sold at most once, certified in the step that
\* sells, reviews ended once and by a person, sales and refunds final.
THEOREM PromiseKept == Spec => KeepsPromise
<1> DEFINE state == [o \in Orders |-> Phase[status[o]]]
           issued == {k.order : k \in certificates}
           decided == {o \in Orders : resolutions[o] # <<>>}
<1>a. /\ Phase["absent"] = "none" /\ Phase["pending"] = "open" /\ Phase["expired"] = "lapsed"
      /\ Phase["needs_review"] = "held" /\ Phase["paid"] = "sold"
      /\ Phase["refunded"] = "refunded"
  BY DEF Phase
<1>1. Init => Promise!Init
  <2> SUFFICES ASSUME Init PROVE Promise!Init
    OBVIOUS
  <2>1. state \in [Orders -> {"none", "held"}]
    BY <1>a DEF Init
  <2>2. issued = {} /\ decided = {}
    BY DEF Init
  <2> QED BY <2>1, <2>2 DEF Promise!Init
<1>2. SafetyInv /\ [Next]_vars => [Promise!Next]_(Promise!saleVars)
  <2> SUFFICES ASSUME SafetyInv, [Next]_vars PROVE [Promise!Next]_(Promise!saleVars)
    OBVIOUS
  <2>a. /\ status \in [Orders -> Statuses \cup {"absent"}] /\ DOMAIN resolutions = Orders
        /\ certificates \in SUBSET [code : Codes, order : Orders]
    BY DEF SafetyInv, TypeInv, TypeOK
  <2>b. ASSUME NEW K, NEW o, NEW c
        PROVE  {k.order : k \in K \cup {[code |-> c, order |-> o]}}
                 = {k.order : k \in K} \cup {o}
    <3>1. [code |-> c, order |-> o].order = o
      OBVIOUS
    <3> QED BY <3>1
  <2>m. Move
    BY StepsAreMoves
  <2>1. CASE UNCHANGED <<status, certificates, resolutions>>
    BY <2>1 DEF Promise!saleVars
  <2>2. ASSUME NEW o \in Orders, Places(o) PROVE Promise!Place(o)
    BY <1>a, <2>a, <2>2 DEF Places, Promise!Place
  <2>3. ASSUME NEW S \in SUBSET Orders, Lapses(S) PROVE Promise!Lapse(S)
    BY <1>a, <2>a, <2>3 DEF Lapses, Promise!Lapse
  <2>4. ASSUME NEW o \in Orders, Holds(o) PROVE Promise!Hold(o)
    BY <1>a, <2>a, <2>4 DEF Holds, Promise!Hold
  <2>5. ASSUME NEW o \in Orders, NEW c \in Codes, Sells(o, c) PROVE Promise!Sell(o)
    <3>1. issued' = issued \cup {o}
      BY <2>b, <2>5 DEF Sells
    <3>2. state' = [state EXCEPT ![o] = "sold"] /\ state[o] \in {"open", "lapsed"}
      BY <1>a, <2>a, <2>5 DEF Sells
    <3>3. decided' = decided
      BY <2>5 DEF Sells
    <3> QED BY <3>1, <3>2, <3>3 DEF Promise!Sell
  <2>6. ASSUME NEW o \in Orders, NEW c \in Codes, HandSells(o, c) PROVE Promise!DecideSell(o)
    <3>1. issued' = issued \cup {o}
      BY <2>b, <2>6 DEF HandSells
    <3>2. state' = [state EXCEPT ![o] = "sold"] /\ state[o] = "held"
      BY <1>a, <2>a, <2>6 DEF HandSells, Resolves
    <3>3. decided' = decided \cup {o} /\ o \notin decided
      BY <2>a, <2>6 DEF HandSells, Resolves
    <3> QED BY <3>1, <3>2, <3>3 DEF Promise!DecideSell
  <2>7. ASSUME NEW o \in Orders, HandRefunds(o) PROVE Promise!DecideRefund(o)
    BY <1>a, <2>a, <2>7 DEF HandRefunds, Resolves, Promise!DecideRefund
  <2> QED BY <2>m, <2>1, <2>2, <2>3, <2>4, <2>5, <2>6, <2>7 DEF Move, Promise!Next
<1> QED BY <1>1, <1>2, SafetyHolds, PTL DEF Spec, KeepsPromise, Promise!Spec

-------------------------------------------------------------------------------
(* Where the money is: every settled order has its payment behind it, an     *)
(* answered payment is settled, it is announced once, and the log of webhook *)
(* events agrees with the orders.  All of it follows from what a handler     *)
(* carries from the moment it writes to the moment it answers.               *)

\* What a handler works on was sent, and signed once it is in a transaction; a
\* signed message to our account is about a payment of an order that exists.
Origins ==
  /\ \A h \in Handlers :
       /\ work[h].pc # "idle" => work[h].msg \in sent
       /\ work[h].pc = "locked" => work[h].msg.signed
  /\ \A m \in sent : m.signed /\ m.ours => m.order \in finik
  /\ \A o \in finik : status[o] # "absent"
  /\ \A o \in legacy : status[o] \in Settled

\* A payment to our account that a handler will answer 200 is settled.
Ends == {"done", "recorded"}
Answered ==
  \A h \in Handlers :
    /\ work[h].pc \in Ends /\ work[h].result # "error"
    /\ Legitimate(work[h].msg) /\ work[h].msg.order \in Orders
    => status[work[h].msg.order] \in Settled

-------------------------------------------------------------------------------
(* What a step may do to the table of orders and to the handlers.            *)

webhookView == <<work, events, notices, acked>>

\* Orders are placed or lapse, or nothing happens to them.
Drifts ==
  /\ \A o \in Orders : status'[o] # status[o] =>
       status[o] \notin Settled /\ status'[o] \notin Settled
  /\ UNCHANGED <<paidAt, txId, resolutions, webhookView>>

\* A handler settles the order of its message, as the amount says.
Settles(h, v) ==
  LET m == work[h].msg
      o == m.order
  IN
  /\ work[h].pc = "locked" /\ o \in Orders /\ Legitimate(m) /\ m \in sent
  /\ status[o] \in {"pending", "expired"}
  /\ status' = [status EXCEPT ![o] = IF m.exact THEN "paid" ELSE "needs_review"]
  /\ paidAt' = [paidAt EXCEPT ![o] = PaidAtFrom(m.at)] /\ txId' = [txId EXCEPT ![o] = m.tx]
  /\ IF m.exact THEN v \in SaleResults ELSE v = "needs_review"
  /\ Advance(h, "done", v)
  /\ UNCHANGED <<resolutions, events, notices, acked>>

\* A person ends the review of an order.
Decides(o) ==
  /\ status[o] = "needs_review" /\ resolutions[o] = <<>> /\ resolutions'[o] # <<>>
  /\ \E s \in {"paid", "refunded"} : status' = [status EXCEPT ![o] = s]
  /\ \A p \in Orders \ {o} : resolutions'[p] = resolutions[p] /\ paidAt'[p] = paidAt[p]
  /\ paidAt[o] # None => paidAt'[o] = paidAt[o]
  /\ UNCHANGED <<txId, webhookView>>

\* A handler comes to an end without a write, or forgets that it wrote.
Concludes(h, v) ==
  /\ work[h].pc \in {"received", "locked", "done"} /\ v \in Results \ WriteResults
  /\ v # "error" /\ Legitimate(work[h].msg) /\ work[h].msg.order \in Orders
       => status[work[h].msg.order] \in Settled
  /\ work[h].pc = "done" => faults' # 0
  /\ Advance(h, "done", v)
  /\ UNCHANGED <<events, notices, acked>>

Quiet == UNCHANGED <<status, paidAt, txId, resolutions>>

\* A step that only moves a handler.
Serves ==
  \/ \E h \in Handlers, m \in Messages : Receive(h, m)
  \/ \E h \in Handlers : RejectUnsigned(h) \/ LockOrder(h) \/ RecordOutcome(h) \/ Answer(h)
  \/ \E h \in Handlers, v \in Results : Concludes(h, v)
  \/ Crash

Effect ==
  /\ UNCHANGED legacy
  /\ faults' = 0 => faults = 0
  /\ \/ Drifts
     \/ \E h \in Handlers, v \in WriteResults : Settles(h, v)
     \/ \E o \in Orders : Decides(o)
     \/ Quiet /\ Serves

\* What a verdict to write means: a legitimate message, for an order not settled.
LEMMA WritingVerdict ==
  ASSUME NEW m, m \in Messages, NEW s, Verdict(m, s) \in WriteResults, m.signed
  PROVE  /\ Legitimate(m) /\ s \notin Settled
         /\ m.exact => Verdict(m, s) \in SaleResults
         /\ ~m.exact => Verdict(m, s) = "needs_review"
BY DEF Verdict, WriteResults, SaleResults, Legitimate

\* Every other verdict on a legitimate message is that its order is settled.
LEMMA IdleVerdict ==
  ASSUME NEW m, m \in Messages, NEW s, Verdict(m, s) \notin WriteResults, Legitimate(m)
  PROVE  s \in Settled
BY DEF Verdict, WriteResults, SaleResults, Legitimate

LEMMA Effects ==
  ASSUME SafetyInv, Origins, [Next]_vars
  PROVE  Effect
<1>a. /\ status \in [Orders -> Statuses \cup {"absent"}] /\ sweepHeld \subseteq Orders
      /\ DOMAIN paidAt = Orders /\ DOMAIN resolutions = Orders /\ faults \in Nat
      /\ HandlersConsistent /\ CasesConsistent /\ HandlersLock /\ CasesLock /\ SweepLocks
      /\ Trail
  BY DEF SafetyInv, TypeInv, TypeOK, LocksHeld
<1>b. {"error", "order_not_found"} \subseteq Results \ WriteResults
  BY DEF Results, WriteResults, SaleResults
<1> USE DEF vars, orderVars, issueVars, webhookVars, netVars, webhookView
<1>1. CASE UNCHANGED vars
  BY <1>1 DEF Effect, Drifts
<1>2. ASSUME NEW o \in Orders, CreateStep(o) \/ OpenPayment(o) \/ Elapse(o) PROVE Effect
  <2>1. CASE PlaceOrder(o)
    BY <1>a, <2>1 DEF PlaceOrder, Effect, Drifts, Settled
  <2>2. CASE ExpireFailed(o)
    BY <1>a, <2>2 DEF ExpireFailed, Effect, Drifts, Settled
  <2>3. CASE PaymentCreated(o) \/ PaymentFailed(o) \/ StoreUrl(o) \/ OpenPayment(o) \/ Elapse(o)
    BY <2>3 DEF PaymentCreated, PaymentFailed, StoreUrl, OpenPayment, Elapse, Effect, Drifts
  <2> QED BY <1>2, <2>1, <2>2, <2>3 DEF CreateStep
<1>3. CASE SweepStep
  <2>1. CASE SweepCommit
    BY <1>a, <2>1 DEF SweepCommit, SweepLocks, Effect, Drifts, Settled
  <2>2. CASE SweepStart \/ \E o \in Orders : SweepTake(o) \/ SweepSkip(o)
    BY <2>2 DEF SweepStart, SweepTake, SweepSkip, Effect, Drifts
  <2> QED BY <1>3, <2>1, <2>2 DEF SweepStep
<1>4. ASSUME NEW m \in Messages, Send(m) PROVE Effect
  BY <1>4 DEF Send, Effect, Drifts
<1>5. ASSUME NEW h \in Handlers, HandlerStep(h) \/ LoseCommit(h) PROVE Effect
  <2> DEFINE m == work[h].msg
             o == m.order
  <2>a. /\ work[h].pc # "idle" => m \in Messages /\ m \in sent
        /\ work[h].pc = "locked" => /\ m.signed /\ o \in Orders
                                    /\ work[h].seen = status[o] /\ work[h].seen \in Statuses
    BY <1>a DEF HandlersConsistent, HandlersLock, Origins
  <2>1. CASE RejectUnsigned(h) \/ LockOrder(h) \/ RecordOutcome(h) \/ Answer(h)
    <3>1. Quiet /\ UNCHANGED <<legacy, faults>>
      BY <2>1 DEF RejectUnsigned, LockOrder, RecordOutcome, Answer, Quiet
    <3>2. Serves
      BY <2>1 DEF Serves
    <3> QED BY <3>1, <3>2 DEF Effect
  <2>2. CASE OrderNotFound(h)
    <3>1. Legitimate(m) /\ o \in Orders => FALSE
      BY <2>2, <2>a DEF OrderNotFound, Legitimate, Exists, Origins
    <3>2. Concludes(h, "order_not_found")
      BY <1>b, <2>2, <3>1 DEF OrderNotFound, Concludes
    <3>3. Quiet /\ UNCHANGED <<legacy, faults>>
      BY <2>2 DEF OrderNotFound, Quiet
    <3> QED BY <1>b, <3>2, <3>3 DEF Effect, Serves
  <2>3. CASE LeaveAlone(h)
    <3> DEFINE v == Verdict(m, work[h].seen)
    <3>1. work[h].pc = "locked" /\ v \notin WriteResults /\ Advance(h, "done", v)
      BY <2>3 DEF LeaveAlone, EndTransaction
    <3>2. Legitimate(m) => status[o] \in Settled
      BY <2>a, <3>1, IdleVerdict
    <3>3. v \in Results
      BY VerdictType
    <3>4. Quiet /\ UNCHANGED <<legacy, faults, events, notices, acked>>
      BY <2>3 DEF LeaveAlone, Quiet
    <3> HIDE DEF v
    <3>5. Concludes(h, v)
      BY <3>1, <3>2, <3>3, <3>4 DEF Concludes
    <3> QED BY <3>3, <3>4, <3>5 DEF Effect, Serves
  <2>4. CASE Abort(h)
    <3>1. Concludes(h, "error")
      BY <1>b, <2>4 DEF Abort, EndTransaction, Concludes
    <3>2. Quiet /\ UNCHANGED <<legacy, faults>>
      BY <2>4 DEF Abort, Quiet
    <3> QED BY <1>b, <3>1, <3>2 DEF Effect, Serves
  <2>5. CASE LoseCommit(h)
    <3>1. faults' # 0
      BY <1>a, <2>5 DEF LoseCommit
    <3>2. Concludes(h, "error")
      BY <1>b, <2>5, <3>1 DEF LoseCommit, Concludes
    <3>3. Quiet /\ UNCHANGED legacy
      BY <2>5 DEF LoseCommit, Quiet
    <3> QED BY <1>b, <3>1, <3>2, <3>3 DEF Effect, Serves
  <2>6. CASE HoldForReview(h)
    <3> DEFINE v == Verdict(m, work[h].seen)
    <3>1. work[h].pc = "locked" /\ v = "needs_review" /\ v \in WriteResults
      BY <2>6 DEF HoldForReview, WriteResults
    <3>2. Legitimate(m) /\ status[o] \notin Settled /\ (m.exact => v \in SaleResults)
      BY <2>a, <3>1, WritingVerdict
    <3>3. ~m.exact /\ status[o] \in {"pending", "expired"}
      BY <2>a, <3>1, <3>2 DEF SaleResults, Settled, Statuses
    <3>4. Settles(h, "needs_review")
      BY <2>6, <2>a, <3>1, <3>2, <3>3 DEF HoldForReview, EndTransaction, Settles
    <3>5. UNCHANGED <<legacy, faults>>
      BY <2>6 DEF HoldForReview
    <3> QED BY <3>4, <3>5 DEF Effect, WriteResults
  <2>7. ASSUME NEW c \in Codes, Sell(h, c) PROVE Effect
    <3> DEFINE v == Verdict(m, work[h].seen)
    <3>1. work[h].pc = "locked" /\ v \in SaleResults /\ v \in WriteResults
      BY <2>7 DEF Sell, WriteResults
    <3>2. /\ Legitimate(m) /\ status[o] \notin Settled
          /\ (~m.exact => v = "needs_review")
      BY <2>a, <3>1, WritingVerdict
    <3>3. m.exact /\ status[o] \in {"pending", "expired"}
      BY <2>a, <3>1, <3>2 DEF SaleResults, Settled, Statuses
    <3>4. /\ status' = [status EXCEPT ![o] = "paid"] /\ Advance(h, "done", v)
          /\ paidAt' = [paidAt EXCEPT ![o] = PaidAtFrom(m.at)]
          /\ txId' = [txId EXCEPT ![o] = m.tx]
          /\ UNCHANGED <<resolutions, events, notices, acked, legacy, faults>>
      BY <2>7 DEF Sell, EndTransaction
    <3> HIDE DEF v
    <3>5. Settles(h, v)
      BY <2>a, <3>1, <3>2, <3>3, <3>4 DEF Settles
    <3> QED BY <3>1, <3>4, <3>5 DEF Effect
  <2> QED BY <1>5, <2>1, <2>2, <2>3, <2>4, <2>5, <2>6, <2>7 DEF HandlerStep
<1>6. ASSUME NEW h \in Handlers, NEW m \in Messages, Receive(h, m) PROVE Effect
  <2>1. Quiet /\ UNCHANGED <<legacy, faults>>
    BY <1>6 DEF Receive, Quiet
  <2> QED BY <1>6, <2>1 DEF Effect, Serves
<1>7. ASSUME NEW r \in Operators, OperatorStep(r) PROVE Effect
  <2> DEFINE o == desk[r].order
  <2>a. desk[r] # NoCase => o \in Orders /\ desk[r].seen = status[o]
    BY <1>a DEF CasesConsistent, CasesLock
  <2>b. status[o] = "needs_review" /\ o \in Orders => resolutions[o] = <<>>
    BY <1>a DEF Trail
  <2>c. \A a : Append(<<>>, a) # <<>>
    OBVIOUS
  <2>1. CASE RefuseCase(r) \/ DropCase(r)
    BY <1>a, <2>1 DEF RefuseCase, DropCase, Effect, Drifts
  <2>2. CASE RefundByHand(r)
    <3>1. Decides(o)
      BY <1>a, <2>2, <2>a, <2>b, <2>c DEF RefundByHand, AddResolution, Decides
    <3> QED BY <2>2, <2>a, <3>1 DEF RefundByHand, Effect
  <2>3. ASSUME NEW c \in Codes, IssueByHand(r, c) PROVE Effect
    <3>1. Decides(o)
      BY <1>a, <2>3, <2>a, <2>b, <2>c DEF IssueByHand, AddResolution, Decides
    <3> QED BY <2>3, <2>a, <3>1 DEF IssueByHand, Effect
  <2> QED BY <1>7, <2>1, <2>2, <2>3 DEF OperatorStep
<1>8. ASSUME NEW r \in Operators, NEW o \in Orders, NEW a \in ResolutionActions,
             OpenCase(r, o, a)
      PROVE  Effect
  BY <1>8 DEF OpenCase, Effect, Drifts
<1>9. CASE Crash
  <2>1. Quiet /\ UNCHANGED legacy /\ faults' # 0
    BY <1>a, <1>9 DEF Crash, Quiet
  <2> QED BY <1>9, <2>1 DEF Effect, Serves
<1>10. CASE Tick
  BY <1>10 DEF Tick, Effect, Drifts
<1> QED BY <1>1, <1>2, <1>3, <1>4, <1>5, <1>6, <1>7, <1>8, <1>9, <1>10 DEF Next

-------------------------------------------------------------------------------
(* Each part of the invariant is kept.                                       *)

\* What is settled stays settled, and no order disappears.
LEMMA SettledStays ==
  ASSUME SafetyInv, [Next]_vars, NEW o \in Orders
  PROVE  /\ status[o] \in Settled => status'[o] \in Settled
         /\ status[o] # "absent" => status'[o] # "absent"
<1>1. status \in [Orders -> Statuses \cup {"absent"}]
  BY DEF SafetyInv, TypeInv, TypeOK
<1>2. Move
  BY StepsAreMoves
<1> QED
  BY <1>1, <1>2 DEF Move, Places, Holds, HandRefunds, Lapses, Sells, HandSells, Resolves, Settled

LEMMA OriginsInit == Init => Origins
BY DEF Init, Origins, NoWork, Settled

LEMMA OriginsStep ==
  ASSUME SafetyInv, Origins, [Next]_vars
  PROVE  Origins'
<1>a. /\ work \in [Handlers -> WorkRecord] /\ finik \subseteq Orders /\ legacy \subseteq Orders
      /\ status \in [Orders -> Statuses \cup {"absent"}]
      /\ SafetyInv'
  BY SafetyStep DEF SafetyInv, TypeInv, TypeOK
<1> USE DEF vars, orderVars, issueVars, createVars, webhookVars, netVars, sweepVars
<1>b. ASSUME UNCHANGED <<work, sent, finik, legacy>> PROVE Origins'
  BY <1>a, <1>b, SettledStays DEF Origins
<1>c. ASSUME UNCHANGED <<sent, finik, legacy>>, NEW h \in Handlers,
             \A g \in Handlers \ {h} : work'[g] = work[g],
             work'[h].pc # "idle" => work'[h].msg \in sent,
             work'[h].pc = "locked" => work'[h].msg.signed
      PROVE  Origins'
  BY <1>a, <1>c, SettledStays DEF Origins
<1>1. CASE UNCHANGED vars
  BY <1>1, <1>b
<1>2. ASSUME NEW o \in Orders, CreateStep(o) \/ OpenPayment(o) \/ Elapse(o) PROVE Origins'
  <2>1. CASE OpenPayment(o)
    BY <1>a, <2>1 DEF OpenPayment, Origins
  <2>2. CASE PlaceOrder(o) \/ ExpireFailed(o) \/ PaymentCreated(o) \/ PaymentFailed(o)
               \/ StoreUrl(o) \/ Elapse(o)
    BY <1>b, <2>2 DEF PlaceOrder, ExpireFailed, PaymentCreated, PaymentFailed, StoreUrl, Elapse
  <2> QED BY <1>2, <2>1, <2>2 DEF CreateStep
<1>3. CASE SweepStep
  BY <1>3, <1>b DEF SweepStep, SweepStart, SweepCommit, SweepTake, SweepSkip
<1>4. ASSUME NEW m \in Messages, Send(m) PROVE Origins'
  BY <1>4 DEF Send, Origins
<1>5. ASSUME NEW h \in Handlers, HandlerStep(h) \/ LoseCommit(h) PROVE Origins'
  <2>a. work[h].pc # "idle" => work[h].msg \in sent
    BY DEF Origins
  <2>1. CASE RejectUnsigned(h) \/ Answer(h)
    <3>1. /\ UNCHANGED <<sent, finik, legacy>>
          /\ work' = [work EXCEPT ![h] = NoWork]
      BY <2>1 DEF RejectUnsigned, Answer
    <3> QED BY <1>a, <1>c, <3>1, NoWorkType
  <2>2. CASE LockOrder(h)
    <3>1. PICK o \in Orders : Exists(o) /\ ReadRow(h, status[o])
      BY <2>2 DEF LockOrder
    <3>2. status[o] \in Statuses
      BY <1>a, <3>1 DEF Exists
    <3>3. /\ \A g \in Handlers \ {h} : work'[g] = work[g]
          /\ work'[h].pc = "locked" /\ work'[h].msg = work[h].msg
      BY <1>a, <3>1, <3>2, LockWork
    <3>4. work[h].pc = "received" /\ work[h].msg.signed /\ UNCHANGED <<sent, finik, legacy>>
      BY <2>2 DEF LockOrder, Verified
    <3> QED BY <1>c, <2>a, <3>3, <3>4
  <2>3. CASE \/ OrderNotFound(h) \/ LeaveAlone(h) \/ Abort(h) \/ RecordOutcome(h)
             \/ LoseCommit(h) \/ HoldForReview(h) \/ \E c \in Codes : Sell(h, c)
    <3>1. UNCHANGED <<sent, finik, legacy>> /\ work[h].pc # "idle"
      BY <2>3 DEF OrderNotFound, LeaveAlone, Abort, RecordOutcome, LoseCommit, HoldForReview, Sell
    <3>2. \E p \in Ends, v \in Results \cup {work[h].result} : Advance(h, p, v)
      BY <2>3, VerdictType DEF OrderNotFound, LeaveAlone, Abort, RecordOutcome, LoseCommit,
                  HoldForReview, Sell, EndTransaction, Ends, Results, WriteResults
    <3>3. /\ \A g \in Handlers \ {h} : work'[g] = work[g]
          /\ work'[h].pc \in Ends /\ work'[h].msg = work[h].msg
      BY <1>a, <3>2 DEF Advance, WorkRecord
    <3> QED BY <1>c, <2>a, <3>1, <3>3 DEF Ends
  <2> QED BY <1>5, <2>1, <2>2, <2>3 DEF HandlerStep
<1>6. ASSUME NEW h \in Handlers, NEW m \in Messages, Receive(h, m) PROVE Origins'
  <2> DEFINE n == Len(events[m]) + 1
  <2>1. work' = [work EXCEPT ![h] = Started(m, n)] /\ m \in sent
        /\ UNCHANGED <<sent, finik, legacy>>
    BY <1>6 DEF Receive, Started
  <2>2. n \in Nat
    BY DEF SafetyInv, TypeInv, TypeOK
  <2>3. Started(m, n).pc = "received" /\ Started(m, n).msg = m
    BY <2>2, StartWork
  <2> HIDE DEF n
  <2> QED BY <1>a, <1>c, <2>1, <2>3
<1>7. ASSUME NEW r \in Operators, OperatorStep(r) PROVE Origins'
  BY <1>7, <1>b DEF OperatorStep, RefuseCase, DropCase, RefundByHand, IssueByHand
<1>8. ASSUME NEW r \in Operators, NEW o \in Orders, NEW a \in ResolutionActions,
             OpenCase(r, o, a)
      PROVE  Origins'
  BY <1>8, <1>b DEF OpenCase
<1>9. CASE Crash
  <2>1. /\ UNCHANGED <<sent, finik, legacy>>
        /\ \A h \in Handlers : work'[h].pc = "idle"
    BY <1>9, NoWorkType DEF Crash
  <2> QED BY <1>a, <2>1, SettledStays DEF Origins
<1>10. CASE Tick
  BY <1>10, <1>b DEF Tick
<1> QED BY <1>1, <1>2, <1>3, <1>4, <1>5, <1>6, <1>7, <1>8, <1>9, <1>10 DEF Next

LEMMA SentStays == ASSUME [Next]_vars PROVE sent \subseteq sent'
<1> USE DEF vars, orderVars, issueVars, createVars, webhookVars, netVars, sweepVars
<1>1. CASE UNCHANGED vars
  BY <1>1
<1>2. ASSUME NEW o \in Orders, CreateStep(o) \/ OpenPayment(o) \/ Elapse(o)
      PROVE  sent \subseteq sent'
  BY <1>2 DEF CreateStep, PlaceOrder, PaymentCreated, PaymentFailed, StoreUrl, ExpireFailed,
              OpenPayment, Elapse
<1>3. CASE SweepStep
  BY <1>3 DEF SweepStep, SweepStart, SweepCommit, SweepTake, SweepSkip
<1>4. ASSUME NEW h \in Handlers, HandlerStep(h) \/ LoseCommit(h) PROVE sent \subseteq sent'
  BY <1>4 DEF HandlerStep, RejectUnsigned, OrderNotFound, LockOrder, LeaveAlone, HoldForReview,
              Sell, Abort, RecordOutcome, Answer, LoseCommit
<1>5. ASSUME NEW r \in Operators,
             OperatorStep(r) \/ \E o \in Orders, a \in ResolutionActions : OpenCase(r, o, a)
      PROVE  sent \subseteq sent'
  BY <1>5 DEF OperatorStep, RefuseCase, DropCase, RefundByHand, IssueByHand, OpenCase
<1>6. ASSUME NEW m \in Messages, Send(m) \/ \E h \in Handlers : Receive(h, m)
      PROVE  sent \subseteq sent'
  BY <1>6 DEF Send, Receive
<1>7. CASE Crash \/ Tick
  BY <1>7 DEF Crash, Tick
<1> QED BY <1>1, <1>2, <1>3, <1>4, <1>5, <1>6, <1>7 DEF Next

\* The clock never goes back: a time of processing stays one.
LEMMA ClockRuns == ASSUME TypeInv, [Next]_vars PROVE 0..clock \subseteq 0..clock'
<1> USE DEF vars, orderVars, issueVars, createVars, webhookVars, netVars, sweepVars
<1>a. clock \in Nat
  BY ConstantsAssumption DEF TypeInv, TypeOK
<1>b. clock' = clock \/ clock' = clock + 1
  <2>1. CASE UNCHANGED vars
    BY <2>1
  <2>2. ASSUME NEW o \in Orders, CreateStep(o) \/ OpenPayment(o) \/ Elapse(o)
        PROVE  clock' = clock
    BY <2>2 DEF CreateStep, PlaceOrder, PaymentCreated, PaymentFailed, StoreUrl, ExpireFailed,
                OpenPayment, Elapse
  <2>3. CASE SweepStep
    BY <2>3 DEF SweepStep, SweepStart, SweepCommit, SweepTake, SweepSkip
  <2>4. ASSUME NEW h \in Handlers, HandlerStep(h) \/ LoseCommit(h) PROVE clock' = clock
    BY <2>4 DEF HandlerStep, RejectUnsigned, OrderNotFound, LockOrder, LeaveAlone,
                HoldForReview, Sell, Abort, RecordOutcome, Answer, LoseCommit
  <2>5. ASSUME NEW r \in Operators,
               OperatorStep(r) \/ \E o \in Orders, a \in ResolutionActions : OpenCase(r, o, a)
        PROVE  clock' = clock
    BY <2>5 DEF OperatorStep, RefuseCase, DropCase, RefundByHand, IssueByHand, OpenCase
  <2>6. ASSUME NEW m \in Messages, Send(m) \/ \E h \in Handlers : Receive(h, m)
        PROVE  clock' = clock
    BY <2>6 DEF Send, Receive
  <2>7. CASE Crash \/ Tick
    BY <2>7 DEF Crash, Tick
  <2> QED BY <2>1, <2>2, <2>3, <2>4, <2>5, <2>6, <2>7 DEF Next
<1> QED BY <1>a, <1>b

\* The payment behind an order, as SettledByItsMoney has it.
Behind(m, o) ==
  /\ Legitimate(m) /\ m.order = o /\ txId[o] = m.tx
  /\ \E now \in 0..clock : paidAt[o] = PaidBy(m, now)
  /\ m.exact <=> (status[o] = "paid" /\ resolutions[o] = <<>>)

HasMoney(o) ==
  IF status[o] \in Settled THEN \E m \in sent : Behind(m, o)
  ELSE paidAt[o] = None /\ txId[o] = None

LEMMA SettledByItsMoneyStep ==
  ASSUME SafetyInv, Origins, SettledByItsMoney, [Next]_vars
  PROVE  SettledByItsMoney'
<1>a. /\ status \in [Orders -> Statuses \cup {"absent"}] /\ DOMAIN resolutions = Orders
      /\ DOMAIN paidAt = Orders /\ DOMAIN txId = Orders /\ sent \subseteq Messages
      /\ clock \in Nat
  BY ConstantsAssumption DEF SafetyInv, TypeInv, TypeOK
<1>k. 0..clock \subseteq 0..clock'
  BY ClockRuns DEF SafetyInv
<1>b. Effect /\ sent \subseteq sent' /\ legacy' = legacy
  BY Effects, SentStays DEF Effect
<1>c. \A m \in sent, now \in 0..clock : PaidBy(m, now) # None
  BY <1>a, PaidByType
<1> SUFFICES ASSUME NEW o \in Orders \ legacy PROVE HasMoney(o)'
  BY <1>b DEF SettledByItsMoney, Behind, HasMoney
<1>d. HasMoney(o)
  BY DEF SettledByItsMoney, Behind, HasMoney
<1>1. ASSUME UNCHANGED <<paidAt, txId, resolutions>>,
             status'[o] # status[o] => status[o] \notin Settled /\ status'[o] \notin Settled
      PROVE  HasMoney(o)'
  BY <1>1, <1>b, <1>d, <1>k DEF Behind, HasMoney
<1>2. CASE Drifts \/ Quiet
  BY <1>1, <1>2 DEF Drifts, Quiet
<1>3. ASSUME NEW h \in Handlers, NEW v \in WriteResults, Settles(h, v)
      PROVE  HasMoney(o)'
  <2>m. PICK m \in sent : m = work[h].msg
    BY <1>3 DEF Settles
  <2>1. CASE o = m.order
    <3>1. /\ m \in sent /\ Legitimate(m) /\ status[o] \in {"pending", "expired"}
          /\ status'[o] = (IF m.exact THEN "paid" ELSE "needs_review")
          /\ paidAt'[o] = PaidAtFrom(m.at) /\ txId'[o] = m.tx /\ resolutions' = resolutions
      BY <1>a, <1>3, <2>m, <2>1 DEF Settles
    <3>c. clock \in 0..clock' /\ paidAt'[o] = PaidBy(m, clock)
      BY <1>a, <1>k, <3>1, PaidAtFromIsPaidBy
    <3>2. resolutions[o] = <<>>
      BY <3>1 DEF SafetyInv, Trail
    <3>3. Behind(m, o)'
      BY <2>1, <3>1, <3>2, <3>c DEF Behind, Legitimate
    <3> QED BY <1>b, <3>1, <3>3 DEF Settled, HasMoney
  <2>2. CASE o # m.order
    BY <1>a, <1>b, <1>d, <1>k, <1>3, <2>m, <2>2 DEF Settles, Behind, HasMoney
  <2> QED BY <2>1, <2>2
<1>4. ASSUME NEW p \in Orders, Decides(p)
      PROVE  HasMoney(o)'
  <2>1. CASE o = p
    <3>1. PICK m \in sent : Behind(m, o)
      BY <1>d, <1>4, <2>1 DEF Decides, Settled, HasMoney
    <3>2. /\ paidAt'[o] = paidAt[o] /\ txId' = txId /\ resolutions'[o] # <<>>
          /\ status[o] = "needs_review" /\ status'[o] \in {"paid", "refunded"}
      BY <1>a, <1>c, <1>4, <2>1, <3>1 DEF Decides, Behind
    <3>3. Behind(m, o)'
      BY <1>k, <3>1, <3>2 DEF Behind
    <3> QED BY <1>b, <3>1, <3>2, <3>3 DEF Settled, HasMoney
  <2>2. CASE o # p
    BY <1>a, <1>b, <1>d, <1>k, <1>4, <2>2 DEF Decides, Behind, HasMoney
  <2> QED BY <2>1, <2>2
<1> QED BY <1>b, <1>2, <1>3, <1>4 DEF Effect

\* An order that carries a payment is settled, and stays out of every handler's reach.
LEMMA PaidAtStep ==
  ASSUME SafetyInv, Origins, SettledByItsMoney, [Next]_vars, NEW o \in Orders
  PROVE  /\ paidAt[o] # None => paidAt'[o] = paidAt[o]
         /\ txId[o] # None => txId'[o] = txId[o]
<1>a. DOMAIN paidAt = Orders /\ DOMAIN txId = Orders
  BY DEF SafetyInv, TypeInv, TypeOK
<1>b. Effect
  BY Effects
<1>1. ASSUME NEW h \in Handlers, NEW v \in WriteResults, Settles(h, v)
      PROVE  /\ paidAt[o] # None => paidAt'[o] = paidAt[o]
             /\ txId[o] # None => txId'[o] = txId[o]
  <2>1. CASE o = work[h].msg.order
    <3>1. status[o] \notin Settled
      BY <1>1, <2>1 DEF Settles, Settled
    <3> QED BY <3>1 DEF SettledByItsMoney, Origins
  <2>2. CASE o # work[h].msg.order
    BY <1>a, <1>1, <2>2 DEF Settles
  <2> QED BY <2>1, <2>2
<1>2. CASE Drifts \/ (\E p \in Orders : Decides(p)) \/ Quiet
  BY <1>2 DEF Drifts, Decides, Quiet
<1> QED BY <1>b, <1>1, <1>2 DEF Effect
-------------------------------------------------------------------------------
(* What a serving step does to the places of the handlers and to the rows.   *)

OneMoves(h) == \A g \in Handlers \ {h} : work'[g] = work[g]
KeepsMessage(h) == work'[h].msg = work[h].msg /\ work'[h].row = work[h].row

Starts(h, m) ==
  /\ OneMoves(h) /\ work[h].pc = "idle" /\ work'[h].pc = "received"
  /\ work'[h].msg = m /\ work'[h].row = Len(events[m]) + 1
  /\ Len(events[m]) < MaxDeliveries
  /\ events' = [events EXCEPT ![m] = Append(@, "received")]
  /\ UNCHANGED <<notices, acked>>

Rejects(h) ==
  /\ OneMoves(h) /\ work[h].pc = "received" /\ work'[h].pc = "idle"
  /\ SetEvent(h, "invalid_signature")
  /\ UNCHANGED <<notices, acked>>

TakesLock(h) ==
  /\ OneMoves(h) /\ KeepsMessage(h) /\ work[h].pc = "received" /\ work'[h].pc = "locked"
  /\ UNCHANGED <<events, notices, acked>>

EndsWith(h, v) ==
  /\ OneMoves(h) /\ KeepsMessage(h) /\ work'[h].pc = "done" /\ work'[h].result = v

Records(h) ==
  /\ OneMoves(h) /\ KeepsMessage(h) /\ work[h].pc = "done" /\ work'[h].pc = "recorded"
  /\ work'[h].result = work[h].result /\ SetEvent(h, work[h].result)
  /\ UNCHANGED <<notices, acked>>

Answers(h) ==
  /\ OneMoves(h) /\ work[h].pc = "recorded" /\ work'[h].pc = "idle" /\ Notify(h)
  /\ acked' = IF work[h].result = "error" THEN acked ELSE acked \cup {work[h].msg}
  /\ UNCHANGED events

AllStop ==
  /\ \A h \in Handlers : work'[h].pc = "idle"
  /\ faults' # 0 /\ UNCHANGED <<events, notices, acked>>

LEMMA ServeFields ==
  ASSUME SafetyInv, Serves
  PROVE  \/ \E h \in Handlers, m \in Messages : Starts(h, m)
         \/ \E h \in Handlers : Rejects(h) \/ TakesLock(h) \/ Records(h) \/ Answers(h)
         \/ \E h \in Handlers, v \in Results : Concludes(h, v) /\ EndsWith(h, v)
         \/ AllStop
<1>a. /\ work \in [Handlers -> WorkRecord] /\ events \in [Messages -> Seq(Results)]
      /\ status \in [Orders -> Statuses \cup {"absent"}] /\ faults \in Nat
      /\ HandlersConsistent
  BY DEF SafetyInv, TypeInv, TypeOK
<1> USE DEF webhookVars, netVars
<1>1. ASSUME NEW h \in Handlers, NEW m \in Messages, Receive(h, m) PROVE Starts(h, m)
  <2> DEFINE n == Len(events[m]) + 1
  <2>1. n \in Nat
    BY <1>a
  <2>2. work' = [work EXCEPT ![h] = Started(m, n)]
    BY <1>1 DEF Receive, Started
  <2>3. /\ Started(m, n).pc = "received" /\ Started(m, n).msg = m /\ Started(m, n).row = n
    BY <2>1, StartWork
  <2>4. /\ work[h].pc = "idle" /\ Len(events[m]) < MaxDeliveries
        /\ events' = [events EXCEPT ![m] = Append(@, "received")]
        /\ UNCHANGED <<notices, acked>>
    BY <1>1 DEF Receive
  <2>5. OneMoves(h) /\ work'[h] = Started(m, n)
    BY <1>a, <2>2 DEF OneMoves
  <2> QED BY <2>3, <2>4, <2>5 DEF Starts
<1>2. ASSUME NEW h \in Handlers, RejectUnsigned(h) \/ Answer(h) PROVE Rejects(h) \/ Answers(h)
  <2>1. work' = [work EXCEPT ![h] = NoWork]
    BY <1>2 DEF RejectUnsigned, Answer
  <2>2. OneMoves(h) /\ work'[h].pc = "idle"
    BY <1>a, <2>1, NoWorkType DEF OneMoves
  <2> QED BY <1>2, <2>2 DEF RejectUnsigned, Answer, Rejects, Answers
<1>3. ASSUME NEW h \in Handlers, LockOrder(h) PROVE TakesLock(h)
  <2>1. PICK o \in Orders : Exists(o) /\ ReadRow(h, status[o])
    BY <1>3 DEF LockOrder
  <2>2. status[o] \in Statuses
    BY <1>a, <2>1 DEF Exists
  <2>3. OneMoves(h) /\ KeepsMessage(h) /\ work'[h].pc = "locked"
    BY <1>a, <2>1, <2>2, LockWork DEF OneMoves, KeepsMessage
  <2> QED BY <1>3, <2>3 DEF LockOrder, TakesLock
<1>4. ASSUME NEW h \in Handlers, RecordOutcome(h) PROVE Records(h)
  <2>1. work[h].pc = "done" /\ Advance(h, "recorded", work[h].result)
    BY <1>4 DEF RecordOutcome
  <2>2. work[h].result \in Results /\ "recorded" \in Progress
    BY <1>a, <2>1 DEF HandlersConsistent, Progress
  <2>3. /\ OneMoves(h) /\ KeepsMessage(h) /\ work'[h].pc = "recorded"
        /\ work'[h].result = work[h].result
    BY <1>a, <2>1, <2>2, AdvanceWork DEF OneMoves, KeepsMessage
  <2> QED BY <1>4, <2>1, <2>3 DEF RecordOutcome, Records
<1>5. ASSUME NEW h \in Handlers, NEW v \in Results, Concludes(h, v) PROVE EndsWith(h, v)
  <2>1. Advance(h, "done", v) /\ "done" \in Progress
    BY <1>5 DEF Concludes, Progress
  <2> QED BY <1>a, <2>1, AdvanceWork DEF EndsWith, OneMoves, KeepsMessage
<1>6. CASE Crash
  BY <1>a, <1>6, NoWorkType DEF Crash, AllStop
<1>7. CASE \E h \in Handlers, m \in Messages : Receive(h, m)
  BY <1>1, <1>7
<1>8. CASE \E h \in Handlers : RejectUnsigned(h) \/ LockOrder(h) \/ RecordOutcome(h) \/ Answer(h)
  BY <1>2, <1>3, <1>4, <1>8
<1>9. CASE \E h \in Handlers, v \in Results : Concludes(h, v)
  BY <1>5, <1>9
<1> QED BY <1>6, <1>7, <1>8, <1>9 DEF Serves
LEMMA SettleFields ==
  ASSUME SafetyInv, NEW h \in Handlers, NEW v \in WriteResults, Settles(h, v)
  PROVE  EndsWith(h, v)
<1>1. work \in [Handlers -> WorkRecord] /\ v \in Results /\ "done" \in Progress
  BY DEF SafetyInv, TypeInv, TypeOK, Results, Progress
<1>2. Advance(h, "done", v)
  BY DEF Settles
<1> QED BY <1>1, <1>2, AdvanceWork DEF EndsWith, OneMoves, KeepsMessage

\* A handler on its way to a 200 for a payment to our account has seen it settled,
\* and a handler answers it with nothing else.
LEMMA AnsweredStep ==
  ASSUME SafetyInv, Origins, Answered, AckedMoneyIsSettled, [Next]_vars
  PROVE  Answered' /\ AckedMoneyIsSettled'
<1>a. acked \subseteq Messages /\ status \in [Orders -> Statuses \cup {"absent"}]
  BY DEF SafetyInv, TypeInv, TypeOK
<1>b. Effect /\ \A o \in Orders : status[o] \in Settled => status'[o] \in Settled
  BY Effects, SettledStays
<1> DEFINE Safe(h) ==
             /\ work[h].pc \in Ends /\ work[h].result # "error"
             /\ Legitimate(work[h].msg) /\ work[h].msg.order \in Orders
             => status[work[h].msg.order] \in Settled
<1>s. \A h \in Handlers : Safe(h)
  BY DEF Answered
<1>1. ASSUME acked' = acked PROVE AckedMoneyIsSettled'
  BY <1>a, <1>b, <1>1 DEF AckedMoneyIsSettled, Legitimate
<1>2. ASSUME NEW h \in Handlers, work'[h] = work[h] PROVE Safe(h)'
  BY <1>b, <1>s, <1>2 DEF Legitimate
<1>3. ASSUME NEW h \in Handlers, OneMoves(h), Safe(h)' PROVE Answered'
  BY <1>2, <1>3 DEF Answered, OneMoves
<1>4. CASE Drifts \/ \E o \in Orders : Decides(o)
  <2>1. work' = work /\ acked' = acked
    BY <1>4 DEF Drifts, Decides, webhookView
  <2> QED BY <1>1, <1>2, <2>1 DEF Answered
<1>5. ASSUME NEW h \in Handlers, NEW v \in WriteResults, Settles(h, v)
      PROVE  Answered' /\ AckedMoneyIsSettled'
  <2>1. EndsWith(h, v)
    BY <1>5, SettleFields
  <2>2. PICK m : m = work[h].msg
    OBVIOUS
  <2>3. status'[m.order] \in Settled /\ acked' = acked
    BY <1>a, <1>5, <2>2 DEF Settles, Settled
  <2>4. Safe(h)'
    BY <2>1, <2>2, <2>3 DEF EndsWith, KeepsMessage
  <2> QED BY <1>1, <1>3, <2>1, <2>3, <2>4 DEF EndsWith
<1>6. ASSUME NEW h \in Handlers,
             \/ Rejects(h) \/ TakesLock(h) \/ Answers(h)
             \/ \E m \in Messages : Starts(h, m)
      PROVE  Answered'
  <2>1. OneMoves(h) /\ work'[h].pc \notin Ends
    BY <1>6 DEF Rejects, TakesLock, Answers, Starts, Ends
  <2> QED BY <1>3, <2>1
<1>7. ASSUME NEW h \in Handlers,
             Rejects(h) \/ TakesLock(h) \/ \E m \in Messages : Starts(h, m)
      PROVE  Answered' /\ AckedMoneyIsSettled'
  <2>1. acked' = acked
    BY <1>7 DEF Rejects, TakesLock, Starts
  <2> QED BY <1>1, <1>6, <1>7, <2>1
<1>8. ASSUME NEW h \in Handlers, Records(h) PROVE Answered' /\ AckedMoneyIsSettled'
  <2>1. /\ OneMoves(h) /\ KeepsMessage(h) /\ acked' = acked
        /\ work[h].pc \in Ends /\ work'[h].result = work[h].result
    BY <1>8 DEF Records, Ends
  <2>2. Safe(h)'
    BY <1>b, <1>s, <2>1 DEF KeepsMessage, Legitimate
  <2> QED BY <1>1, <1>3, <2>1, <2>2
<1>9. ASSUME NEW h \in Handlers, Answers(h) PROVE Answered' /\ AckedMoneyIsSettled'
  <2>1. /\ work[h].pc \in Ends
        /\ acked' = IF work[h].result = "error" THEN acked ELSE acked \cup {work[h].msg}
    BY <1>9 DEF Answers, Ends
  <2>2. AckedMoneyIsSettled'
    BY <1>a, <1>b, <1>s, <2>1 DEF AckedMoneyIsSettled, Legitimate
  <2> QED BY <1>6, <1>9, <2>2
<1>10. ASSUME NEW h \in Handlers, NEW v \in Results, Concludes(h, v), EndsWith(h, v), Quiet
       PROVE  Answered' /\ AckedMoneyIsSettled'
  <2>1. /\ v # "error" /\ Legitimate(work[h].msg) /\ work[h].msg.order \in Orders
             => status[work[h].msg.order] \in Settled
        /\ acked' = acked
    BY <1>10 DEF Concludes
  <2>2. Safe(h)'
    BY <1>b, <1>10, <2>1 DEF EndsWith, KeepsMessage, Legitimate
  <2> QED BY <1>1, <1>3, <1>10, <2>1, <2>2 DEF EndsWith
<1>11. CASE AllStop
  <2>1. \A h \in Handlers : Safe(h)'
    BY <1>11 DEF AllStop, Ends
  <2> QED BY <1>1, <1>11, <2>1 DEF AllStop, Answered
<1>12. CASE Quiet /\ Serves
  BY <1>7, <1>8, <1>9, <1>10, <1>11, <1>12, ServeFields
<1> QED BY <1>b, <1>4, <1>5, <1>12 DEF Effect
-------------------------------------------------------------------------------
(* The news of a sale goes out once.                                         *)

\* Paid by the webhook and left so by everybody since.
SoldUntouched(o) == status[o] = "paid" /\ resolutions[o] = <<>>

\* Handler h is the one that will announce the sale of o.
Announces(h, o) ==
  work[h].pc \in Ends /\ work[h].result \in SaleResults /\ work[h].msg.order = o

\* Only one handler ever is about to announce an order, which is sold and not
\* announced yet.
Announced ==
  \A o \in Orders :
    /\ notices[o] \in {0, 1}
    /\ notices[o] = 1 => SoldUntouched(o)
    /\ \A h \in Handlers : Announces(h, o) =>
         /\ SoldUntouched(o) /\ notices[o] = 0
         /\ \A g \in Handlers : Announces(g, o) => g = h

\* An order sold and left untouched stays so.
LEMMA SoldStays ==
  ASSUME SafetyInv, Effect, NEW o \in Orders, SoldUntouched(o)
  PROVE  SoldUntouched(o)'
<1>a. DOMAIN status = Orders /\ DOMAIN resolutions = Orders
  BY DEF SafetyInv, TypeInv, TypeOK
<1>1. CASE Drifts
  BY <1>1 DEF Drifts, SoldUntouched, Settled
<1>2. ASSUME NEW h \in Handlers, NEW v \in WriteResults, Settles(h, v)
      PROVE  SoldUntouched(o)'
  BY <1>a, <1>2 DEF Settles, SoldUntouched
<1>3. ASSUME NEW p \in Orders, Decides(p) PROVE SoldUntouched(o)'
  BY <1>a, <1>3 DEF Decides, SoldUntouched
<1>4. CASE Quiet
  BY <1>4 DEF Quiet, SoldUntouched
<1> QED BY <1>1, <1>2, <1>3, <1>4 DEF Effect

LEMMA AnnouncedStep ==
  ASSUME SafetyInv, Origins, Announced, [Next]_vars
  PROVE  Announced'
<1>a. /\ status \in [Orders -> Statuses \cup {"absent"}] /\ DOMAIN notices = Orders
      /\ HandlersConsistent /\ Trail
  BY DEF SafetyInv, TypeInv, TypeOK
<1>b. Effect /\ \A o \in Orders : SoldUntouched(o) => SoldUntouched(o)'
  BY Effects, SoldStays
<1> DEFINE Once(o) ==
             /\ notices[o] \in {0, 1}
             /\ notices[o] = 1 => SoldUntouched(o)
             /\ \A h \in Handlers : Announces(h, o) =>
                  /\ SoldUntouched(o) /\ notices[o] = 0
                  /\ \A g \in Handlers : Announces(g, o) => g = h
<1>s. \A o \in Orders : Once(o)
  BY DEF Announced
<1>1. ASSUME NEW o \in Orders, notices'[o] = notices[o],
             \A h \in Handlers : Announces(h, o)' => Announces(h, o)
      PROVE  Once(o)'
  BY <1>b, <1>s, <1>1
<1>2. ASSUME notices' = notices, NEW h \in Handlers, OneMoves(h),
             \A o \in Orders : Announces(h, o)' => Announces(h, o)
      PROVE  Announced'
  <2>1. \A o \in Orders, g \in Handlers : Announces(g, o)' => Announces(g, o)
    BY <1>2 DEF Announces, OneMoves
  <2> QED BY <1>1, <1>2, <2>1 DEF Announced
<1>3. CASE Drifts \/ \E o \in Orders : Decides(o)
  <2>1. work' = work /\ notices' = notices
    BY <1>3 DEF Drifts, Decides, webhookView
  <2>2. \A o \in Orders, h \in Handlers : Announces(h, o)' => Announces(h, o)
    BY <2>1 DEF Announces
  <2> QED BY <1>1, <2>1, <2>2 DEF Announced
<1>4. ASSUME NEW h \in Handlers, NEW v \in WriteResults, Settles(h, v) PROVE Announced'
  <2>a. EndsWith(h, v)
    BY <1>4, SettleFields
  <2>m. PICK m : m = work[h].msg
    OBVIOUS
  <2>b. notices' = notices /\ m.order \in Orders /\ status[m.order] \in {"pending", "expired"}
    BY <1>4, <2>m DEF Settles
  <2> SUFFICES ASSUME NEW o \in Orders PROVE Once(o)'
    BY DEF Announced
  <2>1. CASE o # m.order
    <3>1. \A g \in Handlers : Announces(g, o)' => Announces(g, o)
      BY <2>a, <2>m, <2>1 DEF EndsWith, OneMoves, KeepsMessage, Announces
    <3> QED BY <1>1, <2>b, <3>1
  <2>2. CASE o = m.order
    <3>1. ~SoldUntouched(o)
      BY <2>b, <2>2 DEF SoldUntouched
    <3>2. notices[o] = 0 /\ \A g \in Handlers : ~Announces(g, o)
      BY <1>s, <3>1
    <3>3. \A g \in Handlers : Announces(g, o)' => g = h
      BY <2>a, <3>2 DEF EndsWith, OneMoves, Announces
    <3>4. Announces(h, o)' => SoldUntouched(o)'
      <4>1. resolutions[o] = <<>> /\ resolutions' = resolutions
        BY <1>a, <1>4, <2>b, <2>2 DEF Settles, Trail
      <4>2. v \in SaleResults => status'[o] = "paid"
        BY <1>a, <1>4, <2>m, <2>2 DEF Settles, SaleResults
      <4> QED BY <2>a, <4>1, <4>2 DEF EndsWith, Announces, SoldUntouched
    <3> QED BY <2>b, <3>2, <3>3, <3>4
  <2> QED BY <2>1, <2>2
<1>5. ASSUME NEW h \in Handlers,
             Rejects(h) \/ TakesLock(h) \/ \E m \in Messages : Starts(h, m)
      PROVE  Announced'
  <2>1. OneMoves(h) /\ notices' = notices /\ work'[h].pc \notin Ends
    BY <1>5 DEF Rejects, TakesLock, Starts, Ends
  <2>2. \A o \in Orders : ~Announces(h, o)'
    BY <2>1 DEF Announces
  <2> QED BY <1>2, <2>1, <2>2
<1>6. ASSUME NEW h \in Handlers, Records(h) PROVE Announced'
  <2>1. OneMoves(h) /\ notices' = notices
    BY <1>6 DEF Records
  <2>2. \A o \in Orders : Announces(h, o)' => Announces(h, o)
    BY <1>6 DEF Records, KeepsMessage, Announces, Ends
  <2> QED BY <1>2, <2>1, <2>2
<1>7. ASSUME NEW h \in Handlers, NEW v \in Results, Concludes(h, v), EndsWith(h, v)
      PROVE  Announced'
  <2>1. OneMoves(h) /\ notices' = notices
    BY <1>7 DEF Concludes, EndsWith
  <2>2. \A o \in Orders : ~Announces(h, o)'
    BY <1>7 DEF Concludes, EndsWith, Announces, WriteResults
  <2> QED BY <1>2, <2>1, <2>2
<1>8. ASSUME NEW h \in Handlers, Answers(h), Quiet PROVE Announced'
  <2>m. PICK m : m = work[h].msg
    OBVIOUS
  <2>1. \A o \in Orders, g \in Handlers : Announces(g, o)' => Announces(g, o) /\ g # h
    BY <1>8 DEF Answers, OneMoves, Announces, Ends
  <2> SUFFICES ASSUME NEW o \in Orders PROVE Once(o)'
    BY DEF Announced
  <2>2. CASE Announces(h, o)
    <3>1. SoldUntouched(o) /\ notices[o] = 0 /\ \A g \in Handlers : ~Announces(g, o)'
      BY <1>s, <2>1, <2>2
    <3>2. notices'[o] = 1
      BY <1>8, <2>2, <3>1 DEF Answers, Notify, Announces
    <3> QED BY <1>b, <3>1, <3>2
  <2>3. CASE ~Announces(h, o)
    <3>1. notices'[o] = notices[o]
      BY <1>8, <2>3 DEF Answers, Notify, Announces, Ends
    <3> QED BY <1>1, <2>1, <3>1
  <2> QED BY <2>2, <2>3
<1>9. CASE AllStop
  <2>1. notices' = notices /\ \A o \in Orders, h \in Handlers : ~Announces(h, o)'
    BY <1>9 DEF AllStop, Announces, Ends
  <2> QED BY <1>1, <2>1 DEF Announced
<1>10. CASE Quiet /\ Serves
  BY <1>5, <1>6, <1>7, <1>8, <1>9, <1>10, ServeFields
<1> QED BY <1>b, <1>3, <1>4, <1>10 DEF Effect
-------------------------------------------------------------------------------
(* The log of webhook events agrees with the orders.                         *)

\* A request has a row of its own, "received" until the request comes to its end.
OpenRow(h) == work[h].pc \in {"received", "locked", "done"}
RowsOpen ==
  /\ \A m \in Messages : Len(events[m]) <= MaxDeliveries
  /\ \A h \in Handlers : OpenRow(h) =>
       /\ events[work[h].msg][work[h].row] = "received"
       /\ \A g \in Handlers \ {h} :
            OpenRow(g) /\ work[g].msg = work[h].msg => work[g].row # work[h].row

\* What an UPDATE of one row does to the log.
LEMMA SetEventRows ==
  ASSUME SafetyInv, NEW h \in Handlers, work[h].pc # "idle", NEW v \in Results, SetEvent(h, v)
  PROVE  /\ \A m \in Messages : Len(events'[m]) = Len(events[m])
         /\ \A m \in Messages, i \in Nat :
              i \in 1..Len(events[m]) =>
                events'[m][i] = IF m = work[h].msg /\ i = work[h].row THEN v ELSE events[m][i]
<1>1. /\ events \in [Messages -> Seq(Results)] /\ work[h].msg \in Messages
      /\ work[h].row \in 1..Len(events[work[h].msg])
  BY DEF SafetyInv, TypeInv, TypeOK, HandlersConsistent
<1>2. \A m \in Messages : Len(events'[m]) = Len(events[m])
  BY <1>1, EventStep
<1>3. ASSUME NEW m \in Messages, NEW i \in 1..Len(events[m])
      PROVE  events'[m][i] = IF m = work[h].msg /\ i = work[h].row THEN v ELSE events[m][i]
  <2>1. events[m] \in Seq(Results)
    BY <1>1
  <2>2. DOMAIN events[m] = 1..Len(events[m])
    BY <2>1
  <2>3. events' = [events EXCEPT ![work[h].msg] = [events[work[h].msg] EXCEPT ![work[h].row] = v]]
    BY DEF SetEvent
  <2>4. CASE m = work[h].msg
    <3>1. events'[m] = [events[m] EXCEPT ![work[h].row] = v]
      BY <1>1, <2>3, <2>4
    <3> QED BY <2>2, <2>4, <3>1
  <2>5. CASE m # work[h].msg
    BY <1>1, <2>3, <2>5
  <2> QED BY <2>4, <2>5
<1> QED BY <1>2, <1>3

\* What an INSERT of a row does to it.
LEMMA AppendRows ==
  ASSUME SafetyInv, NEW h \in Handlers, NEW m \in Messages, Starts(h, m)
  PROVE  /\ Len(events[m]) \in Nat /\ Len(events'[m]) = Len(events[m]) + 1
         /\ events'[m][Len(events[m]) + 1] = "received"
         /\ \A n \in Messages \ {m} : events'[n] = events[n]
         /\ \A i \in 1..Len(events[m]) : events'[m][i] = events[m][i]
<1>1. events \in [Messages -> Seq(Results)]
  BY DEF SafetyInv, TypeInv, TypeOK
<1>2. events'[m] = Append(events[m], "received") /\ \A n \in Messages \ {m} : events'[n] = events[n]
  BY <1>1 DEF Starts
<1>3. events[m] \in Seq(Results) /\ "received" \in Results
  BY <1>1 DEF Results
<1> QED BY <1>2, <1>3

LEMMA RowsOpenStep ==
  ASSUME SafetyInv, Origins, RowsOpen, [Next]_vars
  PROVE  RowsOpen'
<1>a. HandlersConsistent /\ events \in [Messages -> Seq(Results)] /\ MaxDeliveries \in Nat
  BY ConstantsAssumption DEF SafetyInv, TypeInv, TypeOK
<1>b. Effect
  BY Effects
<1>c. \A h \in Handlers : OpenRow(h) =>
        work[h].msg \in Messages /\ work[h].row \in 1..Len(events[work[h].msg])
  BY <1>a DEF HandlersConsistent, OpenRow
<1>1. ASSUME events' = events, NEW h \in Handlers, OneMoves(h),
             OpenRow(h)' => OpenRow(h) /\ KeepsMessage(h)
      PROVE  RowsOpen'
  BY <1>1 DEF RowsOpen, OpenRow, OneMoves, KeepsMessage
<1>2. CASE Drifts \/ \E o \in Orders : Decides(o)
  <2>1. work' = work /\ events' = events
    BY <1>2 DEF Drifts, Decides, webhookView
  <2> QED BY <2>1 DEF RowsOpen, OpenRow
<1>3. ASSUME NEW h \in Handlers, NEW v \in WriteResults, Settles(h, v) PROVE RowsOpen'
  <2>1. EndsWith(h, v) /\ events' = events /\ OpenRow(h)
    BY <1>3, SettleFields DEF Settles, OpenRow
  <2> QED BY <1>1, <2>1 DEF EndsWith
<1>4. ASSUME NEW h \in Handlers,
             TakesLock(h) \/ Answers(h)
             \/ \E v \in Results : Concludes(h, v) /\ EndsWith(h, v)
      PROVE  RowsOpen'
  <2>1. events' = events /\ OneMoves(h) /\ (OpenRow(h)' => OpenRow(h) /\ KeepsMessage(h))
    BY <1>4 DEF TakesLock, Answers, Concludes, EndsWith, OpenRow
  <2> QED BY <1>1, <2>1
<1>5. ASSUME NEW h \in Handlers, Rejects(h) \/ Records(h) PROVE RowsOpen'
  <2>1. PICK v \in Results : SetEvent(h, v)
    BY <1>5, <1>a DEF Rejects, Records, Results, HandlersConsistent
  <2>2. OpenRow(h) /\ work[h].pc # "idle" /\ OneMoves(h) /\ ~OpenRow(h)'
    BY <1>5 DEF Rejects, Records, OpenRow
  <2>3. /\ \A m \in Messages : Len(events'[m]) = Len(events[m])
        /\ \A m \in Messages, i \in Nat :
             i \in 1..Len(events[m]) =>
               events'[m][i] = IF m = work[h].msg /\ i = work[h].row THEN v ELSE events[m][i]
    BY <2>1, <2>2, SetEventRows
  <2>4. \A m \in Messages : Len(events'[m]) <= MaxDeliveries
    BY <2>3 DEF RowsOpen
  <2>5. ASSUME NEW g \in Handlers, OpenRow(g)'
        PROVE  g # h /\ work'[g] = work[g] /\ OpenRow(g)
    BY <2>2, <2>5 DEF OneMoves, OpenRow
  <2>6. ASSUME NEW g \in Handlers, OpenRow(g)'
        PROVE  events'[work'[g].msg][work'[g].row] = "received"
    <3>1. g # h /\ work'[g] = work[g] /\ OpenRow(g)
      BY <2>5, <2>6
    <3>2. ~(work[g].msg = work[h].msg /\ work[g].row = work[h].row)
          /\ events[work[g].msg][work[g].row] = "received"
      BY <2>2, <3>1 DEF RowsOpen
    <3>3. work[g].msg \in Messages /\ work[g].row \in 1..Len(events[work[g].msg])
      BY <1>c, <3>1
    <3>4. work[g].row \in Nat
      BY <1>a, <3>3
    <3> QED BY <2>3, <3>1, <3>2, <3>3, <3>4
  <2>7. ASSUME NEW g \in Handlers, OpenRow(g)', NEW f \in Handlers \ {g}, OpenRow(f)',
               work'[f].msg = work'[g].msg
        PROVE  work'[f].row # work'[g].row
    BY <2>5, <2>7 DEF RowsOpen
  <2> QED BY <2>4, <2>6, <2>7 DEF RowsOpen
<1>6. ASSUME NEW h \in Handlers, NEW m \in Messages, Starts(h, m) PROVE RowsOpen'
  <2>1. /\ Len(events[m]) \in Nat /\ Len(events'[m]) = Len(events[m]) + 1
        /\ events'[m][Len(events[m]) + 1] = "received"
        /\ \A n \in Messages \ {m} : events'[n] = events[n]
        /\ \A i \in 1..Len(events[m]) : events'[m][i] = events[m][i]
    BY <1>6, AppendRows
  <2>2. /\ OneMoves(h) /\ ~OpenRow(h) /\ work'[h].msg = m /\ work'[h].row = Len(events[m]) + 1
        /\ Len(events[m]) < MaxDeliveries
    BY <1>6 DEF Starts, OpenRow
  <2>3. \A n \in Messages : Len(events'[n]) <= MaxDeliveries
    BY <1>a, <2>1, <2>2 DEF RowsOpen
  <2>4. ASSUME NEW g \in Handlers \ {h}, OpenRow(g)'
        PROVE  /\ work'[g] = work[g] /\ OpenRow(g)
               /\ work[g].msg \in Messages /\ work[g].row \in 1..Len(events[work[g].msg])
    BY <1>c, <2>2, <2>4 DEF OneMoves, OpenRow
  <2>5. ASSUME NEW g \in Handlers, OpenRow(g)'
        PROVE  events'[work'[g].msg][work'[g].row] = "received"
    <3>1. CASE g = h
      BY <2>1, <2>2, <3>1
    <3>2. CASE g # h
      <4>1. /\ work'[g] = work[g] /\ OpenRow(g)
            /\ work[g].msg \in Messages /\ work[g].row \in 1..Len(events[work[g].msg])
        BY <2>4, <2>5, <3>2
      <4>2. events[work[g].msg][work[g].row] = "received"
        BY <4>1 DEF RowsOpen
      <4>3. CASE work[g].msg = m
        BY <2>1, <4>1, <4>2, <4>3
      <4>4. CASE work[g].msg # m
        BY <2>1, <4>1, <4>2, <4>4
      <4> QED BY <4>3, <4>4
    <3> QED BY <3>1, <3>2
  <2>6. ASSUME NEW g \in Handlers, OpenRow(g)', NEW f \in Handlers \ {g}, OpenRow(f)',
               work'[f].msg = work'[g].msg
        PROVE  work'[f].row # work'[g].row
    <3>1. CASE f # h /\ g # h
      BY <2>4, <2>6, <3>1 DEF RowsOpen
    <3>2. CASE f = h
      <4>1. work'[g] = work[g] /\ work[g].row \in 1..Len(events[work[g].msg])
        BY <2>4, <2>6, <3>2
      <4> QED BY <2>1, <2>2, <2>6, <3>2, <4>1
    <3>3. CASE g = h
      <4>1. work'[f] = work[f] /\ work[f].row \in 1..Len(events[work[f].msg])
        BY <2>4, <2>6, <3>3
      <4> QED BY <2>1, <2>2, <2>6, <3>3, <4>1
    <3> QED BY <3>1, <3>2, <3>3
  <2> QED BY <2>3, <2>5, <2>6 DEF RowsOpen
<1>7. CASE AllStop
  <2>1. events' = events /\ \A h \in Handlers : ~OpenRow(h)'
    BY <1>7 DEF AllStop, OpenRow
  <2> QED BY <2>1 DEF RowsOpen
<1>8. CASE Quiet /\ Serves
  BY <1>4, <1>5, <1>6, <1>7, <1>8, ServeFields
<1> QED BY <1>b, <1>2, <1>3, <1>8 DEF Effect
\* The order is what a handler, or a row, that says it wrote v makes it.
Agrees(o, v) ==
  IF v \in SaleResults THEN SoldUntouched(o)
  ELSE status[o] = "needs_review" \/ resolutions[o] # <<>>

Writes(h, o) ==
  work[h].pc = "done" /\ work[h].result \in WriteResults /\ work[h].msg.order = o
Reports(m, i, o) ==
  m.order = o /\ i \in 1..Len(events[m]) /\ events[m][i] \in WriteResults

\* One handler carries, or one row holds, the news that order o was settled; it
\* agrees with the order, and without faults a settled order has one.
AuditOf(o) ==
  /\ \A h \in Handlers : Writes(h, o) =>
       /\ Agrees(o, work[h].result)
       /\ \A g \in Handlers : Writes(g, o) => g = h
       /\ \A m \in Messages, i \in Nat : ~Reports(m, i, o)
  /\ \A m \in Messages, i \in Nat : Reports(m, i, o) =>
       /\ Agrees(o, events[m][i])
       /\ \A n \in Messages, j \in Nat : Reports(n, j, o) => n = m /\ j = i
  /\ faults = 0 /\ status[o] \in Settled /\ o \notin legacy =>
       \/ \E h \in Handlers : Writes(h, o)
       \/ \E m \in Messages, i \in Nat : Reports(m, i, o)

Audited == \A o \in Orders : AuditOf(o)

LEMMA AgreesStays ==
  ASSUME SafetyInv, Effect, NEW o \in Orders, NEW v, Agrees(o, v)
  PROVE  IF v \in SaleResults THEN SoldUntouched(o)'
         ELSE status'[o] = "needs_review" \/ resolutions'[o] # <<>>
<1>a. DOMAIN status = Orders /\ DOMAIN resolutions = Orders /\ Trail
  BY DEF SafetyInv, TypeInv, TypeOK
<1>1. CASE v \in SaleResults
  BY <1>1, SoldStays DEF Agrees
<1>2. CASE v \notin SaleResults
  <2>a. /\ status[o] = "needs_review" \/ resolutions[o] # <<>>
        /\ status[o] \in {"pending", "expired"} => resolutions[o] = <<>>
    BY <1>a, <1>2 DEF Agrees, Trail
  <2>1. CASE Drifts
    BY <1>2, <2>1, <2>a DEF Drifts, Settled
  <2>2. ASSUME NEW h \in Handlers, NEW w \in WriteResults, Settles(h, w)
        PROVE  status'[o] = "needs_review" \/ resolutions'[o] # <<>>
    BY <1>a, <2>2, <2>a DEF Settles
  <2>3. ASSUME NEW p \in Orders, Decides(p)
        PROVE  status'[o] = "needs_review" \/ resolutions'[o] # <<>>
    BY <1>a, <2>3, <2>a DEF Decides
  <2>4. CASE Quiet
    BY <1>2, <2>4, <2>a DEF Quiet
  <2> QED BY <1>2, <2>1, <2>2, <2>3, <2>4 DEF Effect
<1> QED BY <1>1, <1>2

\* A step that adds no news of o and, without faults, loses none.
LEMMA AuditKept ==
  ASSUME SafetyInv, Effect, NEW o \in Orders, AuditOf(o),
         \A h \in Handlers : Writes(h, o)' => Writes(h, o) /\ work'[h].result = work[h].result,
         \A m \in Messages, i \in Nat :
           /\ Reports(m, i, o)' <=> Reports(m, i, o)
           /\ Reports(m, i, o) => events'[m][i] = events[m][i],
         faults' = 0 /\ status'[o] \in Settled =>
           /\ status[o] \in Settled
           /\ \A h \in Handlers : Writes(h, o) => Writes(h, o)'
  PROVE  AuditOf(o)'
<1>1. \A h \in Handlers : Writes(h, o)' => Agrees(o, work[h].result)'
  <2> SUFFICES ASSUME NEW h \in Handlers, Writes(h, o)' PROVE Agrees(o, work[h].result)'
    OBVIOUS
  <2>1. Agrees(o, work[h].result) /\ work'[h].result = work[h].result
    BY DEF AuditOf
  <2> QED BY <2>1, AgreesStays DEF Agrees
<1>2. \A m \in Messages, i \in Nat : Reports(m, i, o)' => Agrees(o, events[m][i])'
  <2> SUFFICES ASSUME NEW m \in Messages, NEW i \in Nat, Reports(m, i, o)'
               PROVE  Agrees(o, events[m][i])'
    OBVIOUS
  <2>1. Agrees(o, events[m][i]) /\ events'[m][i] = events[m][i]
    BY DEF AuditOf
  <2> QED BY <2>1, AgreesStays DEF Agrees
<1>3. legacy' = legacy /\ (faults' = 0 => faults = 0)
  BY DEF Effect
<1> QED BY <1>1, <1>2, <1>3 DEF AuditOf

LEMMA AuditedStep ==
  ASSUME SafetyInv, Origins, RowsOpen, Audited, [Next]_vars
  PROVE  Audited'
<1>a. /\ status \in [Orders -> Statuses \cup {"absent"}] /\ DOMAIN resolutions = Orders
      /\ events \in [Messages -> Seq(Results)] /\ HandlersConsistent /\ Trail
  BY DEF SafetyInv, TypeInv, TypeOK
<1>b. Effect /\ \A o \in Orders : AuditOf(o)
  BY Effects DEF Audited
<1>c. "received" \notin WriteResults /\ "invalid_signature" \in Results \ WriteResults
  BY DEF Results, WriteResults, SaleResults
<1>1. ASSUME NEW o \in Orders, UNCHANGED <<work, events>>,
             status'[o] \in Settled => status[o] \in Settled
      PROVE  AuditOf(o)'
  <2>1. /\ \A h \in Handlers : Writes(h, o)' <=> Writes(h, o)
        /\ \A m \in Messages, i \in Nat : Reports(m, i, o)' <=> Reports(m, i, o)
    BY <1>1 DEF Writes, Reports
  <2> QED BY <1>b, <1>1, <2>1, AuditKept
<1>2. CASE Drifts
  BY <1>1, <1>2 DEF Drifts, webhookView, Audited
<1>3. ASSUME NEW p \in Orders, Decides(p) PROVE Audited'
  <2>1. UNCHANGED <<work, events>> /\ \A o \in Orders : status'[o] \in Settled => status[o] \in Settled
    BY <1>a, <1>3 DEF Decides, webhookView, Settled
  <2> QED BY <1>1, <2>1 DEF Audited
<1>4. ASSUME NEW h \in Handlers, NEW v \in WriteResults, Settles(h, v) PROVE Audited'
  <2>a. EndsWith(h, v)
    BY <1>4, SettleFields
  <2>m. PICK m : m = work[h].msg
    OBVIOUS
  <2>b. /\ events' = events /\ work[h].pc = "locked"
        /\ m.order \in Orders /\ status[m.order] \in {"pending", "expired"}
        /\ \A o \in Orders \ {m.order} : status'[o] = status[o]
    BY <1>a, <1>4, <2>m DEF Settles
  <2>c. \A o \in Orders, n \in Messages, i \in Nat : Reports(n, i, o)' <=> Reports(n, i, o)
    BY <2>b DEF Reports
  <2> SUFFICES ASSUME NEW o \in Orders PROVE AuditOf(o)'
    BY DEF Audited
  <2>1. CASE o # m.order
    <3>1. \A g \in Handlers : Writes(g, o)' <=> Writes(g, o)
      BY <2>a, <2>b, <2>m, <2>1 DEF EndsWith, OneMoves, KeepsMessage, Writes
    <3>2. \A g \in Handlers : Writes(g, o) => work'[g].result = work[g].result
      BY <2>a, <2>b DEF EndsWith, OneMoves, Writes
    <3> QED BY <1>b, <2>b, <2>c, <2>1, <3>1, <3>2, AuditKept
  <2>2. CASE o = m.order
    <3>1. \A w : ~Agrees(o, w)
      BY <1>a, <2>b, <2>2 DEF Trail, Agrees, SoldUntouched
    <3>2. /\ \A g \in Handlers : ~Writes(g, o)
          /\ \A n \in Messages, i \in Nat : ~Reports(n, i, o)
      BY <1>b, <3>1 DEF AuditOf
    <3>3. \A g \in Handlers : Writes(g, o)' <=> g = h
      BY <2>a, <2>m, <2>2, <3>2 DEF EndsWith, OneMoves, KeepsMessage, Writes
    <3>4. Agrees(o, work[h].result)'
      <4>1. resolutions[o] = <<>> /\ resolutions' = resolutions
        BY <1>a, <1>4, <2>b, <2>2 DEF Settles, Trail
      <4>2. status'[o] = IF v \in SaleResults THEN "paid" ELSE "needs_review"
        BY <1>a, <1>4, <2>m, <2>2 DEF Settles, SaleResults
      <4> QED BY <2>a, <4>1, <4>2 DEF EndsWith, Agrees, SoldUntouched
    <3> QED BY <2>c, <3>2, <3>3, <3>4 DEF AuditOf
  <2> QED BY <2>1, <2>2
<1>5. ASSUME Quiet, NEW o \in Orders,
             \A h \in Handlers : Writes(h, o)' => Writes(h, o) /\ work'[h].result = work[h].result,
             \A m \in Messages, i \in Nat :
               /\ Reports(m, i, o)' <=> Reports(m, i, o)
               /\ Reports(m, i, o) => events'[m][i] = events[m][i],
             faults' # 0 \/ \A h \in Handlers : Writes(h, o) => Writes(h, o)'
      PROVE  AuditOf(o)'
  BY <1>b, <1>5, AuditKept DEF Quiet
<1>6. ASSUME Quiet, NEW h \in Handlers,
             TakesLock(h) \/ Answers(h)
             \/ \E v \in Results : Concludes(h, v) /\ EndsWith(h, v)
      PROVE  Audited'
  <2>1. events' = events /\ OneMoves(h)
    BY <1>6 DEF TakesLock, Answers, Concludes, EndsWith
  <2>2. \A o \in Orders : ~Writes(h, o)'
    BY <1>6 DEF TakesLock, Answers, Concludes, EndsWith, Writes
  <2>3. \A o \in Orders : Writes(h, o) => faults' # 0
    BY <1>6 DEF TakesLock, Answers, Concludes, Writes
  <2>4. \A o \in Orders, g \in Handlers : Writes(g, o)' => Writes(g, o) /\ work'[g].result = work[g].result
    BY <2>1, <2>2 DEF OneMoves, Writes
  <2>5. \A o \in Orders : faults' # 0 \/ \A g \in Handlers : Writes(g, o) => Writes(g, o)'
    BY <2>1, <2>3 DEF OneMoves, Writes
  <2>6. \A o \in Orders, m \in Messages, i \in Nat :
          /\ Reports(m, i, o)' <=> Reports(m, i, o)
          /\ Reports(m, i, o) => events'[m][i] = events[m][i]
    BY <2>1 DEF Reports
  <2> QED BY <1>5, <1>6, <2>4, <2>5, <2>6 DEF Audited
<1>7. ASSUME Quiet, NEW h \in Handlers, NEW m \in Messages, Starts(h, m) PROVE Audited'
  <2>1. /\ Len(events[m]) \in Nat /\ Len(events'[m]) = Len(events[m]) + 1
        /\ events'[m][Len(events[m]) + 1] = "received"
        /\ \A n \in Messages \ {m} : events'[n] = events[n]
        /\ \A i \in 1..Len(events[m]) : events'[m][i] = events[m][i]
    BY <1>7, AppendRows
  <2>2. \A o \in Orders, g \in Handlers :
          (Writes(g, o)' <=> Writes(g, o)) /\ (Writes(g, o) => work'[g].result = work[g].result)
    BY <1>7 DEF Starts, OneMoves, Writes
  <2>3. ASSUME NEW o \in Orders, NEW n \in Messages, NEW i \in Nat
        PROVE  /\ Reports(n, i, o)' <=> Reports(n, i, o)
               /\ Reports(n, i, o) => events'[n][i] = events[n][i]
    <3>1. CASE n # m
      BY <2>1, <3>1 DEF Reports
    <3>2. CASE n = m
      BY <1>c, <2>1, <3>2 DEF Reports
    <3> QED BY <3>1, <3>2
  <2> QED BY <1>5, <1>7, <2>2, <2>3 DEF Audited
<1>8. ASSUME Quiet, NEW h \in Handlers, Rejects(h) \/ Records(h) PROVE Audited'
  <2>1. PICK v \in Results : SetEvent(h, v) /\ (Records(h) => v = work[h].result)
                             /\ (Rejects(h) => v \notin WriteResults)
    BY <1>8, <1>a, <1>c DEF Rejects, Records, HandlersConsistent
  <2>2. work[h].pc # "idle" /\ OneMoves(h) /\ OpenRow(h) /\ work'[h].pc # "done"
    BY <1>8 DEF Rejects, Records, OpenRow
  <2>3. /\ \A m \in Messages : Len(events'[m]) = Len(events[m])
        /\ \A m \in Messages, i \in Nat :
             i \in 1..Len(events[m]) =>
               events'[m][i] = IF m = work[h].msg /\ i = work[h].row THEN v ELSE events[m][i]
    BY <2>1, <2>2, SetEventRows
  <2>4. events[work[h].msg][work[h].row] \notin WriteResults
    BY <1>c, <2>2 DEF RowsOpen
  <2>5. ASSUME NEW o \in Orders, v \notin WriteResults \/ work[h].msg.order # o
        PROVE  AuditOf(o)'
    <3>1. ~Writes(h, o) /\ ~Writes(h, o)'
      BY <1>8, <2>1, <2>2, <2>5 DEF Rejects, Writes
    <3>2. \A g \in Handlers :
            (Writes(g, o)' <=> Writes(g, o)) /\ (Writes(g, o) => work'[g].result = work[g].result)
      BY <2>2, <3>1 DEF OneMoves, Writes
    <3>3. \A m \in Messages, i \in Nat :
            /\ Reports(m, i, o)' <=> Reports(m, i, o)
            /\ Reports(m, i, o) => events'[m][i] = events[m][i]
      BY <2>3, <2>4, <2>5 DEF Reports
    <3> QED BY <1>5, <1>8, <3>2, <3>3
  <2>6. ASSUME NEW o \in Orders, v \in WriteResults, work[h].msg.order = o
        PROVE  AuditOf(o)'
    <3> DEFINE m == work[h].msg
               i == work[h].row
    <3>a. m \in Messages /\ i \in Nat /\ i \in 1..Len(events[m])
      BY <1>a, <2>2 DEF HandlersConsistent
    <3>1. Writes(h, o) /\ v = work[h].result
      BY <1>8, <2>1, <2>6 DEF Records, Writes
    <3>2. /\ Agrees(o, v) /\ \A g \in Handlers : Writes(g, o) => g = h
          /\ \A n \in Messages, j \in Nat : ~Reports(n, j, o)
      BY <1>b, <3>1 DEF AuditOf
    <3>3. \A g \in Handlers : ~Writes(g, o)'
      BY <2>2, <3>2 DEF OneMoves, Writes
    <3>4. PICK n \in Messages, j \in Nat : n = m /\ j = i
      BY <3>a
    <3>5. \A k \in Messages, l \in Nat : Reports(k, l, o)' <=> k = n /\ l = j
      BY <2>3, <2>6, <3>a, <3>2, <3>4 DEF Reports
    <3>6. events'[n][j] = v
      BY <2>3, <3>a, <3>4
    <3>7. Agrees(o, events[n][j])'
      BY <1>b, <3>2, <3>6, AgreesStays DEF Agrees
    <3> QED BY <3>3, <3>5, <3>7 DEF AuditOf
  <2> QED BY <2>5, <2>6 DEF Audited
<1>9. CASE Quiet /\ AllStop
  <2>1. /\ \A o \in Orders, h \in Handlers : ~Writes(h, o)'
        /\ events' = events /\ faults' # 0
    BY <1>9 DEF AllStop, Writes
  <2>2. \A o \in Orders, m \in Messages, i \in Nat : Reports(m, i, o)' <=> Reports(m, i, o)
    BY <2>1 DEF Reports
  <2> QED BY <1>5, <1>9, <2>1, <2>2 DEF Audited
<1>10. CASE Quiet /\ Serves
  BY <1>6, <1>7, <1>8, <1>9, <1>10, ServeFields
<1> QED BY <1>b, <1>2, <1>3, <1>4, <1>10 DEF Effect
\* The log as AuditAgrees reads it.
LEMMA AuditedAgrees ==
  ASSUME SafetyInv, RowsOpen, Audited PROVE AuditAgrees
<1>a. /\ events \in [Messages -> Seq(Results)] /\ MaxDeliveries \in Nat
      /\ \A m \in Messages : Len(events[m]) <= MaxDeliveries
  BY ConstantsAssumption DEF SafetyInv, TypeInv, TypeOK, RowsOpen
<1> SUFFICES ASSUME NEW o \in Orders
             PROVE  /\ Cardinality(SaleEvents(o)) <= 1
                    /\ \A e \in SaleEvents(o) :
                         IF events[e[1]][e[2]] \in SaleResults
                         THEN status[o] = "paid" /\ resolutions[o] = <<>>
                         ELSE status[o] = "needs_review" \/ resolutions[o] # <<>>
                    /\ /\ faults = 0 /\ status[o] \in Settled /\ o \notin legacy
                       /\ \A h \in Handlers : work[h].pc = "done" => work[h].msg.order # o
                       => SaleEvents(o) # {}
  BY DEF AuditAgrees
<1>b. AuditOf(o)
  BY DEF Audited
<1>1. ASSUME NEW e \in SaleEvents(o)
      PROVE  /\ e = <<e[1], e[2]>> /\ e[1] \in Messages /\ e[2] \in Nat
             /\ Reports(e[1], e[2], o)
  <2>1. /\ e = <<e[1], e[2]>> /\ e[1] \in Messages /\ e[1].order = o /\ e[2] \in 1..MaxDeliveries
        /\ e[2] \in DOMAIN events[e[1]] /\ events[e[1]][e[2]] \in WriteResults
    BY DEF SaleEvents
  <2>2. DOMAIN events[e[1]] = 1..Len(events[e[1]])
    BY <1>a, <2>1
  <2> QED BY <2>1, <2>2 DEF Reports
<1>2. ASSUME NEW m \in Messages, NEW i \in Nat, Reports(m, i, o)
      PROVE  <<m, i>> \in SaleEvents(o)
  <2>1. m.order = o /\ i \in 1..Len(events[m]) /\ events[m][i] \in WriteResults
    BY <1>2 DEF Reports
  <2>2. DOMAIN events[m] = 1..Len(events[m]) /\ Len(events[m]) \in Nat
    BY <1>a
  <2>3. i \in 1..MaxDeliveries /\ i \in DOMAIN events[m]
    BY <1>a, <2>1, <2>2
  <2> QED BY <2>1, <2>3 DEF SaleEvents
<1>3. \A d, e \in SaleEvents(o) : d = e
  <2> SUFFICES ASSUME NEW d \in SaleEvents(o), NEW e \in SaleEvents(o) PROVE d = e
    OBVIOUS
  <2>1. d[1] = e[1] /\ d[2] = e[2]
    BY <1>1, <1>b DEF AuditOf
  <2> QED BY <1>1, <2>1
<1>4. Cardinality(SaleEvents(o)) <= 1
  <2>1. CASE SaleEvents(o) = {}
    BY <2>1, FS_EmptySet
  <2>2. CASE SaleEvents(o) # {}
    <3>1. PICK e : e \in SaleEvents(o)
      BY <2>2
    <3>2. SaleEvents(o) = {e}
      BY <1>3, <3>1
    <3> QED BY <3>2, FS_Singleton
  <2> QED BY <2>1, <2>2
<1>5. ASSUME NEW e \in SaleEvents(o)
      PROVE  IF events[e[1]][e[2]] \in SaleResults
             THEN status[o] = "paid" /\ resolutions[o] = <<>>
             ELSE status[o] = "needs_review" \/ resolutions[o] # <<>>
  <2>1. Agrees(o, events[e[1]][e[2]])
    BY <1>1, <1>b DEF AuditOf
  <2> QED BY <2>1 DEF Agrees, SoldUntouched
<1>6. ASSUME faults = 0, status[o] \in Settled, o \notin legacy,
             \A h \in Handlers : work[h].pc = "done" => work[h].msg.order # o
      PROVE  SaleEvents(o) # {}
  <2>1. \A h \in Handlers : ~Writes(h, o)
    BY <1>6 DEF Writes
  <2>2. PICK m \in Messages, i \in Nat : Reports(m, i, o)
    BY <1>b, <1>6, <2>1 DEF AuditOf
  <2> QED BY <1>2, <2>2
<1> QED BY <1>4, <1>5, <1>6

-------------------------------------------------------------------------------
LEMMA CreateAnswerStep ==
  ASSUME SafetyInv, CreateAnswerHolds, [Next]_vars
  PROVE  CreateAnswerHolds'
<1>a. /\ DOMAIN status = Orders /\ DOMAIN request = Orders /\ DOMAIN url = Orders
      /\ sweepHeld \subseteq Orders /\ HandlersConsistent /\ CasesConsistent
  BY DEF SafetyInv, TypeInv, TypeOK
<1> USE DEF vars, orderVars, issueVars, createVars, webhookVars, netVars, sweepVars
<1>1. ASSUME UNCHANGED <<request, url>>,
             \A o \in Orders : status'[o] = "pending" => status[o] = "pending"
      PROVE  CreateAnswerHolds'
  BY <1>1 DEF CreateAnswerHolds
<1>2. CASE UNCHANGED vars
  BY <1>1, <1>2
<1>3. ASSUME NEW o \in Orders, CreateStep(o) \/ OpenPayment(o) \/ Elapse(o)
      PROVE  CreateAnswerHolds'
  BY <1>a, <1>3 DEF CreateAnswerHolds, CreateStep, PlaceOrder, PaymentCreated, PaymentFailed,
                    StoreUrl, ExpireFailed, OpenPayment, Elapse
<1>4. CASE SweepStep
  BY <1>1, <1>4 DEF SweepStep, SweepStart, SweepCommit, SweepTake, SweepSkip
<1>5. ASSUME NEW h \in Handlers, HandlerStep(h) \/ LoseCommit(h) PROVE CreateAnswerHolds'
  <2>1. UNCHANGED <<request, url>>
    BY <1>5 DEF HandlerStep, RejectUnsigned, OrderNotFound, LockOrder, LeaveAlone,
                HoldForReview, Sell, Abort, RecordOutcome, Answer, LoseCommit
  <2>2. \/ status' = status
        \/ \E o, s \in {work[h].msg.order, "paid", "needs_review"} :
             s # "pending" /\ status' = [status EXCEPT ![o] = s]
    BY <1>5 DEF HandlerStep, RejectUnsigned, OrderNotFound, LockOrder, LeaveAlone,
                HoldForReview, Sell, Abort, RecordOutcome, Answer, LoseCommit
  <2> QED BY <1>a, <1>1, <2>1, <2>2
<1>6. ASSUME NEW r \in Operators,
             OperatorStep(r) \/ \E o \in Orders, a \in ResolutionActions : OpenCase(r, o, a)
      PROVE  CreateAnswerHolds'
  BY <1>a, <1>1, <1>6 DEF OperatorStep, RefuseCase, DropCase, RefundByHand, IssueByHand, OpenCase
<1>7. ASSUME NEW m \in Messages, Send(m) \/ \E h \in Handlers : Receive(h, m)
      PROVE  CreateAnswerHolds'
  BY <1>1, <1>7 DEF Send, Receive
<1>8. CASE Crash \/ Tick
  BY <1>8 DEF Crash, Tick, CreateAnswerHolds
<1> QED BY <1>2, <1>3, <1>4, <1>5, <1>6, <1>7, <1>8 DEF Next

-------------------------------------------------------------------------------
(* The theorems.                                                             *)

MoneyInv ==
  /\ SafetyInv /\ Origins /\ SettledByItsMoney
  /\ Answered /\ AckedMoneyIsSettled /\ Announced
  /\ RowsOpen /\ Audited /\ CreateAnswerHolds

LEMMA MoneyInit == Init => MoneyInv
<1> SUFFICES ASSUME Init PROVE MoneyInv
  OBVIOUS
<1>1. SafetyInv /\ Origins
  BY SafetyInit, OriginsInit
<1>2. SettledByItsMoney
  BY DEF Init, SettledByItsMoney, Settled
<1>3. \A h \in Handlers : work[h].pc = "idle"
  BY NoWorkType DEF Init
<1>4. Answered /\ AckedMoneyIsSettled
  BY <1>3 DEF Init, Answered, AckedMoneyIsSettled, Ends
<1>5. Announced
  BY <1>3 DEF Init, Announced, Announces, Ends
<1>6. RowsOpen
  <2>1. \A m \in Messages : Len(events[m]) = 0
    BY DEF Init
  <2> QED BY <1>3, <2>1, ConstantsAssumption DEF RowsOpen, OpenRow
<1>7. Audited
  <2>1. \A m \in Messages, i \in Nat : i \notin 1..Len(events[m])
    BY DEF Init
  <2>2. \A o \in Orders : status[o] \in Settled => o \in legacy
    BY DEF Init, Settled
  <2> QED BY <1>3, <2>1, <2>2 DEF Audited, AuditOf, Writes, Reports
<1>8. CreateAnswerHolds
  BY DEF Init, CreateAnswerHolds
<1> QED BY <1>1, <1>2, <1>4, <1>5, <1>6, <1>7, <1>8 DEF MoneyInv

LEMMA MoneyStep == MoneyInv /\ [Next]_vars => MoneyInv'
BY SafetyStep, OriginsStep, SettledByItsMoneyStep, AnsweredStep, AnnouncedStep, RowsOpenStep,
   AuditedStep, CreateAnswerStep DEF MoneyInv

LEMMA MoneyHolds == Spec => []MoneyInv
BY MoneyInit, MoneyStep, PTL DEF Spec

\* Money is behind every settled order, whatever Finik sends, in whatever order
\* and how often: the message its paidAt and transaction id come from.
THEOREM SettledByItsMoneyHolds == Spec => []SettledByItsMoney
<1>1. MoneyInv => SettledByItsMoney
  BY DEF MoneyInv
<1> QED BY <1>1, MoneyHolds, PTL

\* A payment to our account answered 200 is on a settled order: no retry, and no
\* crash before the answer, loses it.
THEOREM AckedMoneyIsSettledHolds == Spec => []AckedMoneyIsSettled
<1>1. MoneyInv => AckedMoneyIsSettled
  BY DEF MoneyInv
<1> QED BY <1>1, MoneyHolds, PTL

\* The buyer is sent the code at most once, for an order that the webhook sold.
THEOREM NotifiedOnceHolds == Spec => []NotifiedOnce
<1>1. MoneyInv => NotifiedOnce
  BY DEF MoneyInv, Announced, NotifiedOnce, SoldUntouched
<1> QED BY <1>1, MoneyHolds, PTL

\* finik_webhook_events agrees with the orders: one report of a sale at most, the
\* order as it says, and none missing while nothing went wrong.
THEOREM AuditAgreesHolds == Spec => []AuditAgrees
<1>1. MoneyInv => AuditAgrees
  BY AuditedAgrees DEF MoneyInv
<1> QED BY <1>1, MoneyHolds, PTL

\* A buyer told 502 has no payable order, one given a link finds it stored.
THEOREM CreateAnswerAlwaysHolds == Spec => []CreateAnswerHolds
<1>1. MoneyInv => CreateAnswerHolds
  BY DEF MoneyInv
<1> QED BY <1>1, MoneyHolds, PTL

\* No step of anybody changes the paidAt or the transaction id of an order.
THEOREM PaidAtIsFixedHolds == Spec => PaidAtIsFixed
<1> DEFINE Fixed == \A o \in Orders :
                      /\ paidAt[o] # None => paidAt'[o] = paidAt[o]
                      /\ txId[o] # None => txId'[o] = txId[o]
<1>1. MoneyInv /\ [Next]_vars => [Fixed]_vars
  BY PaidAtStep DEF MoneyInv
<1> QED BY <1>1, MoneyHolds, PTL DEF Spec, PaidAtIsFixed
===============================================================================
