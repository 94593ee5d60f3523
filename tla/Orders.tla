-------------------------------- MODULE Orders --------------------------------
(***************************************************************************)
(* Orders from creation to settlement: POST /orders, the Finik webhook,    *)
(* the expireStale cron and the resolve-review command line, all of them   *)
(* concurrent clients of one READ COMMITTED database.                      *)
(*                                                                         *)
(* A transaction that takes the order's row lock (SELECT ... FOR UPDATE)   *)
(* is a step that takes the lock and reads the row, and a later step that  *)
(* applies all of the writes and releases the lock (COMMIT) or releases    *)
(* the lock alone (ROLLBACK).  A single-statement UPDATE is one step and   *)
(* waits for the row lock.                                                 *)
(***************************************************************************)
EXTENDS Integers, Sequences, FiniteSets

CONSTANTS
  Orders,         \* ids the app generates, one per POST /orders
  UnknownOrders,  \* well-formed PaymentIds no order has
  Messages,       \* webhook bodies that may reach us, see MessageShape
  Txs,            \* Finik transaction ids (body.id)
  Codes,          \* certificate codes
  Handlers,       \* webhook requests being served at the same time
  Operators,      \* runs of scripts/resolve-review.ts at the same time
  Cron,           \* the expireStale job
  MaxAge,         \* PAID_AT_MAX_AGE_MS
  MaxAhead,       \* PAID_AT_MAX_AHEAD_MS
  MaxTime,        \* bound: the clock
  MaxDeliveries,  \* bound: deliveries of one message
  MaxFaults,      \* bound: crashes and lost database answers
  None

Statuses == {"pending", "paid", "expired", "needs_review", "refunded"}
Settled == {"paid", "needs_review", "refunded"}
Actors == Handlers \cup Operators \cup {Cron}
ResolutionActions == {"issue", "refunded"}

\* A signed body names an order, says whether the payment succeeded, to which
\* account, whether the amount is the order's, its transaction, and its time:
\* None when transactionDate is missing or unreadable.
MessageShape ==
  [order : Orders \cup UnknownOrders, signed : BOOLEAN, success : BOOLEAN,
   ours : BOOLEAN, exact : BOOLEAN, tx : Txs \cup {None}, at : Nat \cup {None}]

ASSUME ConstantsAssumption ==
  /\ Messages \subseteq MessageShape
  /\ Orders \cap UnknownOrders = {}
  /\ Handlers \cap Operators = {}
  /\ Cron \notin Handlers \cup Operators
  /\ None \notin Orders \cup Actors \cup Txs \cup Nat \cup Messages
  /\ None \notin Statuses \cup ResolutionActions
  /\ {MaxAge, MaxAhead, MaxTime, MaxDeliveries, MaxFaults} \subseteq Nat

VARIABLES
  clock,        \* Date.now()
  legacy,       \* needs_review rows from before paidAt was kept; never changes
  status,       \* orders.status, "absent" before the INSERT
  paidAt, txId, \* orders.paidAt, orders.finikTransactionId
  url,          \* orders.paymentUrl is stored
  overdue,      \* orders.expiresAt has passed
  certificates, \* rows [code, order] of certificates
  resolutions,  \* rows of order_resolutions: order -> actions, in order
  locks,        \* who holds the row lock of an order
  request,      \* where the POST /orders of an order is
  finik,        \* orders Finik holds a payment for
  sent, acked,  \* messages Finik has sent / has got a 200 for
  events,       \* finik_webhook_events: message -> results, by arrival
  work,         \* the webhook handlers: progress and local values
  desk,         \* the operators' transactions
  sweepRest, sweepHeld,               \* the cron's UPDATE statement
  notices,      \* calls of notifyPaid per order
  faults

orderVars == <<clock, legacy, status, paidAt, txId, url, overdue>>
issueVars == <<certificates, resolutions>>
createVars == <<request, finik>>
netVars == <<sent, acked>>
webhookVars == <<netVars, events, work, notices>>
sweepVars == <<sweepRest, sweepHeld>>
vars == <<orderVars, issueVars, locks, createVars, webhookVars, desk, sweepVars, faults>>

\* A definition marked "Regression" is not part of the specification: it is a
\* slip of the code that one of the properties exists to catch.

\* Regression: the row is read without FOR UPDATE.
FreeUnlocked(o) == TRUE
Free(o) == locks[o] = None
NoWork == [pc |-> "idle", msg |-> None, row |-> 0, seen |-> None, result |-> None]
NoCase == [order |-> None, action |-> None, seen |-> None]

Init ==
  /\ clock = 0
  /\ legacy \in SUBSET Orders
  /\ status = [o \in Orders |-> IF o \in legacy THEN "needs_review" ELSE "absent"]
  /\ paidAt = [o \in Orders |-> None]
  /\ txId = [o \in Orders |-> None]
  /\ url = [o \in Orders |-> o \in legacy]
  /\ overdue = [o \in Orders |-> o \in legacy]
  /\ certificates = {}
  /\ resolutions = [o \in Orders |-> <<>>]
  /\ locks = [o \in Orders |-> None]
  /\ request = [o \in Orders |-> IF o \in legacy THEN "url" ELSE "none"]
  /\ finik = legacy
  /\ sent = {} /\ acked = {}
  /\ events = [m \in Messages |-> <<>>]
  /\ work = [h \in Handlers |-> NoWork]
  /\ desk = [r \in Operators |-> NoCase]
  /\ sweepRest = {} /\ sweepHeld = {}
  /\ notices = [o \in Orders |-> 0]
  /\ faults = 0

-------------------------------------------------------------------------------
(* The time of day, which decides paidAt; expiresAt passes in Elapse.        *)

Tick ==
  /\ clock < MaxTime
  /\ clock' = clock + 1
  /\ UNCHANGED <<legacy, status, paidAt, txId, url, overdue, issueVars, locks,
                 createVars, webhookVars, desk, sweepVars, faults>>

-------------------------------------------------------------------------------
(* POST /orders. The venue, merchant and nominal checks precede the INSERT   *)
(* and change nothing; only accepted requests are modelled.                  *)

PlaceOrder(o) ==
  /\ status[o] = "absent"
  /\ status' = [status EXCEPT ![o] = "pending"]
  /\ request' = [request EXCEPT ![o] = "calling"]
  /\ UNCHANGED <<clock, legacy, paidAt, txId, url, overdue, issueVars, locks, finik,
                 webhookVars, desk, sweepVars, faults>>

\* Finik creates the payment, whether or not its answer will reach us in time.
OpenPayment(o) ==
  /\ status[o] # "absent" /\ o \notin finik
  /\ finik' = finik \cup {o}
  /\ UNCHANGED <<orderVars, issueVars, locks, request, webhookVars, desk,
                 sweepVars, faults>>

\* createPayment returns the payment url ...
PaymentCreated(o) ==
  /\ request[o] = "calling" /\ o \in finik
  /\ request' = [request EXCEPT ![o] = "answered"]
  /\ UNCHANGED <<orderVars, issueVars, locks, finik, webhookVars, desk,
                 sweepVars, faults>>

\* ... or throws: refused, unreachable or timed out, the payment open or not.
PaymentFailed(o) ==
  /\ request[o] = "calling"
  /\ request' = [request EXCEPT ![o] = "refused"]
  /\ UNCHANGED <<orderVars, issueVars, locks, finik, webhookVars, desk,
                 sweepVars, faults>>

StoreUrl(o) ==
  /\ request[o] = "answered" /\ Free(o)
  /\ url' = [url EXCEPT ![o] = TRUE]
  /\ request' = [request EXCEPT ![o] = "url"]
  /\ UNCHANGED <<clock, legacy, status, paidAt, txId, overdue, issueVars, locks, finik,
                 webhookVars, desk, sweepVars, faults>>

\* Regression: the catch block leaves the order to the cron.
ExpireFailedLater(o) ==
  /\ request[o] = "refused" /\ Free(o)
  /\ request' = [request EXCEPT ![o] = "failed"]
  /\ UNCHANGED <<orderVars, issueVars, locks, finik, webhookVars, desk,
                 sweepVars, faults>>

\* Regression: the catch block expires the order by id alone.
ExpireFailedAnyway(o) ==
  /\ request[o] = "refused" /\ Free(o)
  /\ status' = [status EXCEPT ![o] = "expired"]
  /\ request' = [request EXCEPT ![o] = "failed"]
  /\ UNCHANGED <<clock, legacy, paidAt, txId, url, overdue, issueVars, locks, finik,
                 webhookVars, desk, sweepVars, faults>>

\* The catch block: UPDATE ... WHERE status = 'pending', then 502.
ExpireFailed(o) ==
  /\ request[o] = "refused" /\ Free(o)
  /\ status' = [status EXCEPT ![o] = IF @ = "pending" THEN "expired" ELSE @]
  /\ request' = [request EXCEPT ![o] = "failed"]
  /\ UNCHANGED <<clock, legacy, paidAt, txId, url, overdue, issueVars, locks, finik,
                 webhookVars, desk, sweepVars, faults>>

-------------------------------------------------------------------------------
(* expireStale, every minute: one UPDATE over all stale rows. The statement  *)
(* locks its rows one at a time, re-evaluating WHERE on each row it had to   *)
(* wait for, and its changes become visible together when it commits.        *)

Elapse(o) ==
  /\ status[o] # "absent" /\ ~overdue[o]
  /\ overdue' = [overdue EXCEPT ![o] = TRUE]
  /\ UNCHANGED <<clock, legacy, status, paidAt, txId, url, issueVars, locks,
                 createVars, webhookVars, desk, sweepVars, faults>>

\* Regression: only orders that got their payment url are expired.
StaleWithUrl(o) == status[o] = "pending" /\ overdue[o] /\ url[o]
Stale(o) == status[o] = "pending" /\ overdue[o]

SweepStart ==
  /\ sweepRest = {} /\ sweepHeld = {}
  /\ \E o \in Orders : Stale(o)
  /\ sweepRest' = {o \in Orders : Stale(o)}
  /\ UNCHANGED <<orderVars, issueVars, locks, createVars, webhookVars, desk,
                 sweepHeld, faults>>

\* Regression: the stale ids are read first, and expired by id without a lock.
SweepTakeUnlocked(o) ==
  /\ o \in sweepRest
  /\ sweepRest' = sweepRest \ {o}
  /\ sweepHeld' = sweepHeld \cup {o}
  /\ UNCHANGED <<orderVars, issueVars, locks, createVars, webhookVars, desk,
                 faults>>

SweepTake(o) ==
  /\ o \in sweepRest /\ Free(o) /\ Stale(o)
  /\ sweepRest' = sweepRest \ {o}
  /\ sweepHeld' = sweepHeld \cup {o}
  /\ locks' = [locks EXCEPT ![o] = Cron]
  /\ UNCHANGED <<orderVars, issueVars, createVars, webhookVars, desk, faults>>

SweepSkip(o) ==
  /\ o \in sweepRest /\ Free(o) /\ ~Stale(o)
  /\ sweepRest' = sweepRest \ {o}
  /\ UNCHANGED <<orderVars, issueVars, locks, createVars, webhookVars, desk,
                 sweepHeld, faults>>

SweepCommit ==
  /\ sweepRest = {} /\ sweepHeld # {}
  /\ status' = [o \in Orders |-> IF o \in sweepHeld THEN "expired" ELSE status[o]]
  /\ locks' = [o \in Orders |-> IF o \in sweepHeld THEN None ELSE locks[o]]
  /\ sweepHeld' = {}
  /\ UNCHANGED <<clock, legacy, paidAt, txId, url, overdue, issueVars, createVars,
                 webhookVars, desk, sweepRest, faults>>

-------------------------------------------------------------------------------
(* Finik. It calls back only for a payment it holds; a payment made to some  *)
(* other account, and an unsigned request, need no payment of ours.          *)

Send(m) ==
  /\ m \notin sent
  /\ m.signed /\ m.ours => m.order \in finik
  /\ sent' = sent \cup {m}
  /\ UNCHANGED <<orderVars, issueVars, locks, createVars, acked, events, work,
                 notices, desk, sweepVars, faults>>

-------------------------------------------------------------------------------
(* POST /webhooks/finik                                                      *)

\* Any message sent may arrive, again too: at-least-once, in any order. The
\* event row is saved first, outside the payment transaction.
Receive(h, m) ==
  /\ work[h].pc = "idle" /\ m \in sent
  /\ Len(events[m]) < MaxDeliveries
  /\ events' = [events EXCEPT ![m] = Append(@, "received")]
  /\ work' = [work EXCEPT ![h] =
       [NoWork EXCEPT !.pc = "received", !.msg = m, !.row = Len(events[m]) + 1]]
  /\ UNCHANGED <<orderVars, issueVars, locks, createVars, netVars, notices,
                 desk, sweepVars, faults>>

\* eventRepo.update of the row this request saved.
SetEvent(h, v) == events' = [events EXCEPT ![work[h].msg][work[h].row] = v]

\* FinikWebhookVerifier: signed by Finik, over the method, our public URL, the
\* x-api headers, the query and the body.
Verified(h) == work[h].msg.signed

\* 401, which Finik does not take for an answer.
RejectUnsigned(h) ==
  /\ work[h].pc = "received" /\ ~Verified(h)
  /\ SetEvent(h, "invalid_signature")
  /\ work' = [work EXCEPT ![h] = NoWork]
  /\ UNCHANGED <<orderVars, issueVars, locks, createVars, netVars, notices,
                 desk, sweepVars, faults>>

\* Where handler h now is, and the outcome it carries.
Advance(h, p, v) == work' = [work EXCEPT ![h].pc = p, ![h].result = v]

Exists(o) == o \in Orders /\ status[o] # "absent"

OrderNotFound(h) ==
  /\ work[h].pc = "received" /\ Verified(h) /\ ~Exists(work[h].msg.order)
  /\ Advance(h, "done", "order_not_found")
  /\ UNCHANGED <<orderVars, issueVars, locks, createVars, netVars, events,
                 notices, desk, sweepVars, faults>>

\* The SELECT returned: the handler goes on with the status it read.
ReadRow(h, s) == work' = [work EXCEPT ![h].pc = "locked", ![h].seen = s]

LockOrder(h) ==
  /\ work[h].pc = "received" /\ Verified(h)
  /\ \E o \in Orders :
       /\ o = work[h].msg.order /\ Exists(o) /\ Free(o)
       /\ locks' = [locks EXCEPT ![o] = h]
       /\ ReadRow(h, status[o])
  /\ UNCHANGED <<orderVars, issueVars, createVars, netVars, events, notices,
                 desk, sweepVars, faults>>

\* Regression: an expired order is as final as a paid one.
VerdictExpiredFinal(m, s) ==
  IF ~m.success \/ ~m.ours THEN "ignored_status"
  ELSE IF s # "pending" THEN "already"
  ELSE IF m.exact THEN "paid" ELSE "needs_review"

\* Regression: a held order is settled anew by the next message.
VerdictHeldAgain(m, s) ==
  IF ~m.success \/ ~m.ours THEN "ignored_status"
  ELSE IF s \in {"paid", "refunded"} THEN "already"
  ELSE IF m.exact THEN "paid" ELSE "needs_review"

\* The ladder of early returns of apply(), for a message and the status read.
Verdict(m, s) ==
  IF ~m.success THEN "ignored_status"
  ELSE IF ~m.ours THEN "ignored_foreign_account"
  ELSE IF s \in Settled THEN "already"
  ELSE IF ~m.exact THEN "needs_review"
  ELSE IF s = "expired" THEN "paid_after_expiry" ELSE "paid"

SaleResults == {"paid", "paid_after_expiry"}
WriteResults == SaleResults \cup {"needs_review"}
Results == WriteResults \cup {"received", "invalid_signature", "order_not_found",
            "ignored_status", "ignored_foreign_account", "already", "error"}

\* Regression: the order's status is reported for the outcome.
EndTransactionStatus(h, v) ==
  /\ locks' = [locks EXCEPT ![work[h].msg.order] = None]
  /\ Advance(h, "done", work[h].seen)

\* The end of the transaction of h: its lock is released, v is its outcome.
EndTransaction(h, v) ==
  /\ locks' = [locks EXCEPT ![work[h].msg.order] = None]
  /\ Advance(h, "done", v)

LeaveAlone(h) ==
  /\ work[h].pc = "locked"
  /\ Verdict(work[h].msg, work[h].seen) \notin WriteResults
  /\ EndTransaction(h, Verdict(work[h].msg, work[h].seen))
  /\ UNCHANGED <<orderVars, issueVars, createVars, netVars, events, notices,
                 desk, sweepVars, faults>>

\* Regression: any transactionDate is believed.
PaidAtFromUnchecked(at) == IF at = None THEN clock ELSE at

\* The payment's own time if it is plausible, otherwise the time of processing.
PaidAtFrom(at) ==
  IF at = None \/ at < clock - MaxAge \/ at > clock + MaxAhead THEN clock ELSE at

\* orders.finikTransactionId is UNIQUE; NULLs never collide.
TxFree(o, t) == t = None \/ \A p \in Orders \ {o} : txId[p] # t

HoldForReview(h) ==
  LET o == work[h].msg.order IN
  /\ work[h].pc = "locked"
  /\ Verdict(work[h].msg, work[h].seen) = "needs_review"
  /\ TxFree(o, work[h].msg.tx)
  /\ status' = [status EXCEPT ![o] = "needs_review"]
  /\ paidAt' = [paidAt EXCEPT ![o] = PaidAtFrom(work[h].msg.at)]
  /\ txId' = [txId EXCEPT ![o] = work[h].msg.tx]
  /\ EndTransaction(h, "needs_review")
  /\ UNCHANGED <<clock, legacy, url, overdue, issueVars, createVars, netVars, events,
                 notices, desk, sweepVars, faults>>

UsedCodes == {k.code : k \in certificates}

\* payAndIssueCertificate: INSERT ... ON CONFLICT (code) DO NOTHING until one
\* of the random codes is new.
IssueCertificate(o, c) ==
  /\ c \notin UsedCodes
  /\ certificates' = certificates \cup {[code |-> c, order |-> o]}

Sell(h, c) ==
  LET o == work[h].msg.order IN
  /\ work[h].pc = "locked"
  /\ Verdict(work[h].msg, work[h].seen) \in SaleResults
  /\ TxFree(o, work[h].msg.tx)
  /\ status' = [status EXCEPT ![o] = "paid"]
  /\ paidAt' = [paidAt EXCEPT ![o] = PaidAtFrom(work[h].msg.at)]
  /\ txId' = [txId EXCEPT ![o] = work[h].msg.tx]
  /\ IssueCertificate(o, c)
  /\ EndTransaction(h, Verdict(work[h].msg, work[h].seen))
  /\ UNCHANGED <<clock, legacy, url, overdue, resolutions, createVars, netVars, events,
                 notices, desk, sweepVars, faults>>

\* Rollback: the transaction id belongs to another order, or every one of the
\* CERTIFICATE_CODE_ATTEMPTS codes was in use.
Abort(h) ==
  /\ work[h].pc = "locked"
  /\ LET v == Verdict(work[h].msg, work[h].seen) IN
       \/ v \in WriteResults /\ ~TxFree(work[h].msg.order, work[h].msg.tx)
       \/ v \in SaleResults /\ UsedCodes # {}
  /\ EndTransaction(h, "error")
  /\ UNCHANGED <<orderVars, issueVars, createVars, netVars, events, notices,
                 desk, sweepVars, faults>>

\* COMMIT took effect but its acknowledgement is lost: transaction() throws.
LoseCommit(h) ==
  /\ work[h].pc = "done" /\ work[h].result \in WriteResults /\ faults < MaxFaults
  /\ Advance(h, "done", "error")
  /\ faults' = faults + 1
  /\ UNCHANGED <<orderVars, issueVars, locks, createVars, netVars, events,
                 notices, desk, sweepVars>>

RecordOutcome(h) ==
  /\ work[h].pc = "done"
  /\ SetEvent(h, work[h].result)
  /\ Advance(h, "recorded", work[h].result)
  /\ UNCHANGED <<orderVars, issueVars, locks, createVars, netVars, notices,
                 desk, sweepVars, faults>>

\* Regression: every delivery that finds the order paid sends the code.
NotifyLoudly(h) ==
  notices' = [o \in Orders |->
                IF o = work[h].msg.order /\ status[o] = "paid"
                THEN notices[o] + 1 ELSE notices[o]]

\* notifyPaid: the code to the buyer and the news to the owner, started and not
\* awaited, for the transition to paid only.
Notify(h) ==
  notices' = [o \in Orders |->
                IF o = work[h].msg.order /\ work[h].result \in SaleResults
                THEN notices[o] + 1 ELSE notices[o]]

\* 200 (never again, please) or the exception rethrown, a 5xx.
Answer(h) ==
  /\ work[h].pc = "recorded"
  /\ acked' = IF work[h].result = "error" THEN acked ELSE acked \cup {work[h].msg}
  /\ Notify(h)
  /\ work' = [work EXCEPT ![h] = NoWork]
  /\ UNCHANGED <<orderVars, issueVars, locks, createVars, sent, events, desk,
                 sweepVars, faults>>

-------------------------------------------------------------------------------
(* scripts/resolve-review.ts, a process of its own                           *)

OpenCase(r, o, a) ==
  /\ desk[r] = NoCase /\ Exists(o) /\ Free(o)
  /\ locks' = [locks EXCEPT ![o] = r]
  /\ desk' = [desk EXCEPT ![r] = [order |-> o, action |-> a, seen |-> status[o]]]
  /\ UNCHANGED <<orderVars, issueVars, createVars, webhookVars, sweepVars,
                 faults>>

\* Regression: the connection goes back to the pool inside its transaction.
CloseCaseLeaking(r) ==
  /\ locks' = locks
  /\ desk' = [desk EXCEPT ![r] = NoCase]

CloseCase(r) ==
  /\ locks' = [locks EXCEPT ![desk[r].order] = None]
  /\ desk' = [desk EXCEPT ![r] = NoCase]

RefuseCase(r) ==
  /\ desk[r] # NoCase /\ desk[r].seen # "needs_review"
  /\ CloseCase(r)
  /\ UNCHANGED <<orderVars, issueVars, createVars, webhookVars, sweepVars,
                 faults>>

\* Regression: only an issued certificate leaves a trail.
AddResolutionOfIssue(o, a) ==
  resolutions' = [resolutions EXCEPT ![o] = IF a = "issue" THEN Append(@, a) ELSE @]

AddResolution(o, a) == resolutions' = [resolutions EXCEPT ![o] = Append(@, a)]

\* Regression: the sale is dated by the decision.
IssueByHandToday(r, c) ==
  LET o == desk[r].order IN
  /\ desk[r] # NoCase /\ desk[r].seen = "needs_review" /\ desk[r].action = "issue"
  /\ status' = [status EXCEPT ![o] = "paid"]
  /\ paidAt' = [paidAt EXCEPT ![o] = clock]
  /\ IssueCertificate(o, c)
  /\ AddResolution(o, "issue")
  /\ CloseCase(r)
  /\ UNCHANGED <<clock, legacy, txId, url, overdue, createVars, webhookVars, sweepVars,
                 faults>>

\* paidAt is kept; a legacy row that lacks it gets the operator's clock.
IssueByHand(r, c) ==
  LET o == desk[r].order IN
  /\ desk[r] # NoCase /\ desk[r].seen = "needs_review" /\ desk[r].action = "issue"
  /\ status' = [status EXCEPT ![o] = "paid"]
  /\ paidAt' = [paidAt EXCEPT ![o] = IF @ = None THEN clock ELSE @]
  /\ IssueCertificate(o, c)
  /\ AddResolution(o, "issue")
  /\ CloseCase(r)
  /\ UNCHANGED <<clock, legacy, txId, url, overdue, createVars, webhookVars, sweepVars,
                 faults>>

RefundByHand(r) ==
  LET o == desk[r].order IN
  /\ desk[r] # NoCase /\ desk[r].seen = "needs_review" /\ desk[r].action = "refunded"
  /\ status' = [status EXCEPT ![o] = "refunded"]
  /\ AddResolution(o, "refunded")
  /\ CloseCase(r)
  /\ UNCHANGED <<clock, legacy, paidAt, txId, url, overdue, certificates, createVars,
                 webhookVars, sweepVars, faults>>

\* The codes ran out, or the process or its connection died: rollback.
DropCase(r) ==
  /\ desk[r] # NoCase
  /\ \/ desk[r].seen = "needs_review" /\ desk[r].action = "issue" /\ UsedCodes # {}
          /\ UNCHANGED faults
     \/ faults < MaxFaults /\ faults' = faults + 1
  /\ CloseCase(r)
  /\ UNCHANGED <<orderVars, issueVars, createVars, webhookVars, sweepVars>>

-------------------------------------------------------------------------------
(* The app process dies: its transactions roll back, its callers get         *)
(* nothing, the event rows it had saved stay as they are.                    *)

Crash ==
  /\ faults < MaxFaults /\ faults' = faults + 1
  /\ locks' = [o \in Orders |-> IF locks[o] \in Operators THEN locks[o] ELSE None]
  /\ work' = [h \in Handlers |-> NoWork]
  /\ request' = [o \in Orders |->
                   IF request[o] \in {"calling", "answered", "refused"} THEN "lost"
                   ELSE request[o]]
  /\ sweepRest' = {} /\ sweepHeld' = {}
  /\ UNCHANGED <<orderVars, issueVars, finik, netVars, events, notices, desk>>

-------------------------------------------------------------------------------
CreateStep(o) ==
  PlaceOrder(o) \/ PaymentCreated(o) \/ PaymentFailed(o) \/ StoreUrl(o) \/ ExpireFailed(o)
SweepStep == SweepStart \/ SweepCommit \/ \E o \in Orders : SweepTake(o) \/ SweepSkip(o)
HandlerStep(h) ==
  \/ RejectUnsigned(h) \/ OrderNotFound(h) \/ LockOrder(h) \/ LeaveAlone(h)
  \/ HoldForReview(h) \/ (\E c \in Codes : Sell(h, c)) \/ Abort(h)
  \/ RecordOutcome(h) \/ Answer(h)
OperatorStep(r) ==
  \/ RefuseCase(r) \/ RefundByHand(r) \/ DropCase(r)
  \/ \E c \in Codes : IssueByHand(r, c)

Next ==
  \/ Tick
  \/ \E o \in Orders : CreateStep(o) \/ OpenPayment(o) \/ Elapse(o)
  \/ SweepStep
  \/ \E m \in Messages : Send(m)
  \/ \E h \in Handlers : HandlerStep(h) \/ LoseCommit(h)
  \/ \E h \in Handlers, m \in Messages : Receive(h, m)
  \/ \E r \in Operators : OperatorStep(r)
  \/ \E r \in Operators, o \in Orders, a \in ResolutionActions : OpenCase(r, o, a)
  \/ Crash

Spec == Init /\ [][Next]_vars

\* Finik retries a message until it gets its 200; the runtime finishes every
\* request it serves, Postgres grants row locks in turn, fetch() has a timeout,
\* the cron ticks, and a code collision is not forever.
Fairness ==
  /\ \A o \in Orders : SF_vars(StoreUrl(o) \/ ExpireFailed(o)) /\ WF_vars(PaymentFailed(o))
  /\ \A o \in Orders : WF_vars(Elapse(o)) /\ SF_vars(SweepTake(o) \/ SweepSkip(o))
  /\ WF_vars(SweepStart) /\ WF_vars(SweepCommit)
  /\ \A h \in Handlers :
       /\ WF_vars(HandlerStep(h)) /\ SF_vars(LockOrder(h))
       /\ SF_vars(\E c \in Codes : Sell(h, c))
  /\ \A m \in Messages : SF_vars(m \notin acked /\ \E h \in Handlers : Receive(h, m))
  /\ \A r \in Operators : WF_vars(OperatorStep(r))

FairSpec == Spec /\ Fairness
===============================================================================
