------------------------------- MODULE Payouts --------------------------------
(***************************************************************************)
(* The payout ledger: sales fall into Monday-Sunday weeks by their paidAt, *)
(* an administrator reads what is due to a merchant for a week, pays it by *)
(* hand and marks it.  A mark locks the sales it covers one row at a time, *)
(* then records a payout and links them to it in one transaction.          *)
(***************************************************************************)
EXTENDS Integers, Sequences, FiniteSets, FiniteSetsExt

CONSTANTS
  Sales,        \* orders, from creation on
  Merchants,
  MerchantOf,   \* orders.merchantId, the owner at the moment of the sale
  Amount,       \* orders.amount, a nominal
  Weeks,        \* payout weeks, in order
  Marks,        \* POST /admin/payouts requests; each makes its own payout id
  Screens,      \* weeks being read, or looked at, by an administrator or an owner
  MaxFaults,    \* bound: marks that die
  None

\* Every nominal on sale is a multiple of 10 KGS.
ASSUME PayoutAssumption ==
  /\ MerchantOf \in [Sales -> Merchants]
  /\ Amount \in [Sales -> {n \in Nat : n > 0 /\ n % 10 = 0}]
  /\ Weeks \subseteq Nat
  /\ None \notin Sales \cup Merchants \cup Weeks \cup Marks \cup Nat
  /\ MaxFaults \in Nat

VARIABLES
  state,     \* orders.status, the statuses before a payment taken together
  week,      \* the week orders.paidAt falls in
  payoutId,  \* orders.payoutId
  payouts,   \* rows of payouts, by id
  locks,     \* which mark holds the row lock of a sale
  mark,      \* the requests' transactions
  screen,    \* the answers being put together
  faults

saleVars == <<state, week>>
ledgerVars == <<payoutId, payouts>>
vars == <<saleVars, ledgerVars, locks, mark, screen, faults>>

\* Regression: the commission is what is floored.
SplitOtherHalf(gross) == [payout |-> gross - (gross \div 100) * 10,
                          commission |-> (gross \div 100) * 10]

\* splitGross: 90 per cent of the total to the merchant, rounded down.
Split(gross) == LET share == (gross * 90) \div 100
                IN [payout |-> share, commission |-> gross - share]

Gross(S) == MapThenSumSet(LAMBDA s : Amount[s], S)

\* IN_PERIOD, weekOf, currentWeek: Monday to Sunday in Bishkek.
InWeek(s, w) == week[s] = w

PaidSales(m, w) == {s \in Sales : state[s] = "paid" /\ MerchantOf[s] = m /\ InWeek(s, w)}

\* Regression: a sale is due whether or not a payout covers it.
UncoveredAll(s) == TRUE
Uncovered(s) == payoutId[s] = None

\* Regression: a late sale counts as paid out with the week it falls in.
DueSalesAnyWeek(m, w) == {s \in Sales : state[s] = "paid" /\ MerchantOf[s] = m /\ Uncovered(s)}
DueSales(m, w) == {s \in PaidSales(m, w) : Uncovered(s)}

\* The row that records a payout of the sales in S.
Payout(m, w, S) ==
  [merchant |-> m, week |-> w, ordersCount |-> Cardinality(S), gross |-> Gross(S),
   payout |-> Split(Gross(S)).payout, commission |-> Split(Gross(S)).commission]

ASSUME NoneAssumption ==
  \A m \in Merchants, w \in Weeks, S \in SUBSET Sales : Payout(m, w, S) # None

\* payoutProgress and weekPayouts.
Recorded(m, w) == {p \in Marks : payouts[p] # None /\ payouts[p].merchant = m
                                                   /\ payouts[p].week = w}
PaidOut(m, w) == MapThenSumSet(LAMBDA p : payouts[p].payout, Recorded(m, w))
Due(m, w) == Split(Gross(DueSales(m, w))).payout

Idle == [pc |-> "idle", merchant |-> None, week |-> None, expected |-> None,
         rest |-> {}, taken |-> {}, next |-> None]
Blank == [read |-> 0, merchant |-> None, week |-> None,
          payout |-> 0, due |-> 0, paidOut |-> 0, listed |-> 0]

Init ==
  /\ state = [s \in Sales |-> "unpaid"]
  /\ week = [s \in Sales |-> None]
  /\ payoutId = [s \in Sales |-> None]
  /\ payouts = [p \in Marks |-> None]
  /\ locks = [s \in Sales |-> None]
  /\ mark = [p \in Marks |-> Idle]
  /\ screen = [a \in Screens |-> Blank]
  /\ faults = 0

-------------------------------------------------------------------------------
(* Orders settles sales at any moment, also into a week long over: paidAt is *)
(* when Finik took the money, not when we learnt of it.                      *)

Pay(s, w, v) ==
  /\ state[s] = "unpaid"
  /\ state' = [state EXCEPT ![s] = v]
  /\ week' = [week EXCEPT ![s] = w]
  /\ UNCHANGED <<ledgerVars, locks, mark, screen, faults>>

Resolve(s, v) ==
  /\ state[s] = "needs_review"
  /\ state' = [state EXCEPT ![s] = v]
  /\ UNCHANGED <<week, ledgerVars, locks, mark, screen, faults>>

-------------------------------------------------------------------------------
(* GET /admin/payouts: some statements, each of which sees what is committed *)
(* when it starts.  An owner's weekly summary is the first two of them.  The *)
(* statements about orders to review and redeemed certificates are left out, *)
(* no sum depends on them.                                                   *)

\* Regression: the ledger is read before the sales.
ReadOrderLedgerFirst == <<"ledger", "payouts", "sales">>
ReadOrder == <<"sales", "ledger", "payouts">>

Reading(a, what) ==
  screen[a].read \in DOMAIN ReadOrder /\ ReadOrder[screen[a].read] = what

OpenScreen(a, m, w) ==
  /\ screen[a].read \in {0, Len(ReadOrder) + 1}
  /\ screen' = [screen EXCEPT ![a] = [Blank EXCEPT !.read = 1, !.merchant = m, !.week = w]]
  /\ UNCHANGED <<saleVars, ledgerVars, locks, mark, faults>>

ReadScreen(a) ==
  LET m == screen[a].merchant
      w == screen[a].week
      next == screen[a].read + 1
  IN
  /\ \/ /\ Reading(a, "sales")
        /\ screen' = [screen EXCEPT ![a].read = next,
                        ![a].payout = Split(Gross(PaidSales(m, w))).payout]
     \/ /\ Reading(a, "ledger")
        /\ screen' = [screen EXCEPT ![a].read = next,
                        ![a].due = Due(m, w), ![a].paidOut = PaidOut(m, w)]
     \/ /\ Reading(a, "payouts")
        /\ screen' = [screen EXCEPT ![a].read = next, ![a].listed = PaidOut(m, w)]
  /\ UNCHANGED <<saleVars, ledgerVars, locks, mark, faults>>

\* What an owner is shown; and an administrator, of a merchant with a sale.
ShownToOwner(a) == screen[a].read > 2
Shown(a) == screen[a].read = Len(ReadOrder) + 1 /\ screen[a].payout > 0

-------------------------------------------------------------------------------
(* POST /admin/payouts                                                       *)

\* SELECT ... FOR UPDATE: the rows that match when the statement starts. The
\* amount the administrator saw is optional.
Ask(p, m, w, expected) ==
  /\ mark[p] = Idle
  /\ expected = None \/ \E a \in Screens : /\ Shown(a) /\ expected = screen[a].due
                                           /\ screen[a].merchant = m /\ screen[a].week = w
  /\ mark' = [mark EXCEPT ![p] = [Idle EXCEPT !.pc = "locking", !.merchant = m,
                !.week = w, !.expected = expected, !.rest = DueSales(m, w)]]
  /\ UNCHANGED <<saleVars, ledgerVars, locks, screen, faults>>

\* The scan comes to a row; there is no ORDER BY, so in any order.
Reach(p, s) ==
  /\ mark[p].pc = "locking" /\ mark[p].next = None /\ s \in mark[p].rest
  /\ mark' = [mark EXCEPT ![p].next = s, ![p].rest = @ \ {s}]
  /\ UNCHANGED <<saleVars, ledgerVars, locks, screen, faults>>

StillMatches(s) == state[s] = "paid" /\ Uncovered(s)

\* Once the row is free its newest version is taken, if it still matches.
Take(p) ==
  \E s \in Sales :
    /\ mark[p].next = s /\ locks[s] = None
    /\ IF StillMatches(s)
       THEN /\ locks' = [locks EXCEPT ![s] = p]
            /\ mark' = [mark EXCEPT ![p].next = None, ![p].taken = @ \cup {s}]
       ELSE /\ mark' = [mark EXCEPT ![p].next = None]
            /\ UNCHANGED locks
    /\ UNCHANGED <<saleVars, ledgerVars, screen, faults>>

Locked(p) == mark[p].pc = "locking" /\ mark[p].rest = {} /\ mark[p].next = None

\* Regression: a refused mark keeps its transaction open.
EndLeaking(p, outcome) ==
  /\ locks' = IF outcome = "recorded"
              THEN [s \in Sales |-> IF locks[s] = p THEN None ELSE locks[s]] ELSE locks
  /\ mark' = [mark EXCEPT ![p] = [@ EXCEPT !.pc = outcome, !.rest = {}, !.next = None]]

\* COMMIT or ROLLBACK.
End(p, outcome) ==
  /\ locks' = [s \in Sales |-> IF locks[s] = p THEN None ELSE locks[s]]
  /\ mark' = [mark EXCEPT ![p] = [@ EXCEPT !.pc = outcome, !.rest = {}, !.next = None]]

\* Regression: the amount seen is taken for granted.
AcceptsAnything(p) == TRUE
Accepts(p) ==
  mark[p].expected \in {None, Split(Gross(mark[p].taken)).payout}

Refuse(p) ==
  /\ Locked(p)
  /\ \/ mark[p].taken = {} /\ End(p, "nothing_to_pay_out")
     \/ mark[p].taken # {} /\ ~Accepts(p) /\ End(p, "amount_changed")
  /\ UNCHANGED <<saleVars, ledgerVars, screen, faults>>

\* UPDATE ... WHERE id = ANY (the locked ones) AND payoutId IS NULL.
Links(p) == {s \in mark[p].taken : Uncovered(s)}

Record(p) ==
  LET S == mark[p].taken IN
  /\ Locked(p) /\ S # {} /\ Accepts(p)
  /\ IF Cardinality(Links(p)) = Cardinality(S)
     THEN /\ payouts' = [payouts EXCEPT ![p] = Payout(mark[p].merchant, mark[p].week, S)]
          /\ payoutId' = [s \in Sales |-> IF s \in Links(p) THEN p ELSE payoutId[s]]
          /\ End(p, "recorded")
     ELSE UNCHANGED ledgerVars /\ End(p, "nothing_to_pay_out")
  /\ UNCHANGED <<saleVars, screen, faults>>

WaitsFor(p, q) == \E s \in Sales : mark[p].next = s /\ locks[s] = q

\* Postgres ends one of the transactions that wait for each other in a circle.
Deadlock(p) ==
  /\ \E S \in SUBSET Marks :
       /\ p \in S
       /\ \A q \in S : \E r \in S : WaitsFor(q, r)
       /\ \A q \in S : \E r \in S : WaitsFor(r, q)
  /\ End(p, "error")
  /\ UNCHANGED <<saleVars, ledgerVars, screen, faults>>

\* The app, or its connection, dies before COMMIT.
Die(p) ==
  /\ mark[p].pc = "locking" /\ faults < MaxFaults
  /\ faults' = faults + 1
  /\ End(p, "error")
  /\ UNCHANGED <<saleVars, ledgerVars, screen>>

-------------------------------------------------------------------------------
MarkStep(p) == (\E s \in Sales : Reach(p, s)) \/ Take(p) \/ Refuse(p) \/ Record(p) \/ Deadlock(p)

Next ==
  \/ \E s \in Sales, w \in Weeks, v \in {"paid", "needs_review"} : Pay(s, w, v)
  \/ \E s \in Sales, v \in {"paid", "refunded"} : Resolve(s, v)
  \/ \E a \in Screens : ReadScreen(a) \/ \E m \in Merchants, w \in Weeks : OpenScreen(a, m, w)
  \/ \E p \in Marks : MarkStep(p) \/ Die(p)
  \/ \E p \in Marks, m \in Merchants, w \in Weeks :
       \E e \in {None} \cup {screen[a].due : a \in Screens} : Ask(p, m, w, e)

Spec == Init /\ [][Next]_vars

\* The runtime runs every request to its end; Postgres grants free row locks and
\* breaks deadlocks.
FairSpec == Spec /\ \A p \in Marks : WF_vars(MarkStep(p))
===============================================================================
