--------------------------- MODULE PayoutProperties ---------------------------
(* What the payout ledger must satisfy.                                        *)
EXTENDS Payouts

Outcomes == {"idle", "locking", "nothing_to_pay_out", "amount_changed", "recorded", "error"}

\* Every column and every request holds what it can hold.
TypeOK ==
  /\ state \in [Sales -> {"unpaid", "paid", "needs_review", "refunded"}]
  /\ week \in [Sales -> Weeks \cup {None}]
  /\ payoutId \in [Sales -> Marks \cup {None}]
  /\ payouts \in [Marks -> [merchant : Merchants, week : Weeks, ordersCount : Nat,
                          gross : Nat, payout : Nat, commission : Nat] \cup {None}]
  /\ locks \in [Sales -> Marks \cup {None}]
  /\ mark \in [Marks -> [pc : Outcomes, merchant : Merchants \cup {None},
                        week : Weeks \cup {None}, expected : Nat \cup {None},
                        rest : SUBSET Sales, taken : SUBSET Sales, next : Sales \cup {None}]]
  /\ screen \in [Screens -> [read : 0..4, merchant : Merchants \cup {None}, week : Weeks \cup {None},
                            payout : Nat, due : Nat, paidOut : Nat, listed : Nat]]
  /\ faults \in 0..MaxFaults

CoveredBy(p) == {s \in Sales : payoutId[s] = p}

\* A recorded payout is the snapshot of the sales that point to it: paid ones of
\* its merchant and week, at least one, their number and their total; and a sale
\* points to a recorded payout or to none.
PayoutsCoverTheirSales ==
  /\ \A s \in Sales : payoutId[s] # None => payouts[payoutId[s]] # None
  /\ \A p \in Marks : payouts[p] # None =>
       /\ CoveredBy(p) # {}
       /\ CoveredBy(p) \subseteq PaidSales(payouts[p].merchant, payouts[p].week)
       /\ payouts[p].ordersCount = Cardinality(CoveredBy(p))
       /\ payouts[p].gross = Gross(CoveredBy(p))
       /\ payouts[p].payout + payouts[p].commission = payouts[p].gross

\* Nothing is paid twice and nothing is forgotten: what was paid out for a week
\* and what is still due add up to the merchant's share of its paid sales,
\* however late a sale landed and whichever marks ran at once.
LedgerBalances ==
  \A m \in Merchants, w \in Weeks :
    PaidOut(m, w) + Due(m, w) = Split(Gross(PaidSales(m, w))).payout

-------------------------------------------------------------------------------
(* The ledger as its readers understand it: what landed, and what was         *)
(* transferred for it.                                                        *)

Landed == [s \in Sales |-> IF state[s] = "paid" THEN week[s] ELSE None]
Transfers == [p \in Marks |->
  IF payouts[p] = None THEN None
  ELSE [sales |-> CoveredBy(p), amount |-> payouts[p].payout]]

L == INSTANCE Ledger WITH landed <- Landed, transfers <- Transfers,
                          Transfers <- Marks, Total <- Gross

\* Whatever marks, sales and deaths interleave, the ledger does what Ledger
\* promises: a sale is transferred once, with sales of its merchant and week, and
\* neither a payout nor what it covers ever changes.
KeepsLedger == L!Spec

\* Recording lowers what is due by exactly the amount recorded, and that is the
\* amount the administrator saw, if one was sent: the sale that landed meanwhile
\* is left due, or the mark is refused.
RecordsWhatWasSeen ==
  [][\A p \in Marks : payouts'[p] # payouts[p] =>
       /\ mark[p].expected \in {None, payouts'[p].payout}
       /\ \A m \in Merchants, w \in Weeks :
            Due(m, w)' = Due(m, w) - IF p \in Recorded(m, w)' THEN payouts'[p].payout ELSE 0]_vars

\* The statements of a screen are not one snapshot, but the order they run in
\* never hides money, from the administrator or the owner: what it shows as paid
\* out and due covers the sales it shows, and the payouts an administrator's
\* lists cover what it says was paid out.
ScreenHidesNothing ==
  \A a \in Screens :
    /\ ShownToOwner(a) => screen[a].paidOut + screen[a].due >= screen[a].payout
    /\ Shown(a) => screen[a].listed >= screen[a].paidOut

\* No mark waits for a row for ever, also when two take the rows in opposite orders.
MarksEnd == \A p \in Marks : mark[p].pc = "locking" ~> mark[p].pc # "locking"
===============================================================================
