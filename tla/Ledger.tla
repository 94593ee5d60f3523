--------------------------------- MODULE Ledger --------------------------------
(***************************************************************************)
(* What the payout ledger promises: a sale lands in a week once, and is    *)
(* then owed to its merchant until one transfer, of that week and for the  *)
(* merchant's share of all it covers, pays it out.  Nothing about either   *)
(* changes afterwards.                                                     *)
(***************************************************************************)
EXTENDS Integers

CONSTANTS
  Sales, MerchantOf, Weeks, Transfers, None,
  Total(_)     \* the sum of the amounts of a set of sales

VARIABLES
  landed,      \* the week of each sale that was made
  transfers    \* what each transfer covers, and its amount

Share(S) == (Total(S) * 90) \div 100

Covered == UNION {transfers[p].sales : p \in {q \in Transfers : transfers[q] # None}}

Owed(m, w) == {s \in Sales \ Covered : landed[s] = w /\ MerchantOf[s] = m}

Init ==
  /\ landed = [s \in Sales |-> None]
  /\ transfers = [p \in Transfers |-> None]

Land(s, w) ==
  /\ landed[s] = None
  /\ landed' = [landed EXCEPT ![s] = w]
  /\ UNCHANGED transfers

Transfer(p, S) ==
  /\ transfers[p] = None /\ S # {}
  /\ \E m \in {MerchantOf[s] : s \in S}, w \in Weeks : S \subseteq Owed(m, w)
  /\ transfers' = [transfers EXCEPT ![p] = [sales |-> S, amount |-> Share(S)]]
  /\ UNCHANGED landed

Next ==
  \/ \E s \in Sales, w \in Weeks : Land(s, w)
  \/ \E p \in Transfers, S \in SUBSET Sales : Transfer(p, S)

Spec == Init /\ [][Next]_<<landed, transfers>>
===============================================================================
