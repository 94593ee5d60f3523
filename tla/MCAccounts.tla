------------------------------- MODULE MCAccounts ------------------------------
(* A small instance of Accounts for TLC.                                       *)
EXTENDS Accounts, TLC

CONSTANTS d1, d2, a1, m1

TwoDevices == d1 :> a1 @@ d2 :> a1
OneMerchant == [m \in Merchants |-> IF m = m1 THEN [account |-> a1, active |-> TRUE] ELSE None]
===============================================================================
