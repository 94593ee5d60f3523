------------------------------- MODULE MCPayouts -------------------------------
(* A small instance of Payouts for TLC.                                        *)
EXTENDS PayoutProperties, TLC

CONSTANTS s1, s2, m1

\* Neither price splits evenly into hundreds.
OneOwner == s1 :> m1 @@ s2 :> m1
PriceOfSale == s1 :> 50 @@ s2 :> 150
===============================================================================
