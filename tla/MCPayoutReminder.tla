--------------------------- MODULE MCPayoutReminder ----------------------------
(* Small instances of PayoutReminder for TLC.                                  *)
EXTENDS PayoutReminder, TLC

CONSTANTS s1, m1

OwnerOfSale == s1 :> m1
PriceOfSale == s1 :> 50
Interchangeable == Permutations(Runs) \cup Permutations(Admins)
===============================================================================
