------------------------------ MODULE MCStorefront -----------------------------
(* Small instances of Storefront for TLC.                                      *)
EXTENDS Storefront, TLC

CONSTANTS k1, l1, l2, legacy, m1, m2

Interchangeable == Permutations(Edits)

\* Forms that change only the logo.
LogoForm == {[logo |-> l1], [logo |-> l2]}

\* What an owner's form changes, and what only an administrator's does.
EveryForm == {[logo |-> l1], [categories |-> {k1}], [active |-> FALSE],
              [merchant |-> m2], [logo |-> legacy, active |-> TRUE]}
ListingForm == {[categories |-> {k1}, logo |-> l2],
                [logo |-> l1], [merchant |-> m2, active |-> FALSE]}
\* A new venue with one of the logos.
NewForm == {[merchant |-> m1, logo |-> l1, categories |-> {k1}]}
===============================================================================
