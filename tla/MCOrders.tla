------------------------------- MODULE MCOrders -------------------------------
(* Small instances of Orders for TLC.                                          *)
EXTENDS OrderProperties, TLC

CONSTANTS o1, o2, stranger, t1, t2

Body(o, tx, at) ==
  [order |-> o, signed |-> TRUE, success |-> TRUE, ours |-> TRUE, exact |-> TRUE,
   tx |-> tx, at |-> at]

Payment == Body(o1, t1, 0)
Interchangeable == Permutations(Handlers)
InterchangeableCodes == Permutations(Codes)

\* One order: its payment, and a second one of a wrong amount.
OneOrderMessages == {Payment, [Body(o1, t2, 1) EXCEPT !.exact = FALSE]}

\* Two orders: the payment of the first; two of the second, one undated with the
\* transaction id of the first and one dated 1; and an unsigned body, one to
\* another account and one that names no order of ours.
MixedMessages ==
  {Payment, Body(o2, t1, None), Body(o2, t2, 1), [Payment EXCEPT !.signed = FALSE],
   [Body(o2, None, 0) EXCEPT !.ours = FALSE], Body(stranger, None, 0)}

\* A payment that failed before the one that went through.
RetriedPaymentMessages == {Payment, [Body(o1, t2, 0) EXCEPT !.success = FALSE]}
===============================================================================
