--------------------------------- MODULE Sale ---------------------------------
(***************************************************************************)
(* What the order service promises of each order, whoever calls it and     *)
(* however often: an order is sold at most once, a certificate is issued   *)
(* in the very step that sells, an order whose money did not match is held *)
(* until a person decides, once, and a sale or a refund is final.          *)
(***************************************************************************)
CONSTANT Orders

VARIABLES
  state,     \* order -> its phase
  issued,    \* orders that have a certificate
  decided    \* orders a person decided

saleVars == <<state, issued, decided>>

Init ==
  /\ state \in [Orders -> {"none", "held"}]
  /\ issued = {}
  /\ decided = {}

Place(o) ==
  /\ state[o] = "none"
  /\ state' = [state EXCEPT ![o] = "open"]
  /\ UNCHANGED <<issued, decided>>

\* Unpaid orders lapse, any number of them at once; their money may still come.
Lapse(S) ==
  /\ \A o \in S : state[o] = "open"
  /\ state' = [o \in Orders |-> IF o \in S THEN "lapsed" ELSE state[o]]
  /\ UNCHANGED <<issued, decided>>

Sell(o) ==
  /\ state[o] \in {"open", "lapsed"}
  /\ state' = [state EXCEPT ![o] = "sold"]
  /\ issued' = issued \cup {o}
  /\ UNCHANGED decided

Hold(o) ==
  /\ state[o] \in {"open", "lapsed"}
  /\ state' = [state EXCEPT ![o] = "held"]
  /\ UNCHANGED <<issued, decided>>

DecideSell(o) ==
  /\ state[o] = "held" /\ o \notin decided
  /\ state' = [state EXCEPT ![o] = "sold"]
  /\ issued' = issued \cup {o}
  /\ decided' = decided \cup {o}

DecideRefund(o) ==
  /\ state[o] = "held" /\ o \notin decided
  /\ state' = [state EXCEPT ![o] = "refunded"]
  /\ decided' = decided \cup {o}
  /\ UNCHANGED issued

Next ==
  \/ \E o \in Orders : Place(o) \/ Sell(o) \/ Hold(o) \/ DecideSell(o) \/ DecideRefund(o)
  \/ \E S \in SUBSET Orders : Lapse(S)

Spec == Init /\ [][Next]_saleVars
===============================================================================
