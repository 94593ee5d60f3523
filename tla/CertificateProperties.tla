------------------------- MODULE CertificateProperties -------------------------
(* What redemption and reminders must satisfy.                                 *)
EXTENDS Certificates

\* Every column, request and run holds what it can hold.
TypeOK ==
  /\ clock \in 0..MaxTime /\ moves \in 0..MaxMoves
  /\ stored \in [Certs -> {"none", "active", "used"}]
  /\ validUntil \in [Certs -> Nat]
  /\ remindedAt \in [Certs -> Nat \cup {None}]
  /\ merchantOf \in [Venues -> Merchants] /\ accountOf \in [Merchants -> Accounts]
  /\ tap \in [Taps -> [pc : Stages, code : Certs \cup {None},
                       merchant : Merchants \cup {None}, at : Nat,
                       found : {None, "redeemed", "not_found", "used", "expired"},
                       answer : Answers \cup {None}]]
  /\ run \in [Runs -> [pc : {"idle", "claiming", "sending"}, now : Nat, claimed : SUBSET Certs]]
  /\ told \in [Certs -> Nat] /\ reminders \in [Certs -> Nat]

\* The requests whose UPDATE redeemed a certificate, whether or not they were heard of.
Redeemers(c) == {t \in Taps : tap[t].code = c /\ tap[t].found = "redeemed"}

\* However many cashiers tap at once, and wherever the app dies, a certificate is
\* used if and only if exactly one request redeemed it, before its end; no other
\* request is answered so; and the owner is told at most once, only of a used
\* certificate, and before the cashier is answered.  That the one request is
\* answered, and the owner told at all, is not promised: either may be lost.
RedeemedOnce ==
  \A c \in Certs :
    /\ Cardinality(Redeemers(c)) = IF stored[c] = "used" THEN 1 ELSE 0
    /\ \A t \in Redeemers(c) : tap[t].at < validUntil[c]
    /\ \A t \in Taps : tap[t].code = c /\ tap[t].answer = "redeemed" =>
         t \in Redeemers(c) /\ told[c] = 1
    /\ told[c] <= Cardinality(Redeemers(c))

\* A refusal is true of the certificate although its reason is read after the
\* UPDATE that failed: who is told "already used", or shown "used", is told of a
\* used certificate, and who is told "expired" of one past its end.  The one
\* exception: a certificate not his, or not there, when the UPDATE looked, and
\* his by the time the reason is read.
RefusalsAreTrue ==
  \A t \in Taps :
    /\ tap[t].answer \in {"already_used", "used"} => stored[tap[t].code] = "used"
    /\ tap[t].answer = "expired" /\ tap[t].found # "not_found" =>
         stored[tap[t].code] # "none" /\ validUntil[tap[t].code] <= clock

\* The UPDATE of this request began while the certificate could be redeemed.
InTime(t, c) == tap[t].pc = "updating" /\ tap[t].code = c /\ tap[t].at < validUntil[c]

\* Used is final, and so is expired but for a redemption that had begun in time:
\* whatever an administrator moves, no certificate comes back from either.
EndsAreFinal ==
  [][\A c \in Certs :
       /\ EffectiveStatus(c) = "used" => EffectiveStatus(c)' = "used"
       /\ EffectiveStatus(c) = "expired" =>
            \/ EffectiveStatus(c)' = "expired"
            \/ EffectiveStatus(c)' = "used" /\ \E t \in Taps : InTime(t, c)]_vars

\* A certificate is reminded of at most once, also by overlapping runs and runs
\* that die half-way, and only one that was claimed while it could be redeemed.
RemindedOnce ==
  \A c \in Certs :
    /\ reminders[c] <= 1
    /\ reminders[c] + Cardinality({r \in Runs : c \in run[r].claimed}) <= 1
    /\ reminders[c] = 1 => /\ remindedAt[c] # None
                           /\ remindedAt[c] < validUntil[c]
                           /\ validUntil[c] <= remindedAt[c] + Window
===============================================================================
