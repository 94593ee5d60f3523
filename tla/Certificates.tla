------------------------------ MODULE Certificates -----------------------------
(***************************************************************************)
(* The life of a certificate after the sale: the merchants' cashiers look  *)
(* it up and redeem it, the hourly job reminds its owner before it ends,   *)
(* while administrators move venues between merchants and merchants        *)
(* between Telegram accounts.                                              *)
(***************************************************************************)
EXTENDS Naturals, FiniteSets

CONSTANTS
  Certs,       \* certificates, by code
  Venues, Merchants, Accounts,
  VenueOf,     \* certificates.venueId
  Taps,        \* requests of a merchant's cabinet, or of a certificate's owner
  Runs,        \* runs of the expiry reminder job
  Validity,    \* validityMonths of the venue, in units of the clock
  Skew,        \* how far from now a plausible paidAt can be
  Window,      \* EXPIRY_REMINDER_DAYS
  MaxTime,     \* bound: the clock
  MaxMoves,    \* bound: changes an administrator makes
  None

\* What a lookup finds, and what the requests about a certificate answer.
Found == {"not_found", "active", "used", "expired"}
Answers == Found \cup {"redeemed", "already_used", "card", "unavailable"}
\* Where a request is.  From its UPDATE on, it makes a difference when it is lost.
Redeeming == {"updating", "missed", "redeemed", "announced"}
Stages == Redeeming \cup {"idle", "lookup", "redeem", "card", "shown", "done", "lost"}

ASSUME CertificateAssumption ==
  /\ VenueOf \in [Certs -> Venues]
  /\ Validity \in Nat \ {0} /\ Skew \in Nat /\ Window \in Nat
  /\ MaxTime \in Nat /\ MaxMoves \in Nat
  /\ None \notin Certs \cup Venues \cup Merchants \cup Accounts \cup Nat \cup Answers

VARIABLES
  clock,       \* Postgres' now(); the app's clock agrees with it
  stored,      \* certificates.status; "expired" is never stored
  validUntil, remindedAt,   \* certificates.validUntil, expiryRemindedAt
  merchantOf,  \* venues.merchantId
  accountOf,   \* merchants.telegramId
  moves,
  tap,         \* the cabinet requests
  run,         \* the reminder runs
  told,        \* calls of notifyRedeemed, per certificate
  reminders    \* reminders given to Telegram, per certificate

certVars == <<stored, validUntil, remindedAt>>
adminVars == <<merchantOf, accountOf, moves>>
botVars == <<told, reminders>>
vars == <<clock, certVars, adminVars, tap, run, botVars>>

\* "found" is history, read by no action: what its UPDATE did, or why it matched nothing.
Fresh == [pc |-> "idle", code |-> None, merchant |-> None, at |-> 0,
          found |-> None, answer |-> None]
Asleep == [pc |-> "idle", now |-> 0, claimed |-> {}]

Init ==
  /\ clock = 0
  /\ stored = [c \in Certs |-> "none"]
  /\ validUntil = [c \in Certs |-> 0]
  /\ remindedAt = [c \in Certs |-> None]
  /\ merchantOf \in [Venues -> Merchants]
  /\ accountOf \in [Merchants -> Accounts]
  /\ \A m, n \in Merchants : accountOf[m] = accountOf[n] => m = n
  /\ moves = 0
  /\ tap = [t \in Taps |-> Fresh]
  /\ run = [r \in Runs |-> Asleep]
  /\ told = [c \in Certs |-> 0]
  /\ reminders = [c \in Certs |-> 0]

-------------------------------------------------------------------------------
Tick ==
  /\ clock < MaxTime
  /\ clock' = clock + 1
  /\ UNCHANGED <<certVars, adminVars, tap, run, botVars>>

\* payAndIssueCertificate, inside the sale's transaction: valid from paidAt on.
Issue(c, paidAt) ==
  /\ stored[c] = "none" /\ clock <= paidAt + Skew
  /\ stored' = [stored EXCEPT ![c] = "active"]
  /\ validUntil' = [validUntil EXCEPT ![c] = paidAt + Validity]
  /\ UNCHANGED <<clock, remindedAt, adminVars, tap, run, botVars>>

\* The administrator gives a venue to another merchant.
MoveVenue(v, m) ==
  /\ moves < MaxMoves /\ moves' = moves + 1
  /\ merchantOf' = [merchantOf EXCEPT ![v] = m]
  /\ UNCHANGED <<clock, certVars, accountOf, tap, run, botVars>>

\* The administrator changes a merchant's telegramId, which is UNIQUE.
ChangeAccount(m, a) ==
  /\ moves < MaxMoves /\ moves' = moves + 1
  /\ \A n \in Merchants : accountOf[n] # a
  /\ accountOf' = [accountOf EXCEPT ![m] = a]
  /\ UNCHANGED <<clock, certVars, merchantOf, tap, run, botVars>>

-------------------------------------------------------------------------------
EffectiveStatus(c) ==
  IF stored[c] = "active" /\ validUntil[c] < clock THEN "expired" ELSE stored[c]

\* What merchant m finds under code c: OWN joins the venues it has now.
Find(m, c) ==
  IF stored[c] = "none" \/ merchantOf[VenueOf[c]] # m THEN "not_found" ELSE EffectiveStatus(c)

\* ownMerchantId: at most one, a deactivated one too.
OwnMerchant(a) == {m \in Merchants : accountOf[m] = a}

\* A request comes in: its first statement looks up the merchant.
Enter(t, a, c, pc) ==
  /\ tap[t] = Fresh
  /\ tap' = [tap EXCEPT ![t] =
       IF OwnMerchant(a) # {}
       THEN [Fresh EXCEPT !.pc = pc, !.code = c,
                          !.merchant = CHOOSE m \in OwnMerchant(a) : TRUE]
       ELSE [Fresh EXCEPT !.pc = "done", !.code = c, !.answer = "not_found"]]
  /\ UNCHANGED <<clock, certVars, adminVars, run, botVars>>

Reply(t, pc, answer) == tap' = [tap EXCEPT ![t].pc = pc, ![t].answer = answer]

\* GET merchants/me/certificates/:code
Lookup(t) ==
  /\ tap[t].pc = "lookup"
  /\ Reply(t, "shown", Find(tap[t].merchant, tap[t].code))
  /\ UNCHANGED <<clock, certVars, adminVars, run, botVars>>

\* POST merchants/me/certificates/:code/redeem: now() is when the UPDATE began.
Begin(t) ==
  /\ tap[t].pc = "redeem"
  /\ tap' = [tap EXCEPT ![t].pc = "updating", ![t].at = clock]
  /\ UNCHANGED <<clock, certVars, adminVars, run, botVars>>

\* Regression: the screen was checked, so the UPDATE need not look at the status.
RedeemableAsLookedUp(m, c, now) ==
  stored[c] # "none" /\ validUntil[c] > now /\ merchantOf[VenueOf[c]] = m
\* Regression: the UPDATE does not look at validUntil.
RedeemableForEver(m, c, now) == stored[c] = "active" /\ merchantOf[VenueOf[c]] = m
\* The WHERE of the UPDATE.
Redeemable(m, c, now) ==
  stored[c] = "active" /\ validUntil[c] > now /\ merchantOf[VenueOf[c]] = m

Matches(t) == tap[t].pc = "updating" /\ Redeemable(tap[t].merchant, tap[t].code, tap[t].at)
MatchesNothing(t) ==
  tap[t].pc = "updating" /\ ~Redeemable(tap[t].merchant, tap[t].code, tap[t].at)

\* The UPDATE ends: what it found, for the history, and where the request goes on.
Updated(t, pc, found) == tap' = [tap EXCEPT ![t].pc = pc, ![t].found = found]

\* It has the row and it matches: the certificate is used, whoever hears of it.
Redeem(t) ==
  /\ Matches(t)
  /\ stored' = [stored EXCEPT ![tap[t].code] = "used"]
  /\ Updated(t, "redeemed", "redeemed")
  /\ UNCHANGED <<clock, validUntil, remindedAt, adminVars, run, botVars>>

\* notifyRedeemed is started and not awaited ...
Announce(t) ==
  /\ tap[t].pc = "redeemed"
  /\ told' = [told EXCEPT ![tap[t].code] = @ + 1]
  /\ tap' = [tap EXCEPT ![t].pc = "announced"]
  /\ UNCHANGED <<clock, certVars, adminVars, run, reminders>>

\* ... and the cashier gets the answer.
AnswerRedeemed(t) ==
  /\ tap[t].pc = "announced"
  /\ Reply(t, "done", "redeemed")
  /\ UNCHANGED <<clock, certVars, adminVars, run, botVars>>

\* Why an UPDATE with these parameters matches nothing.
WhyNot(m, c) ==
  IF stored[c] = "none" \/ merchantOf[VenueOf[c]] # m THEN "not_found"
  ELSE IF stored[c] = "used" THEN "used" ELSE "expired"

\* It matches nothing: a second statement is to say why ...
Miss(t) ==
  /\ MatchesNothing(t)
  /\ Updated(t, "missed", WhyNot(tap[t].merchant, tap[t].code))
  /\ UNCHANGED <<clock, certVars, adminVars, run, botVars>>

\* Regression: whatever was found and cannot be redeemed has expired.
ReasonExpired(found) == IF found = "not_found" THEN "not_found" ELSE "expired"

Reason(found) ==
  CASE found = "not_found" -> "not_found"
    [] found = "used" -> "already_used"
    [] OTHER -> "expired"

\* ... reading the certificate anew.
Explain(t) ==
  /\ tap[t].pc = "missed"
  /\ Reply(t, "done", Reason(Find(tap[t].merchant, tap[t].code)))
  /\ UNCHANGED <<clock, certVars, adminVars, run, botVars>>

\* The app dies or the connection is gone: what the request had done stays done,
\* what it had not done never is, and nobody gets its answer.
Drop(t) ==
  /\ tap[t].pc \in Redeeming
  /\ tap' = [tap EXCEPT ![t].pc = "lost"]
  /\ UNCHANGED <<clock, certVars, adminVars, run, botVars>>

-------------------------------------------------------------------------------
(* The owner of a certificate.                                               *)

\* GET certificates/mine: whatever became of the venue.
LookAtOwn(t, c) ==
  /\ tap[t] = Fresh /\ stored[c] # "none"
  /\ tap' = [tap EXCEPT ![t] = [Fresh EXCEPT !.pc = "shown", !.code = c,
                                             !.answer = EffectiveStatus(c)]]
  /\ UNCHANGED <<clock, certVars, adminVars, run, botVars>>

\* POST certificates/:id/gift: a card with the code, while it is active.
AskForCard(t, c) ==
  /\ tap[t] = Fresh /\ stored[c] # "none"
  /\ tap' = [tap EXCEPT ![t] =
       IF EffectiveStatus(c) = "active" THEN [Fresh EXCEPT !.pc = "card", !.code = c]
       ELSE [Fresh EXCEPT !.pc = "done", !.code = c, !.answer = Reason(EffectiveStatus(c))]]
  /\ UNCHANGED <<clock, certVars, adminVars, run, botVars>>

\* Telegram prepares the message, or not.
MakeCard(t) ==
  /\ tap[t].pc = "card"
  /\ \E answer \in {"card", "unavailable"} : Reply(t, "done", answer)
  /\ UNCHANGED <<clock, certVars, adminVars, run, botVars>>

-------------------------------------------------------------------------------
(* ExpiryRemindersService.run, hourly by day; runs may overlap.              *)

\* The job takes the time before its query reaches the database.
Wake(r) ==
  /\ run[r].pc = "idle"
  /\ run' = [run EXCEPT ![r] = [pc |-> "claiming", now |-> clock, claimed |-> {}]]
  /\ UNCHANGED <<clock, certVars, adminVars, tap, botVars>>

\* Regression: the claim is not looked at.
UnremindedAll(c) == TRUE
Unreminded(c) == remindedAt[c] = None

Soon(now) ==
  {c \in Certs : /\ stored[c] = "active" /\ Unreminded(c)
                 /\ validUntil[c] > now /\ validUntil[c] <= now + Window}

\* One statement claims them, but for those past its LIMIT of 100 and those
\* another transaction has locked.
Claim(r) ==
  /\ run[r].pc = "claiming"
  /\ \E S \in SUBSET Soon(run[r].now) :
       /\ remindedAt' = [c \in Certs |-> IF c \in S THEN run[r].now ELSE remindedAt[c]]
       /\ run' = [run EXCEPT ![r].pc = "sending", ![r].claimed = S]
  /\ UNCHANGED <<clock, stored, validUntil, adminVars, tap, botVars>>

\* One bot message; a refusal by Telegram is not retried.
Remind(r, c) ==
  /\ run[r].pc = "sending" /\ c \in run[r].claimed
  /\ reminders' = [reminders EXCEPT ![c] = @ + 1]
  /\ run' = [run EXCEPT ![r].claimed = @ \ {c}]
  /\ UNCHANGED <<clock, certVars, adminVars, tap, told>>

\* Done, or the app died: what was claimed and not sent never will be.
Rest(r) ==
  /\ run[r].pc # "idle"
  /\ run' = [run EXCEPT ![r] = Asleep]
  /\ UNCHANGED <<clock, certVars, adminVars, tap, botVars>>

-------------------------------------------------------------------------------
TapStep(t) ==
  \/ Lookup(t) \/ Begin(t) \/ Redeem(t) \/ Announce(t) \/ AnswerRedeemed(t)
  \/ Miss(t) \/ Explain(t) \/ MakeCard(t) \/ Drop(t)
  \/ \E c \in Certs : LookAtOwn(t, c) \/ AskForCard(t, c)

Next ==
  \/ Tick
  \/ \E c \in Certs, paidAt \in 0..(clock + Skew) : Issue(c, paidAt)
  \/ \E v \in Venues, m \in Merchants : MoveVenue(v, m)
  \/ \E m \in Merchants, a \in Accounts : ChangeAccount(m, a)
  \/ \E t \in Taps, a \in Accounts, c \in Certs, pc \in {"lookup", "redeem"} : Enter(t, a, c, pc)
  \/ \E t \in Taps : TapStep(t)
  \/ \E r \in Runs : Wake(r) \/ Claim(r) \/ Rest(r) \/ \E c \in Certs : Remind(r, c)

Spec == Init /\ [][Next]_vars
===============================================================================
