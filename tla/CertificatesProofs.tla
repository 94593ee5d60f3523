--------------------------- MODULE CertificatesProofs --------------------------
(***************************************************************************)
(* Theorems about Certificates for any number of certificates, cashiers,   *)
(* reminder runs, merchants and venues, and any bounds, and about the      *)
(* moment addMonths lets a certificate end at.                             *)
(***************************************************************************)
EXTENDS CertificateProperties, Calendar, FiniteSetTheorems, TLAPS

-------------------------------------------------------------------------------
(* When a certificate ends, for every date.                                  *)

LEMMA MonthLengthRange ==
  ASSUME NEW month \in Int
  PROVE  MonthLength(month) \in 28..31
BY DEF MonthLength

\* addMonths lands exactly that many months later, on the same day or on the last
\* the month has, never in the month after, as setUTCMonth alone would; and at the
\* same time of that day.
THEOREM AddMonthsClamps ==
  ASSUME NEW date \in Moments, NEW months \in Nat
  PROVE  /\ AddMonths(date, months) \in Moments
         /\ AddMonths(date, months).month = date.month + months
         /\ AddMonths(date, months).day =
              IF date.day <= MonthLength(date.month + months)
              THEN date.day ELSE MonthLength(date.month + months)
         /\ AddMonths(date, months).time = date.time
<1> DEFINE month == date.month + months
           day == IF date.day <= MonthLength(month) THEN date.day ELSE MonthLength(month)
<1>1. date.month \in Nat /\ date.day \in 1..31 /\ date.time \in 0..(DAY_MS - 1)
  BY DEF Moments
<1>2. month \in Nat /\ MonthLength(month) \in 28..31
  BY <1>1, MonthLengthRange
<1>3. Carried(month + 1, 0).day = MonthLength(month)
  BY <1>2 DEF Carried
<1>4. day \in 1..31 /\ day <= MonthLength(month)
  BY <1>1, <1>2
<1>5. Carried(month, day) = [month |-> month, day |-> day]
  <2>1. day # 0
    BY <1>4
  <2> QED BY <2>1, <1>4 DEF Carried
<1>6. AddMonths(date, months) = [month |-> month, day |-> day, time |-> date.time]
  BY <1>3, <1>5 DEF AddMonths
<1> QED
  BY <1>1, <1>2, <1>4, <1>6 DEF Moments

\* A certificate paid for no later than another, for the same number of months,
\* ends on no later day; and at no later moment, if the target month has the
\* later one's day.  If it has not, both may be clamped to one last day, each at
\* its own time of day, and the order within that day is lost.
THEOREM AddMonthsKeepsOrder ==
  ASSUME NEW d \in Moments, NEW e \in Moments, NEW months \in Nat, NotAfter(d, e)
  PROVE  /\ OnNoLaterDay(AddMonths(d, months), AddMonths(e, months))
         /\ e.day <= MonthLength(e.month + months) =>
              NotAfter(AddMonths(d, months), AddMonths(e, months))
<1>1. /\ d.month \in Nat /\ e.month \in Nat /\ d.day \in 1..31 /\ e.day \in 1..31
      /\ d.time \in Int /\ e.time \in Int
  <2>1. DAY_MS \in Int
    BY DEF DAY_MS
  <2>2. 0..(DAY_MS - 1) \subseteq Int
    BY <2>1
  <2> QED
    BY <2>2 DEF Moments
<1> DEFINE D == AddMonths(d, months)
           E == AddMonths(e, months)
<1>4. /\ D.month = d.month + months /\ D.time = d.time
      /\ D.day = IF d.day <= MonthLength(d.month + months)
                 THEN d.day ELSE MonthLength(d.month + months)
  BY AddMonthsClamps
<1>5. /\ E.month = e.month + months /\ E.time = e.time
      /\ E.day = IF e.day <= MonthLength(e.month + months)
                 THEN e.day ELSE MonthLength(e.month + months)
  BY AddMonthsClamps
<1> HIDE DEF D, E
<1>2. CASE d.month < e.month
  <2>1. D.month < E.month
    BY <1>1, <1>2, <1>4, <1>5
  <2> QED
    BY <2>1 DEF NotAfter, OnNoLaterDay, D, E
<1>3. CASE d.month = e.month /\ (d.day < e.day \/ (d.day = e.day /\ d.time <= e.time))
  <2>1. MonthLength(d.month + months) \in 28..31
    BY <1>1, MonthLengthRange
  <2>2. D.month = E.month /\ D.day <= E.day
    BY <1>1, <1>3, <1>4, <1>5, <2>1
  <2>3. ASSUME e.day <= MonthLength(e.month + months)
        PROVE  D.day < E.day \/ (D.day = E.day /\ D.time <= E.time)
    BY <1>1, <1>3, <1>4, <1>5, <2>1, <2>3
  <2> QED
    BY <2>2, <2>3 DEF NotAfter, OnNoLaterDay, D, E
<1> QED
  BY <1>2, <1>3 DEF NotAfter

-------------------------------------------------------------------------------
(* The invariant.                                                            *)

\* A request that has an answer is over; one under way knows its certificate, and
\* the end of its UPDATE is the first it finds.
TapsConsistent ==
  \A t \in Taps :
    /\ tap[t].answer # None => tap[t].pc \in {"done", "shown"}
    /\ tap[t].pc # "idle" => tap[t].code \in Certs
    /\ tap[t].pc \in {"lookup", "redeem"} \cup Redeeming => tap[t].merchant \in Merchants
    /\ tap[t].pc \in {"idle", "lookup", "redeem", "updating", "card"} => tap[t].found = None

TypeInv == TypeOK /\ TapsConsistent

\* A certificate is used exactly when one request redeemed it, in time; the owner
\* is told when that request has come so far, and not again.
RedeemInv ==
  /\ \A c \in Certs :
       /\ \A t \in Redeemers(c) : stored[c] = "used" /\ tap[t].at < validUntil[c]
       /\ \A t, u \in Redeemers(c) : t = u
       /\ stored[c] = "used" => Redeemers(c) # {}
       /\ told[c] \in {0, 1} /\ (told[c] = 1 => Redeemers(c) # {})
       /\ \A t \in Redeemers(c) :
            /\ tap[t].pc = "redeemed" => told[c] = 0
            /\ tap[t].pc \in {"announced", "done"} => told[c] = 1
  /\ \A t \in Taps :
       /\ tap[t].pc \in {"redeemed", "announced"} => tap[t].found = "redeemed"
       /\ tap[t].pc = "missed" => tap[t].found \in {"not_found", "used", "expired"}
       /\ tap[t].answer = "redeemed" => tap[t].found = "redeemed" /\ tap[t].pc = "done"

\* What an UPDATE that matched nothing found can only stay so, and so what is
\* answered can: a used certificate stays used, a time that is past stays past.
Refused(t) ==
  /\ tap[t].pc = "updating" => tap[t].at <= clock
  /\ tap[t].answer \in {"already_used", "used"} => stored[tap[t].code] = "used"
  /\ tap[t].pc = "missed" /\ tap[t].found = "used" => stored[tap[t].code] = "used"
  /\ \/ tap[t].pc = "missed" /\ tap[t].found = "expired"
     \/ tap[t].answer = "expired" /\ tap[t].found # "not_found"
     => stored[tap[t].code] # "none" /\ validUntil[tap[t].code] <= clock

RefusalInv == \A t \in Taps : Refused(t)

\* A claim is for an issued certificate whose end was near, and is never undone;
\* one run at most holds it, until the reminder is given to Telegram.
ClaimInv ==
  \A c \in Certs :
    /\ remindedAt[c] # None =>
         /\ stored[c] # "none"
         /\ remindedAt[c] < validUntil[c] /\ validUntil[c] <= remindedAt[c] + Window
    /\ reminders[c] \in {0, 1}
    /\ reminders[c] = 1 => remindedAt[c] # None
    /\ \A r \in Runs : c \in run[r].claimed =>
         /\ remindedAt[c] # None /\ reminders[c] = 0 /\ run[r].pc = "sending"
         /\ \A s \in Runs : c \in run[s].claimed => s = r

CertInv == TypeInv /\ RedeemInv /\ RefusalInv /\ ClaimInv
-------------------------------------------------------------------------------
(* Types.                                                                    *)

Findings == {None, "redeemed", "not_found", "used", "expired"}
TapRecord == [pc : Stages, code : Certs \cup {None}, merchant : Merchants \cup {None},
              at : Nat, found : Findings, answer : Answers \cup {None}]

\* A lookup, and the reason for a refusal, are answers a screen may show.
LEMMA FoundType ==
  ASSUME TypeOK, NEW c \in Certs, NEW m
  PROVE  Find(m, c) \in Found /\ (stored[c] # "none" => EffectiveStatus(c) \in Found)
BY DEF TypeOK, Find, EffectiveStatus, Found

LEMMA ReasonType == ASSUME NEW f PROVE Reason(f) \in {"not_found", "already_used", "expired"}
BY DEF Reason

\* What a request becomes when it is answered, or moved on.
LEMMA ReplyType ==
  ASSUME tap \in [Taps -> TapRecord], NEW t \in Taps, NEW p \in Stages, NEW v \in Answers,
         Reply(t, p, v)
  PROVE  /\ tap' \in [Taps -> TapRecord]
         /\ \A u \in Taps \ {t} : tap'[u] = tap[u]
         /\ tap'[t].pc = p /\ tap'[t].answer = v /\ tap'[t].code = tap[t].code
         /\ tap'[t].merchant = tap[t].merchant /\ tap'[t].at = tap[t].at
         /\ tap'[t].found = tap[t].found
BY DEF TapRecord, Reply

\* What it becomes when its UPDATE ends.
LEMMA UpdatedType ==
  ASSUME tap \in [Taps -> TapRecord], NEW t \in Taps, NEW p \in Stages, NEW f \in Findings,
         Updated(t, p, f)
  PROVE  /\ tap' \in [Taps -> TapRecord]
         /\ \A u \in Taps \ {t} : tap'[u] = tap[u]
         /\ tap'[t].pc = p /\ tap'[t].found = f /\ tap'[t].code = tap[t].code
         /\ tap'[t].merchant = tap[t].merchant /\ tap'[t].at = tap[t].at
         /\ tap'[t].answer = tap[t].answer
BY DEF TapRecord, Updated

\* What it becomes when it only moves on.
LEMMA MovedType ==
  ASSUME tap \in [Taps -> TapRecord], NEW t \in Taps, NEW p \in Stages,
         tap' = [tap EXCEPT ![t].pc = p]
  PROVE  /\ tap' \in [Taps -> TapRecord]
         /\ \A u \in Taps \ {t} : tap'[u] = tap[u]
         /\ tap'[t].pc = p /\ tap'[t].found = tap[t].found /\ tap'[t].code = tap[t].code
         /\ tap'[t].merchant = tap[t].merchant /\ tap'[t].at = tap[t].at
         /\ tap'[t].answer = tap[t].answer
BY DEF TapRecord

LEMMA FreshType ==
  /\ Fresh \in TapRecord /\ Fresh.pc = "idle"
  /\ Fresh.answer = None /\ Fresh.found = None
BY DEF Fresh, TapRecord, Stages, Findings

\* The request that Enter starts.
Entered(a, c, pc) ==
  IF OwnMerchant(a) # {}
  THEN [Fresh EXCEPT !.pc = pc, !.code = c, !.merchant = CHOOSE m \in OwnMerchant(a) : TRUE]
  ELSE [Fresh EXCEPT !.pc = "done", !.code = c, !.answer = "not_found"]

LEMMA EnteredType ==
  ASSUME NEW a \in Accounts, NEW c \in Certs, NEW pc \in {"lookup", "redeem"}
  PROVE  /\ Entered(a, c, pc) \in TapRecord /\ Entered(a, c, pc).code = c
         /\ Entered(a, c, pc).answer \in {None, "not_found"}
         /\ Entered(a, c, pc).found = None /\ Entered(a, c, pc).pc \in {pc, "done"}
         /\ Entered(a, c, pc).answer # None => Entered(a, c, pc).pc = "done"
         /\ Entered(a, c, pc).pc # "done" => Entered(a, c, pc).merchant \in Merchants
<1>1. CASE OwnMerchant(a) # {}
  <2>1. (CHOOSE m \in OwnMerchant(a) : TRUE) \in Merchants
    BY <1>1 DEF OwnMerchant
  <2> QED BY <1>1, <2>1 DEF Entered, Fresh, TapRecord, Stages, Findings
<1>2. CASE OwnMerchant(a) = {}
  BY <1>2 DEF Entered, Fresh, TapRecord, Stages, Findings, Answers, Found
<1> QED BY <1>1, <1>2

LEMMA TypeInit == Init => TypeInv
<1> SUFFICES ASSUME Init PROVE TypeInv
  OBVIOUS
<1>1. tap \in [Taps -> TapRecord] /\ TapsConsistent
  BY FreshType DEF Init, TapsConsistent, Redeeming
<1>2. run \in [Runs -> [pc : {"idle", "claiming", "sending"}, now : Nat, claimed : SUBSET Certs]]
  BY DEF Init, Asleep
<1> QED BY <1>1, <1>2, CertificateAssumption DEF Init, TypeInv, TypeOK, TapRecord, Findings

LEMMA TypeStep == TypeInv /\ [Next]_vars => TypeInv'
<1> SUFFICES ASSUME TypeInv, [Next]_vars PROVE TypeInv'
  OBVIOUS
<1>a. TypeOK /\ TapsConsistent /\ tap \in [Taps -> TapRecord]
  BY DEF TypeInv, TypeOK, TapRecord, Findings
<1>b. Validity \in Nat /\ Skew \in Nat /\ MaxTime \in Nat /\ MaxMoves \in Nat
  BY CertificateAssumption
<1> USE DEF vars, certVars, adminVars, botVars
<1>1. CASE UNCHANGED vars
  BY <1>a, <1>1 DEF TypeInv, TypeOK, TapsConsistent
<1>2. CASE \/ Tick \/ \E v \in Venues, m \in Merchants : MoveVenue(v, m)
           \/ \E m \in Merchants, a \in Accounts : ChangeAccount(m, a)
  BY <1>a, <1>b, <1>2 DEF TypeInv, TypeOK, TapsConsistent, Tick, MoveVenue, ChangeAccount
<1>3. ASSUME NEW c \in Certs, NEW paidAt \in 0..(clock + Skew), Issue(c, paidAt) PROVE TypeInv'
  <2>1. paidAt + Validity \in Nat
    BY <1>a, <1>b DEF TypeOK
  <2> QED BY <1>a, <1>3, <2>1 DEF TypeInv, TypeOK, TapsConsistent, Issue
<1>4. ASSUME tap' \in [Taps -> TapRecord], TapsConsistent',
             stored' \in [Certs -> {"none", "active", "used"}], told' \in [Certs -> Nat],
             UNCHANGED <<clock, validUntil, remindedAt, adminVars, run, reminders>>
      PROVE  TypeInv'
  BY <1>a, <1>4 DEF TypeInv, TypeOK, TapRecord, Findings
<1>5. ASSUME NEW t \in Taps, \A u \in Taps \ {t} : tap'[u] = tap[u],
             tap'[t].answer # None => tap'[t].pc \in {"done", "shown"},
             tap'[t].pc # "idle" => tap'[t].code \in Certs,
             tap'[t].pc \in {"lookup", "redeem"} \cup Redeeming => tap'[t].merchant \in Merchants,
             tap'[t].pc \in {"idle", "lookup", "redeem", "updating", "card"} =>
               tap'[t].found = None
      PROVE  TapsConsistent'
  BY <1>a, <1>5 DEF TapsConsistent
<1>6. ASSUME NEW t \in Taps, NEW a \in Accounts, NEW c \in Certs, NEW pc \in {"lookup", "redeem"},
             Enter(t, a, c, pc)
      PROVE  TypeInv'
  <2>1. tap' = [tap EXCEPT ![t] = Entered(a, c, pc)]
    BY <1>6 DEF Enter, Entered
  <2>2. tap' \in [Taps -> TapRecord] /\ tap'[t] = Entered(a, c, pc)
        /\ \A u \in Taps \ {t} : tap'[u] = tap[u]
    BY <1>a, <2>1, EnteredType
  <2>3. TapsConsistent'
    BY <1>5, <2>2, EnteredType DEF Redeeming
  <2> QED BY <1>4, <1>6, <1>a, <2>2, <2>3 DEF Enter, TypeOK
<1>7. ASSUME NEW t \in Taps, TapStep(t) PROVE TypeInv'
  <2>1. ASSUME NEW p \in {"shown", "done"}, NEW v \in Answers, Reply(t, p, v),
               tap[t].pc # "idle",
               stored' \in [Certs -> {"none", "active", "used"}], told' \in [Certs -> Nat],
               UNCHANGED <<clock, validUntil, remindedAt, adminVars, run, reminders>>
        PROVE  TypeInv'
    <3>1. p \in Stages
      BY DEF Stages
    <3>2. /\ tap' \in [Taps -> TapRecord] /\ \A u \in Taps \ {t} : tap'[u] = tap[u]
          /\ tap'[t].pc = p /\ tap'[t].code = tap[t].code
      BY <1>a, <2>1, <3>1, ReplyType
    <3>3. TapsConsistent'
      BY <1>a, <1>5, <2>1, <3>2 DEF Redeeming, TapsConsistent
    <3> QED BY <1>4, <2>1, <3>2, <3>3
  <2>p. ASSUME \A u \in Taps \ {t} : tap'[u] = tap[u], tap' \in [Taps -> TapRecord],
               tap[t].pc \in {"redeem"} \cup Redeeming, tap'[t].pc \in Redeeming \cup {"lost"},
               tap'[t].pc = "updating" => tap'[t].found = None,
               tap'[t].answer = tap[t].answer, tap'[t].code = tap[t].code,
               tap'[t].merchant = tap[t].merchant,
               stored' \in [Certs -> {"none", "active", "used"}], told' \in [Certs -> Nat],
               UNCHANGED <<clock, validUntil, remindedAt, adminVars, run, reminders>>
        PROVE  TypeInv'
    <3>1. tap[t].answer = None
      BY <1>a, <2>p DEF TapsConsistent, Redeeming
    <3>2. TapsConsistent'
      BY <1>a, <1>5, <2>p, <3>1 DEF TapsConsistent, Redeeming
    <3> QED BY <1>4, <2>p, <3>2
  <2>a. stored \in [Certs -> {"none", "active", "used"}] /\ told \in [Certs -> Nat] /\ clock \in Nat
    BY <1>a, <1>b DEF TypeOK
  <2>b. Found \subseteq Answers
        /\ {"not_found", "already_used", "expired", "redeemed", "card", "unavailable"} \subseteq Answers
    BY DEF Answers, Found
  <2>2. CASE Lookup(t)
    <3>1. Find(tap[t].merchant, tap[t].code) \in Answers
      BY <1>a, <2>2, <2>b, FoundType DEF Lookup, TapsConsistent
    <3> QED BY <2>1, <2>2, <2>a, <3>1 DEF Lookup
  <2>3. CASE Begin(t)
    <3>1. /\ tap' \in [Taps -> TapRecord] /\ \A u \in Taps \ {t} : tap'[u] = tap[u]
          /\ tap'[t].answer = tap[t].answer /\ tap'[t].code = tap[t].code
          /\ tap'[t].merchant = tap[t].merchant /\ tap'[t].found = tap[t].found
          /\ tap'[t].pc = "updating"
      BY <1>a, <2>a, <2>3 DEF Begin, TapRecord, Stages, Redeeming
    <3>2. tap[t].pc = "redeem" /\ tap[t].found = None
      BY <1>a, <2>3 DEF Begin, TapsConsistent
    <3> QED BY <2>p, <2>3, <2>a, <3>1, <3>2 DEF Begin, Redeeming
  <2>4. CASE Redeem(t)
    <3>1. tap[t].pc = "updating" /\ tap[t].code \in Certs
      BY <1>a, <2>4 DEF Redeem, Matches, TapsConsistent, Redeeming
    <3>2. stored' \in [Certs -> {"none", "active", "used"}]
      BY <2>4, <2>a, <3>1 DEF Redeem
    <3>3. Updated(t, "redeemed", "redeemed") /\ "redeemed" \in Stages /\ "redeemed" \in Findings
      BY <2>4 DEF Redeem, Stages, Redeeming, Findings
    <3> QED BY <1>a, <2>p, <2>4, <2>a, <3>1, <3>2, <3>3, UpdatedType DEF Redeem, Redeeming
  <2>11. CASE Announce(t) \/ Drop(t)
    <3>1. tap[t].pc \in Redeeming /\ (Announce(t) => tap[t].pc = "redeemed")
      BY <2>11 DEF Announce, Drop, Redeeming
    <3>2. told' \in [Certs -> Nat]
      BY <1>a, <2>11, <2>a, <3>1 DEF Announce, Drop, TapsConsistent
    <3>3. PICK p \in {"announced", "lost"} : tap' = [tap EXCEPT ![t].pc = p]
      BY <2>11 DEF Announce, Drop
    <3>4. p \in Stages /\ p \in Redeeming \cup {"lost"} /\ p # "updating"
      BY DEF Stages, Redeeming
    <3>5. UNCHANGED <<clock, stored, validUntil, remindedAt, adminVars, run, reminders>>
      BY <2>11 DEF Announce, Drop
    <3> QED BY <1>a, <2>p, <2>a, <3>1, <3>2, <3>3, <3>4, <3>5, MovedType
  <2>12. CASE AnswerRedeemed(t)
    BY <2>1, <2>12, <2>a, <2>b DEF AnswerRedeemed
  <2>5. CASE Miss(t)
    <3>1. PICK f \in {"not_found", "used", "expired"} : Updated(t, "missed", f)
      BY <2>5 DEF Miss, WhyNot
    <3>2. "missed" \in Stages /\ f \in Findings /\ tap[t].pc = "updating"
      BY <2>5 DEF Miss, MatchesNothing, Stages, Redeeming, Findings
    <3> QED BY <1>a, <2>p, <2>5, <2>a, <3>1, <3>2, UpdatedType DEF Miss, Redeeming
  <2>6. CASE Explain(t)
    <3>1. Reason(Find(tap[t].merchant, tap[t].code)) \in Answers
      BY <2>b, ReasonType
    <3> QED BY <2>1, <2>6, <2>a, <3>1 DEF Explain
  <2>7. CASE MakeCard(t)
    <3>1. PICK v \in {"card", "unavailable"} : Reply(t, "done", v)
      BY <2>7 DEF MakeCard
    <3> QED BY <2>1, <2>7, <2>a, <2>b, <3>1 DEF MakeCard
  <2>8. ASSUME NEW c \in Certs, NEW w \in TapRecord, tap' = [tap EXCEPT ![t] = w],
               w.pc \in {"shown", "done", "card"}, w.answer # None => w.pc \in {"done", "shown"},
               w.found = None, w.code = c,
               UNCHANGED <<clock, certVars, adminVars, run, botVars>>
        PROVE  TypeInv'
    <3>1. /\ tap' \in [Taps -> TapRecord] /\ \A u \in Taps \ {t} : tap'[u] = tap[u]
          /\ tap'[t] = w
      BY <1>a, <2>8
    <3>2. TapsConsistent'
      BY <1>5, <2>8, <3>1 DEF Redeeming
    <3> QED BY <1>4, <2>8, <2>a, <3>1, <3>2
  <2>9. ASSUME NEW c \in Certs, LookAtOwn(t, c) PROVE TypeInv'
    <3> DEFINE w == [Fresh EXCEPT !.pc = "shown", !.code = c, !.answer = EffectiveStatus(c)]
    <3>1. EffectiveStatus(c) \in Answers
      BY <1>a, <2>9, <2>b, FoundType DEF LookAtOwn
    <3>2. w \in TapRecord /\ w.pc = "shown" /\ w.found = None /\ w.code = c
      BY <3>1 DEF Fresh, TapRecord, Stages, Findings
    <3>3. tap' = [tap EXCEPT ![t] = w] /\ UNCHANGED <<clock, certVars, adminVars, run, botVars>>
      BY <2>9 DEF LookAtOwn
    <3> HIDE DEF w
    <3> QED BY <2>8, <3>2, <3>3
  <2>10. ASSUME NEW c \in Certs, AskForCard(t, c) PROVE TypeInv'
    <3> DEFINE w == [Fresh EXCEPT !.pc = "card", !.code = c]
               d == [Fresh EXCEPT !.pc = "done", !.code = c, !.answer = Reason(EffectiveStatus(c))]
    <3>1. Reason(EffectiveStatus(c)) \in Answers
      BY <2>b, ReasonType
    <3>2. /\ w \in TapRecord /\ w.pc = "card" /\ w.answer = None /\ w.found = None /\ w.code = c
          /\ d \in TapRecord /\ d.pc = "done" /\ d.found = None /\ d.code = c
      BY <3>1 DEF Fresh, TapRecord, Stages, Findings
    <3>3. /\ tap' = [tap EXCEPT ![t] = w] \/ tap' = [tap EXCEPT ![t] = d]
          /\ UNCHANGED <<clock, certVars, adminVars, run, botVars>>
      BY <2>10 DEF AskForCard
    <3> HIDE DEF w, d
    <3> QED BY <2>8, <3>2, <3>3
  <2> QED BY <1>7, <2>2, <2>3, <2>4, <2>5, <2>6, <2>7, <2>9, <2>10,
              <2>11, <2>12 DEF TapStep
<1>8. ASSUME NEW r \in Runs, Wake(r) \/ Claim(r) \/ Rest(r) \/ \E c \in Certs : Remind(r, c)
      PROVE  TypeInv'
  <2>a. /\ run \in [Runs -> [pc : {"idle", "claiming", "sending"}, now : Nat, claimed : SUBSET Certs]]
        /\ remindedAt \in [Certs -> Nat \cup {None}] /\ reminders \in [Certs -> Nat] /\ clock \in Nat
    BY <1>a, <1>b DEF TypeOK
  <2>1. ASSUME UNCHANGED <<clock, stored, validUntil, adminVars, tap, told>>,
               run' \in [Runs -> [pc : {"idle", "claiming", "sending"}, now : Nat, claimed : SUBSET Certs]],
               remindedAt' \in [Certs -> Nat \cup {None}], reminders' \in [Certs -> Nat]
        PROVE  TypeInv'
    BY <1>a, <2>1 DEF TypeInv, TypeOK, TapsConsistent
  <2>2. CASE Wake(r) \/ Rest(r)
    BY <2>1, <2>2, <2>a DEF Wake, Rest, Asleep
  <2>3. CASE Claim(r)
    <3>1. PICK S \in SUBSET Certs :
            /\ remindedAt' = [c \in Certs |-> IF c \in S THEN run[r].now ELSE remindedAt[c]]
            /\ run' = [run EXCEPT ![r].pc = "sending", ![r].claimed = S]
      BY <2>3 DEF Claim, Soon
    <3>2. UNCHANGED <<clock, stored, validUntil, adminVars, tap, botVars>>
      BY <2>3 DEF Claim
    <3> QED BY <2>1, <2>a, <3>1, <3>2
  <2>4. CASE \E c \in Certs : Remind(r, c)
    BY <2>1, <2>4, <2>a DEF Remind
  <2> QED BY <1>8, <2>2, <2>3, <2>4
<1> QED BY <1>1, <1>2, <1>3, <1>6, <1>7, <1>8 DEF Next
-------------------------------------------------------------------------------
(* A certificate is redeemed once.                                           *)

\* A request that redeems nothing changes nothing of who redeemed what.
LEMMA OthersKeep ==
  ASSUME TypeInv, RedeemInv, NEW t \in Taps, \A u \in Taps \ {t} : tap'[u] = tap[u],
         UNCHANGED <<stored, validUntil, told>>,
         tap[t].found # "redeemed", tap'[t].found # "redeemed", tap'[t].answer # "redeemed",
         tap'[t].pc \notin {"redeemed", "announced"},
         tap'[t].pc = "missed" => tap'[t].found \in {"not_found", "used", "expired"}
  PROVE  RedeemInv'
<1>1. \A c \in Certs : t \notin Redeemers(c) /\ t \notin Redeemers(c)'
  BY DEF Redeemers
<1>2. \A c \in Certs : Redeemers(c)' = Redeemers(c)
  BY <1>1 DEF Redeemers
<1>3. \A c \in Certs : \A u \in Redeemers(c) : u \in Taps \ {t}
  BY <1>1 DEF Redeemers
<1> QED BY <1>2, <1>3 DEF RedeemInv

\* The one step that redeems.
LEMMA RedeemOnce ==
  ASSUME TypeInv, RedeemInv, NEW t \in Taps, Redeem(t)
  PROVE  RedeemInv'
<1>a. TypeOK /\ TapsConsistent /\ tap \in [Taps -> TapRecord]
  BY DEF TypeInv, TypeOK, TapRecord, Findings
<1>c. PICK c \in Certs : c = tap[t].code
  BY <1>a DEF Redeem, Matches, TapsConsistent
<1>1. stored[c] = "active" /\ tap[t].at < validUntil[c] /\ tap[t].pc = "updating"
  BY <1>a, <1>c DEF Redeem, Matches, Redeemable, TypeOK, TapRecord
<1>2. /\ \A u \in Taps \ {t} : tap'[u] = tap[u]
      /\ tap'[t].pc = "redeemed" /\ tap'[t].found = "redeemed" /\ tap'[t].code = c
      /\ tap'[t].at = tap[t].at /\ tap'[t].answer = None
  <2>1. Updated(t, "redeemed", "redeemed") /\ "redeemed" \in Stages /\ "redeemed" \in Findings
    BY DEF Redeem, Stages, Redeeming, Findings
  <2>2. tap[t].answer = None
    BY <1>a, <1>1 DEF TapsConsistent
  <2> QED BY <1>a, <1>c, <2>1, <2>2, UpdatedType
<1>3. /\ stored'[c] = "used" /\ \A d \in Certs \ {c} : stored'[d] = stored[d]
      /\ told' = told /\ validUntil' = validUntil
  BY <1>a, <1>c DEF Redeem, TypeOK, botVars
<1>5. \A d \in Certs \ {c} : Redeemers(d)' = Redeemers(d) /\ t \notin Redeemers(d)
  BY <1>c, <1>2 DEF Redeemers
<1>6. Redeemers(c) = {} /\ told[c] = 0
  BY <1>1 DEF RedeemInv
<1>7. Redeemers(c)' = {t}
  BY <1>2, <1>6 DEF Redeemers
<1> DEFINE Once(d) == /\ \A u \in Redeemers(d) : stored[d] = "used" /\ tap[u].at < validUntil[d]
                      /\ \A u, w \in Redeemers(d) : u = w
                      /\ stored[d] = "used" => Redeemers(d) # {}
                      /\ told[d] \in {0, 1} /\ (told[d] = 1 => Redeemers(d) # {})
                      /\ \A u \in Redeemers(d) :
                           /\ tap[u].pc = "redeemed" => told[d] = 0
                           /\ tap[u].pc \in {"announced", "done"} => told[d] = 1
<1>8. Once(c)'
  BY <1>1, <1>2, <1>3, <1>6, <1>7
<1>9. ASSUME NEW d \in Certs \ {c} PROVE Once(d)'
  <2>1. \A u \in Redeemers(d) : u \in Taps \ {t}
    BY <1>5 DEF Redeemers
  <2>2. Once(d)
    BY DEF RedeemInv
  <2> QED BY <1>2, <1>3, <1>5, <2>1, <2>2
<1>10. \A u \in Taps :
         /\ tap'[u].pc \in {"redeemed", "announced"} => tap'[u].found = "redeemed"
         /\ tap'[u].pc = "missed" => tap'[u].found \in {"not_found", "used", "expired"}
         /\ tap'[u].answer = "redeemed" => tap'[u].found = "redeemed" /\ tap'[u].pc = "done"
  BY <1>2, CertificateAssumption DEF RedeemInv, Answers
<1> QED BY <1>8, <1>9, <1>10 DEF RedeemInv

\* After it, the request announces the redemption, answers, or is lost.
LEMMA RedeemerMoves ==
  ASSUME TypeInv, RedeemInv, NEW t \in Taps, Announce(t) \/ AnswerRedeemed(t) \/ Drop(t)
  PROVE  RedeemInv'
<1>a. TypeOK /\ TapsConsistent /\ tap \in [Taps -> TapRecord] /\ told \in [Certs -> Nat]
  BY DEF TypeInv, TypeOK, TapRecord, Findings
<1>b. /\ "announced" \in Stages /\ "lost" \in Stages /\ "done" \in Stages
      /\ "redeemed" \in Answers
  BY DEF Stages, Redeeming, Answers
<1>c. /\ \A u \in Taps \ {t} : tap'[u] = tap[u]
      /\ tap'[t].found = tap[t].found /\ tap'[t].code = tap[t].code /\ tap'[t].at = tap[t].at
      /\ Announce(t) => tap'[t].pc = "announced" /\ tap'[t].answer = tap[t].answer
      /\ Drop(t) => tap'[t].pc = "lost" /\ tap'[t].answer = tap[t].answer
      /\ AnswerRedeemed(t) => tap'[t].pc = "done"
  BY <1>a, <1>b, MovedType, ReplyType DEF Announce, AnswerRedeemed, Drop
<1>d. \A c \in Certs : Redeemers(c)' = Redeemers(c)
  BY <1>c DEF Redeemers
<1>e. UNCHANGED <<stored, validUntil>>
  BY DEF Announce, AnswerRedeemed, Drop, certVars
<1>f. tap[t].pc \in Redeeming /\ tap[t].answer = None
  BY <1>a DEF Announce, AnswerRedeemed, Drop, Redeeming, TapsConsistent
<1>g. tap[t].code \in Certs
  BY <1>a, <1>f DEF TapsConsistent, Redeeming
<1>1. CASE Announce(t)
  <2>1. /\ tap[t].pc = "redeemed" /\ told' = [told EXCEPT ![tap[t].code] = @ + 1]
    BY <1>1 DEF Announce
  <2>2. tap[t].found = "redeemed"
    BY <2>1 DEF RedeemInv
  <2>3. t \in Redeemers(tap[t].code)
    BY <2>2 DEF Redeemers
  <2>4. told[tap[t].code] = 0 /\ \A u \in Redeemers(tap[t].code) : u = t
    BY <1>g, <2>1, <2>3 DEF RedeemInv
  <2>5. told'[tap[t].code] = 1 /\ \A d \in Certs \ {tap[t].code} : told'[d] = told[d]
    BY <1>a, <1>g, <2>1, <2>4
  <2>6. \A d \in Certs \ {tap[t].code} : \A u \in Redeemers(d) : u \in Taps \ {t}
    BY DEF Redeemers
  <2>7. tap[t].answer # "redeemed"
    BY <1>f, CertificateAssumption DEF Answers
  <2> QED BY <1>1, <1>c, <1>d, <1>e, <1>g, <2>2, <2>3, <2>4, <2>5, <2>6, <2>7 DEF RedeemInv
<1>2. CASE AnswerRedeemed(t)
  <2>1. tap[t].pc = "announced" /\ told' = told
    BY <1>2 DEF AnswerRedeemed, botVars
  <2>2. tap[t].found = "redeemed"
    BY <2>1 DEF RedeemInv
  <2>3. t \in Redeemers(tap[t].code)
    BY <2>2 DEF Redeemers
  <2>4. told[tap[t].code] = 1
    BY <1>g, <2>1, <2>3 DEF RedeemInv
  <2>5. \A d \in Certs : \A u \in Redeemers(d) : u = t => d = tap[t].code
    BY DEF Redeemers
  <2>6. \A d \in Certs : \A u \in Redeemers(d) : u \in Taps
    BY DEF Redeemers
  <2> QED BY <1>2, <1>c, <1>d, <1>e, <1>g, <2>1, <2>2, <2>4, <2>5, <2>6 DEF RedeemInv
<1>3. CASE Drop(t)
  <2>1. told' = told
    BY <1>3 DEF Drop, botVars
  <2>2. tap[t].answer # "redeemed"
    BY <1>f, CertificateAssumption DEF Answers
  <2>3. \A d \in Certs : \A u \in Redeemers(d) : u \in Taps
    BY DEF Redeemers
  <2> QED BY <1>3, <1>c, <1>d, <1>e, <2>1, <2>2, <2>3 DEF RedeemInv
<1> QED BY <1>1, <1>2, <1>3

LEMMA RedeemStep ==
  ASSUME TypeInv, RedeemInv, [Next]_vars
  PROVE  RedeemInv'
<1>a. TypeOK /\ TapsConsistent /\ tap \in [Taps -> TapRecord]
  BY DEF TypeInv, TypeOK, TapRecord, Findings
<1>b. None \notin {"redeemed", "not_found", "used", "expired"}
  BY CertificateAssumption DEF Answers, Found
<1> USE DEF vars, certVars, adminVars, botVars
<1>1. ASSUME UNCHANGED <<tap, stored, validUntil, told>> PROVE RedeemInv'
  BY <1>1 DEF RedeemInv, Redeemers
<1>2. CASE \/ UNCHANGED vars \/ Tick
           \/ \E v \in Venues, m \in Merchants : MoveVenue(v, m)
           \/ \E m \in Merchants, a \in Accounts : ChangeAccount(m, a)
           \/ \E r \in Runs : Wake(r) \/ Claim(r) \/ Rest(r) \/ \E c \in Certs : Remind(r, c)
  BY <1>1, <1>2 DEF Tick, MoveVenue, ChangeAccount, Wake, Claim, Rest, Remind
<1>3. ASSUME NEW c \in Certs, NEW paidAt \in 0..(clock + Skew), Issue(c, paidAt)
      PROVE  RedeemInv'
  <2>1. /\ stored[c] = "none" /\ stored'[c] = "active"
        /\ \A d \in Certs \ {c} : stored'[d] = stored[d] /\ validUntil'[d] = validUntil[d]
        /\ UNCHANGED <<tap, told>>
    BY <1>a, <1>3 DEF Issue, TypeOK
  <2>2. \A d \in Certs : Redeemers(d)' = Redeemers(d)
    BY <2>1 DEF Redeemers
  <2>3. Redeemers(c) = {}
    BY <2>1 DEF RedeemInv
  <2> QED BY <2>1, <2>2, <2>3 DEF RedeemInv
<1>4. ASSUME NEW t \in Taps, NEW w \in TapRecord, tap' = [tap EXCEPT ![t] = w],
             UNCHANGED <<stored, validUntil, told>>, tap[t] = Fresh,
             w.found = None, w.answer # "redeemed", w.pc \notin {"redeemed", "announced", "missed"}
      PROVE  RedeemInv'
  <2>1. tap'[t] = w /\ \A u \in Taps \ {t} : tap'[u] = tap[u]
    BY <1>a, <1>4
  <2> QED BY <1>b, <1>4, <2>1, FreshType, OthersKeep
<1>5. ASSUME NEW t \in Taps, NEW a \in Accounts, NEW c \in Certs, NEW pc \in {"lookup", "redeem"},
             Enter(t, a, c, pc)
      PROVE  RedeemInv'
  <2>1. tap' = [tap EXCEPT ![t] = Entered(a, c, pc)] /\ tap[t] = Fresh
        /\ UNCHANGED <<stored, validUntil, told>>
    BY <1>5 DEF Enter, Entered
  <2>2. /\ Entered(a, c, pc) \in TapRecord /\ Entered(a, c, pc).answer \in {None, "not_found"}
        /\ Entered(a, c, pc).found = None /\ Entered(a, c, pc).pc \in {pc, "done"}
    BY EnteredType
  <2> QED BY <1>4, <1>b, <2>1, <2>2
<1>6. ASSUME NEW t \in Taps, TapStep(t) PROVE RedeemInv'
  <2>a. Found \subseteq Answers /\ {"done", "shown", "missed", "updating"} \subseteq Stages
        /\ {"not_found", "already_used", "expired", "card", "unavailable"} \subseteq Answers
        /\ "redeemed" \notin Found /\ {"not_found", "used", "expired"} \subseteq Findings
    BY DEF Answers, Found, Stages, Redeeming, Findings
  <2>b. Found \subseteq Answers \ {"redeemed"}
    BY <2>a
  <2>1. ASSUME NEW p \in {"done", "shown"}, NEW v \in Answers \ {"redeemed"}, Reply(t, p, v),
               UNCHANGED <<stored, validUntil, told>>, tap[t].found # "redeemed"
        PROVE  RedeemInv'
    <3>1. /\ \A u \in Taps \ {t} : tap'[u] = tap[u]
          /\ tap'[t].answer = v /\ tap'[t].found = tap[t].found /\ tap'[t].pc = p
      BY <1>a, <2>a, <2>1, ReplyType
    <3> QED BY <2>1, <3>1, OthersKeep
  <2>2. CASE Lookup(t)
    <3>1. Find(tap[t].merchant, tap[t].code) \in Answers \ {"redeemed"}
      BY <1>a, <2>2, <2>b, FoundType DEF Lookup, TapsConsistent
    <3>2. tap[t].found # "redeemed"
      BY <1>a, <1>b, <2>2 DEF Lookup, TapsConsistent
    <3> QED BY <2>1, <2>2, <3>1, <3>2 DEF Lookup
  <2>3. CASE Begin(t)
    <3>1. /\ \A u \in Taps \ {t} : tap'[u] = tap[u]
          /\ tap'[t].answer = tap[t].answer /\ tap'[t].found = tap[t].found
          /\ tap'[t].pc = "updating"
      BY <1>a, <2>3 DEF Begin, TapRecord
    <3>2. tap[t].found = None /\ tap[t].answer = None /\ UNCHANGED <<stored, validUntil, told>>
      BY <1>a, <2>3 DEF Begin, TapsConsistent
    <3> QED BY <1>b, <3>1, <3>2, OthersKeep
  <2>4. CASE Redeem(t)
    BY <2>4, RedeemOnce
  <2>5. CASE Announce(t) \/ AnswerRedeemed(t) \/ Drop(t)
    BY <2>5, RedeemerMoves
  <2>6. CASE Miss(t)
    <3>1. PICK f \in {"not_found", "used", "expired"} : Updated(t, "missed", f)
      BY <2>6 DEF Miss, WhyNot
    <3>2. /\ \A u \in Taps \ {t} : tap'[u] = tap[u]
          /\ tap'[t].pc = "missed" /\ tap'[t].found = f /\ tap'[t].answer = tap[t].answer
      BY <1>a, <2>a, <3>1, UpdatedType
    <3>3. tap[t].found = None /\ tap[t].answer = None /\ UNCHANGED <<stored, validUntil, told>>
      BY <1>a, <2>6 DEF Miss, MatchesNothing, TapsConsistent
    <3> QED BY <1>b, <3>2, <3>3, OthersKeep
  <2>7. CASE Explain(t)
    <3>1. Reason(Find(tap[t].merchant, tap[t].code)) \in Answers \ {"redeemed"}
      BY <2>a, ReasonType
    <3>2. tap[t].found # "redeemed"
      BY <2>7 DEF Explain, RedeemInv
    <3> QED BY <2>1, <2>7, <3>1, <3>2 DEF Explain
  <2>8. CASE MakeCard(t)
    <3>1. PICK v \in {"card", "unavailable"} : Reply(t, "done", v)
      BY <2>8 DEF MakeCard
    <3>2. tap[t].found # "redeemed" /\ v \in Answers \ {"redeemed"}
      BY <1>a, <1>b, <2>8, <2>a DEF MakeCard, TapsConsistent
    <3> QED BY <2>1, <2>8, <3>1, <3>2 DEF MakeCard
  <2>9. ASSUME NEW c \in Certs, LookAtOwn(t, c) PROVE RedeemInv'
    <3> DEFINE w == [Fresh EXCEPT !.pc = "shown", !.code = c, !.answer = EffectiveStatus(c)]
    <3>1. EffectiveStatus(c) \in Found
      BY <1>a, <2>9, FoundType DEF LookAtOwn
    <3>2. /\ w \in TapRecord /\ w.found = None /\ w.pc = "shown"
          /\ w.answer = EffectiveStatus(c)
      BY <2>a, <3>1 DEF Fresh, TapRecord, Stages, Findings
    <3>3. tap' = [tap EXCEPT ![t] = w] /\ tap[t] = Fresh /\ UNCHANGED <<stored, validUntil, told>>
      BY <2>9 DEF LookAtOwn
    <3> HIDE DEF w
    <3> QED BY <1>4, <2>a, <3>1, <3>2, <3>3
  <2>10. ASSUME NEW c \in Certs, AskForCard(t, c) PROVE RedeemInv'
    <3> DEFINE w == [Fresh EXCEPT !.pc = "card", !.code = c]
               v == Reason(EffectiveStatus(c))
               d == [Fresh EXCEPT !.pc = "done", !.code = c, !.answer = v]
    <3>1. v \in {"not_found", "already_used", "expired"}
      BY ReasonType
    <3> HIDE DEF v
    <3>2. /\ w \in TapRecord /\ w.answer = None /\ w.found = None /\ w.pc = "card"
          /\ d \in TapRecord /\ d.answer = v /\ d.found = None /\ d.pc = "done"
      BY <2>a, <3>1 DEF Fresh, TapRecord, Stages, Findings
    <3>3. /\ tap' = [tap EXCEPT ![t] = w] \/ tap' = [tap EXCEPT ![t] = d]
          /\ tap[t] = Fresh /\ UNCHANGED <<stored, validUntil, told>>
      BY <2>10 DEF AskForCard, v
    <3> HIDE DEF w, d
    <3>4. CASE tap' = [tap EXCEPT ![t] = w]
      BY <1>4, <1>b, <3>2, <3>3, <3>4
    <3>5. CASE tap' = [tap EXCEPT ![t] = d]
      BY <1>4, <3>1, <3>2, <3>3, <3>5
    <3> QED BY <3>3, <3>4, <3>5
  <2> QED BY <1>6, <2>2, <2>3, <2>4, <2>5, <2>6, <2>7, <2>8, <2>9, <2>10 DEF TapStep
<1> QED BY <1>2, <1>3, <1>5, <1>6 DEF Next

-------------------------------------------------------------------------------
(* A refusal is true.                                                        *)

\* A certificate that is there stays, with its end; used stays used; time passes.
Forward ==
  /\ clock \in Nat /\ clock' \in Nat /\ clock <= clock'
  /\ \A c \in Certs :
       /\ stored[c] # "none" => stored'[c] # "none" /\ validUntil'[c] = validUntil[c]
       /\ stored[c] = "used" => stored'[c] = "used"

LEMMA TimePasses ==
  ASSUME TypeInv, [Next]_vars
  PROVE  Forward
<1>a. /\ stored \in [Certs -> {"none", "active", "used"}] /\ clock \in Nat
      /\ validUntil \in [Certs -> Nat] /\ TapsConsistent
  BY CertificateAssumption DEF TypeInv, TypeOK
<1> USE DEF vars, certVars, adminVars, botVars, Forward
<1>0. ASSUME UNCHANGED <<stored, validUntil>>, clock' \in {clock, clock + 1} PROVE Forward
  BY <1>a, <1>0
<1> HIDE DEF Forward
<1>1. CASE \/ UNCHANGED vars \/ Tick
           \/ \E v \in Venues, m \in Merchants : MoveVenue(v, m)
           \/ \E m \in Merchants, a \in Accounts : ChangeAccount(m, a)
           \/ \E r \in Runs : Wake(r) \/ Claim(r) \/ Rest(r) \/ \E c \in Certs : Remind(r, c)
           \/ \E t \in Taps, a \in Accounts, c \in Certs, pc \in {"lookup", "redeem"} :
                Enter(t, a, c, pc)
  BY <1>0, <1>1 DEF Tick, MoveVenue, ChangeAccount, Wake, Claim, Rest, Remind, Enter
<1>2. ASSUME NEW c \in Certs, NEW paidAt \in 0..(clock + Skew), Issue(c, paidAt) PROVE Forward
  BY <1>a, <1>2 DEF Issue, Forward
<1>3. ASSUME NEW t \in Taps, TapStep(t) PROVE Forward
  <2>1. CASE Redeem(t)
    BY <1>a, <2>1 DEF Redeem, Forward
  <2>2. CASE \/ Lookup(t) \/ Begin(t) \/ Miss(t) \/ Explain(t) \/ MakeCard(t)
             \/ Announce(t) \/ AnswerRedeemed(t) \/ Drop(t)
             \/ \E c \in Certs : LookAtOwn(t, c) \/ AskForCard(t, c)
    BY <1>0, <2>2 DEF Lookup, Begin, Miss, Explain, MakeCard, LookAtOwn, AskForCard, Announce,
                      AnswerRedeemed, Drop
  <2> QED BY <1>3, <2>1, <2>2 DEF TapStep
<1> QED BY <1>1, <1>2, <1>3 DEF Next

LEMMA RefusalStep ==
  ASSUME TypeInv, RedeemInv, RefusalInv, [Next]_vars
  PROVE  RefusalInv'
<1>a. TypeOK /\ TapsConsistent /\ tap \in [Taps -> TapRecord] /\ validUntil \in [Certs -> Nat]
      /\ clock \in Nat
  BY CertificateAssumption DEF TypeInv, TypeOK, TapRecord, Findings
<1>b. None \notin {"redeemed", "not_found", "used", "expired", "already_used"}
  BY CertificateAssumption DEF Answers, Found
<1>f. Forward
  BY TimePasses
<1> USE DEF vars, certVars, adminVars, botVars
<1>1. ASSUME NEW t \in Taps, tap'[t] = tap[t] PROVE Refused(t)'
  <2>1. Refused(t)
    BY DEF RefusalInv
  <2>2. tap[t].pc = "missed" \/ tap[t].answer \in {"already_used", "used", "expired"} =>
          tap[t].code \in Certs
    BY <1>a, <1>b DEF TapsConsistent
  <2>3. tap[t].at \in Nat
    BY <1>a DEF TapRecord
  <2> QED BY <1>1, <1>a, <1>f, <2>1, <2>2, <2>3 DEF Refused, Forward
<1>2. ASSUME UNCHANGED tap PROVE RefusalInv'
  BY <1>1, <1>2 DEF RefusalInv
<1>3. ASSUME NEW t \in Taps, \A u \in Taps \ {t} : tap'[u] = tap[u], Refused(t)'
      PROVE  RefusalInv'
  BY <1>1, <1>3 DEF RefusalInv
<1>4. CASE \/ UNCHANGED vars \/ Tick
           \/ \E c \in Certs, paidAt \in 0..(clock + Skew) : Issue(c, paidAt)
           \/ \E v \in Venues, m \in Merchants : MoveVenue(v, m)
           \/ \E m \in Merchants, a \in Accounts : ChangeAccount(m, a)
           \/ \E r \in Runs : Wake(r) \/ Claim(r) \/ Rest(r) \/ \E c \in Certs : Remind(r, c)
  BY <1>2, <1>4 DEF Tick, Issue, MoveVenue, ChangeAccount, Wake, Claim, Rest, Remind
<1>5. ASSUME NEW t \in Taps, NEW w \in TapRecord, tap' = [tap EXCEPT ![t] = w],
             UNCHANGED <<stored, validUntil, clock>>, w.pc \in {"lookup", "redeem", "shown", "done", "card"},
             w.answer \in {"already_used", "used"} => stored[w.code] = "used",
             w.answer = "expired" => stored[w.code] # "none" /\ validUntil[w.code] <= clock
      PROVE  RefusalInv'
  <2>1. tap'[t] = w /\ \A u \in Taps \ {t} : tap'[u] = tap[u]
    BY <1>a, <1>5
  <2>2. Refused(t)'
    BY <1>5, <2>1 DEF Refused
  <2> QED BY <1>3, <2>1, <2>2
<1>6. ASSUME NEW t \in Taps, NEW a \in Accounts, NEW c \in Certs, NEW pc \in {"lookup", "redeem"},
             Enter(t, a, c, pc)
      PROVE  RefusalInv'
  <2>1. tap' = [tap EXCEPT ![t] = Entered(a, c, pc)] /\ UNCHANGED <<stored, validUntil, clock>>
    BY <1>6 DEF Enter, Entered
  <2>2. /\ Entered(a, c, pc) \in TapRecord /\ Entered(a, c, pc).answer \in {None, "not_found"}
        /\ Entered(a, c, pc).pc \in {pc, "done"}
    BY EnteredType
  <2> QED BY <1>5, <1>b, <2>1, <2>2
<1>7. ASSUME NEW t \in Taps, TapStep(t) PROVE RefusalInv'
  <2>a. Found \subseteq Answers /\ {"done", "shown", "missed", "announced", "lost"} \subseteq Stages
        /\ {"not_found", "already_used", "expired", "card", "unavailable", "redeemed"} \subseteq Answers
        /\ {"not_found", "used", "expired", "redeemed"} \subseteq Findings /\ "redeemed" \in Stages
    BY DEF Answers, Found, Stages, Redeeming, Findings
  <2>e. \A c \in Certs : EffectiveStatus(c) = "expired" =>
          stored[c] # "none" /\ validUntil[c] <= clock
    BY <1>a DEF EffectiveStatus, TypeOK
  <2>u. \A c \in Certs : EffectiveStatus(c) = "used" => stored[c] = "used"
    BY DEF EffectiveStatus
  <2>1. ASSUME NEW p \in {"done", "shown"}, NEW v \in Answers, Reply(t, p, v),
               UNCHANGED <<stored, validUntil, clock>>,
               v \in {"already_used", "used"} => stored[tap[t].code] = "used",
               v = "expired" /\ tap[t].found # "not_found" =>
                 stored[tap[t].code] # "none" /\ validUntil[tap[t].code] <= clock
        PROVE  RefusalInv'
    <3>1. /\ \A u \in Taps \ {t} : tap'[u] = tap[u]
          /\ tap'[t].code = tap[t].code /\ tap'[t].answer = v /\ tap'[t].found = tap[t].found /\ tap'[t].pc = p
      BY <1>a, <2>a, <2>1, ReplyType
    <3>2. Refused(t)'
      BY <2>1, <3>1 DEF Refused
    <3> QED BY <1>3, <3>1, <3>2
  <2>2. CASE Lookup(t)
    <3> DEFINE f == Find(tap[t].merchant, tap[t].code)
    <3>1. f \in Found /\ f \in Answers /\ tap[t].code \in Certs
      BY <1>a, <2>2, <2>a, FoundType DEF Lookup, TapsConsistent
    <3>2. f # "already_used" /\ (f = "used" => stored[tap[t].code] = "used")
          /\ (f = "expired" => stored[tap[t].code] # "none" /\ validUntil[tap[t].code] <= clock)
      BY <3>1, <2>e, <2>u DEF Find, Found
    <3>3. Reply(t, "shown", f) /\ UNCHANGED <<stored, validUntil, clock>>
      BY <2>2 DEF Lookup
    <3> HIDE DEF f
    <3> QED BY <2>1, <3>1, <3>2, <3>3
  <2>3. CASE Begin(t)
    <3>1. /\ \A u \in Taps \ {t} : tap'[u] = tap[u]
          /\ tap'[t].answer = tap[t].answer /\ tap'[t].pc = "updating" /\ tap'[t].at = clock
          /\ clock' = clock
      BY <1>a, <2>3 DEF Begin, TapRecord
    <3>2. tap[t].answer = None
      BY <1>a, <2>3 DEF Begin, TapsConsistent
    <3>3. Refused(t)'
      BY <1>a, <1>b, <3>1, <3>2 DEF Refused
    <3> QED BY <1>3, <3>1, <3>3
  <2>4. CASE Redeem(t) \/ Announce(t) \/ Drop(t)
    <3>1. Redeem(t) => Updated(t, "redeemed", "redeemed") /\ tap[t].pc = "updating"
      BY DEF Redeem, Matches
    <3>2. Announce(t) \/ Drop(t) =>
            tap[t].pc \in Redeeming /\ \E p \in {"announced", "lost"} : tap' = [tap EXCEPT ![t].pc = p]
      BY DEF Announce, Drop, Redeeming
    <3>3. tap[t].answer = None
      BY <1>a, <2>4, <3>1, <3>2 DEF TapsConsistent, Redeeming
    <3>4. /\ \A u \in Taps \ {t} : tap'[u] = tap[u]
          /\ tap'[t].pc \in {"redeemed", "announced", "lost"} /\ tap'[t].answer = tap[t].answer
      BY <1>a, <2>4, <2>a, <3>1, <3>2, UpdatedType, MovedType
    <3>5. Refused(t)'
      BY <1>b, <3>3, <3>4 DEF Refused
    <3> QED BY <1>3, <3>4, <3>5
  <2>5. CASE AnswerRedeemed(t)
    BY <2>1, <2>5, <2>a DEF AnswerRedeemed
  <2>6. CASE Miss(t)
    <3> DEFINE c == tap[t].code
               f == WhyNot(tap[t].merchant, c)
    <3>1. f \in {"not_found", "used", "expired"} /\ Updated(t, "missed", f)
          /\ tap[t].pc = "updating" /\ UNCHANGED <<stored, validUntil, clock>>
      BY <2>6 DEF Miss, MatchesNothing, WhyNot
    <3>2. c \in Certs /\ tap[t].answer = None /\ tap[t].at \in Nat /\ tap[t].at <= clock
      BY <1>a, <3>1 DEF TapsConsistent, TapRecord, RefusalInv, Refused
    <3>3. f = "used" => stored[c] = "used"
      BY DEF WhyNot
    <3>4. f = "expired" => stored[c] = "active" /\ ~(validUntil[c] > tap[t].at)
      <4>1. stored[c] \in {"none", "active", "used"}
        BY <1>a, <3>2 DEF TypeOK
      <4> QED BY <2>6, <4>1 DEF Miss, MatchesNothing, Redeemable, WhyNot
    <3>5. f = "expired" => stored[c] # "none" /\ validUntil[c] <= clock
      <4>1. validUntil[c] \in Nat
        BY <1>a, <3>2
      <4> QED BY <1>a, <3>2, <3>4, <4>1
    <3>6. /\ \A u \in Taps \ {t} : tap'[u] = tap[u]
          /\ tap'[t].pc = "missed" /\ tap'[t].found = f /\ tap'[t].answer = tap[t].answer
          /\ tap'[t].code = c
      BY <1>a, <2>a, <3>1, UpdatedType
    <3> HIDE DEF f, c
    <3>7. Refused(t)'
      BY <1>b, <3>1, <3>2, <3>3, <3>5, <3>6 DEF Refused
    <3> QED BY <1>3, <3>6, <3>7
  <2>7. CASE Explain(t)
    <3> DEFINE f == Find(tap[t].merchant, tap[t].code)
               v == Reason(f)
    <3>1. v \in Answers /\ v # "used" /\ Reply(t, "done", v) /\ tap[t].pc = "missed"
          /\ UNCHANGED <<stored, validUntil, clock>>
      BY <2>7, <2>a, ReasonType DEF Explain
    <3>2. tap[t].code \in Certs /\ tap[t].found \in {"not_found", "used", "expired"}
      BY <1>a, <3>1 DEF TapsConsistent, RedeemInv
    <3>3. v = "already_used" => stored[tap[t].code] = "used"
      BY <2>u, <3>2 DEF Reason, Find
    <3>4. tap[t].found = "used" => v # "expired"
      <4>1. tap[t].found = "used" => stored[tap[t].code] = "used"
        BY <3>1 DEF RefusalInv, Refused
      <4> QED BY <4>1 DEF Reason, Find, EffectiveStatus
    <3>5. tap[t].found = "expired" =>
            stored[tap[t].code] # "none" /\ validUntil[tap[t].code] <= clock
      BY <3>1 DEF RefusalInv, Refused
    <3> HIDE DEF f, v
    <3> QED BY <2>1, <3>1, <3>2, <3>3, <3>4, <3>5
  <2>8. CASE MakeCard(t)
    <3>1. PICK v \in {"card", "unavailable"} : Reply(t, "done", v)
      BY <2>8 DEF MakeCard
    <3> QED BY <2>1, <2>8, <2>a, <3>1 DEF MakeCard
  <2>9. ASSUME NEW c \in Certs, LookAtOwn(t, c) PROVE RefusalInv'
    <3> DEFINE w == [Fresh EXCEPT !.pc = "shown", !.code = c, !.answer = EffectiveStatus(c)]
    <3>1. EffectiveStatus(c) \in Found
      BY <1>a, <2>9, FoundType DEF LookAtOwn
    <3>2. /\ w \in TapRecord /\ w.pc = "shown" /\ w.code = c
          /\ w.answer = EffectiveStatus(c)
      BY <2>a, <3>1 DEF Fresh, TapRecord, Stages, Findings
    <3>3. tap' = [tap EXCEPT ![t] = w] /\ UNCHANGED <<stored, validUntil, clock>>
      BY <2>9 DEF LookAtOwn
    <3>4. EffectiveStatus(c) # "already_used"
      BY <3>1 DEF Found
    <3> HIDE DEF w
    <3> QED BY <1>5, <2>e, <2>u, <3>2, <3>3, <3>4
  <2>10. ASSUME NEW c \in Certs, AskForCard(t, c) PROVE RefusalInv'
    <3> DEFINE w == [Fresh EXCEPT !.pc = "card", !.code = c]
               v == Reason(EffectiveStatus(c))
               d == [Fresh EXCEPT !.pc = "done", !.code = c, !.answer = v]
    <3>1. v \in {"not_found", "already_used", "expired"}
      BY ReasonType
    <3>2. /\ v = "already_used" => stored[c] = "used"
          /\ EffectiveStatus(c) # "active" /\ v = "expired" =>
               stored[c] # "none" /\ validUntil[c] <= clock
      <4>1. stored[c] # "none" /\ EffectiveStatus(c) \in Found
        BY <1>a, <2>10, FoundType DEF AskForCard
      <4> QED BY <2>e, <2>u, <4>1 DEF Reason, Found
    <3> HIDE DEF v
    <3>3. /\ w \in TapRecord /\ w.answer = None /\ w.pc = "card"
          /\ d \in TapRecord /\ d.answer = v /\ d.pc = "done" /\ d.code = c
      BY <2>a, <3>1 DEF Fresh, TapRecord, Stages, Findings
    <3>4. /\ \/ tap' = [tap EXCEPT ![t] = w]
             \/ tap' = [tap EXCEPT ![t] = d] /\ EffectiveStatus(c) # "active"
          /\ UNCHANGED <<stored, validUntil, clock>>
      BY <2>10 DEF AskForCard, v
    <3> HIDE DEF w, d
    <3>5. CASE tap' = [tap EXCEPT ![t] = w]
      BY <1>5, <1>b, <3>3, <3>4, <3>5
    <3>6. CASE tap' = [tap EXCEPT ![t] = d] /\ EffectiveStatus(c) # "active"
      BY <1>5, <3>1, <3>2, <3>3, <3>4, <3>6
    <3> QED BY <3>4, <3>5, <3>6
  <2> QED BY <1>7, <2>2, <2>3, <2>4, <2>5, <2>6, <2>7, <2>8, <2>9, <2>10 DEF TapStep
<1> QED BY <1>4, <1>6, <1>7 DEF Next

-------------------------------------------------------------------------------
(* A certificate is reminded of once.                                        *)

LEMMA ClaimStep ==
  ASSUME TypeInv, ClaimInv, [Next]_vars
  PROVE  ClaimInv'
<1>a. /\ TypeOK /\ stored \in [Certs -> {"none", "active", "used"}]
      /\ remindedAt \in [Certs -> Nat \cup {None}] /\ reminders \in [Certs -> Nat]
      /\ run \in [Runs -> [pc : {"idle", "claiming", "sending"}, now : Nat, claimed : SUBSET Certs]]
      /\ TapsConsistent /\ None \notin Nat
  BY CertificateAssumption DEF TypeInv, TypeOK
<1> USE DEF vars, certVars, adminVars, botVars
<1>1. ASSUME UNCHANGED <<remindedAt, run, reminders>>,
             \A c \in Certs : stored[c] # "none" =>
               stored'[c] # "none" /\ validUntil'[c] = validUntil[c]
      PROVE  ClaimInv'
  BY <1>1 DEF ClaimInv
<1>2. CASE \/ UNCHANGED vars \/ Tick
           \/ \E v \in Venues, m \in Merchants : MoveVenue(v, m)
           \/ \E m \in Merchants, a \in Accounts : ChangeAccount(m, a)
           \/ \E t \in Taps, a \in Accounts, c \in Certs, pc \in {"lookup", "redeem"} :
                Enter(t, a, c, pc)
  BY <1>1, <1>2 DEF Tick, MoveVenue, ChangeAccount, Enter
<1>3. ASSUME NEW c \in Certs, NEW paidAt \in 0..(clock + Skew), Issue(c, paidAt) PROVE ClaimInv'
  BY <1>a, <1>1, <1>3 DEF Issue, TypeOK
<1>4. ASSUME NEW t \in Taps, TapStep(t) PROVE ClaimInv'
  <2>1. CASE Redeem(t)
    BY <1>a, <1>1, <2>1 DEF Redeem
  <2>2. CASE \/ Lookup(t) \/ Begin(t) \/ Miss(t) \/ Explain(t) \/ MakeCard(t)
             \/ Announce(t) \/ AnswerRedeemed(t) \/ Drop(t)
             \/ \E c \in Certs : LookAtOwn(t, c) \/ AskForCard(t, c)
    BY <1>1, <2>2 DEF Lookup, Begin, Miss, Explain, MakeCard, LookAtOwn, AskForCard, Announce,
                      AnswerRedeemed, Drop
  <2> QED BY <1>4, <2>1, <2>2 DEF TapStep
<1>5. ASSUME NEW r \in Runs, Wake(r) \/ Rest(r) PROVE ClaimInv'
  <2>1. /\ run'[r].claimed = {} /\ \A s \in Runs \ {r} : run'[s] = run[s]
        /\ UNCHANGED <<stored, validUntil, remindedAt, reminders>>
    BY <1>a, <1>5 DEF Wake, Rest, Asleep
  <2>2. \A s \in Runs, c \in Certs : c \in run'[s].claimed => s # r /\ run'[s] = run[s]
    BY <2>1
  <2> QED BY <2>1, <2>2 DEF ClaimInv
<1>6. ASSUME NEW r \in Runs, Claim(r) PROVE ClaimInv'
  <2>1. PICK S \in SUBSET Soon(run[r].now) :
          /\ remindedAt' = [c \in Certs |-> IF c \in S THEN run[r].now ELSE remindedAt[c]]
          /\ run' = [run EXCEPT ![r].pc = "sending", ![r].claimed = S]
    BY <1>6 DEF Claim
  <2>2. run[r].pc = "claiming" /\ UNCHANGED <<stored, validUntil, reminders>>
    BY <1>6 DEF Claim
  <2>3. /\ run'[r].pc = "sending" /\ run'[r].claimed = S
        /\ \A s \in Runs \ {r} : run'[s] = run[s]
        /\ \A c \in Certs : remindedAt'[c] = IF c \in S THEN run[r].now ELSE remindedAt[c]
    BY <1>a, <2>1
  <2>4. \A c \in Certs : c \in S =>
          /\ stored[c] # "none" /\ remindedAt[c] = None
          /\ run[r].now < validUntil[c] /\ validUntil[c] <= run[r].now + Window
    BY <1>a, <2>1 DEF Soon, Unreminded, TypeOK
  <2>5. run[r].now # None
    BY <1>a
  <2>6. \A c \in Certs : c \in S => reminders[c] = 0 /\ \A s \in Runs : c \notin run[s].claimed
    BY <2>4 DEF ClaimInv
  <2>7. \A c \in Certs : c \notin run[r].claimed
    BY <2>2 DEF ClaimInv
  <2> SUFFICES ASSUME NEW c \in Certs
               PROVE  /\ remindedAt'[c] # None =>
                           /\ stored[c] # "none"
                           /\ remindedAt'[c] < validUntil[c]
                           /\ validUntil[c] <= remindedAt'[c] + Window
                      /\ reminders[c] \in {0, 1}
                      /\ reminders[c] = 1 => remindedAt'[c] # None
                      /\ \A q \in Runs : c \in run'[q].claimed =>
                           /\ remindedAt'[c] # None /\ reminders[c] = 0 /\ run'[q].pc = "sending"
                           /\ \A s \in Runs : c \in run'[s].claimed => s = q
    BY <2>2 DEF ClaimInv
  <2>8. CASE c \in S
    <3>1. \A q \in Runs : c \in run'[q].claimed => q = r
      BY <2>3, <2>6, <2>8
    <3> QED BY <2>3, <2>4, <2>5, <2>6, <2>8, <3>1
  <2>9. CASE c \notin S
    <3>1. /\ remindedAt'[c] = remindedAt[c]
          /\ \A q \in Runs : c \in run'[q].claimed => q # r /\ run'[q] = run[q]
      BY <2>3, <2>9
    <3> QED BY <3>1 DEF ClaimInv
  <2> QED BY <2>8, <2>9
<1>7. ASSUME NEW r \in Runs, NEW d \in Certs, Remind(r, d) PROVE ClaimInv'
  <2>1. /\ d \in run[r].claimed
        /\ run'[r].claimed = run[r].claimed \ {d} /\ run'[r].pc = run[r].pc
        /\ \A s \in Runs \ {r} : run'[s] = run[s]
        /\ \A c \in Certs : reminders'[c] = IF c = d THEN reminders[c] + 1 ELSE reminders[c]
        /\ UNCHANGED <<stored, validUntil, remindedAt>>
    BY <1>a, <1>7 DEF Remind
  <2>2. reminders[d] = 0 /\ remindedAt[d] # None /\ \A s \in Runs : d \in run[s].claimed => s = r
    BY <2>1 DEF ClaimInv
  <2>3. \A s \in Runs, c \in Certs : c \in run'[s].claimed =>
          c # d /\ c \in run[s].claimed /\ run'[s].pc = run[s].pc
    BY <2>1, <2>2
  <2> QED BY <2>1, <2>2, <2>3 DEF ClaimInv
<1> QED BY <1>2, <1>3, <1>4, <1>5, <1>6, <1>7 DEF Next

-------------------------------------------------------------------------------
(* The theorems.                                                             *)

LEMMA CertHolds == Spec => []CertInv
<1>1. Init => CertInv
  <2> SUFFICES ASSUME Init PROVE CertInv
    OBVIOUS
  <2>1. TypeInv
    BY TypeInit
  <2>2. \A c \in Certs : Redeemers(c) = {} /\ stored[c] = "none" /\ told[c] = 0
    BY CertificateAssumption DEF Init, Redeemers, Fresh, Answers
  <2>3. RedeemInv
    BY <2>2, CertificateAssumption DEF RedeemInv, Init, Fresh, Answers
  <2>5. RefusalInv
    BY CertificateAssumption DEF RefusalInv, Refused, Init, Fresh, Answers, Found
  <2>4. ClaimInv
    BY DEF ClaimInv, Init, Asleep
  <2> QED BY <2>1, <2>3, <2>4, <2>5 DEF CertInv
<1>2. CertInv /\ [Next]_vars => CertInv'
  BY TypeStep, RedeemStep, RefusalStep, ClaimStep DEF CertInv
<1> QED BY <1>1, <1>2, PTL DEF Spec

\* Every column, request and run holds what it can hold.
THEOREM CertificateTypesHold == Spec => []TypeOK
<1>1. CertInv => TypeOK
  BY DEF CertInv, TypeInv
<1> QED BY <1>1, CertHolds, PTL

\* However many cashiers tap at once, and wherever the app dies between the UPDATE,
\* the notice to the owner and the answer: a certificate is used if and only if one
\* request redeemed it, in time; only that request is answered so; and the owner is
\* told at most once, only of a used certificate, before the cashier is answered.
THEOREM RedeemedOnceHolds == Spec => []RedeemedOnce
<1>1. CertInv => RedeemedOnce
  <2> SUFFICES ASSUME CertInv, NEW c \in Certs
               PROVE  /\ Cardinality(Redeemers(c)) = IF stored[c] = "used" THEN 1 ELSE 0
                      /\ \A t \in Redeemers(c) : tap[t].at < validUntil[c]
                      /\ \A t \in Taps : tap[t].code = c /\ tap[t].answer = "redeemed" =>
                           t \in Redeemers(c) /\ told[c] = 1
                      /\ told[c] <= Cardinality(Redeemers(c))
    BY DEF RedeemedOnce
  <2>a. RedeemInv
    BY DEF CertInv
  <2>b. \A t \in Redeemers(c) : tap[t].at < validUntil[c]
    BY <2>a DEF RedeemInv
  <2>c. ASSUME NEW t \in Taps, tap[t].code = c, tap[t].answer = "redeemed"
        PROVE  t \in Redeemers(c) /\ told[c] = 1
    <3>1. tap[t].found = "redeemed" /\ tap[t].pc = "done"
      BY <2>a, <2>c DEF RedeemInv
    <3>2. t \in Redeemers(c)
      BY <2>c, <3>1 DEF Redeemers
    <3> QED BY <2>a, <3>1, <3>2 DEF RedeemInv
  <2>1. CASE stored[c] = "used"
    <3>1. PICK t : t \in Redeemers(c)
      BY <2>a, <2>1 DEF RedeemInv
    <3>2. Redeemers(c) = {t}
      BY <2>a, <3>1 DEF RedeemInv
    <3>3. Cardinality(Redeemers(c)) = 1
      BY <3>2, FS_Singleton
    <3>4. told[c] \in {0, 1}
      BY <2>a DEF RedeemInv
    <3> QED BY <2>b, <2>c, <2>1, <3>3, <3>4
  <2>2. CASE stored[c] # "used"
    <3>1. Redeemers(c) = {}
      BY <2>a, <2>2 DEF RedeemInv
    <3>2. Cardinality(Redeemers(c)) = 0
      BY <3>1, FS_EmptySet
    <3>3. told[c] = 0
      BY <2>a, <3>1 DEF RedeemInv
    <3> QED BY <2>b, <2>c, <2>2, <3>2, <3>3
  <2> QED BY <2>1, <2>2
<1> QED BY <1>1, CertHolds, PTL

\* No cashier is told "already used" of a certificate that is not used; none is told
\* "expired" of one before its end, unless the certificate became his, or came to
\* be, between the UPDATE that failed and the statement that says why.
THEOREM RefusalsAreTrueHolds == Spec => []RefusalsAreTrue
<1>1. CertInv => RefusalsAreTrue
  BY DEF CertInv, RefusalInv, Refused, RefusalsAreTrue
<1> QED BY <1>1, CertHolds, PTL

\* Overlapping runs, and runs that die half-way, remind of a certificate at most
\* once, and only of one claimed while its end was near and not past.
THEOREM RemindedOnceHolds == Spec => []RemindedOnce
<1>1. CertInv => RemindedOnce
  <2> SUFFICES ASSUME CertInv, NEW c \in Certs
               PROVE  /\ reminders[c] <= 1
                      /\ reminders[c] + Cardinality({r \in Runs : c \in run[r].claimed}) <= 1
                      /\ reminders[c] = 1 => /\ remindedAt[c] # None
                                             /\ remindedAt[c] < validUntil[c]
                                             /\ validUntil[c] <= remindedAt[c] + Window
    BY DEF RemindedOnce
  <2> DEFINE R == {r \in Runs : c \in run[r].claimed}
  <2>a. ClaimInv
    BY DEF CertInv
  <2>1. CASE R = {}
    <3>1. Cardinality(R) = 0
      BY <2>1, FS_EmptySet
    <3> HIDE DEF R
    <3> QED BY <2>a, <3>1 DEF ClaimInv, R
  <2>2. CASE R # {}
    <3>1. PICK r : r \in R
      BY <2>2
    <3>2. R = {r} /\ reminders[c] = 0
      BY <2>a, <3>1 DEF ClaimInv
    <3>3. Cardinality(R) = 1
      BY <3>2, FS_Singleton
    <3> QED BY <3>2, <3>3
  <2> QED BY <2>1, <2>2
<1> QED BY <1>1, CertHolds, PTL

\* No step brings a certificate back from used, nor from expired but for a
\* redemption whose UPDATE began in time, whatever administrators do meanwhile.
THEOREM EndsAreFinalHolds == Spec => EndsAreFinal
<1> DEFINE Final == \A c \in Certs :
             /\ EffectiveStatus(c) = "used" => EffectiveStatus(c)' = "used"
             /\ EffectiveStatus(c) = "expired" =>
                  \/ EffectiveStatus(c)' = "expired"
                  \/ EffectiveStatus(c)' = "used" /\ \E t \in Taps : InTime(t, c)
<1>1. ASSUME CertInv, [Next]_vars PROVE [Final]_vars
  <2>a. TypeOK /\ TapsConsistent /\ stored \in [Certs -> {"none", "active", "used"}]
        /\ validUntil \in [Certs -> Nat] /\ tap \in [Taps -> TapRecord] /\ clock \in Nat
    BY <1>1, CertificateAssumption DEF CertInv, TypeInv, TypeOK, TapRecord, Findings
  <2> USE DEF vars, certVars, adminVars, botVars
  <2>1. CASE UNCHANGED vars
    BY <2>1
  <2>2. ASSUME UNCHANGED <<stored, validUntil>>, clock' \in {clock, clock + 1} PROVE Final
    BY <2>a, <2>2 DEF EffectiveStatus
  <2>3. CASE \/ Tick
             \/ \E v \in Venues, m \in Merchants : MoveVenue(v, m)
             \/ \E m \in Merchants, a \in Accounts : ChangeAccount(m, a)
             \/ \E t \in Taps, a \in Accounts, c \in Certs, pc \in {"lookup", "redeem"} :
                  Enter(t, a, c, pc)
             \/ \E r \in Runs : Wake(r) \/ Claim(r) \/ Rest(r) \/ \E c \in Certs : Remind(r, c)
    BY <2>2, <2>3 DEF Tick, MoveVenue, ChangeAccount, Enter, Wake, Claim, Rest, Remind
  <2>4. ASSUME NEW c \in Certs, NEW paidAt \in 0..(clock + Skew), Issue(c, paidAt) PROVE Final
    <3>1. /\ stored[c] = "none" /\ clock' = clock
          /\ \A d \in Certs \ {c} : stored'[d] = stored[d] /\ validUntil'[d] = validUntil[d]
      BY <2>a, <2>4 DEF Issue
    <3> QED BY <3>1 DEF EffectiveStatus
  <2>5. ASSUME NEW t \in Taps, TapStep(t) PROVE Final
    <3>1. CASE Redeem(t)
      <4>c. PICK c \in Certs : c = tap[t].code
        BY <2>a, <3>1 DEF Redeem, Matches, TapsConsistent
      <4>1. /\ tap[t].pc = "updating" /\ tap[t].at < validUntil[c] /\ stored[c] = "active"
        BY <2>a, <3>1, <4>c DEF Redeem, Matches, Redeemable, TapRecord
      <4>2. /\ stored'[c] = "used" /\ validUntil' = validUntil /\ clock' = clock
            /\ \A d \in Certs \ {c} : stored'[d] = stored[d]
        BY <2>a, <3>1, <4>c DEF Redeem
      <4>3. InTime(t, c)
        BY <4>c, <4>1 DEF InTime
      <4> QED BY <4>1, <4>2, <4>3 DEF EffectiveStatus
    <3>2. CASE \/ Lookup(t) \/ Begin(t) \/ Miss(t) \/ Explain(t) \/ MakeCard(t)
               \/ Announce(t) \/ AnswerRedeemed(t) \/ Drop(t)
               \/ \E c \in Certs : LookAtOwn(t, c) \/ AskForCard(t, c)
      BY <2>2, <3>2 DEF Lookup, Begin, Miss, Explain, MakeCard, LookAtOwn, AskForCard, Announce,
                        AnswerRedeemed, Drop
    <3> QED BY <2>5, <3>1, <3>2 DEF TapStep
  <2> QED BY <1>1, <2>1, <2>3, <2>4, <2>5 DEF Next
<1> QED BY <1>1, CertHolds, PTL DEF Spec, EndsAreFinal
===============================================================================
