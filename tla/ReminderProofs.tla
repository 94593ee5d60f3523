----------------------------- MODULE ReminderProofs ----------------------------
(***************************************************************************)
(* Theorems about PayoutReminder for any number of runs, administrators,   *)
(* sales and weeks, any instants and any bounds, and about the payout      *)
(* weeks it counts by.                                                     *)
(***************************************************************************)
EXTENDS PayoutReminder, PayoutsProofs

-------------------------------------------------------------------------------
(* The payout weeks, for every instant.                                      *)

\* Every sale falls in exactly one payout week, the one of its date in Bishkek:
\* the two ways the code has to tell (IN_PERIOD on the instant, weekOf on the
\* date) agree at every hour, also between midnight in Bishkek and in UTC.
THEOREM WeeksPartition ==
  ASSUME NEW t \in Int, NEW w \in Mondays
  PROVE  InPeriod(t, w, w + 6) <=> WeekOf(DateOf(t)) = w
<1>1. w \in Int /\ w % 7 = 0
  BY DEF Mondays
<1>2. InPeriod(t, w, w + 6) <=> (w <= DateOf(t) /\ DateOf(t) < w + 7)
  BY <1>1 DEF InPeriod, DateOf, Local, BISHKEK_OFFSET
<1>3. DateOf(t) \in Int
  BY DEF DateOf, Local, BISHKEK_OFFSET
<1>4. \A d \in Int : (w <= d /\ d < w + 7) <=> d - (d % 7) = w
  BY <1>1
<1> QED
  BY <1>2, <1>3, <1>4 DEF WeekOf

\* The Monday reminder tells of the week before, and nothing paid from then on
\* can fall in it: the amounts told are complete but for late webhooks.
THEOREM ReminderWeekIsOver ==
  ASSUME NEW t \in Int, ReminderTime(t)
  PROVE  /\ ReminderWeek(t) = DateOf(t) - 7
         /\ ReminderWeek(t) \in Mondays
         /\ \A u \in Int : u >= t => ~InPeriod(u, ReminderWeek(t), ReminderWeek(t) + 6)
<1>1. DateOf(t) \in Int /\ DateOf(t) % 7 = 0
  BY DEF ReminderTime, Mondays, DateOf, Local, BISHKEK_OFFSET
<1>2. DateOf(t - 7 * 24) = DateOf(t) - 7
  BY DEF DateOf, Local, BISHKEK_OFFSET
<1>3. (DateOf(t) - 7) % 7 = 0
  BY <1>1
<1>4. ReminderWeek(t) = DateOf(t) - 7
  BY <1>1, <1>2, <1>3 DEF ReminderWeek, WeekOf
<1>5. ReminderWeek(t) \in Mondays
  BY <1>1, <1>3, <1>4 DEF Mondays
<1>6. t >= DateOf(t) * 24 - BISHKEK_OFFSET
  BY DEF DateOf, Local, BISHKEK_OFFSET
<1>7. ASSUME NEW u \in Int, u >= t
      PROVE  ~InPeriod(u, ReminderWeek(t), ReminderWeek(t) + 6)
  BY <1>1, <1>4, <1>6, <1>7 DEF InPeriod, BISHKEK_OFFSET
<1> QED
  BY <1>4, <1>5, <1>7

-------------------------------------------------------------------------------
(* The invariant.                                                            *)

\* What the job relies on of the ledger it reads: a sale that was paid has its
\* week for good, and there are finitely many of them to sum up.
SalesType ==
  /\ state \in [Sales -> {"unpaid", "paid", "needs_review", "refunded"}]
  /\ week \in [Sales -> Weeks \cup {None}]
  /\ payoutId \in [Sales -> Marks \cup {None}]
  /\ faults \in Nat
  /\ \A s \in Sales : state[s] # "unpaid" => week[s] \in Weeks
  /\ IsFiniteSet(Sold)

TypeInv == ReminderTypeOK /\ SalesType

\* A run is about a week that is over.
Over(w) == \A t \in Times : t >= now => ~InPeriod(t, w, w + 6)
RunsAreLate == \A r \in Runs : run[r].pc # "idle" => run[r].week \in Weeks /\ Over(run[r].week)

\* Deliveries are counted from nought once the week is claimed.
CountsFromClaim == \A r \in Runs : run[r].pc # "sending" => run[r].delivered = 0

Tells(r, w) == run[r].pc = "sending" /\ run[r].week = w

\* One run at most tells of a week.  Whom it has not come to yet, and everybody
\* if it counted no delivery, has had no message but those whose answer was lost.
OneRunTells ==
  \A w \in Weeks :
    /\ digest[w] = "none" => \A a \in Admins : told[a][w] <= lost
    /\ \A r \in Runs : Tells(r, w) =>
         /\ digest[w] = "news"
         /\ \A q \in Runs : Tells(q, w) => q = r
         /\ run[r].delivered = 0 => \A a \in Admins : told[a][w] <= lost
         /\ run[r].delivered # 0 => \E a \in Admins : told[a][w] > 0
         /\ \A a \in run[r].todo : told[a][w] <= lost

\* What a run has read by the time it comes to a stage: its lists name every
\* merchant of a sale that was due when it began and is due now.
Filled(r, s) ==
  LET m == MerchantOf[s]
      w == run[r].week
  IN
  /\ state[s] = "paid" /\ week[s] <= w
  /\ run[r].pc \in {"review", "ledger"} /\ week[s] = w => m \in run[r].listed
  /\ run[r].pc \in {"older", "claiming", "sending"} /\ week[s] = w /\ Uncovered(s)
       => m \in run[r].due
  /\ run[r].pc \in {"claiming", "sending"} /\ week[s] < w /\ Uncovered(s)
       => m \in run[r].older

ListsFill == \A r \in Runs : run[r].pc # "idle" => \A s \in run[r].since : Filled(r, s)

TellInv == CountsFromClaim /\ OneRunTells /\ RemindedOnceAWeek /\ ClaimedGoesOut

-------------------------------------------------------------------------------
(* What the steps do.                                                        *)

\* The ledger may go on under a run: what is paid stays paid in its week, what is
\* covered stays covered.
LEMMA LedgerKeeps ==
  ASSUME SalesType, LedgerStep
  PROVE  /\ SalesType' /\ UNCHANGED <<reminderVars, faults>>
         /\ \A s \in Sales : /\ state[s] = "paid" => state'[s] = "paid" /\ week'[s] = week[s]
                             /\ Uncovered(s)' => Uncovered(s)
<1>1. UNCHANGED reminderVars
  BY DEF LedgerStep
<1> DEFINE Kept == /\ SalesType' /\ UNCHANGED faults
                   /\ \A s \in Sales :
                        /\ state[s] = "paid" => state'[s] = "paid" /\ week'[s] = week[s]
                        /\ Uncovered(s)' => Uncovered(s)
<1>2. ASSUME NEW s \in Sales, NEW t \in Times, NEW v \in {"paid", "needs_review"},
             Pay(s, WeekOf(DateOf(t)), v)
      PROVE  Kept
  <2>1. WeekOf(DateOf(t)) \in Weeks
    BY ReminderAssumption
  <2>2. IsFiniteSet(Sold \cup {s})
    BY FS_AddElement DEF SalesType
  <2>3. Sold' \in SUBSET (Sold \cup {s})
    BY <1>2 DEF Pay, SalesType, Sold
  <2>4. IsFiniteSet(Sold')
    BY <2>2, <2>3, FS_Subset
  <2> QED
    BY <1>2, <2>1, <2>4 DEF Pay, SalesType, Uncovered, ledgerVars
<1>3. ASSUME NEW s \in Sales, NEW v \in {"paid", "refunded"}, Resolve(s, v) PROVE Kept
  <2>1. Sold' = Sold
    BY <1>3 DEF Resolve, SalesType, Sold
  <2> QED
    BY <1>3, <2>1 DEF Resolve, SalesType, Uncovered, ledgerVars
<1>4. ASSUME UNCHANGED <<state, week, payoutId, faults>> PROVE Kept
  BY <1>4 DEF SalesType, Sold, Uncovered
<1>5. ASSUME NEW p \in Marks, NEW m \in Merchants, NEW w \in Weeks, Ask(p, m, w, None)
      PROVE  Kept
  BY <1>5, <1>4 DEF Ask, saleVars, ledgerVars
<1>6. ASSUME NEW p \in Marks, MarkStep(p) PROVE Kept
  <2>1. CASE Record(p)
    <3>1. CASE UNCHANGED ledgerVars
      BY <2>1, <3>1, <1>4 DEF Record, saleVars, ledgerVars
    <3>2. CASE ~UNCHANGED ledgerVars
      <4>1. /\ payoutId' = [s \in Sales |-> IF s \in Links(p) THEN p ELSE payoutId[s]]
            /\ UNCHANGED <<state, week, faults>>
        BY <2>1, <3>2 DEF Record, saleVars
      <4>2. \A s \in Sales : Uncovered(s)' => Uncovered(s)
        BY <4>1, PayoutAssumption DEF Uncovered, Links
      <4>3. payoutId' \in [Sales -> Marks \cup {None}]
        BY <4>1 DEF SalesType
      <4> QED
        BY <4>1, <4>2, <4>3 DEF SalesType, Sold
    <3> QED
      BY <3>1, <3>2
  <2>2. CASE \/ \E s \in Sales : Reach(p, s)
             \/ Take(p) \/ Refuse(p) \/ Deadlock(p)
    BY <2>2, <1>4 DEF Reach, Take, Refuse, Deadlock, saleVars, ledgerVars
  <2> QED
    BY <1>6, <2>1, <2>2 DEF MarkStep
<1>7. Kept
  BY <1>2, <1>3, <1>5, <1>6 DEF LedgerStep
<1> QED
  BY <1>1, <1>7

LEMMA RunGoes ==
  ASSUME ReminderTypeOK, NEW r \in Runs, NEW new, Goes(r, new)
  PROVE  run'[r] = new /\ \A q \in Runs \ {r} : run'[q] = run[q]
BY DEF ReminderTypeOK, Goes

\* A step of a run changes that run, and of the sales and their payouts nothing.
LEMMA RunStepKeeps ==
  ASSUME SalesType, NEW r \in Runs, RunStep(r)
  PROVE  /\ UNCHANGED <<state, week, payoutId, now>> /\ SalesType'
         /\ UNCHANGED faults \/ Stop(r)
<1>1. CASE Stop(r)
  <2>1. UNCHANGED <<state, week, payoutId, now>> /\ faults' = faults + 1
    BY <1>1 DEF Stop, saleVars, ledgerVars
  <2> QED
    BY <1>1, <2>1 DEF SalesType, Sold
<1>2. CASE ~Stop(r)
  <2>1. UNCHANGED <<state, week, payoutId, now, faults>>
    BY <1>2 DEF RunStep, Begin, ReadReport, ReadReview, ReadLedger, ReadOlder, Claim,
                Deliver, Refused, Finish, vars, saleVars, ledgerVars
  <2> QED
    BY <2>1 DEF SalesType, Sold
<1> QED
  BY <1>1, <1>2

RunRecords ==
  [pc : {"idle", "report", "review", "ledger", "older", "claiming", "sending"},
   week : Nat, listed : SUBSET Merchants, due : SUBSET Merchants, older : SUBSET Merchants,
   review : BOOLEAN, todo : SUBSET Admins, delivered : Nat, since : SUBSET Sales]

LEMMA AsleepIsRun == Asleep \in RunRecords
BY DEF Asleep, RunRecords

LEMMA RemindedWeek ==
  ASSUME ReminderTypeOK, ReminderTime(now)
  PROVE  /\ ReminderWeek(now) \in Weeks /\ ReminderWeek(now) \in Nat
         /\ Over(ReminderWeek(now))
<1>1. now \in Times /\ Times \subseteq Nat /\ ReminderWeek(now) \in Weeks
  BY ReminderAssumption DEF ReminderTypeOK
<1>2. now \in Int /\ \A t \in Times : t \in Int
  BY <1>1
<1>3. \A u \in Int : u >= now => ~InPeriod(u, ReminderWeek(now), ReminderWeek(now) + 6)
  BY <1>2, ReminderWeekIsOver
<1> QED
  BY <1>1, <1>2, <1>3, PayoutAssumption DEF Over

LEMMA GoesKeepsRuns ==
  ASSUME ReminderTypeOK, NEW r \in Runs, NEW new \in RunRecords, Goes(r, new)
  PROVE  run' \in [Runs -> RunRecords]
BY DEF ReminderTypeOK, RunRecords, Goes

Others(r) == \A q \in Runs \ {r} : run'[q] = run[q]
QuietJob == UNCHANGED <<digest, told, lost>>

\* What the parts of a run do, field by field.
LEMMA BeginFacts ==
  ASSUME ReminderTypeOK, NEW r \in Runs, Begin(r)
  PROVE  /\ run' \in [Runs -> RunRecords] /\ Others(r) /\ QuietJob
         /\ run[r] = Asleep /\ run'[r].pc = "report" /\ run'[r].delivered = 0
         /\ run'[r].week = ReminderWeek(now) /\ run'[r].since = Debts(ReminderWeek(now))
         /\ ReminderTime(now)
<1> DEFINE w == ReminderWeek(now)
           new == [Asleep EXCEPT !.pc = "report", !.week = w, !.since = Debts(w)]
<1>1. Goes(r, new) /\ QuietJob /\ run[r] = Asleep /\ ReminderTime(now)
  BY DEF Begin, QuietJob
<1>2. w \in Nat
  BY <1>1, RemindedWeek
<1>3. Debts(w) \subseteq Sales
  BY DEF Debts
<1> HIDE DEF w
<1>4. /\ new \in RunRecords /\ new.pc = "report" /\ new.delivered = 0
      /\ new.week = w /\ new.since = Debts(w)
  BY <1>2, <1>3 DEF Asleep, RunRecords
<1> HIDE DEF new
<1>5. run'[r] = new /\ Others(r) /\ run' \in [Runs -> RunRecords]
  BY <1>1, <1>4, RunGoes, GoesKeepsRuns DEF Others
<1> QED
  BY <1>1, <1>4, <1>5 DEF w

\* The stages a run reads at, and what of it stays while it reads.
Reads(r, from, to) ==
  /\ run' \in [Runs -> RunRecords] /\ Others(r) /\ QuietJob
  /\ run[r].pc = from /\ run'[r].pc = to
  /\ run'[r].week = run[r].week /\ run'[r].since = run[r].since
  /\ run'[r].delivered = run[r].delivered

LEMMA ReadReportFacts ==
  ASSUME ReminderTypeOK, NEW r \in Runs, ReadReport(r)
  PROVE  /\ Reads(r, "report", "review")
         /\ run'[r].listed = {m \in Merchants : PaidSales(m, run[r].week) # {}}
<1> DEFINE listed == {m \in Merchants : PaidSales(m, run[r].week) # {}}
           new == [run[r] EXCEPT !.pc = "review", !.listed = listed]
<1>1. Goes(r, new) /\ run[r].pc = "report" /\ QuietJob
  BY DEF ReadReport, QuietJob
<1>2. run[r] \in RunRecords /\ listed \subseteq Merchants
  BY DEF ReminderTypeOK, RunRecords
<1> HIDE DEF listed
<1>3. /\ new \in RunRecords /\ new.pc = "review" /\ new.listed = listed
      /\ new.week = run[r].week /\ new.since = run[r].since
      /\ new.delivered = run[r].delivered
  BY <1>2 DEF RunRecords
<1> HIDE DEF new
<1>4. run'[r] = new /\ Others(r) /\ run' \in [Runs -> RunRecords]
  BY <1>1, <1>3, RunGoes, GoesKeepsRuns DEF Others
<1> QED
  BY <1>1, <1>3, <1>4 DEF listed, Reads

LEMMA ReadReviewFacts ==
  ASSUME ReminderTypeOK, NEW r \in Runs, ReadReview(r)
  PROVE  Reads(r, "review", "ledger") /\ run'[r].listed = run[r].listed
<1> DEFINE review == \E s \in Sales : state[s] = "needs_review" /\ week[s] = run[r].week
           new == [run[r] EXCEPT !.pc = "ledger", !.review = review]
<1>1. Goes(r, new) /\ run[r].pc = "review" /\ QuietJob
  BY DEF ReadReview, QuietJob
<1>2. run[r] \in RunRecords /\ review \in BOOLEAN
  BY DEF ReminderTypeOK, RunRecords
<1> HIDE DEF review
<1>3. /\ new \in RunRecords /\ new.pc = "ledger" /\ new.listed = run[r].listed
      /\ new.week = run[r].week /\ new.since = run[r].since
      /\ new.delivered = run[r].delivered
  BY <1>2 DEF RunRecords
<1> HIDE DEF new
<1>4. run'[r] = new /\ Others(r) /\ run' \in [Runs -> RunRecords]
  BY <1>1, <1>3, RunGoes, GoesKeepsRuns DEF Others
<1> QED
  BY <1>1, <1>3, <1>4 DEF Reads

LEMMA ReadLedgerFacts ==
  ASSUME ReminderTypeOK, NEW r \in Runs, ReadLedger(r)
  PROVE  /\ Reads(r, "ledger", "older")
         /\ run'[r].due = {m \in run[r].listed : Due(m, run[r].week) > 0}
<1> DEFINE due == {m \in run[r].listed : Due(m, run[r].week) > 0}
           new == [run[r] EXCEPT !.pc = "older", !.due = due]
<1>1. Goes(r, new) /\ run[r].pc = "ledger" /\ QuietJob
  BY DEF ReadLedger, QuietJob
<1>2. run[r] \in RunRecords /\ due \subseteq Merchants
  BY DEF ReminderTypeOK, RunRecords
<1> HIDE DEF due
<1>3. /\ new \in RunRecords /\ new.pc = "older" /\ new.due = due
      /\ new.week = run[r].week /\ new.since = run[r].since
      /\ new.delivered = run[r].delivered
  BY <1>2 DEF RunRecords
<1> HIDE DEF new
<1>4. run'[r] = new /\ Others(r) /\ run' \in [Runs -> RunRecords]
  BY <1>1, <1>3, RunGoes, GoesKeepsRuns DEF Others
<1> QED
  BY <1>1, <1>3, <1>4 DEF due, Reads

OwedBefore(w) == {m \in Merchants : Split(Gross(UnpaidBefore(m, w))).payout > 0}

LEMMA ReadOlderFacts ==
  ASSUME ReminderTypeOK, NEW r \in Runs, ReadOlder(r)
  PROVE  /\ Reads(r, "older", "claiming")
         /\ run'[r].due = run[r].due /\ run'[r].older = OwedBefore(run[r].week)
<1> DEFINE older == OwedBefore(run[r].week)
           new == [run[r] EXCEPT !.pc = "claiming", !.older = older]
<1>1. Goes(r, new) /\ run[r].pc = "older" /\ QuietJob
  BY DEF ReadOlder, QuietJob, OwedBefore
<1>2. run[r] \in RunRecords /\ older \subseteq Merchants
  BY DEF ReminderTypeOK, RunRecords, OwedBefore
<1> HIDE DEF older
<1>3. /\ new \in RunRecords /\ new.pc = "claiming" /\ new.older = older
      /\ new.due = run[r].due
      /\ new.week = run[r].week /\ new.since = run[r].since
      /\ new.delivered = run[r].delivered
  BY <1>2 DEF RunRecords
<1> HIDE DEF new
<1>4. run'[r] = new /\ Others(r) /\ run' \in [Runs -> RunRecords]
  BY <1>1, <1>3, RunGoes, GoesKeepsRuns DEF Others
<1> QED
  BY <1>1, <1>3, <1>4 DEF older, Reads

\* A claim: a run that claims goes on to tell, or sleeps.
LEMMA ClaimFacts ==
  ASSUME ReminderTypeOK, NEW r \in Runs, Claim(r)
  PROVE  /\ run' \in [Runs -> RunRecords] /\ Others(r) /\ UNCHANGED <<told, lost>>
         /\ run[r].pc = "claiming" /\ run[r].week \in Nat
         /\ \/ /\ digest[run[r].week] = "none"
               /\ digest' = [digest EXCEPT ![run[r].week] = "news"]
               /\ run'[r].pc = "sending" /\ run'[r].todo = Admins
               /\ run'[r].week = run[r].week /\ run'[r].delivered = run[r].delivered
               /\ run'[r].since = run[r].since
               /\ run'[r].due = run[r].due /\ run'[r].older = run[r].older
            \/ /\ digest[run[r].week] = "none" /\ run'[r] = Asleep
               /\ digest' = [digest EXCEPT ![run[r].week] = "nothing"]
            \/ run'[r] = Asleep /\ UNCHANGED digest
<1> DEFINE new == [run[r] EXCEPT !.pc = "sending", !.todo = Admins]
<1>1. run[r].pc = "claiming" /\ run[r] \in RunRecords /\ UNCHANGED <<told, lost>>
  BY DEF Claim, ReminderTypeOK, RunRecords
<1>2. /\ new \in RunRecords /\ new.pc = "sending" /\ new.todo = Admins
      /\ new.week = run[r].week /\ new.delivered = run[r].delivered
      /\ new.since = run[r].since /\ new.due = run[r].due /\ new.older = run[r].older
      /\ run[r].week \in Nat
  BY <1>1 DEF RunRecords
<1>3. \/ /\ digest[run[r].week] = "none" /\ Goes(r, new)
         /\ digest' = [digest EXCEPT ![run[r].week] = "news"]
      \/ /\ digest[run[r].week] = "none" /\ Goes(r, Asleep)
         /\ digest' = [digest EXCEPT ![run[r].week] = "nothing"]
      \/ Goes(r, Asleep) /\ UNCHANGED digest
  BY DEF Claim, Claimable
<1> HIDE DEF new
<1>4. CASE Goes(r, new)
  <2>1. run'[r] = new /\ Others(r) /\ run' \in [Runs -> RunRecords]
    BY <1>2, <1>4, RunGoes, GoesKeepsRuns DEF Others
  <2>2. new # Asleep
    BY <1>2 DEF Asleep
  <2>3. ~Goes(r, Asleep)
    BY <2>1, <2>2, RunGoes
  <2> QED
    BY <1>1, <1>2, <1>3, <2>1, <2>3
<1>5. CASE Goes(r, Asleep) /\ ~Goes(r, new)
  <2>1. run'[r] = Asleep /\ Others(r) /\ run' \in [Runs -> RunRecords]
    BY <1>5, AsleepIsRun, RunGoes, GoesKeepsRuns DEF Others
  <2> QED
    BY <1>1, <1>2, <1>3, <1>5, <2>1
<1> QED
  BY <1>3, <1>4, <1>5

\* A message to one administrator: how often that one and the run count it, and
\* whether Telegram's answer got lost.
Sends(r, a, more, counted, missed) ==
  /\ run' \in [Runs -> RunRecords] /\ Others(r) /\ UNCHANGED digest
  /\ run[r].pc = "sending" /\ a \in run[r].todo
  /\ run'[r].pc = "sending" /\ run'[r].week = run[r].week /\ run'[r].since = run[r].since
  /\ run'[r].due = run[r].due /\ run'[r].older = run[r].older
  /\ run'[r].todo = run[r].todo \ {a} /\ run'[r].delivered = run[r].delivered + counted
  /\ told' = [told EXCEPT ![a][run[r].week] = told[a][run[r].week] + more]
  /\ lost' = lost + missed /\ lost' \in 0..MaxLost

LEMMA SendFacts ==
  ASSUME ReminderTypeOK, RunsAreLate, NEW r \in Runs, NEW a \in Admins,
         Deliver(r, a) \/ Refused(r, a)
  PROVE  Sends(r, a, 1, 1, 0) \/ Sends(r, a, 1, 0, 1) \/ Sends(r, a, 0, 0, 0)
<1> DEFINE new(counted) == [run[r] EXCEPT !.todo = @ \ {a}, !.delivered = @ + counted]
<1>1. run[r] \in RunRecords /\ run[r].pc = "sending" /\ a \in run[r].todo
  BY DEF ReminderTypeOK, RunRecords, Deliver, Refused
<1>2. run[r].week \in Weeks
  BY <1>1 DEF RunsAreLate
<1>3. ASSUME NEW counted \in Nat
      PROVE  /\ new(counted) \in RunRecords /\ new(counted).pc = "sending"
             /\ new(counted).week = run[r].week /\ new(counted).since = run[r].since
             /\ new(counted).due = run[r].due /\ new(counted).older = run[r].older
             /\ new(counted).todo = run[r].todo \ {a}
             /\ new(counted).delivered = run[r].delivered + counted
  <2> DEFINE n == run[r].delivered + counted
             todo == run[r].todo \ {a}
  <2>1. n \in Nat /\ todo \subseteq Admins
    BY <1>1, <1>3 DEF RunRecords
  <2>2. new(counted) = [run[r] EXCEPT !.todo = todo, !.delivered = n]
    OBVIOUS
  <2> HIDE DEF n, todo, new
  <2>3. /\ new(counted) \in RunRecords /\ new(counted).pc = run[r].pc
        /\ new(counted).week = run[r].week /\ new(counted).since = run[r].since
        /\ new(counted).due = run[r].due /\ new(counted).older = run[r].older
        /\ new(counted).todo = todo /\ new(counted).delivered = n
    BY <1>1, <2>1, <2>2 DEF RunRecords
  <2> QED
    BY <1>1, <2>3 DEF n, todo
<1>4. ASSUME NEW counted \in Nat, Sent(r, a, counted) PROVE Goes(r, new(counted))
  BY <1>4 DEF Sent
<1> HIDE DEF new
<1>5. ASSUME NEW counted \in Nat, Sent(r, a, counted)
      PROVE  /\ run'[r] = new(counted) /\ Others(r) /\ run' \in [Runs -> RunRecords]
  BY <1>3, <1>4, <1>5, RunGoes, GoesKeepsRuns DEF Others
<1>6. told = [told EXCEPT ![a][run[r].week] = told[a][run[r].week] + 0]
  BY <1>2 DEF ReminderTypeOK
<1>7. lost \in Nat /\ lost = lost + 0 /\ MaxLost \in Nat /\ lost \in 0..MaxLost
  BY ReminderAssumption DEF ReminderTypeOK
<1>8. CASE Deliver(r, a)
  <2>1. /\ told' = [told EXCEPT ![a][run[r].week] = told[a][run[r].week] + 1]
        /\ UNCHANGED digest
        /\ \/ Sent(r, a, 1) /\ UNCHANGED lost
           \/ Sent(r, a, 0) /\ lost < MaxLost /\ lost' = lost + 1
    BY <1>8 DEF Deliver
  <2>2. CASE Sent(r, a, 1) /\ UNCHANGED lost
    <3>1. run'[r] = new(1) /\ Others(r) /\ run' \in [Runs -> RunRecords]
      BY <1>5, <2>2
    <3>2. Sends(r, a, 1, 1, 0)
      BY <1>1, <1>3, <1>7, <2>1, <2>2, <3>1 DEF Sends
    <3> QED
      BY <3>2
  <2>3. CASE Sent(r, a, 0) /\ lost < MaxLost /\ lost' = lost + 1
    <3>1. run'[r] = new(0) /\ Others(r) /\ run' \in [Runs -> RunRecords]
      BY <1>5, <2>3
    <3>2. Sends(r, a, 1, 0, 1)
      BY <1>1, <1>3, <1>7, <2>1, <2>3, <3>1 DEF Sends
    <3> QED
      BY <3>2
  <2> QED
    BY <2>1, <2>2, <2>3
<1>9. CASE Refused(r, a)
  <2>1. Sent(r, a, 0) /\ UNCHANGED <<digest, told, lost>>
    BY <1>9 DEF Refused
  <2>2. run'[r] = new(0) /\ Others(r) /\ run' \in [Runs -> RunRecords]
    BY <1>5, <2>1
  <2>3. Sends(r, a, 0, 0, 0)
    BY <1>1, <1>3, <1>6, <1>7, <2>1, <2>2 DEF Sends
  <2> QED
    BY <2>3
<1> QED
  BY <1>8, <1>9

LEMMA FinishFacts ==
  ASSUME ReminderTypeOK, NEW r \in Runs, Finish(r)
  PROVE  /\ run' \in [Runs -> RunRecords] /\ Others(r) /\ run'[r] = Asleep
         /\ run[r].pc = "sending" /\ UNCHANGED <<told, lost>>
         /\ digest' = IF run[r].delivered = 0
                      THEN [digest EXCEPT ![run[r].week] = "none"] ELSE digest
BY AsleepIsRun, RunGoes, GoesKeepsRuns DEF Finish, Others

LEMMA StopFacts ==
  ASSUME ReminderTypeOK, NEW r \in Runs, Stop(r)
  PROVE  /\ run' \in [Runs -> RunRecords] /\ Others(r) /\ run'[r] = Asleep /\ QuietJob
         /\ faults' = faults + 1
BY AsleepIsRun, RunGoes, GoesKeepsRuns DEF Stop, Others, QuietJob

-------------------------------------------------------------------------------
(* Types, and the weeks that are over.                                       *)

LEMMA ReminderInitInv ==
  ASSUME ReminderInit
  PROVE  TypeInv /\ RunsAreLate /\ ClaimedWeeksAreOver /\ TellInv
<1>1. SalesType
  BY PayoutAssumption, FS_EmptySet DEF ReminderInit, Init, SalesType, Sold
<1>2. ReminderTypeOK
  BY AsleepIsRun, ReminderAssumption DEF ReminderInit, ReminderTypeOK, RunRecords
<1>3. \A r \in Runs : run[r].pc = "idle" /\ run[r].delivered = 0
  BY DEF ReminderInit, Asleep
<1>4. \A w \in Weeks : digest[w] = "none" /\ \A a \in Admins : told[a][w] = 0
  BY DEF ReminderInit
<1>5. lost = 0
  BY DEF ReminderInit
<1>6. RunsAreLate /\ ClaimedWeeksAreOver
  BY <1>3, <1>4 DEF RunsAreLate, ClaimedWeeksAreOver
<1>7. TellInv
  BY <1>3, <1>4, <1>5 DEF TellInv, CountsFromClaim, OneRunTells, RemindedOnceAWeek,
                          ClaimedGoesOut, Tells
<1> QED
  BY <1>1, <1>2, <1>6, <1>7 DEF TypeInv

LEMMA ReminderTypeStep ==
  ASSUME TypeInv, RunsAreLate, [ReminderNext]_allVars
  PROVE  TypeInv'
<1>1. CASE UNCHANGED allVars
  BY <1>1 DEF allVars, vars, saleVars, ledgerVars, reminderVars, TypeInv, ReminderTypeOK,
              SalesType, Sold
<1>2. CASE LedgerStep
  <2>1. SalesType' /\ UNCHANGED <<now, digest, run, told, lost>>
    BY <1>2, LedgerKeeps DEF TypeInv, reminderVars
  <2> QED
    BY <2>1 DEF TypeInv, ReminderTypeOK
<1>3. CASE Tick
  <2>1. now' \in Times /\ UNCHANGED <<digest, run, told, lost, state, week, payoutId, faults>>
    BY <1>3 DEF Tick, vars, saleVars, ledgerVars
  <2> QED
    BY <2>1 DEF TypeInv, ReminderTypeOK, SalesType, Sold
<1>4. ASSUME NEW r \in Runs, RunStep(r) PROVE TypeInv'
  <2> DEFINE Shaped == /\ run' \in [Runs -> RunRecords]
                      /\ digest' \in [Weeks -> {"none", "news", "nothing"}]
                      /\ told' \in [Admins -> [Weeks -> Nat]] /\ lost' \in 0..MaxLost
  <2>1. SalesType' /\ now' = now
    BY <1>4, RunStepKeeps DEF TypeInv
  <2>2. ReminderTypeOK
    BY DEF TypeInv
  <2>3. /\ digest \in [Weeks -> {"none", "news", "nothing"}]
        /\ told \in [Admins -> [Weeks -> Nat]] /\ lost \in 0..MaxLost
    BY <2>2 DEF ReminderTypeOK
  <2>4. ASSUME Begin(r) PROVE Shaped
    BY <2>2, <2>3, <2>4, BeginFacts DEF QuietJob
  <2>5. ASSUME ReadReport(r) \/ ReadReview(r) \/ ReadLedger(r) \/ ReadOlder(r) PROVE Shaped
    BY <2>2, <2>3, <2>5, ReadReportFacts, ReadReviewFacts, ReadLedgerFacts, ReadOlderFacts
       DEF QuietJob, Reads
  <2>6. ASSUME Claim(r) PROVE Shaped
    BY <2>2, <2>3, <2>6, ClaimFacts
  <2>7. ASSUME NEW a \in Admins, Deliver(r, a) \/ Refused(r, a) PROVE Shaped
    <3>1. PICK more \in {0, 1}, counted \in {0, 1}, missed \in {0, 1} :
                 Sends(r, a, more, counted, missed)
      BY <2>2, <2>7, SendFacts
    <3>2. told[a] \in [Weeks -> Nat]
      BY <2>3
    <3> DEFINE w == run[r].week
               n == told[a][w] + more
    <3>3. w \in Weeks
      BY <3>1 DEF Sends, RunsAreLate
    <3>4. n \in Nat
      BY <3>1, <3>2, <3>3
    <3>5. told' = [told EXCEPT ![a] = [told[a] EXCEPT ![w] = n]]
      BY <2>3, <3>1 DEF Sends
    <3> HIDE DEF n
    <3>6. [told[a] EXCEPT ![w] = n] \in [Weeks -> Nat]
      BY <3>2, <3>4
    <3>7. told' \in [Admins -> [Weeks -> Nat]]
      BY <2>3, <3>5, <3>6
    <3> QED
      BY <2>3, <3>1, <3>7 DEF Sends
  <2>8. ASSUME Finish(r) PROVE Shaped
    BY <2>2, <2>3, <2>8, FinishFacts
  <2>9. ASSUME Stop(r) PROVE Shaped
    BY <2>2, <2>3, <2>9, StopFacts DEF QuietJob
  <2>10. Shaped
    BY <1>4, <2>4, <2>5, <2>6, <2>7, <2>8, <2>9 DEF RunStep
  <2> QED
    BY <2>1, <2>2, <2>10 DEF TypeInv, ReminderTypeOK, RunRecords
<1> QED
  BY <1>1, <1>2, <1>3, <1>4 DEF ReminderNext

\* A week that is over stays so.
LEMMA OverStays ==
  ASSUME now \in Times, now' \in Times, now' >= now, NEW w, Over(w)
  PROVE  Over(w)'
BY ReminderAssumption DEF Over

LEMMA LateStep ==
  ASSUME TypeInv, RunsAreLate, ClaimedWeeksAreOver, [ReminderNext]_allVars
  PROVE  RunsAreLate' /\ ClaimedWeeksAreOver'
<1>1. ReminderTypeOK /\ TypeInv' /\ now \in Times /\ now' \in Times /\ Times \subseteq Nat
  BY ReminderTypeStep, ReminderAssumption DEF TypeInv, ReminderTypeOK
<1>2. ClaimedWeeksAreOver <=> \A w \in Weeks : digest[w] # "none" => Over(w)
  BY DEF ClaimedWeeksAreOver, Over
<1>3. ClaimedWeeksAreOver' <=> \A w \in Weeks : digest'[w] # "none" => Over(w)'
  BY DEF ClaimedWeeksAreOver, Over
<1> DEFINE Begun == \A r \in Runs : run'[r].pc # "idle" =>
                      run'[r].week \in Weeks /\ Over(run'[r].week)
           Claimed == \A w \in Weeks : digest'[w] # "none" => Over(w)
<1>4. now' >= now /\ Begun /\ Claimed
  <2>1. now >= now
    BY <1>1
  <2>2. CASE UNCHANGED <<now, digest, run>>
    BY <1>2, <2>1, <2>2 DEF RunsAreLate
  <2>3. CASE Tick
    BY <1>1, <1>2, <2>3 DEF Tick, RunsAreLate
  <2>4. ASSUME NEW r \in Runs, RunStep(r) PROVE now' >= now /\ Begun /\ Claimed
    <3>1. UNCHANGED now
      BY <2>4, RunStepKeeps DEF TypeInv
    <3>2. digest \in [Weeks -> {"none", "news", "nothing"}]
      BY <1>1 DEF ReminderTypeOK
    <3>3. \A q \in Runs : run[q].pc # "idle" => run[q].week \in Weeks /\ Over(run[q].week)
      BY DEF RunsAreLate
    <3>4. CASE Begin(r)
      <4>1. /\ ReminderTime(now) /\ Others(r) /\ UNCHANGED digest
            /\ run'[r].week = ReminderWeek(now)
        BY <1>1, <3>4, BeginFacts DEF QuietJob
      <4>2. ReminderWeek(now) \in Weeks /\ Over(ReminderWeek(now))
        BY <1>1, <4>1, RemindedWeek
      <4> QED
        BY <1>2, <2>1, <3>1, <3>3, <4>1, <4>2 DEF Others
    <3>5. ASSUME NEW from, NEW to, Reads(r, from, to), from # "idle"
          PROVE  now' >= now /\ Begun /\ Claimed
      BY <1>2, <2>1, <3>1, <3>3, <3>5 DEF Reads, Others, QuietJob
    <3>6. CASE ReadReport(r) \/ ReadReview(r) \/ ReadLedger(r) \/ ReadOlder(r)
      <4>1. \/ Reads(r, "report", "review") \/ Reads(r, "review", "ledger")
            \/ Reads(r, "ledger", "older") \/ Reads(r, "older", "claiming")
        BY <1>1, <3>6, ReadReportFacts, ReadReviewFacts, ReadLedgerFacts, ReadOlderFacts
      <4> QED
        BY <3>5, <4>1
    <3>7. Asleep.pc = "idle"
      BY DEF Asleep
    <3>8. CASE Claim(r)
      <4>1. run[r].week \in Weeks /\ Over(run[r].week)
        BY <1>1, <3>3, <3>8, ClaimFacts
      <4>2. Begun
        BY <1>1, <3>3, <3>7, <3>8, <4>1, ClaimFacts DEF Others
      <4>3. \A w \in Weeks : digest'[w] = digest[w] \/ w = run[r].week
        BY <1>1, <3>2, <3>8, <4>1, ClaimFacts
      <4>4. Claimed
        BY <1>2, <4>1, <4>3
      <4> QED
        BY <2>1, <3>1, <4>2, <4>4
    <3>9. ASSUME NEW a \in Admins, Deliver(r, a) \/ Refused(r, a)
          PROVE  now' >= now /\ Begun /\ Claimed
      <4>1. PICK more, counted, missed : Sends(r, a, more, counted, missed)
        BY <1>1, <3>9, SendFacts
      <4> QED
        BY <1>2, <2>1, <3>1, <3>3, <4>1 DEF Sends, Others
    <3>10. CASE Finish(r)
      <4>1. /\ run'[r] = Asleep /\ Others(r) /\ run[r].pc = "sending"
            /\ digest' = IF run[r].delivered = 0
                         THEN [digest EXCEPT ![run[r].week] = "none"] ELSE digest
        BY <1>1, <3>10, FinishFacts
      <4>2. \A w \in Weeks : digest'[w] # "none" => digest[w] # "none"
        BY <3>2, <4>1
      <4> QED
        BY <1>2, <2>1, <3>1, <3>3, <3>7, <4>1, <4>2 DEF Others
    <3>11. CASE Stop(r)
      BY <1>1, <1>2, <2>1, <3>1, <3>3, <3>7, <3>11, StopFacts DEF Others, QuietJob
    <3> QED
      BY <2>4, <3>4, <3>6, <3>8, <3>9, <3>10, <3>11 DEF RunStep
  <2>5. CASE LedgerStep \/ UNCHANGED allVars
    BY <2>2, <2>5 DEF LedgerStep, allVars, reminderVars
  <2> QED
    BY <2>3, <2>4, <2>5 DEF ReminderNext
<1>5. \A w : Over(w) => Over(w)'
  BY <1>1, <1>4, OverStays
<1>6. RunsAreLate'
  BY <1>4, <1>5 DEF RunsAreLate
<1>7. ClaimedWeeksAreOver'
  BY <1>3, <1>4, <1>5
<1> QED
  BY <1>6, <1>7

\* Whenever the job's hour strikes and whatever was told or given back since, the
\* week a run claims in bot_digests is over: no sale made from then on falls in it.
THEOREM ClaimedWeeksAreOverHolds == ReminderSpec => []ClaimedWeeksAreOver
<1> DEFINE I == TypeInv /\ RunsAreLate /\ ClaimedWeeksAreOver
<1>1. ReminderInit => I
  BY ReminderInitInv
<1>2. I /\ [ReminderNext]_allVars => I'
  BY ReminderTypeStep, LateStep
<1> QED
  BY <1>1, <1>2, PTL DEF ReminderSpec

-------------------------------------------------------------------------------
(* One run tells of a week, and counts what it delivers.                     *)

\* Reading, and sleeping before the claim, tells nobody anything.
LEMMA QuietTells ==
  ASSUME TellInv, QuietJob, faults' = faults \/ faults' # 0,
         \A q \in Runs : \/ run'[q] = run[q]
                         \/ /\ run[q].pc # "sending" \/ faults' # 0
                            /\ run'[q].pc # "sending" /\ run'[q].delivered = 0
  PROVE  TellInv'
<1>1. \A q \in Runs : \A w : Tells(q, w)' => Tells(q, w) /\ run'[q] = run[q]
  BY DEF Tells
<1>2. CountsFromClaim'
  BY DEF TellInv, CountsFromClaim
<1>3. OneRunTells'
  BY <1>1 DEF TellInv, OneRunTells, QuietJob
<1>4. RemindedOnceAWeek'
  BY DEF TellInv, RemindedOnceAWeek, QuietJob
<1>5. ClaimedGoesOut'
  BY DEF TellInv, ClaimedGoesOut, QuietJob
<1> QED
  BY <1>2, <1>3, <1>4, <1>5 DEF TellInv

\* The claim of a free week: so far nobody had a message about it but those whose
\* answers were lost, and no other run tells of it.
LEMMA ClaimTells ==
  ASSUME TypeInv, RunsAreLate, TellInv, UNCHANGED faults, NEW r \in Runs, Claim(r)
  PROVE  TellInv'
<1> DEFINE w == run[r].week
<1>1. /\ ReminderTypeOK /\ Others(r) /\ UNCHANGED <<told, lost>>
      /\ run[r].pc = "claiming" /\ w \in Weeks
  BY ClaimFacts DEF TypeInv, RunsAreLate
<1>2. digest \in [Weeks -> {"none", "news", "nothing"}]
  BY <1>1 DEF ReminderTypeOK
<1>3. run[r].delivered = 0 /\ Asleep.pc = "idle" /\ Asleep.delivered = 0
  BY <1>1 DEF TellInv, CountsFromClaim, Asleep
<1>4. CASE /\ digest[w] = "none" /\ digest' = [digest EXCEPT ![w] = "news"]
           /\ run'[r].pc = "sending" /\ run'[r].week = w /\ run'[r].delivered = 0
  <2>1. digest'[w] = "news" /\ \A v \in Weeks \ {w} : digest'[v] = digest[v]
    BY <1>1, <1>2, <1>4
  <2>2. \A q \in Runs : ~Tells(q, w)
    BY <1>1, <1>4 DEF TellInv, OneRunTells
  <2>3. \A q \in Runs : \A v : Tells(q, v)' => \/ q = r /\ v = w
                                               \/ Tells(q, v) /\ run'[q] = run[q] /\ v # w
    BY <1>1, <1>4, <2>2 DEF Tells, Others
  <2>4. \A a \in Admins : told[a][w] <= lost
    BY <1>1, <1>4 DEF TellInv, OneRunTells
  <2>5. ASSUME NEW v \in Weeks
        PROVE  /\ digest'[v] = "none" => \A a \in Admins : told'[a][v] <= lost'
               /\ \A q \in Runs : Tells(q, v)' =>
                    /\ digest'[v] = "news"
                    /\ \A p \in Runs : Tells(p, v)' => p = q
                    /\ run'[q].delivered = 0 => \A a \in Admins : told'[a][v] <= lost'
                    /\ run'[q].delivered # 0 => \E a \in Admins : told'[a][v] > 0
                    /\ \A a \in run'[q].todo : a \in Admins => told'[a][v] <= lost'
    <3>1. CASE v = w
      BY <1>1, <1>4, <2>1, <2>3, <2>4, <3>1
    <3>2. CASE v # w
      BY <1>1, <2>1, <2>3, <3>2 DEF TellInv, OneRunTells
    <3> QED
      BY <3>1, <3>2
  <2>6. \A q \in Runs : run'[q].todo \subseteq Admins
    BY <1>1, ClaimFacts DEF RunRecords
  <2>7. OneRunTells'
    BY <2>5, <2>6 DEF OneRunTells
  <2>8. CountsFromClaim'
    BY <1>1, <1>4 DEF TellInv, CountsFromClaim, Others
  <2>9. ClaimedGoesOut'
    BY <1>1, <1>4, <2>1 DEF TellInv, ClaimedGoesOut, Others
  <2> QED
    BY <1>1, <2>7, <2>8, <2>9 DEF TellInv, RemindedOnceAWeek
<1>5. CASE run'[r] = Asleep /\ ((digest[w] = "none" /\ digest' = [digest EXCEPT ![w] = "nothing"])
                                \/ UNCHANGED digest)
  <2>1. \A v \in Weeks : /\ digest'[v] = "none" => digest[v] = "none"
                         /\ digest[v] = "news" <=> digest'[v] = "news"
    BY <1>1, <1>2, <1>5
  <2>2. \A q \in Runs : \A v : Tells(q, v)' => Tells(q, v) /\ run'[q] = run[q]
    BY <1>1, <1>3, <1>5 DEF Tells, Others
  <2>3. OneRunTells'
    BY <1>1, <2>1, <2>2 DEF TellInv, OneRunTells
  <2>4. CountsFromClaim'
    BY <1>1, <1>3, <1>5 DEF TellInv, CountsFromClaim, Others
  <2>5. ClaimedGoesOut'
    BY <1>1, <1>5, <2>1 DEF TellInv, ClaimedGoesOut, Others
  <2> QED
    BY <1>1, <2>3, <2>4, <2>5 DEF TellInv, RemindedOnceAWeek
<1> QED
  BY <1>1, <1>3, <1>4, <1>5, ClaimFacts

\* A message: only the run that claimed sends it, to one who had none but those
\* whose answers were lost.
LEMMA SendTells ==
  ASSUME TypeInv, TypeInv', RunsAreLate, TellInv, UNCHANGED faults, NEW r \in Runs,
         NEW a \in Admins, NEW more, NEW counted, NEW missed, Sends(r, a, more, counted, missed),
         \/ more = 1 /\ counted = 1 /\ missed = 0
         \/ more = 1 /\ counted = 0 /\ missed = 1
         \/ more = 0 /\ counted = 0 /\ missed = 0
  PROVE  TellInv'
<1> DEFINE w == run[r].week
<1>1. /\ Others(r) /\ UNCHANGED digest /\ run[r].pc = "sending" /\ a \in run[r].todo
      /\ run'[r].pc = "sending" /\ run'[r].week = w
      /\ run'[r].todo = run[r].todo \ {a} /\ run'[r].delivered = run[r].delivered + counted
      /\ told' = [told EXCEPT ![a][w] = told[a][w] + more]
      /\ lost' = lost + missed
  BY DEF Sends
<1>2. w \in Weeks /\ told \in [Admins -> [Weeks -> Nat]] /\ lost \in Nat /\ lost' \in Nat
  BY <1>1, ReminderAssumption DEF TypeInv, ReminderTypeOK, RunsAreLate
<1>3. run[r] \in RunRecords
  BY DEF TypeInv, ReminderTypeOK, RunRecords
<1>4. run[r].delivered \in Nat /\ run[r].todo \subseteq Admins
  BY <1>3 DEF RunRecords
<1>5. \A b \in Admins, v \in Weeks :
        told[b][v] \in Nat /\ told'[b][v] = IF b = a /\ v = w THEN told[b][v] + more ELSE told[b][v]
  BY <1>1, <1>2
<1> HIDE DEF w
<1>6. Tells(r, w) /\ Tells(r, w)'
  BY <1>1 DEF Tells, w
<1>7. /\ digest[w] = "news" /\ \A q \in Runs : Tells(q, w) => q = r
      /\ run[r].delivered = 0 => \A b \in Admins : told[b][w] <= lost
      /\ run[r].delivered # 0 => \E b \in Admins : told[b][w] > 0
      /\ \A b \in run[r].todo : told[b][w] <= lost
  BY <1>2, <1>6 DEF TellInv, OneRunTells
<1>8. \A q \in Runs : \A v : Tells(q, v)' => \/ q = r /\ v = w
                                             \/ Tells(q, v) /\ run'[q] = run[q] /\ v # w
  BY <1>1, <1>7 DEF Tells, Others, w
<1>9. ASSUME NEW v \in Weeks
      PROVE  /\ digest'[v] = "none" => \A b \in Admins : told'[b][v] <= lost'
             /\ \A q \in Runs : Tells(q, v)' =>
                  /\ digest'[v] = "news"
                  /\ \A p \in Runs : Tells(p, v)' => p = q
                  /\ run'[q].delivered = 0 => \A b \in Admins : told'[b][v] <= lost'
                  /\ run'[q].delivered # 0 => \E b \in Admins : told'[b][v] > 0
                  /\ \A b \in run'[q].todo : b \in Admins => told'[b][v] <= lost'
  <2>1. CASE v = w
    <3>1. digest'[w] # "none" /\ digest'[w] = "news"
      BY <1>1, <1>7
    <3>2. ASSUME run'[r].delivered = 0, NEW b \in Admins PROVE told'[b][w] <= lost'
      <4>1. run[r].delivered = 0 /\ counted = 0
        BY <1>1, <1>4, <3>2
      <4>2. told[b][w] <= lost /\ told[b][w] \in Nat
        BY <1>2, <1>5, <1>7, <4>1
      <4>3. told'[b][w] = told[b][w] \/ told'[b][w] = told[b][w] + more
        BY <1>2, <1>5
      <4> QED
        BY <1>1, <1>2, <4>1, <4>2, <4>3
    <3>3. ASSUME run'[r].delivered # 0 PROVE \E b \in Admins : told'[b][w] > 0
      <4>1. CASE counted = 1
        <5>1. told'[a][w] = told[a][w] + 1 /\ told[a][w] \in Nat
          BY <1>2, <1>5, <4>1
        <5> QED
          BY <5>1
      <4>2. CASE counted = 0
        <5>1. PICK b \in Admins : told[b][w] > 0
          BY <1>1, <1>4, <1>7, <3>3, <4>2
        <5>2. told'[b][w] >= told[b][w] /\ told[b][w] \in Nat /\ told'[b][w] \in Nat
          BY <1>2, <1>5
        <5> QED
          BY <5>1, <5>2
      <4> QED
        BY <4>1, <4>2
    <3>4. ASSUME NEW b \in run'[r].todo, b \in Admins PROVE told'[b][w] <= lost'
      <4>1. told[b][w] <= lost /\ told'[b][w] = told[b][w]
        BY <1>1, <1>2, <1>5, <1>7, <3>4
      <4> QED
        BY <1>1, <1>2, <1>5, <3>4, <4>1
    <3> QED
      BY <1>8, <2>1, <3>1, <3>2, <3>3, <3>4
  <2>2. CASE v # w
    <3>1. \A b \in Admins : told'[b][v] = told[b][v] /\ told[b][v] \in Nat
      BY <1>5, <2>2
    <3>2. lost <= lost'
      BY <1>1, <1>2
    <3>3. \A b \in Admins : told[b][v] <= lost => told'[b][v] <= lost'
      BY <1>2, <3>1, <3>2
    <3>4. /\ digest[v] = "none" => \A b \in Admins : told[b][v] <= lost
          /\ \A q \in Runs : Tells(q, v) =>
               /\ digest[v] = "news"
               /\ \A p \in Runs : Tells(p, v) => p = q
               /\ run[q].delivered = 0 => \A b \in Admins : told[b][v] <= lost
               /\ run[q].delivered # 0 => \E b \in Admins : told[b][v] > 0
               /\ \A b \in run[q].todo : told[b][v] <= lost
      BY DEF TellInv, OneRunTells
    <3> QED
      BY <1>1, <1>8, <2>2, <3>1, <3>3, <3>4
  <2> QED
    BY <2>1, <2>2
<1>10. \A q \in Runs : run'[q].todo \subseteq Admins
  BY DEF TypeInv, ReminderTypeOK
<1>11. OneRunTells'
  BY <1>9, <1>10 DEF OneRunTells
<1>12. CountsFromClaim'
  BY <1>1 DEF TellInv, CountsFromClaim, Others
<1>13. RemindedOnceAWeek'
  <2>1. told[a][w] <= lost
    BY <1>1, <1>7
  <2>2. \A b \in Admins, v \in Weeks : told[b][v] <= 1 + lost
    BY DEF TellInv, RemindedOnceAWeek
  <2>3. \A b \in Admins, v \in Weeks : told'[b][v] <= 1 + lost'
    BY <1>1, <1>2, <1>5, <2>1, <2>2
  <2> QED
    BY <2>3 DEF RemindedOnceAWeek
<1>14. ClaimedGoesOut'
  <2>1. \A b \in Admins, v \in Weeks : told[b][v] > 0 => told'[b][v] > 0
    BY <1>5
  <2>2. \A q \in Runs : \A v : run[q].pc = "sending" /\ run[q].week = v =>
                             run'[q].pc = "sending" /\ run'[q].week = v
    BY <1>1 DEF Others, w
  <2> QED
    BY <1>1, <2>1, <2>2 DEF TellInv, ClaimedGoesOut
<1> QED
  BY <1>11, <1>12, <1>13, <1>14 DEF TellInv

\* A run that delivered nothing gives its week back; one that did, told somebody.
LEMMA FinishTells ==
  ASSUME TypeInv, RunsAreLate, TellInv, UNCHANGED faults, NEW r \in Runs, Finish(r)
  PROVE  TellInv'
<1> DEFINE w == run[r].week
<1>1. /\ Others(r) /\ UNCHANGED <<told, lost>> /\ run'[r] = Asleep
      /\ run[r].pc = "sending" /\ w \in Weeks
      /\ digest' = IF run[r].delivered = 0 THEN [digest EXCEPT ![w] = "none"] ELSE digest
  BY FinishFacts DEF TypeInv, RunsAreLate
<1>2. digest \in [Weeks -> {"none", "news", "nothing"}]
  BY DEF TypeInv, ReminderTypeOK
<1>3. Asleep.pc = "idle" /\ Asleep.delivered = 0
  BY DEF Asleep
<1>4. Tells(r, w)
  BY <1>1 DEF Tells
<1>5. /\ \A q \in Runs : Tells(q, w) => q = r
      /\ run[r].delivered = 0 => \A b \in Admins : told[b][w] <= lost
      /\ run[r].delivered # 0 => \E b \in Admins : told[b][w] > 0
  BY <1>1, <1>4 DEF TellInv, OneRunTells
<1>6. \A v \in Weeks : digest'[v] = digest[v] \/ v = w
  BY <1>1, <1>2
<1>7. digest'[w] = IF run[r].delivered = 0 THEN "none" ELSE digest[w]
  BY <1>1, <1>2
<1>8. \A q \in Runs : \A v : Tells(q, v)' => Tells(q, v) /\ run'[q] = run[q] /\ v # w
  BY <1>1, <1>3, <1>5 DEF Tells, Others
<1> HIDE DEF w
<1>9. OneRunTells'
  BY <1>1, <1>5, <1>6, <1>7, <1>8 DEF TellInv, OneRunTells
<1>10. CountsFromClaim'
  BY <1>1, <1>3 DEF TellInv, CountsFromClaim, Others
<1>11. ClaimedGoesOut'
  <2>1. ASSUME faults = 0, NEW v \in Weeks, digest'[v] = "news"
        PROVE  \/ \E q \in Runs : run'[q].pc = "sending" /\ run'[q].week = v
               \/ \E b \in Admins : told'[b][v] > 0
    <3>1. CASE v = w
      BY <1>1, <1>5, <1>7, <2>1, <3>1
    <3>2. CASE v # w
      <4>1. \/ \E q \in Runs : run[q].pc = "sending" /\ run[q].week = v
            \/ \E b \in Admins : told[b][v] > 0
        BY <1>6, <2>1, <3>2 DEF TellInv, ClaimedGoesOut
      <4> QED
        BY <1>1, <3>2, <4>1 DEF Others, w
    <3> QED
      BY <3>1, <3>2
  <2> QED
    BY <2>1 DEF ClaimedGoesOut
<1> QED
  BY <1>1, <1>9, <1>10, <1>11 DEF TellInv, RemindedOnceAWeek

LEMMA TellStep ==
  ASSUME TypeInv, RunsAreLate, TellInv, [ReminderNext]_allVars
  PROVE  TellInv'
<1>1. TypeInv' /\ ReminderTypeOK
  BY ReminderTypeStep DEF TypeInv
<1>2. ASSUME UNCHANGED <<digest, run, told, lost, faults>> PROVE TellInv'
  BY <1>2, QuietTells DEF QuietJob
<1>3. CASE UNCHANGED allVars \/ Tick
  BY <1>2, <1>3 DEF allVars, reminderVars, vars, Tick
<1>4. CASE LedgerStep
  BY <1>2, <1>4, LedgerKeeps DEF TypeInv, reminderVars
<1>5. ASSUME NEW r \in Runs, RunStep(r) PROVE TellInv'
  <2>1. UNCHANGED faults \/ Stop(r)
    BY <1>5, RunStepKeeps DEF TypeInv
  <2>2. CASE Stop(r)
    <3>1. /\ QuietJob /\ faults' = faults + 1 /\ Others(r) /\ run'[r] = Asleep
          /\ faults \in Nat
      BY <1>1, <2>2, StopFacts DEF TypeInv, SalesType
    <3>2. Asleep.pc = "idle" /\ Asleep.delivered = 0 /\ faults' # 0
      BY <3>1 DEF Asleep
    <3> QED
      BY <3>1, <3>2, QuietTells DEF Others
  <2>3. CASE Begin(r) /\ UNCHANGED faults
    <3>1. /\ QuietJob /\ Others(r) /\ run[r] = Asleep /\ run'[r].pc = "report"
          /\ run'[r].delivered = 0
      BY <1>1, <2>3, BeginFacts
    <3>2. Asleep.pc = "idle"
      BY DEF Asleep
    <3> QED
      BY <2>3, <3>1, <3>2, QuietTells DEF Others
  <2>4. ASSUME NEW from, NEW to, Reads(r, from, to), from # "sending", to # "sending",
               UNCHANGED faults
        PROVE  TellInv'
    <3>1. /\ QuietJob /\ Others(r) /\ run[r].pc # "sending" /\ run'[r].pc # "sending"
          /\ run'[r].delivered = run[r].delivered
      BY <2>4 DEF Reads
    <3>2. run[r].delivered = 0
      BY <3>1 DEF TellInv, CountsFromClaim
    <3> QED
      BY <2>4, <3>1, <3>2, QuietTells DEF Others
  <2>5. CASE (ReadReport(r) \/ ReadReview(r) \/ ReadLedger(r) \/ ReadOlder(r)) /\ UNCHANGED faults
    <3>1. \/ Reads(r, "report", "review") \/ Reads(r, "review", "ledger")
          \/ Reads(r, "ledger", "older") \/ Reads(r, "older", "claiming")
      BY <1>1, <2>5, ReadReportFacts, ReadReviewFacts, ReadLedgerFacts, ReadOlderFacts
    <3> QED
      BY <2>4, <2>5, <3>1
  <2>6. CASE Claim(r) /\ UNCHANGED faults
    BY <2>6, ClaimTells
  <2>7. ASSUME NEW a \in Admins, Deliver(r, a) \/ Refused(r, a), UNCHANGED faults
        PROVE  TellInv'
    BY <1>1, <2>7, SendFacts, SendTells
  <2>8. CASE Finish(r) /\ UNCHANGED faults
    BY <2>8, FinishTells
  <2> QED
    BY <1>5, <2>1, <2>2, <2>3, <2>5, <2>6, <2>7, <2>8 DEF RunStep
<1> QED
  BY <1>3, <1>4, <1>5 DEF ReminderNext

LEMMA ToldSafely == ReminderSpec => [](TypeInv /\ RunsAreLate /\ TellInv)
<1> DEFINE I == TypeInv /\ RunsAreLate /\ ClaimedWeeksAreOver /\ TellInv
<1>1. ReminderInit => I
  BY ReminderInitInv
<1>2. I /\ [ReminderNext]_allVars => I'
  BY ReminderTypeStep, LateStep, TellStep
<1> QED
  BY <1>1, <1>2, PTL DEF ReminderSpec

\* Each variable of the job holds what it can hold: a run is at one of its stages
\* with lists of merchants, and no more answers are lost than there are to lose.
THEOREM ReminderTypesHold == ReminderSpec => []ReminderTypeOK
<1>1. TypeInv => ReminderTypeOK
  BY DEF TypeInv
<1> QED
  BY <1>1, ToldSafely, PTL

\* However many runs of the hourly job overlap, stop or find Telegram deaf, no
\* administrator gets the reminder of a week more often than once and once more
\* for each answer that was lost.
THEOREM RemindedOnceAWeekHolds == ReminderSpec => []RemindedOnceAWeek
<1>1. TellInv => RemindedOnceAWeek
  BY DEF TellInv
<1> QED
  BY <1>1, ToldSafely, PTL

\* While no run is stopped halfway, a week claimed with news is being told or was
\* told to someone: a claim nobody heard of is given back.
THEOREM ClaimedGoesOutHolds == ReminderSpec => []ClaimedGoesOut
<1>1. TellInv => ClaimedGoesOut
  BY DEF TellInv
<1> QED
  BY <1>1, ToldSafely, PTL

-------------------------------------------------------------------------------
(* The lists are complete.                                                   *)

\* Whatever is sold, at ten som or more, leaves the merchant something.
LEMMA ShareOfSome ==
  ASSUME SalesType, NEW S \in SUBSET Sold, NEW s \in S
  PROVE  Split(Gross(S)).payout > 0
<1>1. S \subseteq Sales /\ IsFiniteSet(S)
  BY FS_Subset DEF SalesType, Sold
<1>2. \A x \in S : Amount[x] \in Nat
  BY <1>1, PayoutAssumption
<1>3. Gross(S) = Total(Amount, S)
  BY DEF Gross, Total
<1>4. Gross(S) \in Nat /\ Amount[s] <= Gross(S)
  BY <1>1, <1>2, <1>3, TotalOfNaturals, TotalCountsParts
<1>5. Amount[s] \in Nat /\ Amount[s] >= 10
  BY <1>1, PayoutAssumption
<1>6. (Gross(S) * 90) \div 100 > 0
  BY <1>4, <1>5
<1> QED
  BY <1>6 DEF Split

\* The runs that do not move are disturbed by no step, the ledger's included.
LEMMA FilledStays ==
  ASSUME NEW r \in Runs, NEW s \in Sales, Filled(r, s), run'[r] = run[r],
         state[s] = "paid" => state'[s] = "paid" /\ week'[s] = week[s],
         Uncovered(s)' => Uncovered(s)
  PROVE  Filled(r, s)'
BY DEF Filled

LEMMA ListsStep ==
  ASSUME TypeInv, RunsAreLate, ListsFill, [ReminderNext]_allVars
  PROVE  ListsFill'
<1>1. ReminderTypeOK /\ SalesType
  BY DEF TypeInv
<1>2. \A r \in Runs : run[r].since \subseteq Sales
  BY <1>1 DEF ReminderTypeOK
<1>3. ASSUME UNCHANGED run,
             \A s \in Sales : /\ state[s] = "paid" => state'[s] = "paid" /\ week'[s] = week[s]
                              /\ Uncovered(s)' => Uncovered(s)
      PROVE  ListsFill'
  <2> SUFFICES ASSUME NEW r \in Runs, run'[r].pc # "idle", NEW s \in run'[r].since
               PROVE  Filled(r, s)'
    BY DEF ListsFill
  <2>1. Filled(r, s) /\ s \in Sales
    BY <1>2, <1>3 DEF ListsFill
  <2> QED
    BY <1>3, <2>1, FilledStays
<1>4. CASE LedgerStep
  BY <1>1, <1>3, <1>4, LedgerKeeps DEF reminderVars
<1>5. CASE Tick \/ UNCHANGED allVars
  <2>1. UNCHANGED <<run, state, week, payoutId>>
    BY <1>5 DEF Tick, allVars, reminderVars, vars, saleVars, ledgerVars
  <2> QED
    BY <1>3, <2>1 DEF Uncovered
<1>6. ASSUME NEW r \in Runs, RunStep(r) PROVE ListsFill'
  <2>1. UNCHANGED <<state, week, payoutId>>
    BY <1>1, <1>6, RunStepKeeps
  <2>2. \A s : Uncovered(s)' = Uncovered(s)
    BY <2>1 DEF Uncovered
  <2>3. ASSUME Others(r), run'[r].pc # "idle" => \A s \in run'[r].since : Filled(r, s)'
        PROVE  ListsFill'
    <3> SUFFICES ASSUME NEW q \in Runs, run'[q].pc # "idle", NEW s \in run'[q].since, q # r
                 PROVE  Filled(q, s)'
      BY <2>3 DEF ListsFill
    <3>1. run'[q] = run[q]
      BY <2>3 DEF Others
    <3>2. Filled(q, s) /\ s \in Sales
      BY <1>2, <3>1 DEF ListsFill
    <3> QED
      BY <2>1, <2>2, <3>1, <3>2, FilledStays
  <2>4. run[r].pc # "idle" => \A s \in run[r].since : Filled(r, s)
    BY DEF ListsFill
  <2>5. CASE Begin(r)
    <3> DEFINE w == ReminderWeek(now)
    <3>1. /\ Others(r) /\ run'[r].pc = "report" /\ run'[r].week = w
          /\ run'[r].since = Debts(w)
      BY <1>1, <2>5, BeginFacts
    <3>2. \A s \in Debts(w) : state[s] = "paid" /\ week[s] <= w
      BY DEF Debts
    <3> HIDE DEF w
    <3>3. \A s \in run'[r].since : Filled(r, s)'
      BY <2>1, <3>1, <3>2 DEF Filled
    <3> QED
      BY <2>3, <3>1, <3>3
  <2>6. CASE ReadReport(r)
    <3>1. /\ Reads(r, "report", "review")
          /\ run'[r].listed = {m \in Merchants : PaidSales(m, run[r].week) # {}}
      BY <1>1, <2>6, ReadReportFacts
    <3>2. ASSUME NEW s \in run[r].since PROVE Filled(r, s)'
      <4>1. s \in Sales /\ Filled(r, s)
        BY <1>2, <2>4, <3>1 DEF Reads
      <4>2. MerchantOf[s] \in Merchants
        BY <4>1, PayoutAssumption
      <4>3. week[s] = run[r].week => s \in PaidSales(MerchantOf[s], run[r].week)
        BY <4>1 DEF PaidSales, InWeek, Filled
      <4>4. week[s] = run[r].week => MerchantOf[s] \in run'[r].listed
        BY <3>1, <4>2, <4>3
      <4> QED
        BY <2>1, <3>1, <4>1, <4>4 DEF Filled, Reads
    <3> QED
      BY <2>3, <3>1, <3>2 DEF Reads
  <2>7. CASE ReadReview(r)
    <3>1. Reads(r, "review", "ledger") /\ run'[r].listed = run[r].listed
      BY <1>1, <2>7, ReadReviewFacts
    <3>2. \A s \in run[r].since : Filled(r, s)'
      BY <2>1, <2>4, <3>1 DEF Filled, Reads
    <3> QED
      BY <2>3, <3>1, <3>2 DEF Reads
  <2>8. CASE ReadLedger(r)
    <3>1. /\ Reads(r, "ledger", "older")
          /\ run'[r].due = {m \in run[r].listed : Due(m, run[r].week) > 0}
      BY <1>1, <2>8, ReadLedgerFacts
    <3>2. ASSUME NEW s \in run[r].since PROVE Filled(r, s)'
      <4> DEFINE w == run[r].week
                 m == MerchantOf[s]
      <4>1. s \in Sales /\ Filled(r, s)
        BY <1>2, <2>4, <3>1 DEF Reads
      <4>2. week[s] = w => m \in run[r].listed
        BY <3>1, <4>1 DEF Filled, Reads
      <4>3. ASSUME week[s] = w, Uncovered(s) PROVE Due(m, w) > 0
        <5>1. s \in DueSales(m, w) /\ DueSales(m, w) \in SUBSET Sold
          BY <4>1, <4>3 DEF DueSales, PaidSales, InWeek, Filled, Sold
        <5> QED
          BY <1>1, <5>1, ShareOfSome DEF Due
      <4>4. week[s] = w /\ Uncovered(s) => m \in run'[r].due
        BY <3>1, <4>2, <4>3
      <4> QED
        BY <2>1, <2>2, <3>1, <4>1, <4>4 DEF Filled, Reads
    <3> QED
      BY <2>3, <3>1, <3>2 DEF Reads
  <2>9. CASE ReadOlder(r)
    <3>1. /\ Reads(r, "older", "claiming")
          /\ run'[r].due = run[r].due /\ run'[r].older = OwedBefore(run[r].week)
      BY <1>1, <2>9, ReadOlderFacts
    <3>2. ASSUME NEW s \in run[r].since PROVE Filled(r, s)'
      <4> DEFINE w == run[r].week
                 m == MerchantOf[s]
      <4>1. s \in Sales /\ Filled(r, s) /\ m \in Merchants
        BY <1>2, <2>4, <3>1, PayoutAssumption DEF Reads
      <4>2. ASSUME week[s] < w, Uncovered(s) PROVE m \in OwedBefore(w)
        <5>1. s \in UnpaidBefore(m, w) /\ UnpaidBefore(m, w) \in SUBSET Sold
          BY <4>1, <4>2 DEF UnpaidBefore, Filled, Sold
        <5> QED
          BY <1>1, <4>1, <5>1, ShareOfSome DEF OwedBefore
      <4> HIDE DEF w, m
      <4>3. week[s] < w /\ Uncovered(s) => m \in run'[r].older
        BY <3>1, <4>2 DEF w
      <4> QED
        BY <2>1, <2>2, <3>1, <4>1, <4>3 DEF Filled, Reads, w, m
    <3> QED
      BY <2>3, <3>1, <3>2 DEF Reads
  <2>10. Asleep.pc = "idle"
    BY DEF Asleep
  <2>11. CASE Claim(r)
    <3>1. CASE run'[r] = Asleep
      BY <1>1, <2>3, <2>10, <2>11, <3>1, ClaimFacts
    <3>2. CASE run'[r] # Asleep
      <4>1. /\ Others(r) /\ run[r].pc = "claiming" /\ run'[r].pc = "sending"
            /\ run'[r].week = run[r].week /\ run'[r].since = run[r].since
            /\ run'[r].due = run[r].due /\ run'[r].older = run[r].older
        BY <1>1, <2>11, <3>2, ClaimFacts
      <4>2. \A s \in run[r].since : Filled(r, s)'
        BY <2>1, <2>2, <2>4, <4>1 DEF Filled
      <4> QED
        BY <2>3, <4>1, <4>2
    <3> QED
      BY <3>1, <3>2
  <2>12. ASSUME NEW a \in Admins, Deliver(r, a) \/ Refused(r, a) PROVE ListsFill'
    <3>1. /\ Others(r) /\ run[r].pc = "sending" /\ run'[r].pc = "sending"
          /\ run'[r].week = run[r].week /\ run'[r].since = run[r].since
          /\ run'[r].due = run[r].due /\ run'[r].older = run[r].older
      BY <1>1, <2>12, SendFacts DEF Sends
    <3>2. \A s \in run[r].since : Filled(r, s)'
      BY <2>1, <2>2, <2>4, <3>1 DEF Filled
    <3> QED
      BY <2>3, <3>1, <3>2
  <2>13. CASE Finish(r) \/ Stop(r)
    <3>1. Others(r) /\ run'[r] = Asleep
      BY <1>1, <2>13, FinishFacts, StopFacts
    <3> QED
      BY <2>3, <2>10, <3>1
  <2> QED
    BY <1>6, <2>5, <2>6, <2>7, <2>8, <2>9, <2>11, <2>12, <2>13 DEF RunStep
<1> QED
  BY <1>4, <1>5, <1>6 DEF ReminderNext

\* Whatever sales land and whatever is marked while a run reads, the lists it tells
\* of, or keeps silent about, leave out no merchant still owed for a sale that was
\* known when it began; for any numbers of sales, runs and weeks.
THEOREM DebtsAreListedHolds == ReminderSpec => []DebtsAreListed
<1> DEFINE I == TypeInv /\ RunsAreLate /\ ClaimedWeeksAreOver /\ ListsFill
<1>1. ReminderInit => I
  <2>1. ASSUME ReminderInit PROVE ListsFill
    BY <2>1 DEF ReminderInit, ListsFill, Asleep
  <2> QED
    BY <2>1, ReminderInitInv
<1>2. I /\ [ReminderNext]_allVars => I'
  BY ReminderTypeStep, LateStep, ListsStep
<1>3. I => DebtsAreListed
  <2> SUFFICES ASSUME I, NEW r \in Runs, run[r].pc \in {"claiming", "sending"},
                      NEW s \in run[r].since, Uncovered(s)
               PROVE  MerchantOf[s] \in run[r].due \cup run[r].older
    BY DEF DebtsAreListed
  <2>1. Filled(r, s) /\ s \in Sales /\ run[r].week \in Weeks
    BY DEF ListsFill, TypeInv, ReminderTypeOK, RunsAreLate
  <2>2. week[s] \in Nat /\ run[r].week \in Nat
    BY <2>1, PayoutAssumption DEF Filled, TypeInv, SalesType
  <2>3. week[s] = run[r].week \/ week[s] < run[r].week
    BY <2>1, <2>2 DEF Filled
  <2> QED
    BY <2>1, <2>3 DEF Filled
<1> QED
  BY <1>1, <1>2, <1>3, PTL DEF ReminderSpec
===============================================================================
