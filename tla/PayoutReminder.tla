----------------------------- MODULE PayoutReminder ----------------------------
(***************************************************************************)
(* The Monday reminder to the administrators, over the payout ledger: what *)
(* is due for last week, debts older than that, orders to review.  A run   *)
(* reads, claims the week in bot_digests, then sends.                      *)
(***************************************************************************)
EXTENDS Payouts, Calendar

CONSTANTS
  Admins,    \* users with role admin
  Runs,      \* runs of the hourly job, overlapping when the app is redeployed
  Times,     \* the instants at which something happens
  MaxLost    \* bound: bot messages delivered whose answer we never got

VARIABLES
  now,
  digest,    \* bot_digests: the weeks claimed, and whether there was news
  run,       \* the runs
  told,      \* messages an administrator got about a week
  lost

\* Weeks are named by their Mondays.
ASSUME ReminderAssumption ==
  /\ MaxLost \in Nat /\ None \notin Runs \cup Admins
  /\ Times \subseteq Nat /\ Weeks \subseteq Mondays
  /\ \A t \in Times : /\ WeekOf(DateOf(t)) \in Weeks
                      /\ ReminderTime(t) => ReminderWeek(t) \in Weeks

reminderVars == <<now, digest, run, told, lost>>
allVars == <<vars, reminderVars>>

\* since is a ghost: the debts there were when the run began.
Asleep == [pc |-> "idle", week |-> 0, listed |-> {}, due |-> {}, older |-> {},
           review |-> FALSE, todo |-> {}, delivered |-> 0, since |-> {}]

ReminderInit ==
  /\ Init
  /\ now \in Times /\ \A t \in Times : now <= t
  /\ digest = [w \in Weeks |-> "none"]
  /\ run = [r \in Runs |-> Asleep]
  /\ told = [a \in Admins |-> [w \in Weeks |-> 0]]
  /\ lost = 0

\* The ledger goes on meanwhile; Finik's times are not in the future.
LedgerStep ==
  /\ \/ \E s \in Sales, t \in Times, v \in {"paid", "needs_review"} :
          t <= now /\ Pay(s, WeekOf(DateOf(t)), v)
     \/ \E s \in Sales, v \in {"paid", "refunded"} : Resolve(s, v)
     \/ \E p \in Marks, m \in Merchants, w \in Weeks : Ask(p, m, w, None)
     \/ \E p \in Marks : MarkStep(p)
  /\ UNCHANGED reminderVars

Tick ==
  /\ \E t \in Times : /\ t > now /\ now' = t
                      /\ \A u \in Times : u > now => t <= u
  /\ UNCHANGED <<vars, digest, run, told, lost>>

-------------------------------------------------------------------------------
Debts(w) == {s \in Sales : state[s] = "paid" /\ Uncovered(s) /\ week[s] <= w}

Goes(r, new) == run' = [run EXCEPT ![r] = new]

\* The hour struck: last week, unless it has been handled.
Begin(r) ==
  LET w == ReminderWeek(now) IN
  /\ run[r] = Asleep /\ ReminderTime(now)
  /\ digest[w] = "none"
  /\ Goes(r, [Asleep EXCEPT !.pc = "report", !.week = w, !.since = Debts(w)])
  /\ UNCHANGED <<vars, now, digest, told, lost>>

\* buildPayoutReport: the merchants with paid sales, then the orders to review.
ReadReport(r) ==
  /\ run[r].pc = "report"
  /\ Goes(r, [run[r] EXCEPT !.pc = "review",
                !.listed = {m \in Merchants : PaidSales(m, run[r].week) # {}}])
  /\ UNCHANGED <<vars, now, digest, told, lost>>

ReadReview(r) ==
  /\ run[r].pc = "review"
  /\ Goes(r, [run[r] EXCEPT !.pc = "ledger",
                !.review = \E s \in Sales : state[s] = "needs_review" /\ week[s] = run[r].week])
  /\ UNCHANGED <<vars, now, digest, told, lost>>

ReadLedger(r) ==
  /\ run[r].pc = "ledger"
  /\ Goes(r, [run[r] EXCEPT !.pc = "older",
                !.due = {m \in run[r].listed : Due(m, run[r].week) > 0}])
  /\ UNCHANGED <<vars, now, digest, told, lost>>

UnpaidBefore(m, w) ==
  {s \in Sales : state[s] = "paid" /\ MerchantOf[s] = m /\ Uncovered(s) /\ week[s] < w}

\* Regression: old debts are added to the merchants already on the list.
ReadOlderOfListed(r) ==
  /\ run[r].pc = "older"
  /\ Goes(r, [run[r] EXCEPT !.pc = "claiming",
                !.older = {m \in run[r].listed :
                             Split(Gross(UnpaidBefore(m, run[r].week))).payout > 0}])
  /\ UNCHANGED <<vars, now, digest, told, lost>>

ReadOlder(r) ==
  /\ run[r].pc = "older"
  /\ Goes(r, [run[r] EXCEPT !.pc = "claiming",
                !.older = {m \in Merchants :
                             Split(Gross(UnpaidBefore(m, run[r].week))).payout > 0}])
  /\ UNCHANGED <<vars, now, digest, told, lost>>

HasNews(r) == run[r].due # {} \/ run[r].older # {} \/ run[r].review

\* Regression: the claim is an upsert.
ClaimableAnyway(w) == TRUE
Claimable(w) == digest[w] = "none"

\* INSERT ... ON CONFLICT DO NOTHING, committed on its own.
Claim(r) ==
  LET w == run[r].week IN
  /\ run[r].pc = "claiming"
  /\ IF Claimable(w)
     THEN /\ digest' = [digest EXCEPT ![w] = IF HasNews(r) THEN "news" ELSE "nothing"]
          /\ Goes(r, IF HasNews(r) THEN [run[r] EXCEPT !.pc = "sending", !.todo = Admins]
                     ELSE Asleep)
     ELSE Goes(r, Asleep) /\ UNCHANGED digest
  /\ UNCHANGED <<vars, now, told, lost>>

Sent(r, a, counted) ==
  Goes(r, [run[r] EXCEPT !.todo = @ \ {a}, !.delivered = @ + counted])

\* Telegram takes the message, refuses it, or takes it and answers too late.
Deliver(r, a) ==
  /\ run[r].pc = "sending" /\ a \in run[r].todo
  /\ told' = [told EXCEPT ![a][run[r].week] = @ + 1]
  /\ \/ Sent(r, a, 1) /\ UNCHANGED lost
     \/ Sent(r, a, 0) /\ lost < MaxLost /\ lost' = lost + 1
  /\ UNCHANGED <<vars, now, digest>>

Refused(r, a) ==
  /\ run[r].pc = "sending" /\ a \in run[r].todo
  /\ Sent(r, a, 0)
  /\ UNCHANGED <<vars, now, digest, told, lost>>

\* Regression: the claim is kept whatever Telegram answered.
FinishKeeping(r) ==
  /\ run[r].pc = "sending" /\ run[r].todo = {}
  /\ Goes(r, Asleep)
  /\ UNCHANGED <<vars, now, digest, told, lost>>

\* No one got it: the claim is given back for the next hour.
Finish(r) ==
  /\ run[r].pc = "sending" /\ run[r].todo = {}
  /\ digest' = IF run[r].delivered = 0 THEN [digest EXCEPT ![run[r].week] = "none"] ELSE digest
  /\ Goes(r, Asleep)
  /\ UNCHANGED <<vars, now, told, lost>>

\* The app is stopped: Koyeb sleeps, or deploys.
Stop(r) ==
  /\ run[r].pc # "idle" /\ faults < MaxFaults
  /\ faults' = faults + 1
  /\ Goes(r, Asleep)
  /\ UNCHANGED <<saleVars, ledgerVars, locks, mark, screen, now, digest, told, lost>>

RunStep(r) ==
  \/ Begin(r) \/ ReadReport(r) \/ ReadReview(r) \/ ReadLedger(r) \/ ReadOlder(r)
  \/ Claim(r) \/ (\E a \in Admins : Deliver(r, a) \/ Refused(r, a)) \/ Finish(r) \/ Stop(r)

ReminderNext == LedgerStep \/ Tick \/ \E r \in Runs : RunStep(r)
ReminderSpec == ReminderInit /\ [][ReminderNext]_allVars

-------------------------------------------------------------------------------
\* Every variable of the job holds what it can hold.
ReminderTypeOK ==
  /\ now \in Times
  /\ digest \in [Weeks -> {"none", "news", "nothing"}]
  /\ run \in [Runs -> [pc : {"idle", "report", "review", "ledger", "older", "claiming", "sending"},
                       week : Nat, listed : SUBSET Merchants, due : SUBSET Merchants,
                       older : SUBSET Merchants, review : BOOLEAN, todo : SUBSET Admins,
                       delivered : Nat, since : SUBSET Sales]]
  /\ told \in [Admins -> [Weeks -> Nat]]
  /\ lost \in 0..MaxLost

\* No administrator is reminded of a week twice, by overlapping runs or restarts,
\* unless Telegram delivered a message and the answer was lost.
RemindedOnceAWeek == \A a \in Admins, w \in Weeks : told[a][w] <= 1 + lost

\* The lists a week's message is made from, or the silence about it, leave out no
\* merchant that is still owed for a sale known when the run began, of that week
\* or before: also one that landed in a week already paid out.  (The message
\* names the first forty merchants of each list.)
DebtsAreListed ==
  \A r \in Runs : run[r].pc \in {"claiming", "sending"} =>
    \A s \in run[r].since : Uncovered(s) => MerchantOf[s] \in run[r].due \cup run[r].older

\* A week claimed with something to tell is being told or was told to someone:
\* when Telegram refuses every message the next hour tries again.  (A run that is
\* stopped after its claim never sends it: those are the faults left out here.)
ClaimedGoesOut ==
  faults = 0 => \A w \in Weeks : digest[w] = "news" =>
    \/ \E r \in Runs : run[r].pc = "sending" /\ run[r].week = w
    \/ \E a \in Admins : told[a][w] > 0

\* A week that was claimed is over: what is learnt later of it can only be a late
\* webhook or a resolved review, not a sale made while it was told.
ClaimedWeeksAreOver ==
  \A w \in Weeks, t \in Times :
    digest[w] # "none" /\ t >= now => ~InPeriod(t, w, w + 6)
===============================================================================
