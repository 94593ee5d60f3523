# Kuttuk Time backend: a formal model

The backend sells gift certificates of cafés and shops inside a Telegram mini app
(NestJS, TypeORM, PostgreSQL).  A buyer places an order, pays it at Finik, and gets an
8-digit code; the venue's owner redeems the code; once a week an administrator pays the
owners their 90 per cent.  Money comes in through a webhook that may be late, repeated or
out of order, and goes out by hand, so most of what can go wrong here is an interleaving
of requests, crons and transactions that no test of the repository runs.

This directory models those parts in TLA+, checks them with TLC on small instances, and
proves with TLAPS, for every size of the system, all the safety properties it checks, and what
the calendar and the one migration of data compute.

    tlc -workers 2 -config orders_race.cfg MCOrders.tla      # one run
    for m in OrdersProofs PayoutsProofs ReminderProofs CertificatesProofs PagesProofs \
             AccountsProofs CategoriesProofs VenuesProofs; do tlapm $m.tla; done

`PROJECT.json` has the machine-readable index: the components, every run, the source lines
each definition translates, a plausible bug for each property that makes the property fail,
the hazards, the disagreements found, and the theorems.

## The system

Paths are relative to `src/src/` unless they start with `scripts/`.

| component | state | operations | must hold |
|---|---|---|---|
| **Orders** `orders/orders.service.ts` | `orders` rows: status, paidAt, finikTransactionId, paymentUrl, expiresAt | `create` (INSERT, call Finik, store the url or expire the order), `findOwn`, the `expireStale` cron | a payable order ends; a failed request leaves no payable order |
| **Finik client** `finik/finik.service.ts` | none | `createPayment`: url, refusal, or a timeout after which the payment may exist all the same | — |
| **Finik webhook** `orders/finik-webhook.service.ts`, `order-fulfillment.ts` | `finik_webhook_events`, orders, certificates | verify, save the event, then in one transaction lock the order and settle it or hold it for review, then record the outcome, answer, notify | one payment, one certificate, at the payment's time, whatever is repeated, late or racing |
| **Manual review** `orders/resolve-needs-review.ts`, `scripts/resolve-review.ts` | `order_resolutions` | issue or refund a held order, once | a trail row for each decision and no other |
| **Payout ledger** `payouts/payout-ledger.ts`, `payouts-report.ts`, `admin-payouts.service.ts` | `payouts`, `orders.payoutId` | weekly report, mark a week as paid out | nothing is paid twice, nothing is forgotten |
| **Payout reminder** `payouts/payout-reminder.service.ts` | `bot_digests` | hourly on Mondays: read, claim the week, send, give the claim back if no one got it | once a week, naming every debt |
| **Redemption** `certificates/redemption.service.ts` | `certificates` | look up, redeem with one conditional UPDATE, explain a refusal | redeemed once, by its venue's present owner, in time |
| **Expiry reminders** `certificates/expiry-reminders.service.ts` | `certificates.expiryRemindedAt` | claim a batch, send | each certificate at most once |
| **Lists in pages** `orders/admin-orders.service.ts`, `certificates/merchant-cabinet.service.ts`, `common/utils/keyset-page.ts` | none | pages over (createdAt, id) with a keyset cursor | no row twice, none skipped |
| **Buyer and cabinet** `certificates/certificates.service.ts`, `gift-share.service.ts`, `merchant-cabinet.service.ts` | none | the buyer's list, the gift card, the owner's weekly summary and list | what is shown is never less than what is owed |
| **Venues** `venues/` | their rows; `venues.categories` is an int[] with no foreign key | create, edit by owner and administrator, move, hide | owners touch only their own; no request undoes another's; logos on show stay |
| **Merchants** `merchants/` | `merchants` rows, `telegramId` UNIQUE | create, `updateAdmin` | one merchant for an account |
| **Categories** `categories/` | `categories` rows with their order | create, rename, reorder in a transaction, remove (also from venues) | the list is as someone asked for it |
| **Upload, Cloudinary** `upload/`, `cloudinary/` | image files elsewhere | upload; delete a logo nobody shows | — |
| **Telegram** `telegram/telegram-bot.service.ts` | none | send: delivered, refused, or delivered and the answer lost | — |
| **Log-in** `auth/` | `users.role`, and the role in each token | verify initData, promote or demote, sign a token for two hours | the role follows the merchant's account |
| **Dates** `common/utils/`, `payouts/payouts-report.ts` | none | payout weeks of Bishkek, the reminders' hours, `addMonths` | a sale has one week; a month has its days |
| **Split migration** `database/migrations/1792500000000-…` | the schema | `up`, `down` | no storefront, owner or debt changes hands |
| **Rest** | | signatures (`finik/finik-signer.ts`), rate limits, bot updates, scripts, the other migrations, the application shell | |

How they interact: everything meets in PostgreSQL under READ COMMITTED.  The webhook, the
cron, `create` and the command line write the same `orders` rows; the ledger links orders the
webhook may still be settling into weeks long over; redemption, reminders and the
administrators' edits of venues and accounts meet in `certificates`; venue edits, category
deletions and logo clean-ups meet in `venues` and at Cloudinary; log-ins and the
administrators' edits of merchants meet in `users.role`, but only when someone logs in.
Notifications are started and not awaited.  Nothing calls back but Finik.

What is hard: transactions that wait for row locks and re-read what they get; at-least-once
delivery; a COMMIT whose answer is lost; a process that dies between two statements; a value
read by one statement and used by another; a `save()` that writes back what it loaded earlier;
claims taken before work that may not happen; a role carried in a token.

## Modules

Module | what it is
---|---
`Sale` | abstract: what is promised of each order (place, lapse, sell, hold, decide)
`Orders` | the order service in full: `create`, webhook, cron, command line, crashes
`OrderProperties` | its invariants, action and liveness properties, and the refinement of `Sale`
`OrdersProofs` | theorems: types, certificates, the trail, the moves and the refinement of `Sale`; then the money, the answers, the notices and the audit
`Ledger` | abstract: a sale lands in a week once and is transferred once, with its merchant's share
`Payouts`, `PayoutProperties` | the ledger, its marks and both screens, and the refinement of `Ledger`
`PayoutsProofs` | theorems about sums over finite sets, and about the ledger, its marks and its screens
`Calendar` | pure: Bishkek's dates, hours and weeks; `addMonths`
`PayoutReminder` | EXTENDS `Payouts` and `Calendar` with the Monday job
`ReminderProofs` | theorems about the payout weeks and the job
`Certificates`, `CertificateProperties` | redemption, expiry reminders, moves of venues and accounts
`CertificatesProofs` | theorems about them and about `addMonths`, by which they end
`Pages`, `PagesProofs` | keyset pages read while rows come and change, and theorems about them
`Accounts`, `AccountsProofs` | log-in, tokens and their guards, against administrators' edits of merchants, and theorems about them
`Categories`, `CategoriesProofs` | the categories' order: create, rename, reorder, remove, with row locks, and theorems about it
`Storefront` | creation and edits of venues, with TypeORM's `save` and the logo clean-up
`Migration` | pure: the split of merchants and venues, both ways
`VenuesProofs` | theorems about `Storefront` and `Migration`
`MC*` | constants for TLC

A definition marked *Regression* is not part of the specification.  It is the definition
below it as a likely slip would have it, and shows that a property notices.

### Orders

A transaction that locks its row is two steps: `LockOrder` (the SELECT ... FOR UPDATE
returned, the row's status is remembered in `work[h].seen`) and one of `LeaveAlone`,
`HoldForReview`, `Sell`, `Abort`, which apply all writes and release the lock.  A
single-statement UPDATE that must wait for locks is one step when it touches one row
(`StoreUrl`, `ExpireFailed`) and `SweepStart`, `SweepTake`/`SweepSkip`, `SweepCommit` for
the cron's, which picks its rows from a snapshot and checks each again when it gets it.
`Receive` may pick any message sent, again too, so delivery is at least once and in any
order.  `LoseCommit` turns a commit that took effect into an exception; `Crash` drops every
request, lock and cron run and keeps the database.  `Verdict` is the ladder of early returns
of `apply()`.  A message is what the code looks at: which order, signed, successful, to our
account, of the right amount, transaction id and `at`, its transactionDate, `None` when it is
missing or no date.  `clock` is the time of day, which `Tick` moves on, and `PaidAtFrom` is
`paidAtFrom`: the message's time unless it is missing, more than `MaxAge` ago or more than
`MaxAhead` to come, when it is the time of processing.  `legacy` are the review rows from
before paidAt was kept, which the code still handles.  Checks of `create` that precede the
INSERT change nothing, so only accepted requests are modelled; `findOwn` only reads.

### Payouts and the reminder

`Ask` takes the set of rows the SELECT ... FOR UPDATE matches when it starts; `Reach` and
`Take` lock them in any order, as there is no ORDER BY, and drop a row that stopped
matching; `Record` or `Refuse` ends the transaction; `Deadlock` is PostgreSQL breaking a
circle of waits.  `Pay` puts a sale into any week, also one already marked, because paidAt
is when Finik took the money.  A screen is put together from statements that are no one
snapshot: sales, then ledger, then (for the administrator) the payouts recorded; each is a
step.  The owner's weekly summary is the first two of them, so an administrator's screen
half-way is an owner's.  The reminder's run is likewise one step per statement, then one per
message.

`Ledger` has no statements, locks or requests: `Landed` and `Transfers` of `PayoutProperties`
are what a reader of the tables takes for the weeks of the sales and for the transfers made,
and `KeepsLedger` says that the tables only ever change as the abstract ledger does.

### Calendar

An instant is a whole hour of UTC counted from a Monday, a date a whole day of Bishkek counted
from the same Monday; every boundary of a payout week is on a whole hour.  `IN_PERIOD` is a
test on instants, `weekOf` a function of dates, and the reminder works out "a week ago" on a
shifted clock: three ways to say one week, in three files, that must agree.  `AddMonths` goes
through `Carried`, which is what JavaScript's `Date.UTC` and `setUTCFullYear` do with a day
that the month does not have, and keeps the time of day; a moment there is a month, a day of
it and a millisecond of that day, all of UTC.  `PayoutReminder` takes its weeks from here:
time passes over hours on both sides of midnight in Bishkek, and each sale falls in the week
of its hour.

### Certificates

`Begin` records when the UPDATE began, because PostgreSQL's `now()` is that time, and `Redeem`
or `Miss` is when the row was reached.  `Redeem` is the UPDATE alone; `Announce`, the notice
to the owner, and `AnswerRedeemed`, the answer to the cashier, follow, and `Miss` leads to
`Explain`, which reads the certificate again.  Between any two of them `Drop` may end the
request: the app died or the connection was lost, and what was not said by then never is.
`found`, what the UPDATE met, is kept for the properties and read by no action.  A sale may
carry a paidAt a little off our clock (`Skew`). `effectiveStatusSql` is `EffectiveStatus`.

A buyer may look at the list (`LookAtOwn`), or ask for a gift card (`AskForCard`), for which
Telegram may be away (`MakeCard`).

### Pages

A cursor is the key of the last row shown; a filter is the set of states a row matches in.
A row may be committed with a createdAt in the past, the time its transaction began.

### Storefront

`save()` of TypeORM reads the row again (`Reread`) and then updates the columns in which the
entity loaded earlier differs from it (`Save`).  Columns no request interacts with are left
out.  Cloudinary is the `file` of each logo.  A body may name any logo: `assertOwnLogo` looks at
the form of the URL only, so a form filled in long ago, or a URL made up, can put a file on show
that was deleted since or never was.  `touched` is history, read by no action: which columns
others wrote since a request read what it relies on.  A deactivated merchant's own request is
refused and changes nothing, so it is not among the actions.

### Accounts

`logIn` is a statement a step: the user, its merchant, then INSERT or UPDATE with the role
worked out from what those two had found, then the token.  Two devices of one account may be
anywhere in it; the second INSERT breaks the UNIQUE telegramId and is a 409.  `updateAdmin` is
`Load`, `Reread` and `Save`, like every `save()`.  A token is its role: the guards look at
nothing else, so it is good for two hours whatever happened to the account, and `Cabinet` is
what its bearer meets there.  The initData of an open app grows old once, in a day; tokens
expire and are renewed with the same initData.

### Categories

The UPDATEs of a reorder keep their rows locked until it commits, so rows change at `Commit`
alone; `UpdateRow` waits for its row.  A DELETE or a rename's UPDATE waits for the row too.
PostgreSQL ends one of two reorders that wait for each other.

### Migration

A schema is a record of tables; `Before` and `After` are the databases its constraints accept
(types, foreign keys, the UNIQUE accounts).  Each way runs in one transaction with the tables
locked, and so is a function.

## What is checked

Run | question | result
---|---|---
`orders_race` | one order; two deliveries at a time of its payment and of a wrong amount, dated now, behind or ahead of the clock, the cron, an operator, a timed-out `createPayment`, one crash or lost commit | all hold; `Sale` is implemented; settled only by its own money, at its own time or that of processing
`orders_bodies` | two orders; bodies unsigned, undated, dated ahead, to another account, for no order of ours, with a transaction id of another order; two codes, so that they collide | paid if and only if certified; settled only by its own money
`orders_live` | a failed attempt, then the payment, with Finik's retries, under fairness | money is settled, pending ends, nothing hangs
`payouts` | two marks at once, both screens, late sales and reviews, a death | the ledger balances; `Ledger` is implemented; marks end
`reminder` | overlapping runs over three weeks, hours before and after midnight in Bishkek, a restart, one lost answer | once a week, about a week that is over, with every debt listed; a refused message is retried
`certificates` | two cashiers or the buyer, two reminder runs, one administrator, answers lost | redeemed once, refusals are true, reminded once, ends are final
`pages` | a list of four rows with equal and neighbouring times, read while rows are committed and change | none twice, none skipped, no blank page
`accounts` | two devices of one account, two merchants, an administrator's edits, a death | roles are earned, stale ones heal, whoever may is let in
`categories` | three requests at once over three categories and a fourth, a death | the list is as one reorder asked for it; requests end
`storefront` | two requests at once, of owners and of administrators who create, move and hide a venue, change its logo and remove its category; saves and clean-ups that fail | what no other wrote is as sent or as it was; owners write their own; only a logo put on show during its clean-up loses its file; no made-up category
`storefront_logos`, `storefront_patch` | statements of the repository that the code does not keep | violated, see below

The properties worth reading first:

* `PaidIffCertified`: an order is paid exactly when it has its one certificate.
* `AckedMoneyIsSettled`: a 200 ends Finik's retries, so no payment answered 200 is left on
  an order pending or expired, though the order may have expired long before.
* `AuditAgrees`: at most one event row claims to have settled an order, and it is right.
* `SettledByItsMoney`: paidAt and transaction id of an order come from one and the same
  signed, successful message to our account for it; paidAt is a time of processing only if
  the message's own is missing or implausible at that time.
* `LedgerBalances`: paid out plus due is the merchant's share, to the som.  It needs that
  every nominal is a multiple of 10 KGS (`venue.constants.ts`), an assumption of `Payouts`:
  shares are floored per payout, and floors of odd parts would not add up.
* `RecordsWhatWasSeen`: a mark records the amount the administrator saw, or is refused.
* `ScreenHidesNothing`: the statements are no snapshot, but their order never makes money
  vanish, for the administrator or the owner; read the ledger before the sales and it would.
* `KeepsLedger`: whatever marks, late sales and deaths interleave, each sale is transferred
  once, with sales of its merchant and week, and no transfer or week changes afterwards.
* `DebtsAreListed`, `ClaimedWeeksAreOver`: the Monday message leaves out no debt known when its
  run began, and is about a week to which no sale can be added but a late one.
* `RedeemedOnce`, `EndsAreFinal`: a used certificate has one winner, in time, and used and
  expired do not come back.  That the winner hears of it, or the owner, is not promised: the
  app may die after the UPDATE.
* `RefusalsAreTrue`: the reason of a refusal, read by a second statement, is true all the same.
* `NothingSkipped`: a row that matched since the first page is on a page, once the pages
  have gone below it.  A cursor of a JavaScript Date, the bug that `keyset-page.ts`
  describes, is one of its regressions.
* `RolesAreEarned`: no one becomes, or stops being, a merchant but for what was true of the
  account at some moment of the very log-in that did it.
* `RolesFollowMerchants`: races do leave a stale role in the row (the UPDATE writes what was
  read), and tokens outlive changes; both heal, so the cabinet opens for good to an active
  owner whose app stays open, and closes for good to who owns none.
* `ListIsAsAsked`, `RequestsEnd`: reorders that overlap never mix, and deadlocks end.
* `ColumnsAreApart`, `OwnersEditTheirOwn`: how far `save()` can be trusted.  A PATCH writes
  columns it was not sent, with what it loaded, only if another request wrote them in the
  meantime; and an owner's lands on a venue of another's only if it was given away in the
  meantime.
* `UntouchedLogosStay`: the clean-up deletes a file on show only if it was put on show after the
  clean-up had looked.

### Bounds

Named constants bound what the code does not: `MaxDeliveries`, `MaxFaults`, `MaxMoves`,
`MaxTime`, `MaxAge`, `MaxAhead`, `MaxLost`, `MaxChanges`, `PageMax`, `Skew`, `Delay`.  They
are chosen so that every hazard happens: two deliveries at a time of two messages is the least
for duplicates, overtaking and a second payment; one fault can fall between any two steps; two
codes for two orders collide; with `MaxAhead` 0, a clock up to 1 and `MaxAge` 0 (in
`orders_race`), payments dated 0 and 1 are plausible at one time and not at another; two sales
taken in opposite orders deadlock; with Validity and Window 1 and time up to 2, a certificate
is fresh, due for its reminder, at its very end and past it; four rows make three pages and
more, with ties and neighbours within one millisecond; two devices are the least for two first
log-ins to race, and two changes of merchants for a stale edit to be saved over a newer one;
two requests for a venue are the least for a stale save, a move during an owner's PATCH and a
logo taken up while it is deleted (a logo shared by two venues is in `storefront_logos` and in
the proof); three categories can be taken in opposite orders by two reorders while a third
request renames or removes one.  Handlers, requests and runs are interchangeable, hence
SYMMETRY, used only where no liveness is checked.  Deadlock is checked where the system can
always go on, and switched off where it comes to rest with every message delivered and every
bound reached.

### Fairness

`Orders!Fairness` is what the deployment gives: Finik repeats a message until it has its 200
(strong, since a handler must be free); the runtime finishes each request it started (weak);
PostgreSQL grants a row lock in turn (strong, since the lock comes and goes); `fetch` has a
timeout, so `createPayment` comes back; the cron ticks; drawing random codes does not
collide for ever.  No fairness on buyers, operators' decisions to open a case, crashes or
lost commits.  In `Payouts` each mark's transaction goes on, which includes PostgreSQL
breaking a deadlock; likewise in `Categories`.  In `Accounts` a request that came in is served,
tokens expire, and an app without a token logs in again, which is what the front end does on a
401 (`auth.service.ts:11`); nobody must open an app, and administrators must do nothing.  No
liveness is stated of reminders: the host may sleep all Monday.

## What the code does not keep

* `storefront_logos` — `venues.service.ts:273`: "only if no other venue still shows that
  image".  `exists()` and `deleteFile()` are two steps, and a second PATCH may put the file
  on a venue between them.
* `storefront_patch` — an owner's PATCH must leave the administrators' columns alone
  (`merchants.controller.ts:69`).  `save()` writes every column in which the entity it
  loaded differs from the row now, so a PATCH that loaded a venue before an administrator hid
  or moved it undoes that.

Known limits that the models show and no document of the repository denies:

* The week's reminder is claimed before it is sent; a run stopped in between never sends it
  (at most once: `RemindedOnceAWeek`; `ClaimedGoesOut` is therefore about runs that live).
* The reason for a refused redemption is read by a second statement: a certificate that came to
  the merchant in between is called expired, and that is the one exception of
  `RefusalsAreTrue`.  The next tap redeems it.
* A certificate whose UPDATE committed before the app died is used, though the cashier has no
  answer and the owner no notice; the next tap says "already used".
* A form may put a logo on show whose file is gone, or never was there.
* A category removed between `assertCategoriesExist` and the save, or taken off the venue after
  the load, is put back by the save, and its id stays in `venues.categories`.  Hence
  `NoMadeUpCategory` says only that every id there named a category at some time.
* An owner's PATCH that was loaded before the venue was given away still writes its texts.
* An account taken from a merchant while its request is served still redeems.
* A rename writes back the order it loaded: a reorder in between loses that category's place.
  Two categories created at once get the same order.

## What is proved

Every assumption is about constants, and TLC evaluates each on the runs:

* orders: any sets of orders, messages, handlers, operators and codes and any bounds, also of
  plausible times, from `ConstantsAssumption` (messages have the shape of a body, the sets of actors and `None` are
  apart, bounds are numbers);
* the ledger: any sales, merchants, weeks, marks, screens and bounds, from `PayoutAssumption`
  (each sale has a merchant and a nominal that is a multiple of 10, `None` is no id) and
  `NoneAssumption` (a payout's row is not `None`);
* the reminder: also any runs, administrators and hours, from `ReminderAssumption`;
* certificates: any certificates, cashiers, runs, venues, merchants and bounds, from
  `CertificateAssumption` (each certificate has a venue, `None` is nothing else);
* pages: any rows, filters, page sizes and clock, from `ConstantsAssumption` of `Pages` (ids
  are numbers, as uuids are, and the bounds are);
* accounts: any accounts, devices, merchants and edits, from `AccountAssumption` (each device
  has an account, no two merchants are registered to one, `None` is nothing else);
* categories: any ids, requests and orders asked for, from `CategoryAssumption` (the first list
  has no category twice, an order is a natural, `None` is nothing else);
* venues: any venues, merchants, categories, logos, bodies and requests, from
  `StorefrontAssumption` (a body's columns have values a row can have, `None` is nothing else);
* dates: every hour, date and number of months; the migration: every database the old (or the
  new) constraints accept.

Theorem | says
---|---
`OrdersProofs!TypesHold` | `Spec => []TypeOK`
`OrdersProofs!PaidIffCertifiedHolds` | `Spec => []PaidIffCertified`
`OrdersProofs!ResolutionTrailHolds` | `Spec => []ResolutionTrail`
`OrdersProofs!MovesAreLegalHolds` | `Spec => MovesAreLegal`
`OrdersProofs!PromiseKept` | `Spec => KeepsPromise`, the refinement of `Sale`
`OrdersProofs!SettledByItsMoneyHolds` | `Spec => []SettledByItsMoney`
`OrdersProofs!AckedMoneyIsSettledHolds` | `Spec => []AckedMoneyIsSettled`
`OrdersProofs!AuditAgreesHolds`, `NotifiedOnceHolds` | `Spec => []AuditAgrees`, `[]NotifiedOnce`
`OrdersProofs!CreateAnswerAlwaysHolds` | `Spec => []CreateAnswerHolds`
`OrdersProofs!PaidAtIsFixedHolds` | `Spec => PaidAtIsFixed`
`PayoutsProofs!LedgerKept` | `Spec => KeepsLedger`, the refinement of `Ledger`
`PayoutsProofs!PayoutsCoverTheirSalesHolds` | `Spec => []PayoutsCoverTheirSales`
`PayoutsProofs!LedgerBalancesHolds` | `Spec => []LedgerBalances`
`PayoutsProofs!RecordsWhatWasSeenHolds` | `Spec => RecordsWhatWasSeen`
`PayoutsProofs!ScreenHidesNothingHolds` | `Spec => []ScreenHidesNothing`
`PayoutsProofs!PayoutTypesHold` | `Spec => []TypeOK`
`PayoutsProofs!TotalWithout`, `TotalOfParts` | a sum over a finite set is the same in any order, and adds up over parts
`ReminderProofs!ReminderTypesHold` | `ReminderSpec => []ReminderTypeOK`
`ReminderProofs!ClaimedWeeksAreOverHolds` | `ReminderSpec => []ClaimedWeeksAreOver`
`ReminderProofs!RemindedOnceAWeekHolds`, `ClaimedGoesOutHolds` | `ReminderSpec => []RemindedOnceAWeek`, `[]ClaimedGoesOut`
`ReminderProofs!DebtsAreListedHolds` | `ReminderSpec => []DebtsAreListed`
`CertificatesProofs!CertificateTypesHold` | `Spec => []TypeOK`
`CertificatesProofs!RedeemedOnceHolds`, `RefusalsAreTrueHolds`, `RemindedOnceHolds` | `Spec => []RedeemedOnce`, `[]RefusalsAreTrue`, `[]RemindedOnce`
`CertificatesProofs!EndsAreFinalHolds` | `Spec => EndsAreFinal`
`ReminderProofs!WeeksPartition` | `IN_PERIOD` and `weekOf` agree: an instant is in exactly the week of its date
`ReminderProofs!ReminderWeekIsOver` | whenever the reminder runs, its week ended at the last midnight in Bishkek
`CertificatesProofs!AddMonthsClamps` | `addMonths` gives the same day so many months on, or the last one that month has, at the same time of day
`CertificatesProofs!AddMonthsKeepsOrder` | who pays first has no later last day, and no later end unless the last month is too short for both
`PagesProofs!PageTypesHold` | `Spec => []TypeOK`
`PagesProofs!PagesGoDownHolds`, `NothingSkippedHolds` | `Spec => []PagesGoDown`, `[]NothingSkipped`
`AccountsProofs!AccountTypesHold` | `Spec => []TypeOK`
`AccountsProofs!RolesAreEarnedHolds` | `Spec => RolesAreEarned`
`CategoriesProofs!CategoryTypesHold` | `Spec => []TypeOK`
`CategoriesProofs!ListIsAsAskedHolds` | `Spec => []ListIsAsAsked`
`VenuesProofs!VenueTypesHold` | `Spec => []TypeOK`
`VenuesProofs!NoMadeUpCategoryHolds` | `Spec => []NoMadeUpCategory`
`VenuesProofs!ColumnsAreApartHolds`, `OwnersEditTheirOwnHolds` | `Spec => ColumnsAreApart`, `OwnersEditTheirOwn`
`VenuesProofs!UntouchedLogosStayHolds` | `Spec => UntouchedLogosStay`
`VenuesProofs!UpFits`, `DownFits` | what the split and its revert make fits the constraints
`VenuesProofs!UpIsSilent` | the split changes no storefront's visibility, owner or payee
`VenuesProofs!DownUndoesUp` | a revert at once gives the same database back

### Orders

`PaidIffCertified` is not inductive.  A handler decides from the status it
read when it got the lock, so one must know that this status is still the row's, which holds
because no one else writes a row that is locked.  `SafetyInv` says so: types and what a
request in the middle relies on (`TypeInv`, with `HandlersConsistent` and `CasesConsistent`);
that a lock belongs to exactly the transaction using it, and that what it read is what is
there (`HandlersLock`, `CasesLock`, `SweepLocks`); `PaidIffCertified`; and the exact contents
of the trail (`Trail`).  It holds initially and every action keeps it, action by action.
From a state with `SafetyInv` every step is one of seven
moves of the table (`StepsAreMoves`), from which both the legal moves of a status and the
steps of `Sale` follow.  Codes are unique because the INSERT does nothing on a conflict, a
UNIQUE column the model takes for granted.

The money needs more than the rows: what a handler carries from its commit to its answer.
`MoneyInv` adds to `SafetyInv` that a handler works on a message that was sent (`Origins`);
that the columns of a settled order are those of one such message (`SettledByItsMoney`); that
a handler about to answer 200 has, and an answered message had, its order settled (`Answered`,
`AckedMoneyIsSettled`); that notices are owed or sent for sold orders only, once (`Announced`); that
an event row not yet reported belongs to a handler still at work (`RowsOpen`) and what is
reported is true of the order (`Audited`).  The lemma `Effects` says once what any step may do
to an order and its columns, and the parts cite it instead of going through the actions.

### The ledger

`Inv` says what a mark at work may rely on: every row it has yet
to go through is paid, of its merchant and its week (`Going`; a paid sale never stops being
so), every row it has taken is locked by it and covered by no payout (so its UPDATE links
all of them, `LinksAll`), and only a mark that is over has a payout, to which no sale pointed
before (`Linked`).  Hence a mark that records covers exactly what it took (`RecordCovers`).
`LedgerKept` maps `Pay` and `Resolve` to `Land`, `Record` to `Transfer` and the rest to
stutters.

Amounts are sums over sets, defined by recursion.  What the proofs need of them they get without
induction: if a claim failed for some part of a finite set, it would fail for a smallest one
(`MinimalSet`), and taking one element out of that contradicts it.  So a sum does not depend
on the order of its elements (`TotalWithout`), adds up over parts, and is a multiple of 10 if
each element is.  The infinite sets the constants allow do no harm: one sale is paid at a time,
so at any time finitely many are (`FinitelyMany`).

`MoneyInv` adds to `Inv` that and `Snapshots`, that each row of `payouts` is the number and
total of the sales that point to it.  `LedgerBalances` follows (`Balances`): the paid sales of
a week are those its payouts cover and those none does; since each part is a multiple of 10,
its share of 90 per cent is exact and the shares add up (`ShareAdds`).  `Record` lowers what
is due by what it took, whence `RecordsWhatWasSeen`.  `WatchInv` adds the types and, for each
screen, what each statement read so far relates to (`Watches`): the sales read are paid by
now, and what the ledger and the lists said is no more than they say now, for all three only
grow.

### The reminder and certificates

The job's invariants: the hour a run began is past and its week is over at that hour
(`RunsAreLate`, by `ReminderWeekIsOver`); at most one run tells of a claimed week, and the
messages counted are those of that run and the answers lost (`TellInv`: the claim is a UNIQUE
row, given back only if nothing was delivered); and once a run has read a statement, each
merchant with an old debt, or one of the week, is in a list unless paid since (`ListsFill`): a
merchant whose sales are not all covered has a due above zero, since its total, a sum of
naturals, is no less than any sale.

`CertInv` says of certificates: a stored "used" has exactly one winner, whose UPDATE began
before the end, who announces and answers only what its own UPDATE did (`RedeemInv`); who was
refused, or is about to be, met at its UPDATE what it is told, and used and past do not come
back (`RefusalInv`); and a reminder sent belongs to the one run that claimed it (`ClaimInv`).

### Calendar and migration

The calendar's theorems are arithmetic: that a day is 24 hours and a week 7 days whatever the
offset, and, for `addMonths`, that lengths of months lie between 28 and 31, so a day is carried
over one month at most.  The migration's are equalities of functions, table by table;
`UpFits` and `DownFits` carry the UNIQUE accounts across, which is where `Revertible` is needed.

### Pages, accounts and categories

Keys order the rows strictly, so a finite set of them has a first and a last one (again by a
smallest part, not by induction).  `Newest(S, n)`, which counts how many rows come before each, is
therefore a top of `S`: with a row it has all that come before it (`NewestAtTop`), and n rows or all
(`NewestCount`).  Two of them in a row, limit + 1 and then limit, make a page (`PageIsPage`): either
everything the WHERE left, or rows above a cursor with something left below it.  `List` says
of the client's cursor that it is the last row of the page, that pages lie below each other, and
that all that matched since the first page and is not below the cursor was shown.  A row
committed between two pages may fall anywhere and breaks none of this, as it is not steady; a change
of state takes a row out of `steady` or leaves it where it is, as no key ever changes.

`RolesAreEarned` relates what a log-in writes to what was true while it ran, so the invariant
`Knows` says of each stage what it has seen: between the two SELECTs and the write, the role is
the one worked out from something the account owned during this very log-in, and the account is an
administrator's exactly if the log-in found one, since no other log-in makes or unmakes
administrators (`RoleFacts`).  Hence the UPDATE of a role read long before still writes
something earned, though perhaps stale.

`ListIsAsAsked` rests on `Locks`: the rows a reorder found are rows it holds, of those it asked
for, so from the first UPDATE to the COMMIT nobody renames, removes or reorders them, and the
rows whose places it writes are those it locked.  `Types` keeps the ids handed out finitely many,
so the highest order, from which `create` takes the next, exists.

### Venues

`NamedInv` says that the categories a request is about to write, whether checked by
`assertCategoriesExist` or loaded, were there once; ids are never used twice, so that stays true
however requests overlap.

The other three need no condition on the requests, but say of each what others did to it.  For
that, each step tells the requests at work which columns it wrote (`StepWriting`), and
`ApartInv` says of each of them: a column that none has told it of is what it was when this
request last read it.  Before the save, the entity differs from the row there in what was sent
alone (`Apart`), and the row is still the owner's (`Owned`); after exists(), no venue shows the
old logo (`Alone`).  An action's writes change no other column (`Leaves`), so whoever was
not told may go on as before.

### Model-checked only

The liveness properties, which need fairness and ENABLED: they are the only ones that the passing
runs check and no theorem states.  The type invariants of all modules but `Orders`
are proved and not repeated by a run.

## What is not modelled

* Finik's canonical string and RSA, Telegram's HMAC: a message is signed or not.
* The text, language and layout of messages, the forty-line limit of the reminder's lists,
  validation of bodies (only bodies that pass it are enumerated), the syntax of cursors.
* Rate limits (a library's counters), bot commands, QR images and the payment's return page
  (stateless), scripts that only print, wiring.
* Migrations other than the split: they add tables, columns and constraints and move no data.
* In the owner's summary, the count of redeemed certificates and the narrowing to one venue.
* Timestamps other than those a property needs.

## Plan

1. Done: the modules above, in the order `Orders` with `Sale`, `Payouts`, `Certificates`,
   `PayoutReminder`, `Storefront`, `Pages`; then `Accounts`, `Categories`, `Calendar`,
   `Migration`, and `Ledger` with its refinement; proofs of every safety property of all of
   them.
2. Still worth stating: a certificate with one owner and three ends, implemented by
   `Certificates`, and that refinement proved from `CertInv`; the list a client has read as the
   abstract specification of `Pages`.
