--------------------------- MODULE OrderProperties ----------------------------
(***************************************************************************)
(* What Orders must satisfy, and the refinement of Sale by it.             *)
(***************************************************************************)
EXTENDS Orders

Progress == {"idle", "received", "locked", "done", "recorded"}
WorkRecord == [pc : Progress, msg : Messages \cup {None}, row : Nat,
               seen : Statuses \cup {None}, result : Results \cup {None}]

\* Every variable holds what its column, or its process, can hold.
TypeOK ==
  /\ clock \in 0..MaxTime
  /\ legacy \subseteq Orders
  /\ status \in [Orders -> Statuses \cup {"absent"}]
  /\ paidAt \in [Orders -> Nat \cup {None}]
  /\ txId \in [Orders -> Txs \cup {None}]
  /\ url \in [Orders -> BOOLEAN] /\ overdue \in [Orders -> BOOLEAN]
  /\ certificates \in SUBSET [code : Codes, order : Orders]
  /\ resolutions \in [Orders -> Seq(ResolutionActions)]
  /\ locks \in [Orders -> Actors \cup {None}]
  /\ request \in [Orders -> {"none", "calling", "answered", "refused",
                             "url", "failed", "lost"}]
  /\ finik \subseteq Orders
  /\ sent \subseteq Messages /\ acked \subseteq Messages
  /\ events \in [Messages -> Seq(Results)]
  /\ work \in [Handlers -> WorkRecord]
  /\ desk \in [Operators -> [order : Orders \cup {None},
                             action : ResolutionActions \cup {None},
                             seen : Statuses \cup {None}]]
  /\ sweepRest \subseteq Orders /\ sweepHeld \subseteq Orders
  /\ notices \in [Orders -> Nat]
  /\ faults \in 0..MaxFaults

CertificatesOf(o) == {k \in certificates : k.order = o}

\* An order is paid exactly when it has a certificate, it has only one, and no
\* two certificates share a code, whatever duplicates, races and rollbacks the
\* webhook and the manual resolution went through.
PaidIffCertified ==
  /\ \A o \in Orders : status[o] = "paid" <=> CertificatesOf(o) # {}
  /\ \A k, l \in certificates : k.order = l.order \/ k.code = l.code => k = l

Legitimate(m) == m.signed /\ m.success /\ m.ours

\* When a message processed at that time says it was paid, if it can be believed:
\* not older than MaxAge and not ahead by more than MaxAhead.
PaidBy(m, now) ==
  IF m.at # None /\ m.at \in (now - MaxAge)..(now + MaxAhead) THEN m.at ELSE now

\* Money is behind every settled order: a signed success message to our account
\* for it, from which its transaction id and its paidAt both come (a legacy
\* review row excepted), the paidAt being the message's own time or, when that
\* is missing or implausible, the time at which we processed it; the amount is
\* the order's own unless it was held for review; and an order not settled
\* carries neither.
SettledByItsMoney ==
  \A o \in Orders \ legacy :
    IF status[o] \in Settled
    THEN \E m \in sent : /\ Legitimate(m) /\ m.order = o
                         /\ \E now \in 0..clock : paidAt[o] = PaidBy(m, now)
                         /\ txId[o] = m.tx
                         /\ m.exact <=> (status[o] = "paid" /\ resolutions[o] = <<>>)
    ELSE paidAt[o] = None /\ txId[o] = None

\* order_resolutions has a row for an order if and only if a person moved that
\* order out of needs_review, one row at most, and a refund is always by hand.
ResolutionTrail ==
  \A o \in Orders :
    /\ Len(resolutions[o]) <= 1
    /\ status[o] = "refunded" <=> resolutions[o] = <<"refunded">>
    /\ resolutions[o] = <<"issue">> => status[o] = "paid"

\* A 200 tells Finik not to retry, so a payment to our account answered 200 is
\* never left on an order still pending or expired: also when POST /orders had
\* timed out, or the order had already expired.
AckedMoneyIsSettled ==
  \A m \in acked : Legitimate(m) /\ m.order \in Orders => status[m.order] \in Settled

SaleEvents(o) ==
  {e \in {m \in Messages : m.order = o} \X (1..MaxDeliveries) :
     /\ e[2] \in DOMAIN events[e[1]]
     /\ events[e[1]][e[2]] \in WriteResults}

\* finik_webhook_events tells the truth about money: at most one delivery ever
\* reports that it settled an order and the order then is in the state that
\* report says; without faults exactly one does, once its handler is through.
AuditAgrees ==
  \A o \in Orders :
    /\ Cardinality(SaleEvents(o)) <= 1
    /\ \A e \in SaleEvents(o) :
         IF events[e[1]][e[2]] \in SaleResults
         THEN status[o] = "paid" /\ resolutions[o] = <<>>
         ELSE status[o] = "needs_review" \/ resolutions[o] # <<>>
    /\ ( /\ faults = 0 /\ status[o] \in Settled /\ o \notin legacy
         /\ \A h \in Handlers : work[h].pc = "done" => work[h].msg.order # o )
       => SaleEvents(o) # {}

\* The buyer is sent the code at most once, and only for an order that is paid
\* and has its certificate; a code issued by hand is not announced by the bot.
NotifiedOnce ==
  \A o \in Orders :
    /\ notices[o] <= 1
    /\ notices[o] = 1 => status[o] = "paid" /\ resolutions[o] = <<>>

\* A buyer told 502 never keeps a payable pending order, and one given a link
\* finds it stored on the order.
CreateAnswerHolds ==
  \A o \in Orders :
    /\ request[o] = "failed" => status[o] # "pending"
    /\ request[o] = "url" => url[o]

\* Where an order's status may go in one step. Money may still settle an expired
\* order; paid and refunded are final; only a person ends a review.
StatusMoves ==
  {<<"absent", "pending">>, <<"pending", "expired">>}
    \cup ({"pending", "expired"} \X {"paid", "needs_review"})
    \cup ({"needs_review"} \X {"paid", "refunded"})

\* No step of any actor moves an order in another way, and a step that ends a
\* review writes its resolution row in the same step.
MovesAreLegal ==
  [][\A o \in Orders :
       /\ status'[o] # status[o] => <<status[o], status'[o]>> \in StatusMoves
       /\ status[o] = "needs_review" /\ status'[o] # "needs_review"
            => Len(resolutions'[o]) = Len(resolutions[o]) + 1]_vars

\* paidAt decides the payout week: once it is set, no retry, second payment or
\* manual decision changes it, nor the transaction id it came with.
PaidAtIsFixed ==
  [][\A o \in Orders :
       /\ paidAt[o] # None => paidAt'[o] = paidAt[o]
       /\ txId[o] # None => txId'[o] = txId[o]]_vars

\* Finik retrying until its 200, a payment to our account is settled in the end.
MoneyIsSettled ==
  \A m \in Messages :
    Legitimate(m) /\ m \in sent ~> m.order \in Orders /\ status[m.order] \in Settled

\* No order stays pending for ever: it is settled, or the cron expires it.
PendingEnds == \A o \in Orders : status[o] = "pending" ~> status[o] # "pending"

\* Every POST /orders and every row lock comes to an end.
NothingHangs ==
  \A o \in Orders :
    /\ request[o] = "calling" ~> request[o] \in {"url", "failed", "lost"}
    /\ locks[o] # None ~> locks[o] = None

-------------------------------------------------------------------------------
Phase == [absent |-> "none", pending |-> "open", expired |-> "lapsed",
          needs_review |-> "held", paid |-> "sold", refunded |-> "refunded"]

Promise == INSTANCE Sale WITH
  state <- [o \in Orders |-> Phase[status[o]]],
  issued <- {k.order : k \in certificates},
  decided <- {o \in Orders : resolutions[o] # <<>>}

\* The concurrent handlers, cron and command line implement the promise of Sale.
KeepsPromise == Promise!Spec
===============================================================================
