\* Finik retries, the cron ticks, row locks are granted in turn: what must end ends.
SPECIFICATION FairSpec
CONSTANTS
  o1 = o1
  o2 = o2
  stranger = stranger
  t1 = t1
  t2 = t2
  Orders = {o1}
  UnknownOrders = {}
  Messages <- RetriedPaymentMessages
  Txs = {t1, t2}
  MaxTime = 0
  MaxAge = 0
  MaxAhead = 0
  Codes = {c1}
  Handlers = {h1}
  Operators = {op}
  Cron = cron
  MaxDeliveries = 2
  MaxFaults = 1
  None = None
PROPERTIES
  MoneyIsSettled
  PendingEnds
  NothingHangs
CHECK_DEADLOCK FALSE
