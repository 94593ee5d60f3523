\* Two orders; colliding transaction ids and codes, a payment undated or dated
\* ahead, and the bodies the webhook ignores or rejects.
SPECIFICATION Spec
CONSTANTS
  o1 = o1
  o2 = o2
  stranger = stranger
  t1 = t1
  t2 = t2
  Orders = {o1, o2}
  UnknownOrders = {stranger}
  Messages <- MixedMessages
  Txs = {t1, t2}
  MaxTime = 0
  MaxAge = 0
  MaxAhead = 0
  Codes = {c1, c2}
  Handlers = {h1}
  Operators = {}
  Cron = cron
  MaxDeliveries = 1
  MaxFaults = 0
  None = None
SYMMETRY InterchangeableCodes
INVARIANTS
  PaidIffCertified
  
CHECK_DEADLOCK FALSE
