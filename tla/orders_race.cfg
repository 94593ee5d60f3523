\* One order; two deliveries at a time race the cron, an operator and a crash.
SPECIFICATION Spec
CONSTANTS
  o1 = o1
  o2 = o2
  stranger = stranger
  t1 = t1
  t2 = t2
  Orders = {o1}
  UnknownOrders = {}
  Messages <- OneOrderMessages
  Txs = {t1, t2}
  MaxTime = 1
  MaxAge = 0
  MaxAhead = 0
  Codes = {c1}
  Handlers = {h1, h2}
  Operators = {op}
  Cron = cron
  MaxDeliveries = 2
  MaxFaults = 1
  None = None
SYMMETRY Interchangeable
INVARIANTS
  TypeOK
  ResolutionTrail
  AckedMoneyIsSettled
  AuditAgrees
  NotifiedOnce
  CreateAnswerHolds
  
PROPERTIES
  MovesAreLegal
  PaidAtIsFixed
  KeepsPromise
CHECK_DEADLOCK FALSE
