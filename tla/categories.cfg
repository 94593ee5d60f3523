\* Three categories, a fourth that may be created, and three requests at once.
SPECIFICATION FairSpec
CONSTANTS
  c1 = c1
  c2 = c2
  c3 = c3
  Ids = {c1, c2, c3, c4}
  First <- ThreeAtFirst
  Requests = {r1, r2, r3}
  Orders = {0}
  MaxFaults = 1
  None = None
INVARIANTS
  ListIsAsAsked
PROPERTIES
  RequestsEnd
CHECK_DEADLOCK FALSE
