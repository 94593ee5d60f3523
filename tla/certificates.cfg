\* One certificate, two requests and two reminder runs at once, and an administrator.
SPECIFICATION Spec
CONSTANTS
  c1 = c1
  v1 = v1
  Certs = {c1}
  Venues = {v1}
  Merchants = {m1, m2}
  Accounts = {g1, g2, g3}
  VenueOf <- OneVenue
  Taps = {a1, a2}
  Runs = {r1, r2}
  Validity = 1
  Skew = 1
  Window = 1
  MaxTime = 2
  MaxMoves = 1
  None = None
SYMMETRY Interchangeable
INVARIANTS
  RedeemedOnce
  RefusalsAreTrue
  RemindedOnce
PROPERTIES
  EndsAreFinal
CHECK_DEADLOCK FALSE
