\* Sunday 23:00, Monday 0:00, 9:00, 20:00 and 21:00 in Bishkek, and the next Monday:
\* sales at any of them; overlapping runs, a restart, an answer lost.
SPECIFICATION ReminderSpec
CONSTANTS
  s1 = s1
  m1 = m1
  Sales = {s1}
  Merchants = {m1}
  MerchantOf <- OwnerOfSale
  Amount <- PriceOfSale
  Weeks = {0, 7, 14}
  Times = {161, 162, 171, 182, 183, 330, 339}
  Marks = {p1}
  Screens = {}
  MaxFaults = 1
  Admins = {a1, a2}
  Runs = {r1, r2}
  MaxLost = 1
  None = None
SYMMETRY Interchangeable
INVARIANTS
  RemindedOnceAWeek
  DebtsAreListed
  ClaimedGoesOut
  ClaimedWeeksAreOver
CHECK_DEADLOCK FALSE
