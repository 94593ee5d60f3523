\* Two weeks, two marks at once, one of which may die, and the screen read meanwhile.
SPECIFICATION FairSpec
CONSTANTS
  s1 = s1
  s2 = s2
  m1 = m1
  Sales = {s1, s2}
  Merchants = {m1}
  MerchantOf <- OneOwner
  Amount <- PriceOfSale
  Weeks = {1, 2}
  Marks = {p1, p2}
  Screens = {a1}
  MaxFaults = 1
  None = None
INVARIANTS
  PayoutsCoverTheirSales
  LedgerBalances
  ScreenHidesNothing
PROPERTIES
  KeepsLedger
  RecordsWhatWasSeen
  MarksEnd
