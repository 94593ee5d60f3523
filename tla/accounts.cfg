\* Two devices of one account, and another account that merchants may be moved to.
SPECIFICATION FairSpec
CONSTANTS
  d1 = d1
  d2 = d2
  a1 = a1
  m1 = m1
  Registered <- OneMerchant
  Accounts = {a1, a2}
  Merchants = {m1, m2}
  Devices = {d1, d2}
  AccountOf <- TwoDevices
  Edits = {e1}
  MaxChanges = 2
  MaxFaults = 1
  None = None
PROPERTIES
  RolesAreEarned
  GetsIn
  RolesFollowMerchants
CHECK_DEADLOCK FALSE
