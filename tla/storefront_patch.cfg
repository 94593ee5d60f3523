\* Two PATCHes at a time: an owner saves what an administrator has just changed.
SPECIFICATION Spec
CONSTANTS
  k1 = k1
  l1 = l1
  l2 = l2
  legacy = legacy
  m1 = m1
  m2 = m2
  Venues = {v1}
  Merchants = {m1, m2}
  Categories = {k1}
  Logos = {l1, legacy}
  OwnLogos = {l1}
  Edits = {e1, e2}
  Dtos <- EveryForm
  NewDtos = {}
  None = None
PROPERTIES
  AdminColumnsKept
