\* Two PATCHes at a time: a logo is taken up while it is being deleted.
SPECIFICATION Spec
CONSTANTS
  k1 = k1
  l1 = l1
  l2 = l2
  legacy = legacy
  m1 = m1
  m2 = m2
  Venues = {v1, v2}
  Merchants = {m1}
  Categories = {}
  Logos = {l1, l2}
  OwnLogos = {l1, l2}
  Edits = {e1, e2}
  Dtos <- LogoForm
  NewDtos = {}
  None = None
PROPERTIES
  OnlyUnshownAreDeleted
