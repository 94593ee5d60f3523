\* Two requests at a time, of owners and of administrators who create, move and hide.
SPECIFICATION Spec
CONSTANTS
  k1 = k1
  l1 = l1
  l2 = l2
  legacy = legacy
  m1 = m1
  m2 = m2
  Venues = {v1}
  Merchants = {m1, m2}
  Categories = {k1}
  Logos = {l1, l2}
  OwnLogos = {l1, l2}
  Edits = {e1, e2}
  Dtos <- ListingForm
  NewDtos <- NewForm
  None = None
SYMMETRY Interchangeable
INVARIANTS
  NoMadeUpCategory
PROPERTIES
  
  ColumnsAreApart
  OwnersEditTheirOwn
