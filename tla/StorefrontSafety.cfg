\* Reads against retiring stores and changing stock.
SPECIFICATION Spec
CONSTANTS
  s1 = s1
  s2 = s2
  p1 = p1
  p2 = p2
  p3 = p3
  r1 = r1
  r2 = r2
  Stores = {s1}
  Products = {p1, p2}
  Asks <- MCAsks
  Quantities = {0, 1, 2}
  Thresholds = {0, 1}
  Requests = {r1}
  None = None
INVARIANTS
  TypeOK
  OnlyPublicStores
  AnswersInOrder
  GuestsSeeWhatStaffSees
