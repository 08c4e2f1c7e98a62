\* A PUT on an untouched pair overlaps a delivery.
SPECIFICATION SSpec
CONSTANTS
  s1 = s1
  p1 = p1
  r1 = r1
  r2 = r2
  Stores = {s1}
  Products = {p1}
  Requests = {r1, r2}
  Deltas <- FewDeltas
  Quantities = {0, 2}
  Thresholds = {}
  MaxInt = 3
  MaxMovements = 3
  PoolSizes = {2}
  None = None
PROPERTY
  PutIsAbsolute
