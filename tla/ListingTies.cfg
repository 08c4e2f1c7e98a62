\* A list ordered by a name that is not unique.
SPECIFICATION Spec
CONSTANTS
  i1 = i1
  i2 = i2
  i3 = i3
  Endpoints = {"store_inventory", "product_inventory"}
  Ids = {i1, i2}
  Stamps = {1, 2, 3}
  Names = {1}
  Quantities = {0, 1}
  Thresholds = {1}
  Limits = {1, 2}
  None = None
SYMMETRY Symmetry
INVARIANT
  QuietWalkExact
