\* Walks down lists of up to three rows, two to a page, while rows change.
SPECIFICATION Spec
CONSTANTS
  i1 = i1
  i2 = i2
  i3 = i3
  Endpoints = {"movements", "stores", "product_inventory"}
  Ids = {i1, i2, i3}
  Stamps = {1, 2, 3}
  Names = {1, 2}
  Quantities = {0, 1}
  Thresholds = {0}
  Limits = {2}
  None = None
SYMMETRY Symmetry
INVARIANTS
  TypeOK
  StrictWalkExact
  WalkLosesNothing
  RemovalsNeverRepeat
PROPERTY
  PageFills
