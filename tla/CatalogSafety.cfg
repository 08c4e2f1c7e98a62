\* Two overlapping requests, two products at up to two stores.
SPECIFICATION Spec
CONSTANTS
  u1 = u1
  u2 = u2
  u3 = u3
  i1 = i1
  i2 = i2
  s1 = s1
  s2 = s2
  a = a
  b = b
  x = x
  y = y
  r1 = r1
  r2 = r2
  Users = {u1, u2, u3}
  Admins = {u1, u2}
  ProductIds = {i1, i2}
  StoreIds = {s1, s2}
  Slugs = {a, b}
  Skus = {x, y}
  Requests = {r1, r2}
  Creates <- MCCreates
  Patches <- MCPatches
  MaxInt = 2
  None = None
SYMMETRY Symmetry
INVARIANTS
  TypeOK
  KeysUnique
PROPERTIES
  InitialStockIsWhole
  CreatorsPayloadOnly
  RetiredForever
