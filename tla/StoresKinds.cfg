\* A PATCH takes the domain off an online store.
SPECIFICATION Spec
CONSTANTS
  u1 = u1
  u2 = u2
  ghost = ghost
  i1 = i1
  i2 = i2
  a = a
  b = b
  d = d
  r1 = r1
  r2 = r2
  Users = {u1}
  Strangers = {ghost}
  StoreIds = {i1, i2}
  Slugs = {a, b}
  Details = {d}
  Requests = {r1, r2}
  Creates <- FewCreates
  Patches <- FewPatches
  None = None
INVARIANT
  KindShape
