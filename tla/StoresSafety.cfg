\* Two overlapping requests of two users, two stores.
SPECIFICATION Spec
CONSTANTS
  u1 = u1
  u2 = u2
  ghost = ghost
  i1 = i1
  i2 = i2
  a = a
  b = b
  d = d
  r1 = r1
  r2 = r2
  Users = {u1, u2}
  Strangers = {ghost}
  StoreIds = {i1, i2}
  Slugs = {a, b}
  Details = {d}
  Requests = {r1, r2}
  Creates <- MCCreates
  Patches <- MCPatches
  None = None
SYMMETRY Symmetry
INVARIANTS
  TypeOK
  SlugsUnique
PROPERTIES
  OnboardingIsAtomic
  PayloadOnly
  ShapeLostToNullOnly
  EditsPermitted
  RetiredForever
