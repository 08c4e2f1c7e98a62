\* Two overlapping requests on one pair: safety, refinements, and every request ends.
SPECIFICATION SFairSpec
CONSTANTS
  s1 = s1
  p1 = p1
  r1 = r1
  r2 = r2
  Stores = {s1}
  Products = {p1}
  Requests = {r1, r2}
  Deltas <- MCDeltas
  Quantities = {0, 1}
  Thresholds = {1}
  MaxInt = 2
  MaxMovements = 3
  PoolSizes = {1, 2}
  None = None
INVARIANTS
  TypeOK
  SnapshotMatchesAudit
  ApartBalanced
PROPERTIES
  PutSetsOrAdds
  ThresholdsKept
  RefinesAudit
  ApartStrict
  ApartPutIsAbsolute
  RequestsFinish
  RetiredStoresDrain
