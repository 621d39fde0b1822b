SPECIFICATION Spec
CONSTANTS
  Accounts = {a1}
  Names = {n1, n2, n3}
  Requests = {r1, r2}
  MaxClustersPerAccount = 1
  MaxBorn = 2
  MaxLate = 0
  MayFail = TRUE
SYMMETRY Symmetry
INVARIANTS
  TypeOK
  NodeHasItsRow
  ActiveMeansAnswered
  SnapshotHolds
  QuotaOvershootBounded
CONSTRAINT CrowdIsCalm
PROPERTY
  ImplementsCacheService
