SPECIFICATION Spec
CONSTANTS
  Accounts = {a1}
  Names = {n1, n2}
  Requests = {r1, r2}
  MaxClustersPerAccount = 1
  MaxBorn = 2
  MaxLate = 0
  MayFail = FALSE
INVARIANT
  QuotaRespected
