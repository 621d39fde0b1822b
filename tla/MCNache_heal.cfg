SPECIFICATION FairSpec
CONSTANTS
  Accounts = {a1}
  Names = {n1}
  Requests = {r1}
  MaxClustersPerAccount = 1
  MaxBorn = 2
  MaxLate = 1
  MayFail = TRUE
PROPERTIES
  DeletionIsFinal
  DeletedIsForgotten
  CreatedBecomesActive
  OrphanIsTerminated
  DeadNodeIsReplaced
