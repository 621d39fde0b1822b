SPECIFICATION Spec
CONSTANTS
  Accounts = {a1}
  Customers = {c1}
  Services = {a1}
  Names = {n1, n2, n3}
  Images = {i1}
  Requests = {r1, r2}
  Listers = {l1}
  MaxInstancesPerAccount = 1
  MaxIds = 3
  MayFail = TRUE
SYMMETRY Symmetry
INVARIANTS
  TypeOK
  RunningIsAttached
  AnswerIsTrue
  OvershootBounded
  ListIsWhole
