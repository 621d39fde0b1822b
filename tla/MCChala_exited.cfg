SPECIFICATION Spec
CONSTANTS
  Accounts = {a1}
  Customers = {c1}
  Services = {a1}
  Names = {n1}
  Images = {i1}
  Requests = {r1, r2}
  Listers = {}
  MaxInstancesPerAccount = 1
  MaxIds = 2
  MayFail = TRUE
PROPERTY
  ExitedStaysExited
