SPECIFICATION Spec
CONSTANTS
  Keys = {k1}
  Gets = {g1, g2}
  Negative <- Absent
  TTL = 2
  NegativeTTL = 1
  MaxEntries = 1
  MaxLoad = 1
  MaxVersion = 1
  MaxChanged = 1
  MaxTime = 3
INVARIANTS
  SeesLocalChange
