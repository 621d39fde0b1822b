SPECIFICATION Spec
CONSTANTS
  Keys = {k1, k2, k3}
  Gets = {g1, g2}
  Negative <- Absent
  TTL = 2
  NegativeTTL = 1
  MaxEntries = 2
  MaxLoad = 1
  MaxVersion = 2
  MaxChanged = 1
  MaxTime = 3
SYMMETRY Symmetry
INVARIANTS
  TypeOK
  AnswerIsRecent
  WithinBound
PROPERTIES
  AnswersNeverGoBack
  NothingLiveIsEvicted
