SPECIFICATION FairSpec
CONSTANTS
  Requests = {r1}
  Asks <- MCAsks
  Tables <- MCTables
  Serves <- MCServes
  Documents <- MCDocuments
  Sessions = {s1}
  PolicyAge = 1
  CapTTL = 1
  Skew = 1
  MaxLag = 1
  SessionTTL = 2
  LastSignIn = 0
  MaxNow = 5
INVARIANTS TypeOK RevocationIsBounded DecidedAsServed
PROPERTIES SessionsAreExact Answered
