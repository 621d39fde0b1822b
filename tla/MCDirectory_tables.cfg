SPECIFICATION FairSpec
CONSTANTS
  Kinds = {"account", "key", "policy"}
  Listed = {"account", "key"}
  Ids = {1, 2}
  Contents = {c1}
  Tokens = {t1}
  NoToken = NoToken
  NoContent = NoContent
  Principals = {u1}
  Attachable = {1}
  Calls = {r1, r2}
  MaxTries = 2
  PageLimit = 1
INVARIANTS
  TypeOK
  OneResultPerToken
  ListingSkipsNothing
  StaleIsAccountedFor
PROPERTIES
  CallEnds
  ImplementsDirectoryService
