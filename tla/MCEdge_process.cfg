SPECIFICATION FairSpec
CONSTANTS
  Second = 2
  Day = 4
  MaxSkew = 2
  Lower = {"get"}
  Capital <- MCCapital
  Processes = {"new", "old"}
  Embedded <- MCEmbedded
  Calls = {c1}
  Asks <- MCAsks
  Variants <- MCVariants
  Creds <- MCCreds
  Stored <- MCStored
  Regions = {"dev-1"}
  Services = {"ws", "func"}
  Region = "dev-1"
  ServiceOf <- MCServiceOf
  Ahead = {0, 3}
  MaxNow = 4
INVARIANTS TypeOK SchemaIsMigrated
PROPERTIES AcceptedAsSigned RefusalsAreExplained ProcessesMoveOn
