SPECIFICATION ChaosSpec
CONSTANTS
  Services = {"s"}
  SegmentNames = {"api", "items", "x", "12345", "*", "**", ""}
  Ids = {"12345"}
  Configs <- MCConfigs
  NoConfig = NoConfig
  NoError = NoError
  Clients = {c1, c2}
  Profiles <- MCStarProfiles
  Tables <- MCAllTables
  MaxDwell = 1
  MaxRestarts = 0
INVARIANTS DoubleStarAnyDepth LoggedIsScrubbed
PROPERTIES StartsHealthy NoErrorsWhileHealthy
CHECK_DEADLOCK FALSE
