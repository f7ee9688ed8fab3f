SPECIFICATION ChaosFairSpec
CONSTANTS
  Services = {"s"}
  SegmentNames = {"api", "items", "x", "12345", "*", "**", ""}
  Ids = {"12345"}
  Configs <- MCConfigs
  NoConfig = NoConfig
  NoError = NoError
  Clients = {c1, c2}
  Profiles <- MCProfiles
  Tables <- MCTables
  MaxDwell = 2
  MaxRestarts = 1
INVARIANTS ChaosTypeOK FirstRuleApplies
PROPERTIES OutagesComeAndGo
CHECK_DEADLOCK FALSE
