SPECIFICATION FairSpec
CONSTANTS
  Requests = {r1, r2}
  Services = {"s", "t"}
  NoService = "none"
  Profiles <- MCProfiles
  Observability = TRUE
  Samples = 1
  DiskFaults = TRUE
  MaxClock = 1
  MaxCrashes = 1
INVARIANTS TypeOK IdsUnique ClassMonotone
PROPERTIES EveryRequestLogged
CHECK_DEADLOCK FALSE
