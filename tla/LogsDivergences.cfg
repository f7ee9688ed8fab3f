SPECIFICATION Spec
CONSTANTS
  Requests = {r1, r2}
  Services = {"s", "t"}
  NoService = "none"
  Profiles <- MCMarkers
  Observability = TRUE
  Samples = 1
  DiskFaults = FALSE
  MaxClock = 1
  MaxCrashes = 0
INVARIANTS OneLinePerEvent EventsInOrder EntryIdsDistinct RecordsEverything OverrideWins
CHECK_DEADLOCK FALSE
