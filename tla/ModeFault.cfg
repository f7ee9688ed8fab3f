SPECIFICATION Spec
CONSTANTS
  a = a  b = b  c = c
  NoMode = NoMode
  InitialMode = "LEARN"
  Setters = {a, b}
  Routers = {}
  Requests = {}
  DiskFaults = TRUE
  Disconnects = FALSE
  MaxCrashes = 0
INVARIANTS RevertsToPrevious
CHECK_DEADLOCK FALSE
