SPECIFICATION Spec
CONSTANTS
  a = a  b = b  c = c
  NoMode = NoMode
  InitialMode = "LEARN"
  Setters = {a, b}
  Routers = {q1}
  Requests = {r1}
  DiskFaults = TRUE
  Disconnects = TRUE
  MaxCrashes = 1
INVARIANTS TypeOK ServedInModeOfRoute RestartKeepsModeUndisturbed
PROPERTIES NeverStuckTransitioning
CHECK_DEADLOCK FALSE
