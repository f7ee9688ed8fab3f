SPECIFICATION Spec
CONSTANTS
  a = a  b = b  c = c
  NoMode = NoMode
  InitialMode = "LEARN"
  Setters = {a, b}
  Routers = {q1, q2}
  Requests = {r1}
  DiskFaults = FALSE
  Disconnects = FALSE
  MaxCrashes = 1
INVARIANTS RestartKeepsMode ServedInMode
PROPERTIES TransitioningResumesLearn
CHECK_DEADLOCK FALSE
