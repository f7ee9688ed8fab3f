SPECIFICATION Spec
CONSTANTS
  Pids = {1, 2, 3}
  Ports = {8080, 9090}
  Dirs = {"data", "tmp"}
  Modes = {"LEARN"}
  DefaultPort = 8080
  DefaultDir = "data"
  DefaultMode = "LEARN"
  NotGiven = NotGiven
  Env <- MCNoEnv
  StartArgs <- MCStartArgs
  IsAgent = TRUE
  DiskFaults = TRUE
  Absent = Absent
  Empty = Empty
INVARIANTS TypeOK PidfileNamesServing StopWorks
CHECK_DEADLOCK FALSE
