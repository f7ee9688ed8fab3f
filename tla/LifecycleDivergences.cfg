SPECIFICATION Spec
CONSTANTS
  Pids = {1, 2}
  Ports = {8080, 9090}
  Dirs = {"data", "tmp"}
  Modes = {"LEARN", "MOCK"}
  DefaultPort = 8080
  DefaultDir = "data"
  DefaultMode = "LEARN"
  NotGiven = NotGiven
  Env <- MCEnv
  StartArgs <- MCStartArgs
  IsAgent = TRUE
  DiskFaults = TRUE
  Absent = Absent
  Empty = Empty
INVARIANTS OneDataDir StopsOnlyProxies NeverStopsItself ServesLastMode
PROPERTIES EnvHonoured StopFindsProxy GracefulStop
CHECK_DEADLOCK FALSE
