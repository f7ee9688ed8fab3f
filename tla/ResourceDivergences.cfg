SPECIFICATION Spec
CONSTANTS
  ch1 = ch1  ch2 = ch2  sub1 = sub1  doc1 = doc1
  NoMachine = NoMachine  NoState = NoState  NoResource = NoResource
  Resources = {ch1}
  MachineOf <- MCMachineOf
  Captures = {c1}
  Transitions = {t1, t2}
  UsedActions = {"capture", "refund"}
  DiskFaults = FALSE
  Disconnects = FALSE
  MaxCrashes = 0
INVARIANTS HeaderMatchesBody AppendedIsReplayed ReplayRebuildsMap CapturedWhenAnswered
CHECK_DEADLOCK FALSE
