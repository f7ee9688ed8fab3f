SPECIFICATION Spec
CONSTANTS
  ch1 = ch1  ch2 = ch2  sub1 = sub1  doc1 = doc1
  NoMachine = NoMachine  NoState = NoState  NoResource = NoResource
  Resources = {ch1}
  MachineOf <- MCMachineOf
  Captures = {c1}
  Transitions = {t1, t2, t3}
  UsedActions = {"capture", "refund", "void"}
  DiskFaults = TRUE
  Disconnects = TRUE
  MaxCrashes = 1
INVARIANTS NoDoubleTransition BodyNotOlder
CHECK_DEADLOCK FALSE
SYMMETRY OpSymmetry
