SPECIFICATION Spec
CONSTANTS
  ch1 = ch1  ch2 = ch2  sub1 = sub1  doc1 = doc1
  NoMachine = NoMachine  NoState = NoState  NoResource = NoResource
  Resources = {ch1, doc1}
  MachineOf <- MCMachineOf
  Captures = {c1, c2}
  Transitions = {t1}
  UsedActions = {"capture"}
  DiskFaults = TRUE
  Disconnects = TRUE
  MaxCrashes = 2
INVARIANTS TypeOK BodyTracksState
PROPERTIES BootRebuildsMap
CHECK_DEADLOCK FALSE
SYMMETRY OpSymmetry
