SPECIFICATION FairSpec
CONSTANTS
  i1 = i1  i2 = i2  d1 = d1  d2 = d2  d3 = d3  e1 = e1  e2 = e2
  Ids = {i1}
  Endpoints = {e1}
  Defs = {d1, d2}
  IdOf <- MCIdOf
  Length <- MCLength
  Loops = {d2}
  Answers <- MCAnswers
  Requests = {r1, r2, r3}
  Admins = {a1, a2}
  CursorValues = 8
  DiskFaults = TRUE
  Disconnects = TRUE
  MaxCrashes = 1
  None = None
INVARIANTS TypeOK InOrder NoOrphanCounters
PROPERTIES Answered SavesCurrentList AtomicSequences
CHECK_DEADLOCK FALSE
