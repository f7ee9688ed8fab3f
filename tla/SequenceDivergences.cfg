SPECIFICATION Spec
CONSTANTS
  i1 = i1  i2 = i2  d1 = d1  d2 = d2  d3 = d3  e1 = e1  e2 = e2
  Ids = {i1, i2}
  Endpoints = {e1}
  Defs = {d1, d2, d3}
  IdOf <- MCIdOf
  Length <- MCLength
  Loops = {d2}
  Answers <- MCAnswers
  Requests = {r1, r2, r3, r4, r5}
  Admins = {a1, a2}
  CursorValues = 4
  DiskFaults = FALSE
  Disconnects = FALSE
  MaxCrashes = 0
  None = None
INVARIANTS FileMatchesMemory ClampsAtLast LoopAdvances
CHECK_DEADLOCK FALSE
