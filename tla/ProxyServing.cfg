SPECIFICATION Spec
CONSTANTS
  g = g  s = s  h1 = h1  t1 = t1  t2 = t2  b1 = b1  b2 = b2  x1 = x1
  post = post  read = read  read2 = read2  step = step
  Services = {g, s}
  Global = g
  Keys = {post, read, step}
  Tenants = {t1, t2}
  TenantOf <- MCTenantOf
  Similar <- MCSimilar
  Entries <- MCEntries
  NoEntry = NoEntry
  Hosts = {h1}
  Bodies = {b1, b2}
  Requests = {r1, r2, r3}
  Profiles <- MCProfiles
  Tables <- MCTables
  InitialMode = "LEARN"
  Admins = {a1}
  Resources = {x1}
  MachineOf <- MCMachineOf
  Scripted <- MCScripted
  ReadOf <- MCReadOf
  StepOf <- MCStepOf
  CreatedBy <- MCCreatedBy
  NoMachine = NoMachine  NoState = NoState
  NoResource = NoResource  NoMode = NoMode  NoHost = NoHost  NoAnswer = NoAnswer
INVARIANTS TypeOK ReplaysLastRecording CapturedIsFound ReplaysOwnService MilestoneOncePerService
CHECK_DEADLOCK FALSE
SYMMETRY RequestSymmetry
