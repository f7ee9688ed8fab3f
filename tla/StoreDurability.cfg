SPECIFICATION Spec
CONSTANTS
  s1 = s1  s2 = s2  k1 = k1  k2 = k2  k3 = k3  t1 = t1  t2 = t2
  Services = {s1}
  Keys = {k1, k2}
  Tenants = {t1, t2}
  TenantOf <- MCTenantOf
  Similar <- MCSimilar
  Entries <- MCEntries
  NoEntry = NoEntry
  Writers = {w1, w2}
  Editors = {e1}
  Requests = {}
  Loaders = {boot, watcher, a1}
  Boot = boot
  Watcher = watcher
  FsWatch = FALSE
  SmartSwap = TRUE
  DiskFaults = TRUE
  MaxCrashes = 2
  NoFile = NoFile  Part = Part  NoService = NoService  NoMock = NoMock  Pending = Pending
SYMMETRY RecordingsAlike
INVARIANTS DurableOnceWhole CutSpoilsOneLine
CHECK_DEADLOCK FALSE
