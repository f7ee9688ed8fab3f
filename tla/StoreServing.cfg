SPECIFICATION Spec
CONSTANTS
  s1 = s1  s2 = s2  k1 = k1  k2 = k2  k3 = k3  t1 = t1  t2 = t2
  Services = {s1}
  Keys = {k1, k3}
  Tenants = {t1, t2}
  TenantOf <- MCTenantOf
  Similar <- MCSimilar
  Entries <- MCEntries
  NoEntry = NoEntry
  Writers = {w1}
  Editors = {e1}
  Requests = {r1}
  Loaders = {boot, watcher, a1, a2}
  Boot = boot
  Watcher = watcher
  FsWatch = FALSE
  SmartSwap = TRUE
  DiskFaults = FALSE
  MaxCrashes = 1
  NoFile = NoFile  Part = Part  NoService = NoService  NoMock = NoMock  Pending = Pending
SYMMETRY ReloadsAlike
INVARIANTS TypeOK TenantIsolation
CHECK_DEADLOCK FALSE
PROPERTIES ServesSnapshot
