SPECIFICATION FairSpec
CONSTANTS
  s1 = s1  s2 = s2  k1 = k1  k2 = k2  k3 = k3  t1 = t1  t2 = t2
  Services = {s1}
  Keys = {k1}
  Tenants = {t1, t2}
  TenantOf <- MCTenantOf
  Similar <- MCSimilar
  Entries <- MCEntries
  NoEntry = NoEntry
  Writers = {}
  Editors = {e1}
  Requests = {}
  Loaders = {boot, watcher}
  Boot = boot
  Watcher = watcher
  FsWatch = TRUE
  SmartSwap = TRUE
  DiskFaults = FALSE
  MaxCrashes = 0
  NoFile = NoFile  Part = Part  NoService = NoService  NoMock = NoMock  Pending = Pending
PROPERTIES WatcherSettles
CHECK_DEADLOCK FALSE
