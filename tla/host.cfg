CONSTANTS
  None = None
  Torn = Torn
  Directory = Directory
  NotMigrating = NotMigrating
  Root = Root
  d = d
  e = e
  f1 = f1
  f2 = f2
  Files = {f1, f2}
  Dirs = {d, e}
  Parent <- MCParent
  Path <- MCPath
  Syncs = {1, 2}
  Sweeper = sweeper
  Callers = {sweeper, r}
  SaveLike = {f1, f2}
  MaxScanDepth = 2
  MaxScanEntries = 4
  MaxListEntries = 5
  Versions = 2
  Server = server
  Command = command
  Processes = {server, command}
  Scenarios <- MCScenarios
SPECIFICATION FairSpec
INVARIANTS TypeOK HostIInv SaveIsOldOrNew ServesWholeSchema ScanFindsSettled
PROPERTIES RecordedSurvivesPowerLoss  
CHECK_DEADLOCK FALSE
