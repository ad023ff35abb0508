SPECIFICATION Spec
CONSTANTS
  Ledgers <- MCLedgers
  JobsOf <- MCJobsOf
  Callers = {"c1", "c2"}
  Operations = {"build", "update"}
  Requested <- MCRequested
  Limits = {3, 4}
  Items = 3
  Window = 2
  FailuresBeforeKill = 2
  ReadinessRounds = 3
  MaxRestarts = 1
  HealthyRounds = 2
  RestartDelay = 5
  Backoff <- MCBackoff
  Threads = {"single", "batch"}
  Batch <- MCBatch
  MaxCalls = 6
  Generations = 3
  Names = {"a", "b"}
  Dirs = {"d"}
  Directories = {"r", "a", "b", "c"}
  Root = "r"
  Extra <- MCExtra
  Links <- MCLinks
  Unreadable = {"a", "c"}
  Raising = {"b", "c"}
  Closers = {"end", "reaper", "shutdown"}
  Reapers = {"reaper"}
CHECK_DEADLOCK FALSE
INVARIANTS LedgerExact WorkerHasOneOwner PoolExact
           CallsWithinQuota RegistryKept JobsHonest ScanIsSerial CloseNeverMeetsCode
PROPERTIES NothingStaysBehind StopIsFinal OnlyHealthShortensDelay
