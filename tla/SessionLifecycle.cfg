SPECIFICATION Spec
CONSTANTS
  t1 = t1
  t2 = t2
  s1 = s1
  s2 = s2
  Threads = {t1, t2}
  Sids = {s1, s2}
  NoSid = NoSid
  NoThread = NoThread
  MaxSessions = 1
  MaxExec = 2
  MaxEpoch = 1
SYMMETRY Perms
INVARIANTS TypeOK LifecycleOwned NoZombieBackend EpochFence ExclusiveExecution
PROPERTIES PublishedIsServable ReleasedNeverRuns
