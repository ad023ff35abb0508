SPECIFICATION FairSpec
CONSTANTS
  t1 = t1
  t2 = t2
  s1 = s1
  Threads = {t1, t2}
  Sids = {s1}
  NoSid = NoSid
  NoThread = NoThread
  MaxSessions = 1
  MaxExec = 1
  MaxEpoch = 2
PROPERTIES EventuallyReclaimed
