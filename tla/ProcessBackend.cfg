SPECIFICATION FairSpec
CONSTANTS
  Closers = {reaper, shutdown}
  MaxProcs = 3
  MaxRefused = 2
INVARIANTS ClosedMeansTreeGone OneGeneration SlotOutlivesWriter
PROPERTIES CloseIsFinal NoSilentReset RevokedIsClosed
