SPECIFICATION Spec
CONSTANTS
  Closers = {reaper}
  MaxProcs = 1
  MaxRefused = 1
INVARIANTS FailedStartLeavesNothing
