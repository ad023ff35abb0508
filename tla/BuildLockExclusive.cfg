SPECIFICATION IndexSpec
CONSTANTS
  server1 = server1
  server2 = server2
  cli1 = cli1
  server = server
  cli = cli
  NoThread = NoThread
  Threads = {server1, cli1}
  ProcOf <- MCProcOf2
  MaxDepth = 2
  MaxInodes = 2
  Parts = {"lock"}
  Sources <- MCSources
  Described <- MCDescribed
  Walked <- MCWalked
  Main = {"m1", "m2"}
  Ext = {"e"}
  MayBeHidden = {"m2"}
  Audited <- MCAudited
  MaxFailures = 2
CHECK_DEADLOCK FALSE
INVARIANTS Exclusive
