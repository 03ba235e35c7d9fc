\* One application thread that also execs bypass-list programs (ssh,
\* dmtcp_command): identity and coordinator socket stay unique.
CONSTANTS
  Pids <- MCPids2
  InitPid = 1
  UserThreads <- MCThreads1
  Ckpt = Ckpt
  Conns <- MCConns
  t1 = t1
  t2 = t2
  c1 = c1
  c2 = c2
  c3 = c3
  c4 = c4
  c5 = c5
  c6 = c6
  NoConn = NoConn
  NoHolder = NoHolder
  NoTarget = NoTarget
  Targets <- MCTargetsBypass
  ShortLived <- MCShortLived
  Setuid <- MCSetuid
  MaxClock = 0
  PrepareHandlerWraps = TRUE
  AppCallsDaemon = TRUE
  PreExecRenames = TRUE
  Checkpoints = TRUE
SPECIFICATION Spec
\* A failed ssh exec leaves the lock held (run bypass_leak); the thread's
\* next fork or exec then waits for it forever, so this system really stops.
CHECK_DEADLOCK FALSE
INVARIANTS
  TypeOK
  ConnOwnedOnce
