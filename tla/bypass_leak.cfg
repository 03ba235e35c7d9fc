\* An exec of ssh that fails returns to the caller with the
\* wrapper-execution lock still held (expected violation).
CONSTANTS
  Pids <- MCPids2
  InitPid = 1
  UserThreads <- MCThreads1
  Ckpt = Ckpt
  Conns <- MCConns
  t1 = t1
  t2 = t2
  c1 = c1
  c2 = c2
  c3 = c3
  c4 = c4
  c5 = c5
  c6 = c6
  NoConn = NoConn
  NoHolder = NoHolder
  NoTarget = NoTarget
  Targets <- MCTargetsSsh
  ShortLived <- MCShortLived
  Setuid <- MCSetuid
  MaxClock = 0
  PrepareHandlerWraps = FALSE
  AppCallsDaemon = FALSE
  PreExecRenames = FALSE
  Checkpoints = TRUE
SPECIFICATION Spec
INVARIANTS
  NoLockLeak
