\* Two application threads fork and exec programs that are not on the
\* bypass list, while the checkpoint thread checkpoints: the lock protocol
\* and the hand-over of identity and coordinator socket to the child, and
\* the refinement of the abstract GuardLock.
CONSTANTS
  Pids <- MCPids2
  InitPid = 1
  UserThreads <- MCThreads2
  Ckpt = Ckpt
  Conns <- MCConns
  t1 = t1
  t2 = t2
  c1 = c1
  c2 = c2
  c3 = c3
  c4 = c4
  c5 = c5
  c6 = c6
  NoConn = NoConn
  NoHolder = NoHolder
  NoTarget = NoTarget
  Targets <- MCTargetsGuard
  ShortLived <- MCShortLived
  Setuid <- MCSetuid
  MaxClock = 1
  PrepareHandlerWraps = FALSE
  AppCallsDaemon = TRUE
  PreExecRenames = FALSE
  Checkpoints = FALSE
SPECIFICATION Spec
INVARIANTS
  TypeOK
  NoLockLeak
  ConnOwnedOnce
  ChildSockInFork

  
