\* One thread forks while another execs dmtcp_command: the raw fork of
\* dmtcp_command runs the enabled atfork handler (expected violation).
CONSTANTS
  Pids <- MCPids3
  InitPid = 1
  UserThreads <- MCThreads2
  Ckpt = Ckpt
  Conns <- MCConns
  t1 = t1
  t2 = t2
  c1 = c1
  c2 = c2
  c3 = c3
  c4 = c4
  c5 = c5
  c6 = c6
  NoConn = NoConn
  NoHolder = NoHolder
  NoTarget = NoTarget
  Targets <- MCTargetsRace
  ShortLived <- MCShortLived
  Setuid <- MCSetuid
  MaxClock = 0
  PrepareHandlerWraps = FALSE
  AppCallsDaemon = FALSE
  PreExecRenames = FALSE
  Checkpoints = TRUE
SPECIFICATION Spec
INVARIANTS
  ConnOwnedOnce
