--------------------------- MODULE MCExecWrappers ---------------------------
(* Instances of ExecWrappers for TLC.                                      *)
EXTENDS ExecWrappers, TLC

CONSTANTS t1, t2, c1, c2, c3, c4, c5, c6

MCPids2 == 1..2
MCPids3 == 1..3
MCConns == {c1, c2, c3, c4, c5, c6}

\* Two application threads; targets a plain program, a short-lived library,
\* a setuid program and a self tool.
MCThreads2 == {t1, t2}
MCTargetsGuard == {"prog", "/lib/libc.so.6", "passwd", "dmtcp_launch"}

\* One application thread; targets including the bypass list.
MCThreads1 == {t1}
MCTargetsBypass == {"prog", "ssh", "dmtcp_command"}

\* A bypass-list program only.
MCTargetsSsh == {"ssh"}

\* A plain program and dmtcp_command.
MCTargetsRace == {"prog", "dmtcp_command"}

MCShortLived == {"/lib/libc.so.6"}
MCSetuid == {"passwd"}

=============================================================================
