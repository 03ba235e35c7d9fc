---------------------------- MODULE ExecWrappers ----------------------------
(***************************************************************************)
(* The fork/exec interception layer of DMTCP (src/src/execwrappers.cpp).   *)
(*                                                                         *)
(* A set of processes, each with user threads and one checkpoint thread.   *)
(* User threads call the fork() and exec*() wrappers; the checkpoint       *)
(* thread takes the wrapper-execution lock to checkpoint the process and, *)
(* while it is checkpointing, may itself call fork/exec (plugin code),     *)
(* which then bypasses interception.  Each wrapper is split into steps at *)
(* the points where another thread of the same process can interleave.    *)
(*                                                                         *)
(* Data are abstracted: a coordinator socket is a connection id from       *)
(* Conns, a program is its basename from Targets, the environment and     *)
(* argv rewriting are left to EnvPatch.                                    *)
(***************************************************************************)
EXTENDS Naturals, FiniteSets

CONSTANTS
  Pids,         \* process ids the OS can hand out
  InitPid,      \* the process started under DMTCP
  UserThreads,  \* application threads of a process
  Ckpt,         \* the checkpoint thread of a process
  Conns,        \* coordinator connections (socket ends)
  NoConn,       \* a closed or never opened coordinator socket (-1)
  NoHolder,     \* the wrapper-execution lock is free
  NoTarget,     \* the thread is not inside an exec wrapper
  Targets,      \* program basenames a thread may exec
  ShortLived,   \* targets under /lib/lib, /lib64/lib or ending in /utempter
  Setuid,       \* setuid/setgid targets
  MaxClock,     \* bound on time(NULL) in seconds
  PrepareHandlerWraps, \* the application registered a pthread_atfork prepare
                       \* handler that calls fork()
  AppCallsDaemon,     \* the application calls daemon()
  PreExecRenames,     \* a PRE_EXEC subscriber may rewrite the filename
  Checkpoints         \* the coordinator requests checkpoints

Threads == UserThreads \cup {Ckpt}

ASSUME InitPid \in Pids
ASSUME Ckpt \notin UserThreads
ASSUME NoConn \notin Conns /\ NoHolder \notin Threads
ASSUME MaxClock \in Nat
ASSUME {PrepareHandlerWraps, AppCallsDaemon, PreExecRenames, Checkpoints} \subseteq BOOLEAN

\* Basenames checked by dmtcp_execvpe (lines 699-702 and 749-750).
SelfTools   == {"dmtcp_coordinator", "dmtcp_launch", "dmtcp_restart", "mtcp_restart"}
BypassNames == {"dmtcp_nocheckpoint", "dmtcp_command", "ssh", "rsh"}

VARIABLES
  status,  \* status[p]: "free" pid, "dmtcp" process, or "foreign" (not under DMTCP)
  proc,    \* proc[p]: the process-wide state of DMTCP in process p
  pc,      \* pc[p][t]: where thread t of p is; "none" if it does not exist
  arg,     \* arg[p][t]: the program an exec call of t is running
  clock    \* time(NULL)

vars == <<status, proc, pc, arg, clock>>

UniquePid(pid, time) == [pid |-> pid, time |-> time]
UniquePids == [pid : Pids, time : 0..MaxClock]

(***************************************************************************)
(* Process-wide state.  lock is the wrapper-execution lock (its holder),   *)
(* wstate the WorkerState, atforkEnabled/childTime/childSock the globals   *)
(* pthread_atfork_enabled, child_time and childCoordinatorSocket, coord    *)
(* PROTECTED_COORD_FD, upid UniquePid::ThisProcess(), lifeboat whether     *)
(* PROTECTED_LIFEBOAT_FD is open.                                          *)
(***************************************************************************)
ProcState == [wstate : {"RUNNING", "PRESUSPEND", "CKPT"}, lock : Threads \cup {NoHolder},
              atforkEnabled : BOOLEAN, childTime : 0..MaxClock,
              childSock : Conns \cup {NoConn}, coord : Conns \cup {NoConn},
              upid : UniquePids, lifeboat : BOOLEAN]

PcValues == {"none", "idle", "suspend", "ckpt", "F_lock", "F_fork", "F_parent", "F_fail",
             "F_child", "E_lock", "E_exec", "SL_exit", "C_fork", "C_exit",
             "C_exec", "D_exit", "D_child"}

\* arg[p][t] of a thread whose fork() was called by daemon().
Daemon == "daemon()"

\* Where a thread returns to from a wrapper: user code, or the checkpoint
\* thread's event handling.
Home(t) == IF t = Ckpt THEN "ckpt" ELSE "idle"

\* Steps at which the caller holds the wrapper-execution lock.
HoldingPcs(t) == IF t = Ckpt THEN {"ckpt"} ELSE {"F_fork", "F_parent", "F_fail", "E_exec"}

isPerformingCkptRestart(p) == proc[p].wstate # "RUNNING"

\* The user threads of a process run until the checkpoint thread, already
\* holding the lock, has suspended them.
Runs(p, t) == status[p] = "dmtcp" /\ (t = Ckpt \/ proc[p].wstate # "CKPT")

GetExclLock(p, t) ==
  IF proc[p].lock = NoHolder THEN {t}
  ELSE IF proc[p].lock = Ckpt THEN {Ckpt}
  ELSE {}

ReleaseExclLock(pr, t) == IF pr.lock = t THEN NoHolder ELSE pr.lock

FreePids == {c \in Pids : status[c] = "free"}

ConnsInUse ==
  {proc[q].coord : q \in {q \in Pids : status[q] = "dmtcp"}}
    \cup {proc[q].childSock : q \in {q \in Pids : status[q] = "dmtcp"}}

\* CoordinatorAPI::createNewConnectionBeforeFork: a socket no process holds.
\* Which one is immaterial, so the choice is fixed.
NewConn == CHOOSE s \in Conns \ ConnsInUse : TRUE

SetPc(p, t, v) == pc' = [pc EXCEPT ![p][t] = v]

\* The single surviving thread of a process created by fork.
OnlyThread(t, v) == [u \in Threads |-> IF u = t THEN v ELSE "none"]

\* Mutants of pthread_atfork_child, each a plausible slip in lines 116-128:
\* the UniquePid arguments swapped, the locks not reset, the new socket not
\* promoted.
AtforkChildSwapped(pr, c) ==
  IF ~pr.atforkEnabled THEN pr
  ELSE [pr EXCEPT !.atforkEnabled = FALSE, !.wstate = "RUNNING", !.lock = NoHolder,
                  !.upid = UniquePid(pr.childTime, c), !.coord = pr.childSock]
AtforkChildNoResetLocks(pr, c) ==
  IF ~pr.atforkEnabled THEN pr
  ELSE [pr EXCEPT !.atforkEnabled = FALSE, !.wstate = "RUNNING",
                  !.upid = UniquePid(c, pr.childTime), !.coord = pr.childSock]
AtforkChildKeepSocket(pr, c) ==
  IF ~pr.atforkEnabled THEN pr
  ELSE [pr EXCEPT !.atforkEnabled = FALSE, !.wstate = "RUNNING", !.lock = NoHolder,
                  !.upid = UniquePid(c, pr.childTime)]

(***************************************************************************)
(* pthread_atfork_child: run by libc in every child of _real_fork, before  *)
(* fork returns there.  It acts only if pthread_atfork_enabled is set.     *)
(***************************************************************************)
pthread_atfork_child(pr, c) ==
  IF ~pr.atforkEnabled THEN pr
  ELSE [pr EXCEPT !.atforkEnabled = FALSE, !.wstate = "RUNNING",
                  !.lock  = NoHolder,                     \* ThreadSync::resetLocks
                  !.upid  = UniquePid(c, pr.childTime),   \* UniquePid::resetOnFork
                  !.coord = pr.childSock]                 \* CoordinatorAPI::resetOnFork
                                            \* wstate: DmtcpWorker::resetOnFork

\* The DMTCP state of the new image after a successful exec: fresh globals,
\* identity restored from the lifeboat, PROTECTED_COORD_FD kept open because
\* dmtcpPrepareForExec cleared FD_CLOEXEC on the protected fds (l.358-366).
NewImage(pr) ==
  [pr EXCEPT !.wstate = "RUNNING", !.lock = NoHolder, !.atforkEnabled = FALSE,
             !.childTime = 0, !.childSock = NoConn, !.lifeboat = FALSE]

\* The (absent) DMTCP state of a pid that is free or not under DMTCP.
NoProc ==
  [wstate |-> "RUNNING", lock |-> NoHolder, atforkEnabled |-> FALSE,
   childTime |-> 0, childSock |-> NoConn, coord |-> NoConn,
   upid |-> UniquePid(InitPid, 0), lifeboat |-> FALSE]

-----------------------------------------------------------------------------
(***************************************************************************)
(* fork()                                                                  *)
(***************************************************************************)

\* Where fork() returns to (r: "parent", "child" or "fail"): the caller, or
\* the rest of daemon() (lines 209-216), which returns -1 on failure.
ForkReturn(p, t, r) ==
  IF arg[p][t] # Daemon \/ r = "fail" THEN Home(t)
  ELSE IF r = "parent" THEN "D_exit" ELSE "D_child"

\* Lines 135-141: during checkpoint/restart the raw fork syscall is used; its
\* child runs no DMTCP handler and is not a DMTCP process.
ForkBypass(p, t) ==
  /\ Runs(p, t) /\ pc[p][t] = Home(t)
  /\ isPerformingCkptRestart(p)
  /\ \/ \E c \in FreePids : status' = [status EXCEPT ![c] = "foreign"]
     \/ FreePids = {} /\ UNCHANGED status
  /\ UNCHANGED <<proc, pc, arg, clock>>

ForkEnter(p, t) ==
  /\ Runs(p, t) /\ pc[p][t] = Home(t)
  /\ ~isPerformingCkptRestart(p)
  /\ SetPc(p, t, "F_lock")
  /\ UNCHANGED <<status, proc, arg, clock>>

\* Lines 146-160: take the lock exclusively, ATFORK_PREPARE, child_time,
\* a new coordinator connection for the child, enable the atfork handler.
ForkLock(p, t) ==
  /\ Runs(p, t) /\ pc[p][t] = "F_lock"
  /\ Conns \ ConnsInUse # {}
  /\ \E h \in GetExclLock(p, t) :
       proc' = [proc EXCEPT ![p].lock = h, ![p].childTime = clock,
                            ![p].childSock = NewConn, ![p].atforkEnabled = TRUE]
  /\ SetPc(p, t, "F_fork")
  /\ UNCHANGED <<status, arg, clock>>

\* Line 161: _real_fork runs the pthread_atfork prepare handlers, the
\* application's after the wrapper took the lock (FIXME of l.79-83);
\* whether one of them calls fork().
pthread_atfork_prepare(t) == PrepareHandlerWraps /\ t # Ckpt

\* Lines 161-190: _real_fork.  A prepare handler that calls fork()
\* re-enters the wrapper with the lock held.  The fork fails when no
\* pid is free; otherwise the child is a copy of p holding only thread t, on
\* which libc runs pthread_atfork_child.
ForkReal(p, t) ==
  /\ Runs(p, t) /\ pc[p][t] = "F_fork"
  /\ \/ /\ pthread_atfork_prepare(t)
        /\ SetPc(p, t, "F_lock")
        /\ UNCHANGED <<status, proc, arg>>
     \/ /\ FreePids = {}
        /\ SetPc(p, t, "F_fail")
        /\ UNCHANGED <<status, proc, arg>>
     \/ \E c \in FreePids :
          /\ status' = [status EXCEPT ![c] = "dmtcp"]
          /\ proc' = [proc EXCEPT
                        ![c] = pthread_atfork_child(proc[p], c)]
          /\ pc' = [pc EXCEPT ![p][t] = "F_parent", ![c] = OnlyThread(t, "F_child")]
          /\ arg' = [arg EXCEPT ![c] = [u \in Threads |->
                        IF u = t THEN arg[p][t] ELSE NoTarget]]
  /\ UNCHANGED clock

\* Lines 164-173, 192, 199 in the child: ThreadList::resetOnFork starts the
\* checkpoint thread; fork returns 0 without touching the (reset) lock.
ForkChild(p, t) ==
  /\ Runs(p, t) /\ pc[p][t] = "F_child"
  /\ proc' = [proc EXCEPT ![p].atforkEnabled = FALSE]
  /\ pc' = [pc EXCEPT ![p][t] = ForkReturn(p, t, "child"), ![p][Ckpt] = "idle"]
  /\ UNCHANGED <<status, arg, clock>>

\* Mutant of ForkParent: the _real_close of line 194 dropped.
ForkParentKeepSock(p, t) ==
  /\ Runs(p, t) /\ pc[p][t] \in {"F_parent", "F_fail"}
  /\ proc' = [proc EXCEPT ![p].atforkEnabled = FALSE,
                          ![p].lock = ReleaseExclLock(proc[p], t)]
  /\ SetPc(p, t, ForkReturn(p, t, IF pc[p][t] = "F_fail" THEN "fail" ELSE "parent"))
  /\ arg' = [arg EXCEPT ![p][t] = IF pc[p][t] = "F_fail" THEN NoTarget ELSE @]
  /\ UNCHANGED <<status, clock>>

\* Lines 192-199 in the parent (also after a failed fork): disable the
\* handler, close the child's socket, ATFORK_PARENT, release the lock.
ForkParent(p, t) ==
  /\ Runs(p, t) /\ pc[p][t] \in {"F_parent", "F_fail"}
  /\ proc' = [proc EXCEPT ![p].atforkEnabled = FALSE, ![p].childSock = NoConn,
                          ![p].lock = ReleaseExclLock(proc[p], t)]
  /\ SetPc(p, t, ForkReturn(p, t, IF pc[p][t] = "F_fail" THEN "fail" ELSE "parent"))
  /\ arg' = [arg EXCEPT ![p][t] = IF pc[p][t] = "F_fail" THEN NoTarget ELSE @]
  /\ UNCHANGED <<status, clock>>

-----------------------------------------------------------------------------
(***************************************************************************)
(* exec*() -> dmtcp_execvpe                                                *)
(***************************************************************************)

\* Process p leaves DMTCP: it ends (st = "free") or now runs a program that
\* is not under DMTCP (st = "foreign").  Its DMTCP state is gone.
Leave(p, st) ==
  /\ status' = [status EXCEPT ![p] = st]
  /\ proc' = [proc EXCEPT ![p] = NoProc]
  /\ pc' = [pc EXCEPT ![p] = [u \in Threads |-> "none"]]
  /\ arg' = [arg EXCEPT ![p] = [u \in Threads |-> NoTarget]]

Vanish(p) == Leave(p, "free")
BecomeForeign(p) == Leave(p, "foreign")

\* Lines 693-715: the checks made before the lock is taken.
ExecEnter(p, t) ==
  /\ Runs(p, t) /\ pc[p][t] = Home(t)
  /\ \E f \in Targets :
       \/ /\ isPerformingCkptRestart(p)                 \* _real_execvpe
          /\ \/ BecomeForeign(p)
             \/ UNCHANGED <<status, proc, pc, arg>>    \* exec failed
       \/ /\ ~isPerformingCkptRestart(p)
          /\ f \in SelfTools                            \* JASSERT aborts
          /\ Vanish(p)
       \/ /\ ~isPerformingCkptRestart(p)
          /\ f = "dmtcp_command"                        \* close PROTECTED_COORD_FD
          /\ proc' = [proc EXCEPT ![p].coord = NoConn]
          /\ SetPc(p, t, "C_fork")
          /\ UNCHANGED <<status, arg>>
       \/ /\ ~isPerformingCkptRestart(p)
          /\ f \notin SelfTools \cup {"dmtcp_command"}
          /\ arg' = [arg EXCEPT ![p][t] = f]
          /\ SetPc(p, t, "E_lock")
          /\ UNCHANGED <<status, proc>>
  /\ UNCHANGED clock

\* Line 709: _real_fork; libc still runs pthread_atfork_child in the child.
\* A failed fork trips JASSERT(cpid != -1) and aborts the process.
CmdFork(p, t) ==
  /\ Runs(p, t) /\ pc[p][t] = "C_fork"
  /\ \/ FreePids = {} /\ Vanish(p)
     \/ \E c \in FreePids :
          /\ status' = [status EXCEPT ![c] = "dmtcp"]
          /\ proc' = [proc EXCEPT ![c] = pthread_atfork_child(proc[p], c)]
          /\ pc' = [pc EXCEPT ![p][t] = "C_exit", ![c] = OnlyThread(t, "C_exec")]
          /\ UNCHANGED arg
  /\ UNCHANGED clock

\* Line 712: the parent calls _real_exit(0).
CmdExit(p, t) ==
  /\ Runs(p, t) /\ pc[p][t] = "C_exit"
  /\ Vanish(p)
  /\ UNCHANGED clock

\* Line 714 in the child: exec dmtcp_command unmodified; if that fails the
\* error is returned to the caller, now running in the child.
CmdExec(p, t) ==
  /\ Runs(p, t) /\ pc[p][t] = "C_exec"
  /\ \/ BecomeForeign(p)
     \/ SetPc(p, t, Home(t)) /\ UNCHANGED <<status, proc, arg>>
  /\ UNCHANGED clock

\* Lines 536-547, getLifeboatFd: mkostemps and unlink a file in the tmpdir
\* and move it to PROTECTED_LIFEBOAT_FD; either failing trips a JASSERT,
\* which kills the process.
getLifeboatFdFails == {FALSE, TRUE}

\* Lines 736 and 745-747: the filename the rest of dmtcp_execvpe uses is
\* data.preExec.filename after the PRE_EXEC subscribers ran; only the bypass
\* list is checked against it again.
PreExecFilenames(f) == IF PreExecRenames THEN Targets ELSE {f}

\* Lines 720-745: take the lock, copy argv/envp, open the lifeboat and
\* serialize the UniquePid into it, PRE_EXEC event.
ExecLock(p, t) ==
  /\ Runs(p, t) /\ pc[p][t] = "E_lock"
  /\ \E h \in GetExclLock(p, t), fails \in getLifeboatFdFails :
       \/ /\ ~fails
          /\ proc' = [proc EXCEPT ![p].lock = h, ![p].lifeboat = TRUE]
          /\ SetPc(p, t, "E_exec")
          /\ \E f \in PreExecFilenames(arg[p][t]) : arg' = [arg EXCEPT ![p][t] = f]
          /\ UNCHANGED status
       \/ fails /\ Vanish(p)
  /\ UNCHANGED clock

\* Lines 303-337 of dmtcpPrepareForExec: targets under /lib/lib, /lib64/lib
\* or ending in /utempter are run through execShortLivedProcessAndExit.
PrepareForExecIsShortLived(f) == f \in ShortLived

\* Lines 371-383, dmtcpProcessFailedExec: free the patched argv, restore
\* LD_PRELOAD, close the lifeboat descriptor.
ProcessFailedExec(pr) == [pr EXCEPT !.lifeboat = FALSE]

\* Lines 747-776 with dmtcpPrepareForExec, execShortLivedProcessAndExit and
\* dmtcpProcessFailedExec.
ExecRun(p, t) ==
  LET f == arg[p][t] IN
  /\ Runs(p, t) /\ pc[p][t] = "E_exec"
  /\ \/ /\ f \in BypassNames                            \* lines 749-754
        /\ \/ BecomeForeign(p)
           \/ /\ SetPc(p, t, Home(t))
              /\ arg' = [arg EXCEPT ![p][t] = NoTarget]
              /\ UNCHANGED <<status, proc>>
     \/ /\ f \notin BypassNames /\ PrepareForExecIsShortLived(f) \* lines 258-291
        /\ proc' = [proc EXCEPT ![p].lock = ReleaseExclLock(proc[p], t)]
        /\ SetPc(p, t, "SL_exit")
        /\ arg' = [arg EXCEPT ![p][t] = NoTarget]
        /\ UNCHANGED status
     \/ /\ f \notin BypassNames /\ ~PrepareForExecIsShortLived(f) \* 340-366, 763-770
        /\ \/ /\ proc' = [proc EXCEPT ![p] = NewImage(@)]
              /\ pc' = [pc EXCEPT ![p] = [u \in Threads |->
                          IF u = t THEN "idle" ELSE IF u = Ckpt THEN "idle" ELSE "none"]]
           \/ /\ proc' = [proc EXCEPT ![p] = [ProcessFailedExec(@) EXCEPT
                                                 !.lock = ReleaseExclLock(proc[p], t)]]
              /\ SetPc(p, t, Home(t))                   \* lines 772-776
        /\ arg' = [arg EXCEPT ![p][t] = NoTarget]
        /\ UNCHANGED status
  /\ UNCHANGED clock

\* Line 290: _exit(0) after printing the captured output.
ShortLivedExit(p, t) ==
  /\ Runs(p, t) /\ pc[p][t] = "SL_exit"
  /\ Vanish(p)
  /\ UNCHANGED clock

-----------------------------------------------------------------------------
(***************************************************************************)
(* daemon() and vfork()                                                    *)
(***************************************************************************)

\* Lines 202-208: daemon() calls the fork() wrapper (vfork, lines 243-251, is
\* return fork(), so its steps are those of ForkEnter..ForkParent).
DaemonEnter(p, t) ==
  /\ AppCallsDaemon
  /\ Runs(p, t) /\ t \in UserThreads /\ pc[p][t] = "idle"
  /\ ~isPerformingCkptRestart(p)
  /\ SetPc(p, t, "F_lock")
  /\ arg' = [arg EXCEPT ![p][t] = Daemon]
  /\ UNCHANGED <<status, proc, clock>>

\* Line 215: the parent of a successful fork calls _exit(0).
DaemonParentExit(p, t) ==
  /\ Runs(p, t) /\ pc[p][t] = "D_exit"
  /\ Vanish(p)
  /\ UNCHANGED clock

\* Lines 218-240 in the child: setsid, chdir("/") under a JASSERT (a failure
\* aborts the process), the dup2 of /dev/null; daemon returns 0 or -1.
DaemonChild(p, t) ==
  /\ Runs(p, t) /\ pc[p][t] = "D_child"
  /\ \/ Vanish(p)
     \/ /\ SetPc(p, t, "idle")
        /\ arg' = [arg EXCEPT ![p][t] = NoTarget]
        /\ UNCHANGED <<status, proc>>
  /\ UNCHANGED clock

-----------------------------------------------------------------------------
(***************************************************************************)
(* Environment of the wrappers: the checkpoint thread, the application     *)
(* exiting, foreign processes exiting, time passing.                       *)
(***************************************************************************)

\* The checkpoint thread takes the wrapper-execution lock as the writer and
\* leaves RUNNING (ThreadSync/DmtcpWorker, spec 4.1), then suspends the
\* user threads, checkpoints, and resumes them releasing the lock.
CkptBegin(p) ==
  /\ Checkpoints /\ status[p] = "dmtcp" /\ pc[p][Ckpt] = "idle"
  /\ proc[p].coord # NoConn /\ proc[p].lock = NoHolder
  /\ proc' = [proc EXCEPT ![p].lock = Ckpt, ![p].wstate = "PRESUSPEND"]
  /\ SetPc(p, Ckpt, "suspend")
  /\ UNCHANGED <<status, arg, clock>>

CkptSuspend(p) ==
  /\ status[p] = "dmtcp" /\ pc[p][Ckpt] = "suspend"
  /\ proc' = [proc EXCEPT ![p].wstate = "CKPT"]
  /\ SetPc(p, Ckpt, "ckpt")
  /\ UNCHANGED <<status, arg, clock>>

CkptEnd(p) ==
  /\ status[p] = "dmtcp" /\ pc[p][Ckpt] = "ckpt"
  /\ proc' = [proc EXCEPT ![p].lock = NoHolder, ![p].wstate = "RUNNING"]
  /\ SetPc(p, Ckpt, "idle")
  /\ UNCHANGED <<status, arg, clock>>

AppExit(p, t) ==
  /\ Runs(p, t) /\ t # Ckpt /\ pc[p][t] = "idle"
  /\ Vanish(p)
  /\ UNCHANGED clock

ForeignExit(p) ==
  /\ status[p] = "foreign"
  /\ status' = [status EXCEPT ![p] = "free"]
  /\ UNCHANGED <<proc, pc, arg, clock>>

Tick ==
  /\ clock < MaxClock
  /\ clock' = clock + 1
  /\ UNCHANGED <<status, proc, pc, arg>>

\* Every process has ended.
Terminated ==
  /\ \A p \in Pids : status[p] = "free"
  /\ UNCHANGED vars

-----------------------------------------------------------------------------
InitProc(c0) ==
  [wstate |-> "RUNNING", lock |-> NoHolder, atforkEnabled |-> FALSE,
   childTime |-> 0, childSock |-> NoConn, coord |-> c0,
   upid |-> UniquePid(InitPid, 0), lifeboat |-> FALSE]

Init ==
  /\ status = [p \in Pids |-> IF p = InitPid THEN "dmtcp" ELSE "free"]
  /\ proc = [p \in Pids |-> IF p = InitPid THEN InitProc(CHOOSE c \in Conns : TRUE) ELSE NoProc]
  /\ pc = [p \in Pids |-> [t \in Threads |->
             IF p = InitPid /\ t \in Threads THEN "idle" ELSE "none"]]
  /\ arg = [p \in Pids |-> [t \in Threads |-> NoTarget]]
  /\ clock = 0

ThreadStep(p, t) ==
  \/ ForkBypass(p, t) \/ ForkEnter(p, t) \/ ForkLock(p, t) \/ ForkReal(p, t)
  \/ ForkChild(p, t) \/ ForkParent(p, t)
  \/ DaemonEnter(p, t) \/ DaemonParentExit(p, t) \/ DaemonChild(p, t)
  \/ ExecEnter(p, t) \/ CmdFork(p, t) \/ CmdExit(p, t) \/ CmdExec(p, t)
  \/ ExecLock(p, t) \/ ExecRun(p, t) \/ ShortLivedExit(p, t)
  \/ AppExit(p, t)

Next ==
  \/ \E p \in Pids, t \in Threads : ThreadStep(p, t)
  \/ \E p \in Pids : CkptBegin(p) \/ CkptSuspend(p) \/ CkptEnd(p) \/ ForeignExit(p)
  \/ Tick
  \/ Terminated

Spec == Init /\ [][Next]_vars


-----------------------------------------------------------------------------
(***************************************************************************)
(* Properties                                                              *)
(***************************************************************************)

TypeOK ==
  /\ status \in [Pids -> {"free", "dmtcp", "foreign"}]
  /\ proc \in [Pids -> ProcState]
  /\ pc \in [Pids -> [Threads -> PcValues]]
  /\ arg \in [Pids -> [Threads -> Targets \cup {NoTarget, Daemon}]]
  /\ clock \in 0..MaxClock

Live == {p \in Pids : status[p] = "dmtcp"}

NoLockLeak ==
  \A p \in Live, t \in Threads : proc[p].lock = t => pc[p][t] \notin {"none", "idle"}

\* No two DMTCP processes use the same coordinator connection: the socket
\* created before fork becomes the child's, and only the child's.
ConnOwnedOnce ==
  \A p, q \in Live :
    p # q /\ proc[p].coord # NoConn => proc[p].coord # proc[q].coord

\* The coordinator socket that fork() opens for the child before _real_fork
\* (childCoordinatorSocket, line 157) is open in a process only while one of
\* its threads is inside that fork(); afterwards it is the child's own
\* connection or it was closed by the parent (line 194), on success and on
\* failure alike, and also when the caller is daemon(): no socket leaks.
ChildSockInFork ==
  \A p \in Live :
    proc[p].childSock \notin {NoConn, proc[p].coord} =>
      \E t \in Threads : pc[p][t] \in {"F_fork", "F_parent", "F_fail"}

-----------------------------------------------------------------------------
(***************************************************************************)
(* Refinement: the wrapper-execution lock as seen from outside, the        *)
(* abstract GuardLock.  A pid is alive when it is a DMTCP process; the     *)
(* worker state CKPT is a running checkpoint.                              *)
(***************************************************************************)
GL == INSTANCE GuardLock WITH
        Procs  <- Pids,
        alive  <- [p \in Pids |-> status[p] = "dmtcp"],
        holder <- [p \in Pids |-> IF status[p] = "dmtcp" THEN proc[p].lock
                                                       ELSE NoHolder],
        ckpt   <- [p \in Pids |-> status[p] = "dmtcp" /\ proc[p].wstate # "RUNNING"]

=============================================================================
