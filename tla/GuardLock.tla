----------------------------- MODULE GuardLock -----------------------------
(***************************************************************************)
(* What the wrapper-execution lock of a DMTCP process promises (spec 4.1,  *)
(* execwrappers.cpp fork() and dmtcp_execvpe()): per process, a lock that  *)
(* is free or held by one thread; a thread takes it only when it is free  *)
(* and only the holder gives it back; a checkpoint runs only while the    *)
(* checkpoint thread holds it; a process starts with the lock free.  A    *)
(* process may end (exit or exec) in any state.                           *)
(***************************************************************************)
CONSTANTS
  Procs,      \* process ids
  Threads,    \* the threads of a process, the checkpoint thread included
  Ckpt,       \* the checkpoint thread
  NoHolder    \* the lock is free

VARIABLES
  alive,      \* alive[p]: p is a process under DMTCP
  holder,     \* holder[p]: the thread holding p's lock, or NoHolder
  ckpt        \* ckpt[p]: p is being checkpointed

vars == <<alive, holder, ckpt>>

Init ==
  /\ alive \in [Procs -> BOOLEAN]
  /\ holder = [p \in Procs |-> NoHolder]
  /\ ckpt = [p \in Procs |-> FALSE]

\* A thread of a running process takes the free lock.
Acquire(p, t) ==
  /\ alive[p] /\ ~ckpt[p] /\ t # Ckpt
  /\ holder[p] = NoHolder
  /\ holder' = [holder EXCEPT ![p] = t]
  /\ UNCHANGED <<alive, ckpt>>

\* The holder gives the lock back.
Release(p, t) ==
  /\ alive[p] /\ holder[p] = t /\ t # Ckpt
  /\ holder' = [holder EXCEPT ![p] = NoHolder]
  /\ UNCHANGED <<alive, ckpt>>

\* The checkpoint thread takes the free lock for the whole checkpoint.
CkptStart(p) ==
  /\ alive[p] /\ ~ckpt[p] /\ holder[p] = NoHolder
  /\ holder' = [holder EXCEPT ![p] = Ckpt]
  /\ ckpt' = [ckpt EXCEPT ![p] = TRUE]
  /\ UNCHANGED alive

CkptFinish(p) ==
  /\ alive[p] /\ ckpt[p]
  /\ holder' = [holder EXCEPT ![p] = NoHolder]
  /\ ckpt' = [ckpt EXCEPT ![p] = FALSE]
  /\ UNCHANGED alive

\* A new process comes under DMTCP with its lock free and not checkpointing.
Spawn(c) ==
  /\ ~alive[c]
  /\ alive' = [alive EXCEPT ![c] = TRUE]
  /\ UNCHANGED <<holder, ckpt>>

\* A process leaves DMTCP, whatever it was doing.
End(p) ==
  /\ alive[p]
  /\ alive' = [alive EXCEPT ![p] = FALSE]
  /\ holder' = [holder EXCEPT ![p] = NoHolder]
  /\ ckpt' = [ckpt EXCEPT ![p] = FALSE]

Next ==
  \/ \E p \in Procs, t \in Threads : Acquire(p, t) \/ Release(p, t)
  \/ \E p \in Procs : CkptStart(p) \/ CkptFinish(p) \/ Spawn(p) \/ End(p)

Spec == Init /\ [][Next]_vars

\* The lock's promise: while a checkpoint runs, no other thread holds it.
CkptHoldsLock == \A p \in Procs : ckpt[p] => holder[p] = Ckpt
=============================================================================
