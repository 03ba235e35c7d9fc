---------------------------- MODULE ArgvCollect ----------------------------
(***************************************************************************)
(* The variadic exec wrappers of execwrappers.cpp: execl, execlp and      *)
(* execle hand their va_list to dmtcp_execlpe, which collects the         *)
(* arguments into an argv array (a stack array of INITIAL_ARGV_MAX        *)
(* entries, then a heap array doubled by realloc) and, when no envp was   *)
(* given, reads the environment pointer as one more va_arg.  execv,       *)
(* execvp, execve and execvpe forward their vector directly, and fexecve *)
(* aborts.                                                                *)
(*                                                                         *)
(* Argument strings are the numbers 1..n (distinct, so a lost or moved   *)
(* entry is visible); NULL, the environ pointer, the caller's envp and   *)
(* whatever the stack holds past the last argument are model values.     *)
(***************************************************************************)
EXTENDS Naturals, Sequences, TLC

CONSTANTS
    NULL,          \* the null pointer
    EnvironP,      \* the value of environ when the process has an environment
    CallerEnvp,    \* the envp argument of execle / execve / execvpe
    Garbage,       \* a value read past the end of a va_list, or uninitialized
    ArgCounts,     \* the argument counts tried
    MaxGrowFail    \* realloc fails at growth number 1..MaxGrowFail (0: never)

\* execwrappers.cpp:40
INITIAL_ARGV_MAX == 128

Callers == {"execl", "execlp", "execle", "execv", "execvp", "execve",
            "execvpe", "fexecve"}
Variadic == {"execl", "execlp", "execle"}

\* The envp each wrapper passes on (execwrappers.cpp:549-618): environ for
\* execv/execvp/execl/execlp, the caller's vector for execve/execvpe, and
\* NULL for execle, whose envp follows the argument list in the va_list.
EnvpArg(caller, environ) ==
    IF caller \in {"execve", "execvpe"} THEN CallerEnvp
    ELSE IF caller = "execle" THEN NULL
    ELSE environ

\* What a read of argv[j] yields: an unwritten slot is uninitialized memory.
Slot(arr, j) == IF j \in DOMAIN arr THEN arr[j] ELSE Garbage

(***************************************************************************)
(* One iteration of the collection loop (execwrappers.cpp:655-674).  s   *)
(* is the loop state: arr the written slots of argv, max its capacity,   *)
(* onHeap whether argv is the realloc'ed array, i the index, va the rest *)
(* of the va_list, grows the number of reallocs done, failAt the realloc  *)
(* that returns NULL (0 for none), oob whether a write went past max.    *)
(***************************************************************************)
\* Mutants of GrowArgv: the memcpy copies one entry short; the capacity
\* grows by INITIAL_ARGV_MAX instead of doubling.
GrowArgvShortCopy(s, i1) ==
    IF s.grows + 1 = s.failAt
    THEN [s EXCEPT !.i = i1, !.status = "enomem"]
    ELSE [s EXCEPT !.i = i1, !.max = 2 * s.max, !.onHeap = TRUE,
                   !.grows = @ + 1,
                   !.arr = IF s.onHeap THEN s.arr
                           ELSE [j \in 0..(i1 - 2) |-> Slot(s.arr, j)]]

GrowArgvAddConst(s, i1) ==
    IF s.grows + 1 = s.failAt
    THEN [s EXCEPT !.i = i1, !.status = "enomem"]
    ELSE [s EXCEPT !.i = i1, !.max = s.max + INITIAL_ARGV_MAX,
                   !.onHeap = TRUE, !.grows = @ + 1,
                   !.arr = IF s.onHeap THEN s.arr
                           ELSE [j \in 0..(i1 - 1) |-> Slot(s.arr, j)]]

GrowArgv(s, i1) ==
    \* realloc(argv == initial_argv ? NULL : argv, ...); memcpy of i
    \* entries when leaving the stack array; -1 when realloc fails
    IF s.grows + 1 = s.failAt
    THEN [s EXCEPT !.i = i1, !.status = "enomem"]
    ELSE [s EXCEPT !.i = i1, !.max = 2 * s.max, !.onHeap = TRUE,
                   !.grows = @ + 1,
                   !.arr = IF s.onHeap THEN s.arr
                           ELSE [j \in 0..(i1 - 1) |-> Slot(s.arr, j)]]

WriteNext(s) ==
    \* argv[i] = va_arg(args, const char *)
    [s EXCEPT !.arr = (s.i :> Head(s.va)) @@ s.arr,
              !.va = Tail(s.va),
              !.oob = @ \/ s.i >= s.max]

\* The loop state on entry to dmtcp_execlpe (execwrappers.cpp:648-654):
\* argv = initial_argv, argv[0] = arg, i = 0.
LoopStart(arg, va, envp, failAt) ==
    [arr |-> (0 :> arg), max |-> INITIAL_ARGV_MAX, onHeap |-> FALSE,
     i |-> 0, va |-> va, envp |-> envp, grows |-> 0, failAt |-> failAt,
     oob |-> FALSE, status |-> "loop"]

\* No call in progress.
NoLoop == [arr |-> <<>>, max |-> 0, onHeap |-> FALSE, i |-> 0, va |-> <<>>,
           envp |-> NULL, grows |-> 0, failAt |-> 0, oob |-> FALSE,
           status |-> "idle"]

(***************************************************************************)
(* The program's inputs: n argument strings 1..n, the NULL terminator,    *)
(* for execle the envp after it, and past that whatever the stack holds.  *)
(***************************************************************************)
ArgList(n) == [k \in 1..n |-> k] \o <<NULL>>

VaList(caller, n) ==
    Tail(ArgList(n)) \o (IF caller = "execle" THEN <<CallerEnvp>> ELSE <<>>)
                     \o <<Garbage>>

\* A non-variadic wrapper calls dmtcp_execvpe with its own vector.
ForwardResult(caller, n, environ) ==
    [status |-> "exec", oob |-> FALSE,
     argv |-> [j \in 0..n |-> ArgList(n)[j + 1]],
     envp |-> EnvpArg(caller, environ)]

\* No wrapper has been called yet.
NoResult == [status |-> "none", oob |-> FALSE, argv |-> <<>>, envp |-> NULL]

VARIABLES caller, nargs, environ, failAt, loop, result
vars == <<caller, nargs, environ, failAt, loop, result>>

Init ==
    /\ caller \in Callers
    /\ nargs \in ArgCounts
    /\ environ \in {EnvironP, NULL}
    /\ failAt \in 0..MaxGrowFail
    /\ loop = NoLoop
    /\ result = NoResult

\* The wrapper is entered (execwrappers.cpp:549-618): fexecve aborts on its
\* JASSERT, the vector forms call dmtcp_execvpe, the list forms start the
\* collection loop of dmtcp_execlpe.
Call ==
    /\ loop.status = "idle" /\ result.status = "none"
    /\ \/ /\ caller = "fexecve"
          /\ result' = [NoResult EXCEPT !.status = "abort"]
          /\ UNCHANGED loop
       \/ /\ caller \in Variadic
          /\ loop' = LoopStart(Head(ArgList(nargs)), VaList(caller, nargs),
                               EnvpArg(caller, environ), failAt)
          /\ UNCHANGED result
       \/ /\ caller \notin Variadic \cup {"fexecve"}
          /\ result' = ForwardResult(caller, nargs, environ)
          /\ UNCHANGED loop
    /\ UNCHANGED <<caller, nargs, environ, failAt>>

\* One pass of while (argv[i++] != NULL) { ... } (execwrappers.cpp:655-674)
\* that finds a non-NULL entry: grow if i reached argv_max, ending the
\* call with -1 if realloc fails, then store the next va_arg.
CollectStep ==
    /\ loop.status = "loop"
    /\ Slot(loop.arr, loop.i) # NULL
    /\ LET i1 == loop.i + 1
           g  == IF i1 = loop.max THEN GrowArgv(loop, i1)
                 ELSE [loop EXCEPT !.i = i1]
       IN IF g.status = "enomem"
          THEN /\ loop' = g
               /\ result' = [NoResult EXCEPT !.status = "enomem"]
          ELSE /\ loop' = WriteNext(g)
               /\ UNCHANGED result
    /\ UNCHANGED <<caller, nargs, environ, failAt>>

\* The loop reads the NULL entry and ends; envp is read as one more va_arg
\* if it is NULL, and dmtcp_execvpe is called (execwrappers.cpp:676-686).
CollectEnd ==
    /\ loop.status = "loop"
    /\ Slot(loop.arr, loop.i) = NULL
    /\ loop' = [loop EXCEPT !.i = @ + 1, !.status = "exec"]
    /\ result' = [status |-> "exec", oob |-> loop.oob,
                   argv |-> [j \in 0..loop.i |-> Slot(loop.arr, j)],
                   envp |-> IF loop.envp = NULL THEN Head(loop.va)
                            ELSE loop.envp]
    /\ UNCHANGED <<caller, nargs, environ, failAt>>

Done ==
    /\ result.status # "none"
    /\ UNCHANGED vars

Next == Call \/ CollectStep \/ CollectEnd \/ Done

Spec == Init /\ [][Next]_vars

-----------------------------------------------------------------------------
(* Reference: what the exec(3) family promises the new image.            *)

\* argv: the caller's argument strings in order, then NULL.
RefArgv == [j \in 0..nargs |-> ArgList(nargs)[j + 1]]

\* envp: the caller's envp for execle/execve/execvpe, otherwise the current
\* environment, which after clearenv() (environ = NULL) is empty.
RefEnvp == IF caller \in {"execle", "execve", "execvpe"} THEN CallerEnvp
           ELSE environ

TypeOK ==
    /\ caller \in Callers
    /\ nargs \in ArgCounts
    /\ failAt \in 0..MaxGrowFail
    /\ loop.status \in {"idle", "loop", "exec", "enomem"}
    /\ loop.max \in {0} \cup {INITIAL_ARGV_MAX * 2 ^ k : k \in 0..MaxGrowFail + 1}
    /\ result.status \in {"none", "exec", "enomem", "abort"}

\* Whatever the argument count, the argv that dmtcp_execlpe builds across
\* the stack array, the memcpy to the heap and each realloc doubling holds
\* exactly the caller's arguments and NULL, with no write past the array's
\* capacity; the only other outcome is -1 when a realloc actually failed.
ArgvCollected ==
    result.status # "none" /\ caller \in Variadic =>
        \/ result.status = "exec" /\ ~result.oob /\ result.argv = RefArgv
        \/ result.status = "enomem" /\ failAt > 0
           /\ nargs >= INITIAL_ARGV_MAX * 2 ^ (failAt - 1)

\* The new image receives the environment the exec(3) wrapper promises:
\* for execl and execlp the current environ, read by dmtcp_execlpe as an
\* extra va_arg when it is NULL.
EnvpPassed ==
    result.status # "none" /\ result.status = "exec" => result.envp = RefEnvp
=============================================================================
