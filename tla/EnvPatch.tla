------------------------------ MODULE EnvPatch ------------------------------
(***************************************************************************)
(* The environment rewriting of dmtcp_execvpe (src/src/execwrappers.cpp): *)
(* copyEnv, isImportantEnv, patchUserEnv, getUpdatedLdPreload and          *)
(* stringVectorToPointerArray as operators, and one DMTCP process that     *)
(* changes its environment and calls exec until one call replaces it.     *)
(*                                                                         *)
(* A variable value is the list of its colon-separated fields, so a value  *)
(* "a.so:b.so" is <<"a.so", "b.so">>, the empty string is <<>>, and        *)
(* joining two lists with ":" is \o.  An environment entry KEY=value is    *)
(* the record [key |-> KEY, val |-> value].                                *)
(***************************************************************************)
EXTENDS Naturals, Sequences, FiniteSets, SequencesExt

CONSTANTS
  ourImportantEnvs,     \* ENV_VARS_ALL, in its order (a sequence of keys)
  UserKeys,             \* other keys the application's environment uses
  PreloadKey,           \* "LD_PRELOAD"
  HijackKey,            \* ENV_VAR_HIJACK_LIBS
  HijackM32Key,         \* ENV_VAR_HIJACK_LIBS_M32
  OrigPreloadKey,       \* ENV_VAR_ORIG_LD_PRELOAD
  EnvironOrder,         \* the order of the entries of environ
  Installed,            \* libraries that exist at their literal path
  GetPath(_, _),        \* Util::getPath(basename, is32bitElf)
  Targets,              \* programs exec'd through full interception
  Elf32,                \* those that are readable 32-bit ELF files
  Unset,                \* what getenv() reports for an unset key (NULL)
  NullEnvp,             \* the envp argument NULL
  UserEnvps,            \* explicit envp arguments the application passes
  InitEnvs,             \* environments a DMTCP process can start with
  AppSets,              \* setenv/unsetenv calls: [key, val] records
  PluginEntry,          \* an entry a PRE_EXEC subscriber appends
  MaxPluginEnv,         \* bound: entries appended by PRE_EXEC subscribers
  MaxAttempts           \* bound: exec calls of the process


ImportantEnvs == Range(ourImportantEnvs)
EnvKeys == UserKeys \cup ImportantEnvs \cup {PreloadKey}

ASSUME /\ {HijackKey, HijackM32Key, OrigPreloadKey} \subseteq ImportantEnvs
       /\ PreloadKey \notin ImportantEnvs
       /\ Range(EnvironOrder) = EnvKeys
       /\ MaxPluginEnv \in Nat /\ MaxAttempts \in Nat

\* Line 42.
MAX_EXTRA_ENV == 32

Entry(k, v) == [key |-> k, val |-> v]

\* The environ array of a process environment, in environ order.
Environ(env) ==
  SelectSeq([i \in DOMAIN EnvironOrder |-> Entry(EnvironOrder[i], env[EnvironOrder[i]])],
            LAMBDA e : e.val # Unset)

\* Lines 432-442: a NULL envp is copied as the empty list.
copyEnv(envp) == IF envp = NullEnvp THEN <<>> ELSE envp

\* Lines 444-460: JASSERT(len >= size), then result[0..size-1] and the NULL
\* at result[size].  `written' is the set of indices stored to.
stringVectorToPointerArray(s, len) ==
  [ok |-> len >= Len(s), written |-> 0..Len(s), len |-> len]

\* Lines 468-479: the key is the text before the first '='.
isImportantEnv(e) == e.key \in ImportantEnvs

\* Mutant: the `continue' after capturing LD_PRELOAD (l.499) dropped.
UserEntriesKeepPreload(envp) ==
  SelectSeq(envp, LAMBDA e : ~isImportantEnv(e))

\* Lines 490-506: user entries in order, without reserved keys and LD_PRELOAD.
UserEntries(envp) ==
  SelectSeq(envp, LAMBDA e : ~isImportantEnv(e) /\ e.key # PreloadKey)

\* Lines 497-499: userPreloadStr, the value of the last LD_PRELOAD entry.
UserPreload(envp) ==
  LET i == SelectLastInSeq(envp, LAMBDA e : ~isImportantEnv(e) /\ e.key = PreloadKey)
  IN IF i = 0 THEN <<>> ELSE envp[i].val

\* Mutant: the `v != NULL' test of line 516 dropped.
ReinjectedNoNullCheck(env, userPreload) ==
  LET one(k) == IF k = OrigPreloadKey /\ userPreload # <<>> THEN <<Entry(k, userPreload)>>
                ELSE <<Entry(k, env[k])>>
  IN FlattenSeq([i \in DOMAIN ourImportantEnvs |-> one(ourImportantEnvs[i])])

\* Lines 511-522: each reserved key, in ENV_VARS_ALL order, from the user's
\* LD_PRELOAD (ORIG_LD_PRELOAD only) or from the process's own environment.
Reinjected(env, userPreload) ==
  LET one(k) == IF k = OrigPreloadKey /\ userPreload # <<>> THEN <<Entry(k, userPreload)>>
                ELSE IF env[k] # Unset THEN <<Entry(k, env[k])>>
                ELSE <<>>
  IN FlattenSeq([i \in DOMAIN ourImportantEnvs |-> one(ourImportantEnvs[i])])

\* Lines 389-410: the injection list, the 32-bit one for a 32-bit ELF
\* target when it is configured; libraries not found at their path are
\* looked up in the install directory.
HijackLibs(filename, env) ==
  LET is32 == env[HijackM32Key] # Unset /\ filename \in Elf32
      libs == IF is32 THEN env[HijackM32Key] ELSE env[HijackKey]
  IN [i \in DOMAIN libs |-> IF libs[i] \in Installed THEN libs[i]
                            ELSE GetPath(libs[i], is32)]

\* Mutant: the user's preload put in front of the injection list.
getUpdatedLdPreloadUserFirst(filename, currLdPreload, env) ==
  LET preloadEnv == env[PreloadKey]
      userPart == IF currLdPreload # <<>> THEN currLdPreload
                  ELSE IF preloadEnv \notin {Unset, <<>>} THEN preloadEnv
                  ELSE <<>>
  IN [preload |-> userPart \o HijackLibs(filename, env),
      env     |-> IF userPart = <<>> THEN env
                  ELSE [env EXCEPT ![OrigPreloadKey] = userPart]]

\* Lines 386-429: the new LD_PRELOAD value, and the caller's environment
\* after setenv(ENV_VAR_ORIG_LD_PRELOAD) of lines 412-419.  An empty user
\* value counts as absent.
getUpdatedLdPreload(filename, currLdPreload, env) ==
  LET preloadEnv == env[PreloadKey]
      userPart == IF currLdPreload # <<>> THEN currLdPreload
                  ELSE IF preloadEnv \notin {Unset, <<>>} THEN preloadEnv
                  ELSE <<>>
  IN [preload |-> HijackLibs(filename, env) \o userPart,
      env     |-> IF userPart = <<>> THEN env
                  ELSE [env EXCEPT ![OrigPreloadKey] = userPart]]

\* Lines 481-535.  The reserved keys are read before getUpdatedLdPreload
\* changes the caller's environment.
patchUserEnv(envp, filename, env) ==
  LET up  == UserPreload(envp)
      upd == getUpdatedLdPreload(filename, up, env)
  IN [result |-> UserEntries(envp) \o Reinjected(env, up)
                   \o <<Entry(PreloadKey, upd.preload)>>,
      env    |-> upd.env]

-----------------------------------------------------------------------------
(***************************************************************************)
(* One DMTCP process: its environment penv, the outcome of its exec calls  *)
(* and, for the properties, the inputs of the call that replaced it and    *)
(* the last pointer array built for a new environment.                     *)
(***************************************************************************)
VARIABLES
  penv,       \* the process's environment: key -> value or Unset
  outcome,    \* "running", "replaced" (exec succeeded), "crashed" (killed
              \* over the environment it passed) or "aborted" (getLifeboatFd)
  attempts,   \* exec calls made so far
  image,      \* the environment passed to the kernel by the successful exec
  call,       \* that exec's target, envp after PRE_EXEC, and caller's env
  ptrArray    \* the last stringVectorToPointerArray of a patched env

vars == <<penv, outcome, attempts, image, call, ptrArray>>

NoImage == <<>>
NoCall == [target |-> "none", envp |-> <<>>, env |-> [k \in EnvKeys |-> Unset]]
NoArray == [ok |-> TRUE, written |-> {}, len |-> 0]

Init ==
  /\ penv \in InitEnvs
  /\ outcome = "running"
  /\ attempts = 0
  /\ image = NoImage
  /\ call = NoCall
  /\ ptrArray = NoArray

\* The application changes its own environment (setenv/unsetenv/putenv).
AppSetenv ==
  /\ outcome = "running"
  /\ \E a \in AppSets : penv' = [penv EXCEPT ![a.key] = a.val]
  /\ UNCHANGED <<outcome, attempts, image, call, ptrArray>>

\* Lines 536-547, getLifeboatFd: mkostemps or unlink in the tmpdir can fail,
\* and its JASSERT then kills the process.
getLifeboatFdFails == {FALSE, TRUE}

\* Lines 717-776, full interception of a target with an envp argument e:
\* copy (l.730-732), PRE_EXEC subscribers append k entries within maxEnv
\* (l.743), patchUserEnv (l.763-764), stringVectorToPointerArray
\* (l.766), _real_execvpe (l.768), and on failure dmtcpProcessFailedExec
\* (l.772).  Constructing a std::string from getenv(ENV_VAR_HIJACK_LIBS)
\* == NULL (l.389) throws, and the process dies; so does a failed JASSERT,
\* in getLifeboatFd (l.741) or stringVectorToPointerArray (l.766).
\* restoreUserLDPRELOAD (l.379) puts back the pre-patch LD_PRELOAD, which
\* the patch never changed in the caller (spec 4.6).
Exec ==
  /\ outcome = "running"
  /\ attempts < MaxAttempts
  /\ attempts' = attempts + 1
  /\ \E f \in Targets, e \in UserEnvps \cup {Environ(penv)}, k \in 0..MaxPluginEnv,
       lbFails \in getLifeboatFdFails :
       LET envpCopy == copyEnv(e)
           maxEnv   == Len(envpCopy) + MAX_EXTRA_ENV
           preExec  == envpCopy \o [i \in 1..k |-> PluginEntry]
           patched  == patchUserEnv(preExec, f, penv)
           newEnv   == stringVectorToPointerArray(patched.result, maxEnv)
           \* std::string(NULL) throws before the JASSERT is reached
           crashes  == IF penv[HijackKey] = Unset THEN TRUE ELSE ~newEnv.ok
       IN /\ Len(preExec) < maxEnv
          /\ \/ /\ lbFails
                /\ outcome' = "aborted"
                /\ UNCHANGED <<penv, image, call, ptrArray>>
             \/ /\ ~lbFails /\ crashes
                /\ outcome' = "crashed"
                /\ UNCHANGED <<penv, image, call, ptrArray>>
             \/ /\ ~lbFails /\ ~crashes
                /\ ptrArray' = newEnv
                /\ \/ /\ outcome' = "replaced"
                      /\ image' = patched.result
                      /\ call' = [target |-> f, envp |-> preExec, env |-> penv]
                      /\ UNCHANGED penv
                   \/ /\ penv' = patched.env
                      /\ UNCHANGED <<outcome, image, call>>

\* The process is gone, or has made as many exec calls as the bound allows.
Finished ==
  /\ outcome # "running" \/ attempts = MaxAttempts
  /\ UNCHANGED vars

Next == AppSetenv \/ Exec \/ Finished

Spec == Init /\ [][Next]_vars

-----------------------------------------------------------------------------
(***************************************************************************)
(* Properties                                                              *)
(***************************************************************************)

Values == Seq(STRING)
EnvEntry(e) == e \in [key : EnvKeys, val : Values]

TypeOK ==
  /\ \A k \in EnvKeys : penv[k] = Unset \/ penv[k] \in Values
  /\ outcome \in {"running", "replaced", "crashed", "aborted"}
  /\ attempts \in 0..MaxAttempts
  /\ image \in Seq([key : EnvKeys, val : Values])
  /\ ptrArray.ok \in BOOLEAN /\ ptrArray.len \in Nat

\* The value of key k in an environment array (the last entry wins).
ValueIn(envp, k) ==
  LET i == SelectLastInSeq(envp, LAMBDA x : x.key = k) IN
  IF i = 0 THEN Unset ELSE envp[i].val

\* The injection list spec 4.5 step 3 prescribes for the call c.
InjectionList(c) ==
  LET m32  == c.env[HijackM32Key] # Unset /\ c.target \in Elf32
      list == IF m32 THEN c.env[HijackM32Key] ELSE c.env[HijackKey]
  IN [i \in DOMAIN list |-> IF list[i] \in Installed THEN list[i]
                            ELSE GetPath(list[i], m32)]

\* A replaced image has exactly one LD_PRELOAD entry and every reserved key
\* at most once, whatever the envp passed, its duplicate or reserved
\* entries, and what PRE_EXEC subscribers appended (patchUserEnv).
ImageWellFormed ==
  outcome = "replaced" =>
    /\ Cardinality({i \in DOMAIN image : image[i].key = PreloadKey}) = 1
    /\ \A k \in ImportantEnvs : Cardinality({i \in DOMAIN image : image[i].key = k}) <= 1

\* Spec 4.5 step 3 and the scenario of spec 8: the replaced image's
\* LD_PRELOAD is the injection list (32-bit list for a 32-bit target when
\* configured, libraries located) followed by the user's own preload: the
\* value of the envp's last LD_PRELOAD entry if non-empty, else the caller's non-empty
\* LD_PRELOAD (getUpdatedLdPreload).
PreloadHonoursRequest ==
  outcome = "replaced" =>
    LET inj  == InjectionList(call)
        mine == ValueIn(call.envp, PreloadKey)
        own  == call.env[PreloadKey]
        user == IF mine \notin {Unset, <<>>} THEN mine
                ELSE IF own \notin {Unset, <<>>} THEN own ELSE <<>>
    IN ValueIn(image, PreloadKey) = inj \o user

\* Spec 7 and 4.6: an exec that fails is rolled back, and the caller goes
\* on with the environment it had before the call (dmtcpProcessFailedExec).
FailedExecRollsBack ==
  [][attempts' = attempts + 1 /\ outcome' = "running" => penv' = penv]_vars

\* Spec 8: the rewriter never writes past the declared capacity; the NULL
\* of the new environment array (stringVectorToPointerArray, l.457) lies
\* inside the maxEnv slots allocated for it.
NullWithinCapacity ==
  \A i \in ptrArray.written : i < ptrArray.len

\* Spec 7: an intercepted exec either replaces the process image or
\* returns the error to the caller, as the libc call would; it does not
\* kill the caller because of the environment the caller has or passes
\* (getenv(ENV_VAR_HIJACK_LIBS) == NULL at l.389, the JASSERT of l.447).
ExecReturnsOrReplaces ==
  outcome # "crashed"

\* Spec 8, idempotence of re-injection: patching an environment, stripping
\* its reserved keys and patching it again (as a DMTCP process exec'ing
\* with the environment it was started with does) gives the same
\* LD_PRELOAD and reserved-key values as patching it once (patchUserEnv).
PatchIdempotent ==
  outcome = "replaced" =>
    LET once     == patchUserEnv(call.envp, call.target, call.env)
        stripped == SelectSeq(once.result, LAMBDA e : ~isImportantEnv(e))
        twice    == patchUserEnv(stripped, call.target, once.env)
    IN \A k \in ImportantEnvs \cup {PreloadKey} :
         ValueIn(twice.result, k) = ValueIn(once.result, k)

=============================================================================
