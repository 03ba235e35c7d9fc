----------------------------- MODULE MCEnvPatch -----------------------------
(***************************************************************************)
(* Constants for checking EnvPatch: four reserved keys in ENV_VARS_ALL,    *)
(* two ordinary keys, an injection list with one library that must be     *)
(* looked up in the install directory, and explicit envp arguments with   *)
(* a NULL, an empty, a duplicate and a reserved LD_PRELOAD-related entry.  *)
(***************************************************************************)
EXTENDS EnvPatch, TLC

MCImportantEnvs ==
  <<"DMTCP_COORD_HOST", "DMTCP_HIJACK_LIBS", "DMTCP_HIJACK_LIBS_M32",
    "DMTCP_ORIG_LD_PRELOAD">>

MCEnvironOrder ==
  <<"HOME", "PLUGIN_VAR", "DMTCP_COORD_HOST", "DMTCP_HIJACK_LIBS",
    "DMTCP_HIJACK_LIBS_M32", "DMTCP_ORIG_LD_PRELOAD", "LD_PRELOAD">>

MCInstalled == {"/opt/dmtcp/lib/libdmtcp.so", "/opt/dmtcp/lib/32/libdmtcp.so"}

\* Util::getPath: the install directory, 32-bit subdirectory for 32-bit ELF.
MCGetPath(lib, is32) ==
  IF is32 THEN "/opt/dmtcp/lib/32/" \o lib ELSE "/opt/dmtcp/lib/" \o lib

\* A process started by dmtcp_launch or by an earlier intercepted exec:
\* its startup put the user's preload back into LD_PRELOAD (or none).
MCInitEnvs ==
  { [k \in EnvKeys |->
       CASE k = "HOME" -> <<"/home/u">>
         [] k = "DMTCP_COORD_HOST" -> <<"node1">>
         [] k = "DMTCP_HIJACK_LIBS" -> <<"/opt/dmtcp/lib/libdmtcp.so", "libplugin.so">>
         [] k = "DMTCP_HIJACK_LIBS_M32" -> m32
         [] k \in {"DMTCP_ORIG_LD_PRELOAD", "LD_PRELOAD"} -> user
         [] OTHER -> Unset]
    : m32 \in {Unset, <<"/opt/dmtcp/lib/32/libdmtcp.so">>},
      user \in {Unset, <<"u1.so">>} }

MCUserEnvps ==
  { NullEnvp,
    <<>>,
    << Entry("HOME", <<"/home/u">>) >>,
    << Entry("LD_PRELOAD", <<"u2.so">>), Entry("HOME", <<"/home/u">>),
       Entry("LD_PRELOAD", <<"u3.so", "u4.so">>) >>,
    << Entry("LD_PRELOAD", <<>>) >>,
    << Entry("DMTCP_ORIG_LD_PRELOAD", <<"u2.so">>), Entry("LD_PRELOAD", <<"u2.so">>),
       Entry("DMTCP_HIJACK_LIBS", <<"evil.so">>) >> }

MCAppSetsPreload ==
  { [key |-> "LD_PRELOAD", val |-> <<"u2.so">>], [key |-> "LD_PRELOAD", val |-> Unset] }

MCAppSetsHijack == { [key |-> "DMTCP_HIJACK_LIBS", val |-> Unset] }

MCAppSetsAll == MCAppSetsPreload \cup MCAppSetsHijack

MCPluginEntry == Entry("PLUGIN_VAR", <<"on">>)
=============================================================================
