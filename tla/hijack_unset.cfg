\* The application unsets DMTCP_HIJACK_LIBS (as clearenv() or a sanitised
\* environment does) and then calls exec.
CONSTANTS
  ourImportantEnvs <- MCImportantEnvs
  UserKeys = {"HOME", "PLUGIN_VAR"}
  PreloadKey = "LD_PRELOAD"
  HijackKey = "DMTCP_HIJACK_LIBS"
  HijackM32Key = "DMTCP_HIJACK_LIBS_M32"
  OrigPreloadKey = "DMTCP_ORIG_LD_PRELOAD"
  EnvironOrder <- MCEnvironOrder
  Installed <- MCInstalled
  GetPath <- MCGetPath
  Targets = {"/bin/prog", "/bin/prog32"}
  Elf32 = {"/bin/prog32"}
  NullEnvp = NullEnvp
  Unset = Unset
  UserEnvps <- MCUserEnvps
  InitEnvs <- MCInitEnvs
  AppSets <- MCAppSetsHijack
  PluginEntry <- MCPluginEntry
  MaxPluginEnv = 0
  MaxAttempts = 1
SPECIFICATION Spec
INVARIANTS ExecReturnsOrReplaces
