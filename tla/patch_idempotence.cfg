\* One exec with an explicit or environ envp; its result is stripped of the
\* reserved keys and patched a second time.
CONSTANTS
  ourImportantEnvs <- MCImportantEnvs
  UserKeys = {"HOME", "PLUGIN_VAR"}
  PreloadKey = "LD_PRELOAD"
  HijackKey = "DMTCP_HIJACK_LIBS"
  HijackM32Key = "DMTCP_HIJACK_LIBS_M32"
  OrigPreloadKey = "DMTCP_ORIG_LD_PRELOAD"
  EnvironOrder <- MCEnvironOrder
  Installed <- MCInstalled
  GetPath <- MCGetPath
  Targets = {"/bin/prog", "/bin/prog32"}
  Elf32 = {"/bin/prog32"}
  NullEnvp = NullEnvp
  Unset = Unset
  UserEnvps <- MCUserEnvps
  InitEnvs <- MCInitEnvs
  AppSets <- MCAppSetsPreload
  PluginEntry <- MCPluginEntry
  MaxPluginEnv = 0
  MaxAttempts = 1
SPECIFICATION Spec
INVARIANTS PatchIdempotent
