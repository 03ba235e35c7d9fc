\* One exec whose PRE_EXEC subscribers fill the copied envp up to the
\* maxEnv - 1 entries the array has room for (it keeps its NULL).
CONSTANTS
  ourImportantEnvs <- MCImportantEnvs
  UserKeys = {"HOME", "PLUGIN_VAR"}
  PreloadKey = "LD_PRELOAD"
  HijackKey = "DMTCP_HIJACK_LIBS"
  HijackM32Key = "DMTCP_HIJACK_LIBS_M32"
  OrigPreloadKey = "DMTCP_ORIG_LD_PRELOAD"
  EnvironOrder <- MCEnvironOrder
  Installed <- MCInstalled
  GetPath <- MCGetPath
  Targets = {"/bin/prog", "/bin/prog32"}
  Elf32 = {"/bin/prog32"}
  NullEnvp = NullEnvp
  Unset = Unset
  UserEnvps <- MCUserEnvps
  InitEnvs <- MCInitEnvs
  AppSets = {}
  PluginEntry <- MCPluginEntry
  MaxPluginEnv = 32
  MaxAttempts = 1
SPECIFICATION Spec
INVARIANTS NullWithinCapacity
