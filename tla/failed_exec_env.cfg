\* Exec calls that fail at _real_execvpe, with and without an LD_PRELOAD
\* entry in the envp argument; the application itself never calls setenv.
CONSTANTS
  ourImportantEnvs <- MCImportantEnvs
  UserKeys = {"HOME", "PLUGIN_VAR"}
  PreloadKey = "LD_PRELOAD"
  HijackKey = "DMTCP_HIJACK_LIBS"
  HijackM32Key = "DMTCP_HIJACK_LIBS_M32"
  OrigPreloadKey = "DMTCP_ORIG_LD_PRELOAD"
  EnvironOrder <- MCEnvironOrder
  Installed <- MCInstalled
  GetPath <- MCGetPath
  Targets = {"/bin/prog", "/bin/prog32"}
  Elf32 = {"/bin/prog32"}
  NullEnvp = NullEnvp
  Unset = Unset
  UserEnvps <- MCUserEnvps
  InitEnvs <- MCInitEnvs
  AppSets = {}
  PluginEntry <- MCPluginEntry
  MaxPluginEnv = 0
  MaxAttempts = 2
SPECIFICATION Spec
PROPERTIES FailedExecRollsBack
