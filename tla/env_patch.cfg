\* The rewriter over every combination of initial environment, explicit or
\* environ envp, target ELF class, PRE_EXEC additions and application
\* setenv/unsetenv of LD_PRELOAD and DMTCP_HIJACK_LIBS, for two exec calls (so a failed call precedes one).
CONSTANTS
  ourImportantEnvs <- MCImportantEnvs
  UserKeys = {"HOME", "PLUGIN_VAR"}
  PreloadKey = "LD_PRELOAD"
  HijackKey = "DMTCP_HIJACK_LIBS"
  HijackM32Key = "DMTCP_HIJACK_LIBS_M32"
  OrigPreloadKey = "DMTCP_ORIG_LD_PRELOAD"
  EnvironOrder <- MCEnvironOrder
  Installed <- MCInstalled
  GetPath <- MCGetPath
  Targets = {"/bin/prog", "/bin/prog32"}
  Elf32 = {"/bin/prog32"}
  NullEnvp = NullEnvp
  Unset = Unset
  UserEnvps <- MCUserEnvps
  InitEnvs <- MCInitEnvs
  AppSets <- MCAppSetsAll
  PluginEntry <- MCPluginEntry
  MaxPluginEnv = 2
  MaxAttempts = 2
SPECIFICATION Spec
INVARIANTS TypeOK ImageWellFormed PreloadHonoursRequest
