SPECIFICATION Spec
CONSTANTS
  LinuxDirs = 3
  NixOSDirs = 2
  Plugins = {"linux", "nixos"}
  MaxKeys = 2
  MaxHosts = 2
  Forced = TRUE
  Failures = {"command", "partial", "death"}
INVARIANTS
  TypeOK
  RunnableAgentIsKnown
  SuccessIsRunnable
  SuccessIsRegistered
  CleanUninstall
CHECK_DEADLOCK FALSE
