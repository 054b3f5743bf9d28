SPECIFICATION Spec
CONSTANTS
  LinuxDirs = 2
  NixOSDirs = 2
  Plugins = {"linux", "nixos"}
  MaxKeys = 2
  MaxHosts = 2
  Forced = FALSE
  Failures = {"command"}
INVARIANT
  UninstalledIsDisabled
CHECK_DEADLOCK FALSE
