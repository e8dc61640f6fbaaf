SPECIFICATION Spec
CONSTANTS
  Setup <- SetSystem
  Versions = {0, 80, 90, 95}
  Scenarios <- Normal
  MaxConn = 2
  Uninstall = TRUE
  MaxIn = 1
INVARIANTS TypeOK NoTimeoutWhileRunning ReplacedOnlyIfVersionDiffers
PROPERTIES ImplementsCommand
CHECK_DEADLOCK FALSE
