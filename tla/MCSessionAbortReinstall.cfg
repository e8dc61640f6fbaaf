SPECIFICATION Spec
CONSTANTS
  Setup <- NoSetup
  Versions = {80, 90}
  Scenarios <- AbortReplacing
  MaxConn = 2
  Uninstall = FALSE
  MaxIn = 0
INVARIANTS ReplacedOnlyIfVersionDiffers
CHECK_DEADLOCK FALSE
