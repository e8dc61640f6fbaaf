SPECIFICATION FairSpec
CONSTANTS
  Setup <- NoSetup
  Versions = {80, 90}
  Scenarios <- AbortOrFail
  MaxConn = 3
  Uninstall = FALSE
  MaxIn = 0
INVARIANTS OneLinePerRead
PROPERTIES EventuallyExits NoOrphanProcess ImplementsFairCommand
CHECK_DEADLOCK FALSE
