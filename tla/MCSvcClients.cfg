SPECIFICATION FairSpec
CONSTANTS
  c1 = c1
  c2 = c2
  Client = {c1, c2}
  Scenarios <- LoneTwoFailing
INVARIANTS TypeOK FreshAfterReinstall TypeHonoured UninstallLeavesNothing
PROPERTIES EveryClientEnds
CHECK_DEADLOCK FALSE
