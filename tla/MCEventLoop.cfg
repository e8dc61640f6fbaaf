SPECIFICATION FairSpec
CONSTANTS
  f1 = f1
  f2 = f2
  Descriptor = {f1, f2}
  MaxTimers = 3
  MaxTime = 3
  MaxDepth = 2
  MaxOps = 2
  Scenarios <- FdsOrTimers
INVARIANTS TypeOK NoFreedEvent InterestMatchesFlags
PROPERTIES TimersInOrder ReadyIsHandled TimersFire
CHECK_DEADLOCK FALSE
