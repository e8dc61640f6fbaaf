SPECIFICATION FairSpec
CONSTANTS
  MidSpace = 4
  MaxReq = 6
  MaxPending = 2
  MaxLate = 1
  Scenarios <- WrapOrFail
INVARIANTS TypeOK PendingConsistent
PROPERTIES ImplementsCalls
CHECK_DEADLOCK FALSE
