SPECIFICATION EitherSpec
CONSTANTS
  User = "ctrl"
  Fnum = {1, 2}
  MaxMid = 7
  IoFnum = {1}
  IoMaxMid = 6
INVARIANTS TypeOK NoDanglingRequest NoNullDeref OneCurrentRead ExitOnDeadTransport
INVARIANTS IoRequestsKept
PROPERTIES DisconnectsHandled
CHECK_DEADLOCK FALSE
