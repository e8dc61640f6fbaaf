SPECIFICATION Spec
CONSTANTS
  User = "io"
  Fnum = {1}
  MaxMid = 4
INVARIANTS WritesSerialized
CHECK_DEADLOCK FALSE
