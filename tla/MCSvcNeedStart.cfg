SPECIFICATION Spec
CONSTANTS
  c1 = c1
  c2 = c2
  Client = {c1, c2}
  Scenarios <- AllowDesktop
INVARIANTS InstallStarts
CHECK_DEADLOCK FALSE
