SPECIFICATION Spec
CONSTANTS
  Hdr = 2
  Sizes <- In3
  OutSizes <- Out2
  Scenarios <- BreaksInLoop
INVARIANT NoFreedFdEvent
CHECK_DEADLOCK FALSE
