SPECIFICATION FairSpec
CONSTANTS
  Hdr = 2
  Sizes <- In3
  OutSizes <- Out2
  Scenarios <- AllScenarios
INVARIANTS TypeOK Attentive SendQueueServed ReadsMatched
PROPERTIES FreedFdEventUntouched ImplementsStream
CHECK_DEADLOCK FALSE
