SPECIFICATION FairSpec
CONSTANTS
  MaxConn = 3
  MaxStarts = 2
  Scenarios <- WrapFailRestart
INVARIANTS TypeOK OwnPipes NumberFree
PROPERTIES Served ThreadsEnd
CHECK_DEADLOCK FALSE
