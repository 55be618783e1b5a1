SPECIFICATION FairProcessSpec
CONSTANT
  MaxQueue = 3
INVARIANTS
  ProcessTypeOK
  LiveWhileUsed
  ExitReports
PROPERTIES
  ProcessEnds
CHECK_DEADLOCK FALSE
