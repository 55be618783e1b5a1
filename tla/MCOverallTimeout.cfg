SPECIFICATION TimersSpec
CONSTANTS
  Timeout = 4
  Duration = 2
  Http = 2
  MaxWaiting = 2
INVARIANTS
  OverallTimeout
