SPECIFICATION Spec
CONSTANTS
  JoinQueues <- EmptyRoom
  MaxInbound = 0
  MaxCandidates = 0
  MaxOpens = 3
  MaxLocalCandidates = 0
  MaxTasks = 4
  MaxStats = 0
INVARIANTS
  RegistersOnce
  CleanShutdown
