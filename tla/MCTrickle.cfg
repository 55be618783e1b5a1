SPECIFICATION Spec
CONSTANTS
  JoinQueues <- EmptyRoom
  MaxInbound = 3
  MaxCandidates = 2
  MaxOpens = 1
  MaxLocalCandidates = 0
  MaxTasks = 1
  MaxStats = 0
INVARIANTS
  OneContinuation
  CandidatesInOrder
