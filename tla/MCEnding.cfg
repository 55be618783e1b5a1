SPECIFICATION Spec
CONSTANTS
  JoinQueues <- EmptyRoom
  MaxInbound = 2
  MaxCandidates = 1
  MaxOpens = 1
  MaxLocalCandidates = 1
  MaxTasks = 2
  MaxStats = 0
INVARIANTS
  AlwaysEnding
  LeavesLast
  NoCandidateAfterBye
  ExitHonest
PROPERTIES
  FinishedIsFinal
  ImplementsLifecycle
