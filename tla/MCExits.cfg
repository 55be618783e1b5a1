SPECIFICATION FairSpec
CONSTANTS
  JoinQueues <- EmptyRoom
  MaxInbound = 1
  MaxCandidates = 1
  MaxOpens = 2
  MaxLocalCandidates = 1
  MaxTasks = 1
  MaxStats = 1
PROPERTIES
  Exits
