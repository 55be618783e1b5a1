SPECIFICATION Spec
CONSTANTS
  JoinQueues <- BusyRoom
  MaxInbound = 1
  MaxCandidates = 2
  MaxOpens = 1
  MaxLocalCandidates = 0
  MaxTasks = 2
  MaxStats = 0
INVARIANTS
  TypeOK
  NoStall
  CandidatesInOrder
  RoomMessagesInOrder
  ConnectionLive
