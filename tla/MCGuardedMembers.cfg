SPECIFICATION FairProcessSpec
CONSTANT
  MaxQueue = 3
INVARIANT
  GuardedMembers
CHECK_DEADLOCK FALSE
