SPECIFICATION FairRoomSpec
INVARIANTS
  RoomTypeOK
  HangUpHonest
PROPERTIES
  BothLifecycles
  BothLeave
CHECK_DEADLOCK FALSE
