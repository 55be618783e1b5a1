SPECIFICATION FairSineSpec
CONSTANTS
  Callbacks = {c1, c2}
  NoCallback = NoCallback
  Flags = {"initialized", "playing"}
  Rate = 200
  Frequency = 80
  Period = 2
  MaxLag = 3
INVARIANTS
  SineTypeOK
  OneCaptureLoop
  OneLateBuffer
  InTune
  InPace
PROPERTIES
  StopReturns
CHECK_DEADLOCK FALSE
