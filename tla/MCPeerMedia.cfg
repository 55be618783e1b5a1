SPECIFICATION FairMediaSpec
CONSTANTS
  Sinks = {s1, s2, s3}
  NoSink = NoSink
INVARIANTS
  MediaTypeOK
  DecoderSafe
  OneLateFrame
  LastFrame
  RemoteSinkAlive
  NothingLeft
PROPERTIES
  CloseReturns
