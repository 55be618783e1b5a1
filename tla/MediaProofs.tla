----------------------------- MODULE MediaProofs -----------------------------
(* The safety of the media's teardown, for any set of sinks: an inductive      *)
(* invariant in five parts, each preserved by every step.                      *)
EXTENDS PeerMedia, TLAPS

(* A thread that decodes has everything initialised; before the source is      *)
(* started, and when it is gone, there is nothing and nobody to use it.        *)
DecoderInv ==
  /\ DecoderSafe
  /\ source \in {"none", "constructed", "gone"} =>
       held = {} /\ thread \in {"none", "done"}

(* A sink has one entry at most, in sinks_ as in the copy, and none in the copy*)
(* while it is called; what a removed sink still gets comes from the copy.     *)
BroadcastInv ==
  /\ called # NoSink => thread = "calling"
  /\ \A s \in Sinks :
       /\ sinks[s] <= 1 /\ copy[s] <= 1
       /\ called = s => copy[s] = 0
       /\ sinks[s] > 0 => late[s] = 0
       /\ sinks[s] = 0 => copy[s] + late[s] <= 1

(* A frame is broadcast after stop_ only by a thread that tested it before.    *)
FarewellInv ==
  /\ farewell <= 1
  /\ farewell > 0 => stop /\ thread \notin {"receiving", "broadcast"}

(* The remote track can call the sink only while the connection is open, and   *)
(* an open connection has a sink that Close has not come to.                   *)
SinkInv ==
  /\ client \in {"initialized", "starting", "adding", "open"} => connection = "open"
  /\ attached \/ decoder = "inFrame" => connection = "open"
  /\ connection = "open" =>
       /\ remoteSink = "alive"
       /\ client \in {"initialized", "starting", "adding", "open", "failed", "closing"}

(* How far the source is, and who refers to it, at each point of the client.   *)
LifeInv ==
  /\ client \in {"new", "initialized"} => source = "none"
  /\ client \in {"validating", "starting"} => source = "constructed"
  /\ client \notin {"new", "initialized", "validating", "starting"} =>
       source # "constructed"
  /\ client \in {"validating", "releasing"} => refs \subseteq {"client"}
  /\ client \in {"dropping", "resetting", "closed"} => refs = {}
  /\ client \in {"resetting", "closed"} => source \in {"none", "gone"}

MediaInv ==
  /\ MediaTypeOK
  /\ DecoderInv /\ BroadcastInv /\ FarewellInv /\ SinkInv /\ LifeInv

(* Every variable has its type.                                                *)
LEMMA MediaTypeOKStep ==
  MediaTypeOK /\ [MediaNext]_mediaVars => MediaTypeOK'
<1> SUFFICES ASSUME MediaTypeOK, [MediaNext]_mediaVars
             PROVE  MediaTypeOK'
  OBVIOUS
<1> USE DEF MediaTypeOK, SourcePhases, ThreadPhases, ClientPhases, Resources, Partial, NoEntries, sourceVars, peerVars, ownerVars, threadLocal
<1>1. CASE Initialize
  BY SinksAssumption, <1>1 DEF Initialize
<1>2. CASE ValidateInputs
  BY SinksAssumption, <1>2 DEF ValidateInputs, Construct
<1>3. CASE ValidateSource
  BY SinksAssumption, <1>3 DEF ValidateSource, StartSource
<1>4. CASE CreateSource
  BY SinksAssumption, <1>4 DEF CreateSource, Construct
<1>5. CASE StartMedia
  BY SinksAssumption, <1>5 DEF StartMedia, StartSource
<1>6. CASE AddTracks
  <2>1. client' \in ClientPhases /\ refs' \subseteq {"client", "tracks"}
    BY <1>6 DEF AddTracks
  <2>2. UNCHANGED <<connection, remoteSink, attached, decoder, sourceVars>>
    BY <1>6 DEF AddTracks
  <2>3. QED
    BY <2>1, <2>2
<1>7. CASE OnTrack
  BY SinksAssumption, <1>7 DEF OnTrack
<1>8. CASE BeginClose
  BY SinksAssumption, <1>8 DEF BeginClose
<1>9. CASE CloseConnection
  <2>1. /\ client' \in ClientPhases /\ connection' \in {"none", "open", "released"}
        /\ refs' \subseteq {"client", "tracks"} /\ attached' \in BOOLEAN
    BY <1>9 DEF CloseConnection
  <2>2. UNCHANGED <<remoteSink, decoder, sourceVars>>
    BY <1>9 DEF CloseConnection
  <2>3. QED
    BY <2>1, <2>2
<1>10. CASE ReleaseSource
  BY SinksAssumption, <1>10 DEF ReleaseSource
<1>11. CASE DestroySource /\ StopDecoding
  BY SinksAssumption, <1>11 DEF DestroySource, StopDecoding
<1>12. CASE DestroySource /\ JoinDecoder
  BY SinksAssumption, <1>12 DEF DestroySource, JoinDecoder
<1>13. CASE DestroySource /\ CleanupDecoder
  BY SinksAssumption, <1>13 DEF DestroySource, CleanupDecoder
<1>14. CASE SourceDropped
  BY SinksAssumption, <1>14 DEF SourceDropped
<1>15. CASE ResetSink
  BY SinksAssumption, <1>15 DEF ResetSink
<1>16. CASE LibraryAddsSink
  BY SinksAssumption, <1>16 DEF LibraryAddsSink, AddOrUpdateSink
<1>17. CASE LibraryRemovesSink
  BY SinksAssumption, <1>17 DEF LibraryRemovesSink, RemoveSink
<1>18. CASE RemoteFrame
  BY SinksAssumption, <1>18 DEF RemoteFrame
<1>19. CASE RemoteFrameReturns
  BY SinksAssumption, <1>19 DEF RemoteFrameReturns
<1>20. CASE TestStop /\ UNCHANGED peerVars
  BY SinksAssumption, <1>20 DEF TestStop
<1>21. CASE ReadPacket /\ UNCHANGED peerVars
  BY SinksAssumption, <1>21 DEF ReadPacket
<1>22. CASE Rewind /\ UNCHANGED peerVars
  BY SinksAssumption, <1>22 DEF Rewind
<1>23. CASE TestStopInner /\ UNCHANGED peerVars
  BY SinksAssumption, <1>23 DEF TestStopInner
<1>24. CASE ReceiveFrame /\ UNCHANGED peerVars
  BY SinksAssumption, <1>24 DEF ReceiveFrame
<1>25. CASE CopySinks /\ UNCHANGED peerVars
  BY SinksAssumption, <1>25 DEF CopySinks
<1>26. CASE (\E s \in Sinks : DeliverFrame(s)) /\ UNCHANGED peerVars
  BY SinksAssumption, <1>26 DEF DeliverFrame
<1>27. CASE OnFrameReturns /\ UNCHANGED peerVars
  BY SinksAssumption, <1>27 DEF OnFrameReturns
<1>28. CASE BroadcastEnds /\ UNCHANGED peerVars
  BY SinksAssumption, <1>28 DEF BroadcastEnds
<1>29. CASE FrameIntervalEnds /\ UNCHANGED peerVars
  BY SinksAssumption, <1>29 DEF FrameIntervalEnds
<1>30. CASE UNCHANGED mediaVars
  BY <1>30 DEF mediaVars
<1>31. QED
  BY <1>1, <1>2, <1>3, <1>4, <1>5, <1>6, <1>7, <1>8, <1>9, <1>10, <1>11,
     <1>12, <1>13, <1>14, <1>15, <1>16, <1>17, <1>18, <1>19, <1>20, <1>21,
     <1>22, <1>23, <1>24, <1>25, <1>26, <1>27, <1>28, <1>29, <1>30 DEF
     MediaNext, Signaling, DestroySource, Decoding, DecodeLoop, MediaClosed

(* The decoder thread's resources.                                             *)
LEMMA DecoderInvStep ==
  MediaTypeOK /\ DecoderInv /\ [MediaNext]_mediaVars => DecoderInv'
<1> SUFFICES ASSUME MediaTypeOK, DecoderInv, [MediaNext]_mediaVars
             PROVE  DecoderInv'
  OBVIOUS
<1> USE DEF DecoderInv, MediaTypeOK, Resources, DecoderSafe, sourceVars, peerVars, ownerVars, threadLocal
<1>1. CASE Initialize
  BY <1>1 DEF Initialize
<1>2. CASE ValidateInputs
  BY <1>2 DEF ValidateInputs, Construct
<1>3. CASE ValidateSource
  BY <1>3 DEF ValidateSource, StartSource
<1>4. CASE CreateSource
  BY <1>4 DEF CreateSource, Construct
<1>5. CASE StartMedia
  BY <1>5 DEF StartMedia, StartSource
<1>6. CASE AddTracks
  BY <1>6 DEF AddTracks
<1>7. CASE OnTrack
  BY <1>7 DEF OnTrack
<1>8. CASE BeginClose
  BY <1>8 DEF BeginClose
<1>9. CASE CloseConnection
  BY <1>9 DEF CloseConnection
<1>10. CASE ReleaseSource
  BY <1>10 DEF ReleaseSource
<1>11. CASE DestroySource /\ StopDecoding
  BY <1>11 DEF DestroySource, StopDecoding
<1>12. CASE DestroySource /\ JoinDecoder
  BY <1>12 DEF DestroySource, JoinDecoder
<1>13. CASE DestroySource /\ CleanupDecoder
  BY <1>13 DEF DestroySource, CleanupDecoder
<1>14. CASE SourceDropped
  BY <1>14 DEF SourceDropped
<1>15. CASE ResetSink
  BY <1>15 DEF ResetSink
<1>16. CASE LibraryAddsSink
  BY <1>16 DEF LibraryAddsSink, AddOrUpdateSink
<1>17. CASE LibraryRemovesSink
  BY <1>17 DEF LibraryRemovesSink, RemoveSink
<1>18. CASE RemoteFrame
  BY <1>18 DEF RemoteFrame
<1>19. CASE RemoteFrameReturns
  BY <1>19 DEF RemoteFrameReturns
<1>20. CASE TestStop /\ UNCHANGED peerVars
  BY <1>20 DEF TestStop
<1>21. CASE ReadPacket /\ UNCHANGED peerVars
  BY <1>21 DEF ReadPacket
<1>22. CASE Rewind /\ UNCHANGED peerVars
  BY <1>22 DEF Rewind
<1>23. CASE TestStopInner /\ UNCHANGED peerVars
  BY <1>23 DEF TestStopInner
<1>24. CASE ReceiveFrame /\ UNCHANGED peerVars
  BY <1>24 DEF ReceiveFrame
<1>25. CASE CopySinks /\ UNCHANGED peerVars
  BY <1>25 DEF CopySinks
<1>26. CASE (\E s \in Sinks : DeliverFrame(s)) /\ UNCHANGED peerVars
  BY <1>26 DEF DeliverFrame
<1>27. CASE OnFrameReturns /\ UNCHANGED peerVars
  BY <1>27 DEF OnFrameReturns
<1>28. CASE BroadcastEnds /\ UNCHANGED peerVars
  BY <1>28 DEF BroadcastEnds
<1>29. CASE FrameIntervalEnds /\ UNCHANGED peerVars
  BY <1>29 DEF FrameIntervalEnds
<1>30. CASE UNCHANGED mediaVars
  BY <1>30 DEF mediaVars
<1>31. QED
  BY <1>1, <1>2, <1>3, <1>4, <1>5, <1>6, <1>7, <1>8, <1>9, <1>10, <1>11,
     <1>12, <1>13, <1>14, <1>15, <1>16, <1>17, <1>18, <1>19, <1>20, <1>21,
     <1>22, <1>23, <1>24, <1>25, <1>26, <1>27, <1>28, <1>29, <1>30 DEF
     MediaNext, Signaling, DestroySource, Decoding, DecodeLoop, MediaClosed

(* The entries of a sink.                                                      *)
LEMMA BroadcastInvStep ==
  MediaTypeOK /\ DecoderInv /\ BroadcastInv /\ [MediaNext]_mediaVars => BroadcastInv'
<1> SUFFICES ASSUME MediaTypeOK, DecoderInv, BroadcastInv, [MediaNext]_mediaVars
             PROVE  BroadcastInv'
  OBVIOUS
<1> USE DEF BroadcastInv, MediaTypeOK, DecoderInv, NoEntries, DecoderSafe, sourceVars, peerVars, ownerVars, threadLocal
<1>1. CASE Initialize
  BY SinksAssumption, <1>1 DEF Initialize
<1>2. CASE ValidateInputs
  BY SinksAssumption, <1>2 DEF ValidateInputs, Construct
<1>3. CASE ValidateSource
  BY SinksAssumption, <1>3 DEF ValidateSource, StartSource
<1>4. CASE CreateSource
  BY SinksAssumption, <1>4 DEF CreateSource, Construct
<1>5. CASE StartMedia
  BY SinksAssumption, <1>5 DEF StartMedia, StartSource
<1>6. CASE AddTracks
  BY SinksAssumption, <1>6 DEF AddTracks
<1>7. CASE OnTrack
  BY SinksAssumption, <1>7 DEF OnTrack
<1>8. CASE BeginClose
  BY SinksAssumption, <1>8 DEF BeginClose
<1>9. CASE CloseConnection
  BY SinksAssumption, <1>9 DEF CloseConnection
<1>10. CASE ReleaseSource
  BY SinksAssumption, <1>10 DEF ReleaseSource
<1>11. CASE DestroySource /\ StopDecoding
  BY SinksAssumption, <1>11 DEF DestroySource, StopDecoding
<1>12. CASE DestroySource /\ JoinDecoder
  BY SinksAssumption, <1>12 DEF DestroySource, JoinDecoder
<1>13. CASE DestroySource /\ CleanupDecoder
  BY SinksAssumption, <1>13 DEF DestroySource, CleanupDecoder
<1>14. CASE SourceDropped
  BY SinksAssumption, <1>14 DEF SourceDropped
<1>15. CASE ResetSink
  BY SinksAssumption, <1>15 DEF ResetSink
<1>16. CASE LibraryAddsSink
  BY SinksAssumption, <1>16 DEF LibraryAddsSink, AddOrUpdateSink
<1>17. CASE LibraryRemovesSink
  BY SinksAssumption, <1>17 DEF LibraryRemovesSink, RemoveSink
<1>18. CASE RemoteFrame
  BY SinksAssumption, <1>18 DEF RemoteFrame
<1>19. CASE RemoteFrameReturns
  BY SinksAssumption, <1>19 DEF RemoteFrameReturns
<1>20. CASE TestStop /\ UNCHANGED peerVars
  BY SinksAssumption, <1>20 DEF TestStop
<1>21. CASE ReadPacket /\ UNCHANGED peerVars
  BY SinksAssumption, <1>21 DEF ReadPacket
<1>22. CASE Rewind /\ UNCHANGED peerVars
  BY SinksAssumption, <1>22 DEF Rewind
<1>23. CASE TestStopInner /\ UNCHANGED peerVars
  BY SinksAssumption, <1>23 DEF TestStopInner
<1>24. CASE ReceiveFrame /\ UNCHANGED peerVars
  BY SinksAssumption, <1>24 DEF ReceiveFrame
<1>25. CASE CopySinks /\ UNCHANGED peerVars
  BY SinksAssumption, <1>25 DEF CopySinks
<1>26. CASE (\E s \in Sinks : DeliverFrame(s)) /\ UNCHANGED peerVars
  BY SinksAssumption, <1>26 DEF DeliverFrame
<1>27. CASE OnFrameReturns /\ UNCHANGED peerVars
  BY SinksAssumption, <1>27 DEF OnFrameReturns
<1>28. CASE BroadcastEnds /\ UNCHANGED peerVars
  BY SinksAssumption, <1>28 DEF BroadcastEnds
<1>29. CASE FrameIntervalEnds /\ UNCHANGED peerVars
  BY SinksAssumption, <1>29 DEF FrameIntervalEnds
<1>30. CASE UNCHANGED mediaVars
  BY <1>30 DEF mediaVars
<1>31. QED
  BY <1>1, <1>2, <1>3, <1>4, <1>5, <1>6, <1>7, <1>8, <1>9, <1>10, <1>11,
     <1>12, <1>13, <1>14, <1>15, <1>16, <1>17, <1>18, <1>19, <1>20, <1>21,
     <1>22, <1>23, <1>24, <1>25, <1>26, <1>27, <1>28, <1>29, <1>30 DEF
     MediaNext, Signaling, DestroySource, Decoding, DecodeLoop, MediaClosed

(* The broadcasts after stop_.                                                 *)
LEMMA FarewellInvStep ==
  MediaTypeOK /\ FarewellInv /\ [MediaNext]_mediaVars => FarewellInv'
<1> SUFFICES ASSUME MediaTypeOK, FarewellInv, [MediaNext]_mediaVars
             PROVE  FarewellInv'
  OBVIOUS
<1> USE DEF FarewellInv, MediaTypeOK, sourceVars, peerVars, ownerVars, threadLocal
<1>1. CASE Initialize
  BY <1>1 DEF Initialize
<1>2. CASE ValidateInputs
  BY <1>2 DEF ValidateInputs, Construct
<1>3. CASE ValidateSource
  BY <1>3 DEF ValidateSource, StartSource
<1>4. CASE CreateSource
  BY <1>4 DEF CreateSource, Construct
<1>5. CASE StartMedia
  BY <1>5 DEF StartMedia, StartSource
<1>6. CASE AddTracks
  BY <1>6 DEF AddTracks
<1>7. CASE OnTrack
  BY <1>7 DEF OnTrack
<1>8. CASE BeginClose
  BY <1>8 DEF BeginClose
<1>9. CASE CloseConnection
  BY <1>9 DEF CloseConnection
<1>10. CASE ReleaseSource
  BY <1>10 DEF ReleaseSource
<1>11. CASE DestroySource /\ StopDecoding
  BY <1>11 DEF DestroySource, StopDecoding
<1>12. CASE DestroySource /\ JoinDecoder
  BY <1>12 DEF DestroySource, JoinDecoder
<1>13. CASE DestroySource /\ CleanupDecoder
  BY <1>13 DEF DestroySource, CleanupDecoder
<1>14. CASE SourceDropped
  BY <1>14 DEF SourceDropped
<1>15. CASE ResetSink
  BY <1>15 DEF ResetSink
<1>16. CASE LibraryAddsSink
  BY <1>16 DEF LibraryAddsSink, AddOrUpdateSink
<1>17. CASE LibraryRemovesSink
  BY <1>17 DEF LibraryRemovesSink, RemoveSink
<1>18. CASE RemoteFrame
  BY <1>18 DEF RemoteFrame
<1>19. CASE RemoteFrameReturns
  BY <1>19 DEF RemoteFrameReturns
<1>20. CASE TestStop /\ UNCHANGED peerVars
  BY <1>20 DEF TestStop
<1>21. CASE ReadPacket /\ UNCHANGED peerVars
  BY <1>21 DEF ReadPacket
<1>22. CASE Rewind /\ UNCHANGED peerVars
  BY <1>22 DEF Rewind
<1>23. CASE TestStopInner /\ UNCHANGED peerVars
  BY <1>23 DEF TestStopInner
<1>24. CASE ReceiveFrame /\ UNCHANGED peerVars
  BY <1>24 DEF ReceiveFrame
<1>25. CASE CopySinks /\ UNCHANGED peerVars
  BY <1>25 DEF CopySinks
<1>26. CASE (\E s \in Sinks : DeliverFrame(s)) /\ UNCHANGED peerVars
  BY <1>26 DEF DeliverFrame
<1>27. CASE OnFrameReturns /\ UNCHANGED peerVars
  BY <1>27 DEF OnFrameReturns
<1>28. CASE BroadcastEnds /\ UNCHANGED peerVars
  BY <1>28 DEF BroadcastEnds
<1>29. CASE FrameIntervalEnds /\ UNCHANGED peerVars
  BY <1>29 DEF FrameIntervalEnds
<1>30. CASE UNCHANGED mediaVars
  BY <1>30 DEF mediaVars
<1>31. QED
  BY <1>1, <1>2, <1>3, <1>4, <1>5, <1>6, <1>7, <1>8, <1>9, <1>10, <1>11,
     <1>12, <1>13, <1>14, <1>15, <1>16, <1>17, <1>18, <1>19, <1>20, <1>21,
     <1>22, <1>23, <1>24, <1>25, <1>26, <1>27, <1>28, <1>29, <1>30 DEF
     MediaNext, Signaling, DestroySource, Decoding, DecodeLoop, MediaClosed

(* The remote sink.                                                            *)
LEMMA SinkInvStep ==
  MediaTypeOK /\ SinkInv /\ [MediaNext]_mediaVars => SinkInv'
<1> SUFFICES ASSUME MediaTypeOK, SinkInv, [MediaNext]_mediaVars
             PROVE  SinkInv'
  OBVIOUS
<1> USE DEF SinkInv, MediaTypeOK, sourceVars, peerVars, ownerVars, threadLocal
<1>1. CASE Initialize
  BY <1>1 DEF Initialize
<1>2. CASE ValidateInputs
  BY <1>2 DEF ValidateInputs, Construct
<1>3. CASE ValidateSource
  BY <1>3 DEF ValidateSource, StartSource
<1>4. CASE CreateSource
  BY <1>4 DEF CreateSource, Construct
<1>5. CASE StartMedia
  BY <1>5 DEF StartMedia, StartSource
<1>6. CASE AddTracks
  BY <1>6 DEF AddTracks
<1>7. CASE OnTrack
  BY <1>7 DEF OnTrack
<1>8. CASE BeginClose
  BY <1>8 DEF BeginClose
<1>9. CASE CloseConnection
  BY <1>9 DEF CloseConnection
<1>10. CASE ReleaseSource
  BY <1>10 DEF ReleaseSource
<1>11. CASE DestroySource /\ StopDecoding
  BY <1>11 DEF DestroySource, StopDecoding
<1>12. CASE DestroySource /\ JoinDecoder
  BY <1>12 DEF DestroySource, JoinDecoder
<1>13. CASE DestroySource /\ CleanupDecoder
  BY <1>13 DEF DestroySource, CleanupDecoder
<1>14. CASE SourceDropped
  BY <1>14 DEF SourceDropped
<1>15. CASE ResetSink
  BY <1>15 DEF ResetSink
<1>16. CASE LibraryAddsSink
  BY <1>16 DEF LibraryAddsSink, AddOrUpdateSink
<1>17. CASE LibraryRemovesSink
  BY <1>17 DEF LibraryRemovesSink, RemoveSink
<1>18. CASE RemoteFrame
  BY <1>18 DEF RemoteFrame
<1>19. CASE RemoteFrameReturns
  BY <1>19 DEF RemoteFrameReturns
<1>20. CASE TestStop /\ UNCHANGED peerVars
  BY <1>20 DEF TestStop
<1>21. CASE ReadPacket /\ UNCHANGED peerVars
  BY <1>21 DEF ReadPacket
<1>22. CASE Rewind /\ UNCHANGED peerVars
  BY <1>22 DEF Rewind
<1>23. CASE TestStopInner /\ UNCHANGED peerVars
  BY <1>23 DEF TestStopInner
<1>24. CASE ReceiveFrame /\ UNCHANGED peerVars
  BY <1>24 DEF ReceiveFrame
<1>25. CASE CopySinks /\ UNCHANGED peerVars
  BY <1>25 DEF CopySinks
<1>26. CASE (\E s \in Sinks : DeliverFrame(s)) /\ UNCHANGED peerVars
  BY <1>26 DEF DeliverFrame
<1>27. CASE OnFrameReturns /\ UNCHANGED peerVars
  BY <1>27 DEF OnFrameReturns
<1>28. CASE BroadcastEnds /\ UNCHANGED peerVars
  BY <1>28 DEF BroadcastEnds
<1>29. CASE FrameIntervalEnds /\ UNCHANGED peerVars
  BY <1>29 DEF FrameIntervalEnds
<1>30. CASE UNCHANGED mediaVars
  BY <1>30 DEF mediaVars
<1>31. QED
  BY <1>1, <1>2, <1>3, <1>4, <1>5, <1>6, <1>7, <1>8, <1>9, <1>10, <1>11,
     <1>12, <1>13, <1>14, <1>15, <1>16, <1>17, <1>18, <1>19, <1>20, <1>21,
     <1>22, <1>23, <1>24, <1>25, <1>26, <1>27, <1>28, <1>29, <1>30 DEF
     MediaNext, Signaling, DestroySource, Decoding, DecodeLoop, MediaClosed

(* What is left of the source.                                                 *)
LEMMA LifeInvStep ==
  MediaTypeOK /\ DecoderInv /\ LifeInv /\ [MediaNext]_mediaVars => LifeInv'
<1> SUFFICES ASSUME MediaTypeOK, DecoderInv, LifeInv, [MediaNext]_mediaVars
             PROVE  LifeInv'
  OBVIOUS
<1> USE DEF LifeInv, MediaTypeOK, DecoderInv, Partial, NoEntries, DecoderSafe, sourceVars, peerVars, ownerVars, threadLocal
<1>1. CASE Initialize
  BY <1>1 DEF Initialize
<1>2. CASE ValidateInputs
  BY <1>2 DEF ValidateInputs, Construct
<1>3. CASE ValidateSource
  BY <1>3 DEF ValidateSource, StartSource
<1>4. CASE CreateSource
  BY <1>4 DEF CreateSource, Construct
<1>5. CASE StartMedia
  BY <1>5 DEF StartMedia, StartSource
<1>6. CASE AddTracks
  BY <1>6 DEF AddTracks
<1>7. CASE OnTrack
  BY <1>7 DEF OnTrack
<1>8. CASE BeginClose
  BY <1>8 DEF BeginClose
<1>9. CASE CloseConnection
  BY <1>9 DEF CloseConnection
<1>10. CASE ReleaseSource
  BY <1>10 DEF ReleaseSource
<1>11. CASE DestroySource /\ StopDecoding
  BY <1>11 DEF DestroySource, StopDecoding
<1>12. CASE DestroySource /\ JoinDecoder
  BY <1>12 DEF DestroySource, JoinDecoder
<1>13. CASE DestroySource /\ CleanupDecoder
  BY <1>13 DEF DestroySource, CleanupDecoder
<1>14. CASE SourceDropped
  BY <1>14 DEF SourceDropped
<1>15. CASE ResetSink
  BY <1>15 DEF ResetSink
<1>16. CASE LibraryAddsSink
  BY <1>16 DEF LibraryAddsSink, AddOrUpdateSink
<1>17. CASE LibraryRemovesSink
  BY <1>17 DEF LibraryRemovesSink, RemoveSink
<1>18. CASE RemoteFrame
  BY <1>18 DEF RemoteFrame
<1>19. CASE RemoteFrameReturns
  BY <1>19 DEF RemoteFrameReturns
<1>20. CASE TestStop /\ UNCHANGED peerVars
  BY <1>20 DEF TestStop
<1>21. CASE ReadPacket /\ UNCHANGED peerVars
  BY <1>21 DEF ReadPacket
<1>22. CASE Rewind /\ UNCHANGED peerVars
  BY <1>22 DEF Rewind
<1>23. CASE TestStopInner /\ UNCHANGED peerVars
  BY <1>23 DEF TestStopInner
<1>24. CASE ReceiveFrame /\ UNCHANGED peerVars
  BY <1>24 DEF ReceiveFrame
<1>25. CASE CopySinks /\ UNCHANGED peerVars
  BY <1>25 DEF CopySinks
<1>26. CASE (\E s \in Sinks : DeliverFrame(s)) /\ UNCHANGED peerVars
  BY <1>26 DEF DeliverFrame
<1>27. CASE OnFrameReturns /\ UNCHANGED peerVars
  BY <1>27 DEF OnFrameReturns
<1>28. CASE BroadcastEnds /\ UNCHANGED peerVars
  BY <1>28 DEF BroadcastEnds
<1>29. CASE FrameIntervalEnds /\ UNCHANGED peerVars
  BY <1>29 DEF FrameIntervalEnds
<1>30. CASE UNCHANGED mediaVars
  BY <1>30 DEF mediaVars
<1>31. QED
  BY <1>1, <1>2, <1>3, <1>4, <1>5, <1>6, <1>7, <1>8, <1>9, <1>10, <1>11,
     <1>12, <1>13, <1>14, <1>15, <1>16, <1>17, <1>18, <1>19, <1>20, <1>21,
     <1>22, <1>23, <1>24, <1>25, <1>26, <1>27, <1>28, <1>29, <1>30 DEF
     MediaNext, Signaling, DestroySource, Decoding, DecodeLoop, MediaClosed

LEMMA MediaInitially == MediaInit => MediaInv
<1> SUFFICES ASSUME MediaInit PROVE MediaInv
  OBVIOUS
<1> USE DEF MediaInit, SourceInit, NoEntries
<1>1. MediaTypeOK
  <2>1. NoEntries \in [Sinks -> Nat]
    OBVIOUS
  <2>2. QED
    BY <2>1 DEF MediaTypeOK, SourcePhases, ThreadPhases, ClientPhases, Resources
<1>2. DecoderInv
  BY DEF DecoderInv, DecoderSafe
<1>3. BroadcastInv
  BY SinksAssumption DEF BroadcastInv
<1>4. FarewellInv /\ SinkInv /\ LifeInv
  BY DEF FarewellInv, SinkInv, LifeInv
<1>5. QED
  BY <1>1, <1>2, <1>3, <1>4 DEF MediaInv

LEMMA MediaInductive == MediaSpec => []MediaInv
<1>1. MediaInv /\ [MediaNext]_mediaVars => MediaInv'
  BY MediaTypeOKStep, DecoderInvStep, BroadcastInvStep, FarewellInvStep,
     SinkInvStep, LifeInvStep DEF MediaInv
<1>2. QED
  BY MediaInitially, <1>1, PTL DEF MediaSpec

(* In every reachable state each variable has its type, and a frame goes only   *)
(* to sinks that the copy lists.                                               *)
THEOREM MediaTyped == MediaSpec => []MediaTypeOK
<1>1. MediaInv => MediaTypeOK
  BY DEF MediaInv
<1>2. QED
  BY MediaInductive, <1>1, PTL

(* The decoder thread never touches what the destructor has freed or what      *)
(* initialisation left half built.                                             *)
THEOREM DecoderAlwaysSafe == MediaSpec => []DecoderSafe
<1>1. MediaInv => DecoderSafe
  BY DEF MediaInv, DecoderInv
<1>2. QED
  BY MediaInductive, <1>1, PTL

(* However many sinks there are, a removed one gets at most one frame more.    *)
THEOREM AtMostOneLateFrame == MediaSpec => []OneLateFrame
<1>1. MediaInv => OneLateFrame
  <2> SUFFICES ASSUME MediaInv, NEW s \in Sinks PROVE late[s] <= 1
    BY DEF OneLateFrame
  <2>1. sinks[s] \in Nat /\ copy[s] \in Nat /\ late[s] \in Nat
    BY DEF MediaInv, MediaTypeOK
  <2>2. /\ sinks[s] > 0 => late[s] = 0
        /\ sinks[s] = 0 => copy[s] + late[s] <= 1
    BY DEF MediaInv, BroadcastInv
  <2>3. QED
    BY <2>1, <2>2
<1>2. QED
  BY MediaInductive, <1>1, PTL

(* At most one frame is broadcast after the destructor has set stop_.          *)
THEOREM AtMostOneLastFrame == MediaSpec => []LastFrame
<1>1. MediaInv => LastFrame
  BY DEF MediaInv, FarewellInv, LastFrame
<1>2. QED
  BY MediaInductive, <1>1, PTL

(* The remote decoder never calls a sink that Close has destroyed.             *)
THEOREM RemoteSinkOutlivesCalls == MediaSpec => []RemoteSinkAlive
<1>1. MediaInv => RemoteSinkAlive
  BY DEF MediaInv, SinkInv, RemoteSinkAlive
<1>2. QED
  BY MediaInductive, <1>1, PTL

(* After Close no decoder thread runs and no resource is held, wherever the    *)
(* initialisation or the addition of the tracks failed.                        *)
THEOREM CloseLeavesNothing == MediaSpec => []NothingLeft
<1>1. MediaInv => NothingLeft
  BY DEF MediaInv, DecoderInv, LifeInv, NothingLeft
<1>2. QED
  BY MediaInductive, <1>1, PTL
=============================================================================
