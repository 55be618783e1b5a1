------------------------------ MODULE PeerMedia ------------------------------
(* The media of a PeerConnectionClient: the file source it creates and shares  *)
(* with the connection's tracks, the sink that the remote track's decoder      *)
(* calls, and Close, which takes them apart on the signaling thread while the  *)
(* file's decoder and the remote decoder run.                                  *)
EXTENDS VideoSource

VARIABLES
  client,      \* where the signaling thread is: see ClientPhases
  connection,  \* connection_: "none", "open", or "released"
  refs,        \* who holds a reference to the source
  remoteSink,  \* remote_frame_sink_: "none", "alive", or "destroyed"
  attached,    \* the remote track has the sink
  decoder      \* the remote decoder's thread: "idle", or "inFrame", in OnFrame

peerVars == <<client, connection, refs, remoteSink, attached, decoder>>
mediaVars == <<sourceVars, peerVars>>

(* "starting" and "adding" are in StartMedia, "validating" is what             *)
(* --validate_inputs_only does instead of a call.  "closing" to "resetting"    *)
(* are in Close, before each of its parts.                                     *)
ClientPhases == {"new", "validating", "initialized", "starting", "adding", "open",
                 "failed", "closing", "releasing", "dropping", "resetting", "closed"}

MediaInit ==
  /\ SourceInit
  /\ client = "new"
  /\ connection = "none"
  /\ refs = {}
  /\ remoteSink = "none"
  /\ attached = FALSE
  /\ decoder = "idle"

(* -- the signaling thread ------------------------------------------------------ *)

Initialize ==
  /\ client = "new"
  /\ \/ /\ client' = "initialized"
        /\ connection' = "open"
        /\ remoteSink' = "alive"
     \/ /\ client' = "failed"
        /\ UNCHANGED <<connection, remoteSink>>
  /\ UNCHANGED <<refs, attached, decoder, sourceVars>>

ValidateInputs ==
  /\ client = "new"
  /\ client' = "validating"
  /\ Construct
  /\ refs' = {"client"}
  /\ UNCHANGED <<connection, remoteSink, attached, decoder>>

(* The validator starts the source and releases it whatever Start returned.    *)
ValidateSource ==
  /\ client = "validating"
  /\ StartSource
  /\ client' = "releasing"
  /\ UNCHANGED <<connection, refs, remoteSink, attached, decoder>>

CreateSource ==
  /\ client = "initialized"
  /\ Construct
  /\ refs' = {"client"}
  /\ client' = "starting"
  /\ UNCHANGED <<connection, remoteSink, attached, decoder>>

StartMedia ==
  /\ client = "starting"
  /\ StartSource
  /\ client' = IF source' = "started" THEN "adding" ELSE "failed"
  /\ UNCHANGED <<connection, refs, remoteSink, attached, decoder>>

(* The video track, or after it the audio track, may be refused.               *)
AddTracks ==
  /\ client = "adding"
  /\ \/ client' \in {"open", "failed"} /\ refs' = {"client", "tracks"}
     \/ client' = "failed" /\ refs' = refs
  /\ UNCHANGED <<connection, remoteSink, attached, decoder, sourceVars>>

OnTrack ==
  /\ client = "open"
  /\ attached' = TRUE
  /\ UNCHANGED <<client, connection, refs, remoteSink, decoder, sourceVars>>

(* Faulty variant: the remote sink is released before the connection.          *)
BeginCloseWithSink ==
  /\ client \in {"open", "failed"}
  /\ client' = "closing"
  /\ remoteSink' = IF remoteSink = "alive" THEN "destroyed" ELSE remoteSink
  /\ UNCHANGED <<connection, refs, attached, decoder, sourceVars>>

(* Close, on the signaling thread, from the call's end.                        *)
BeginClose ==
  /\ client \in {"open", "failed"}
  /\ client' = "closing"
  /\ UNCHANGED <<connection, refs, remoteSink, attached, decoder, sourceVars>>

(* connection_->Close() returns when the library has removed its sinks and     *)
(* stopped the remote decoder; with the connection go its tracks.              *)
CloseConnection ==
  /\ client = "closing"
  /\ connection = "open" => sinks = NoEntries /\ decoder = "idle"
  /\ connection' = IF connection = "open" THEN "released" ELSE connection
  /\ refs' = refs \ {"tracks"}
  /\ attached' = FALSE
  /\ client' = "releasing"
  /\ UNCHANGED <<remoteSink, decoder, sourceVars>>

ReleaseSource ==
  /\ client = "releasing"
  /\ refs' = refs \ {"client"}
  /\ client' = "dropping"
  /\ UNCHANGED <<connection, remoteSink, attached, decoder, sourceVars>>

(* Whoever drops the last reference runs the destructor.                       *)
DestroySource ==
  /\ refs = {}
  /\ StopDecoding \/ JoinDecoder \/ CleanupDecoder
  /\ UNCHANGED peerVars

SourceDropped ==
  /\ client = "dropping"
  /\ refs = {} => source \in {"none", "gone"}
  /\ client' = "resetting"
  /\ UNCHANGED <<connection, refs, remoteSink, attached, decoder, sourceVars>>

ResetSink ==
  /\ client = "resetting"
  /\ remoteSink' = IF remoteSink = "alive" THEN "destroyed" ELSE remoteSink
  /\ client' = "closed"
  /\ UNCHANGED <<connection, refs, attached, decoder, sourceVars>>

(* -- the library's threads (external) ------------------------------------------ *)

(* The connection's tracks register sinks with the source.                     *)
LibraryAddsSink ==
  /\ client = "open" /\ connection = "open"
  /\ \E s \in Sinks : AddOrUpdateSink(s)
  /\ UNCHANGED peerVars

LibraryRemovesSink ==
  /\ client \in {"open", "closing"} /\ connection = "open"
  /\ \E s \in Sinks : sinks[s] > 0 /\ RemoveSink(s)
  /\ UNCHANGED peerVars

RemoteFrame ==
  /\ connection = "open" /\ attached
  /\ decoder = "idle"
  /\ decoder' = "inFrame"
  /\ UNCHANGED <<client, connection, refs, remoteSink, attached, sourceVars>>

(* RemoteFrameSink::OnFrame has posted its task.                               *)
RemoteFrameReturns ==
  /\ decoder = "inFrame"
  /\ decoder' = "idle"
  /\ UNCHANGED <<client, connection, refs, remoteSink, attached, sourceVars>>

(* -- the specification ---------------------------------------------------------- *)

Signaling ==
  \/ CloseConnection \/ ReleaseSource \/ DestroySource \/ SourceDropped
  \/ ResetSink

Decoding == DecodeLoop /\ UNCHANGED peerVars

MediaClosed == client = "closed" /\ UNCHANGED mediaVars

MediaNext ==
  \/ Initialize \/ ValidateInputs \/ ValidateSource \/ CreateSource
  \/ StartMedia \/ AddTracks \/ OnTrack \/ BeginClose \/ Signaling
  \/ LibraryAddsSink \/ LibraryRemovesSink
  \/ RemoteFrame \/ RemoteFrameReturns
  \/ Decoding
  \/ MediaClosed

MediaSpec == MediaInit /\ [][MediaNext]_mediaVars

(* Once Close has begun: threads run, OnFrame returns, the library removes its *)
(* sinks, and of the remote decoder no new frame is waited for.  Nothing is    *)
(* assumed of the file: its reads may fail for ever.                           *)
MediaFairness ==
  /\ WF_mediaVars(Signaling)
  /\ WF_mediaVars(Decoding)
  /\ WF_mediaVars(client = "closing" /\ LibraryRemovesSink)
  /\ SF_mediaVars(CloseConnection)
  /\ WF_mediaVars(RemoteFrameReturns)

FairMediaSpec == MediaSpec /\ MediaFairness

(* -- properties ------------------------------------------------------------------ *)

MediaTypeOK ==
  /\ source \in SourcePhases /\ thread \in ThreadPhases
  /\ sourceState \in {"initializing", "live", "ended"}
  /\ held \subseteq Resources
  /\ {stop, attached} \subseteq BOOLEAN
  /\ {sinks, copy, late} \subseteq [Sinks -> Nat]
  /\ called \in Sinks \cup {NoSink}
  /\ farewell \in Nat
  /\ client \in ClientPhases
  /\ connection \in {"none", "open", "released"}
  /\ refs \subseteq {"client", "tracks"}
  /\ remoteSink \in {"none", "alive", "destroyed"}
  /\ decoder \in {"idle", "inFrame"}

(* The decoder thread never works on a file or codec that the destructor has   *)
(* freed, nor on one that initialisation left half built: until its loop ends  *)
(* all of it is allocated and the source is there.                             *)
DecoderSafe ==
  thread \notin {"none", "done"} =>
    held = Resources /\ source \in {"started", "joining"}

(* RemoveSink returns while a frame may be on its way to the sink, but no more *)
(* than one ever is: a late frame comes from one copy, and names a sink once.  *)
OneLateFrame == \A s \in Sinks : late[s] <= 1

(* The destructor waits for at most one more broadcast, whatever the packet    *)
(* being decoded still holds.                                                  *)
LastFrame == farewell <= 1

(* The remote sink, whose address the track keeps and never gives up, is not   *)
(* destroyed while the remote decoder can call it or is calling it.            *)
RemoteSinkAlive == attached \/ decoder = "inFrame" => remoteSink = "alive"

(* After Close no decoder thread runs and nothing of the file stays open,      *)
(* however far initialisation came.                                            *)
NothingLeft ==
  client = "closed" =>
    /\ source \in {"none", "gone"} /\ held = {}
    /\ thread \in {"none", "done"}

(* Close returns: the destructor it runs joins a decoder thread that ends, even*)
(* for a file whose every read fails.                                          *)
CloseReturns == client \in {"closing", "releasing"} ~> client = "closed"

=============================================================================
