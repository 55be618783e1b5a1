----------------------------- MODULE VideoSource -----------------------------
(* FileVideoSource: a decoder thread that loops over a video file and gives    *)
(* each frame to the sinks registered under a mutex.  The methods are called   *)
(* by the owner of the source and by the library's threads; the destructor     *)
(* tells the decoder thread to stop, joins it and frees the decoder.           *)
EXTENDS Naturals

CONSTANTS
  Sinks,  \* the frame sinks the library may register
  NoSink

ASSUME SinksAssumption == NoSink \notin Sinks

VARIABLES
  source,       \* where its owner is: see SourcePhases
  sourceState,  \* state_
  stop,         \* stop_
  held,         \* the decoder's resources that are allocated
  sinks,        \* sinks_: how many entries each sink has
  thread,       \* where the decoder thread is: see ThreadPhases
  copy,         \* BroadcastFrame's copy of sinks_: the entries still to be called
  called,       \* the sink whose OnFrame is running
  late,         \* frames given to each sink since RemoveSink returned
  farewell      \* frames broadcast since the destructor set stop_

ownerVars == <<source, sourceState, held>>
threadLocal == <<thread, copy, called>>
sourceVars == <<ownerVars, stop, sinks, threadLocal, late, farewell>>

(* "none": not constructed.  "failed": Start returned an error.  "joining",    *)
(* "cleaning": in the destructor, before and after the decoder thread ended.   *)
SourcePhases == {"none", "constructed", "started", "failed",
                 "joining", "cleaning", "gone"}

(* "outer", "inner": about to test stop_ in one of the two loops.  "reading":  *)
(* in av_read_frame, "rewinding": it failed, "receiving": in avcodec_receive_frame,*)
(* "broadcast": has a frame, "delivering": has copied sinks_.                  *)
ThreadPhases == {"none", "outer", "reading", "rewinding", "inner", "receiving",
                 "broadcast", "delivering", "calling", "sleeping", "done"}

Resources == {"format", "codec", "frame", "packet", "scaler"}

(* What InitializeDecoder has allocated when it gives up: av_frame_alloc and   *)
(* av_packet_alloc fail independently of each other.                           *)
Partial ==
  {{}, {"format"}, {"format", "codec"}, {"format", "codec", "frame"},
   {"format", "codec", "packet"}, {"format", "codec", "frame", "packet"}}

NoEntries == [s \in Sinks |-> 0]

SourceInit ==
  /\ source = "none"
  /\ sourceState = "initializing"
  /\ stop = FALSE
  /\ held = {}
  /\ sinks = NoEntries
  /\ thread = "none"
  /\ copy = NoEntries
  /\ called = NoSink
  /\ late = NoEntries
  /\ farewell = 0

(* -- the owner --------------------------------------------------------------- *)

Construct ==
  /\ source = "none"
  /\ source' = "constructed"
  /\ UNCHANGED <<sourceState, held, stop, sinks, threadLocal, late, farewell>>

StartSource ==
  /\ source = "constructed"
  /\ \/ /\ held' \in Partial
        /\ sourceState' = "ended"
        /\ source' = "failed"
        /\ UNCHANGED thread
     \/ /\ held' = Resources
        /\ sourceState' = "live"
        /\ source' = "started"
        /\ thread' = "outer"
  /\ UNCHANGED <<stop, sinks, copy, called, late, farewell>>

(* The destructor.                                                             *)
StopDecoding ==
  /\ source \in {"started", "failed"}
  /\ stop' = TRUE
  /\ source' = "joining"
  /\ UNCHANGED <<sourceState, held, sinks, threadLocal, late, farewell>>

(* Faulty variant: the decoder thread is not joined.                           *)
DetachDecoder ==
  /\ source = "joining"
  /\ source' = "cleaning"
  /\ UNCHANGED <<sourceState, held, stop, sinks, threadLocal, late, farewell>>

(* A thread that was never started is not joinable.                            *)
JoinDecoder ==
  /\ source = "joining"
  /\ thread \in {"none", "done"}
  /\ source' = "cleaning"
  /\ UNCHANGED <<sourceState, held, stop, sinks, threadLocal, late, farewell>>

(* Faulty variant: nothing is freed when initialisation got no packet.         *)
CleanupComplete ==
  /\ source = "cleaning"
  /\ held' = IF "packet" \in held THEN {} ELSE held
  /\ sourceState' = "ended"
  /\ source' = "gone"
  /\ UNCHANGED <<stop, sinks, threadLocal, late, farewell>>

CleanupDecoder ==
  /\ source = "cleaning"
  /\ held' = {}
  /\ sourceState' = "ended"
  /\ source' = "gone"
  /\ UNCHANGED <<stop, sinks, threadLocal, late, farewell>>

(* -- the sinks' owners -------------------------------------------------------- *)

(* Faulty variant: a sink that is registered already gets a second entry.      *)
AddSinkAgain(s) ==
  /\ source = "started"
  /\ sinks[s] < 2
  /\ sinks' = [sinks EXCEPT ![s] = @ + 1]
  /\ late' = [late EXCEPT ![s] = 0]
  /\ UNCHANGED <<ownerVars, stop, threadLocal, farewell>>

(* A sink that is registered already only has its wants updated.               *)
AddOrUpdateSink(s) ==
  /\ source = "started"
  /\ sinks' = [sinks EXCEPT ![s] = IF @ > 0 THEN @ ELSE 1]
  /\ late' = [late EXCEPT ![s] = 0]
  /\ UNCHANGED <<ownerVars, stop, threadLocal, farewell>>

(* RemoveSink does not wait for a frame that is being delivered: a call that   *)
(* is running when it returns is late, as is one made from an older copy.      *)
RemoveSink(s) ==
  /\ source = "started"
  /\ sinks' = [sinks EXCEPT ![s] = 0]
  /\ late' = [late EXCEPT ![s] = IF sinks[s] > 0 /\ called = s THEN 1 ELSE @]
  /\ UNCHANGED <<ownerVars, stop, threadLocal, farewell>>

(* -- the decoder thread ------------------------------------------------------- *)

TestStop ==
  /\ thread = "outer"
  /\ thread' = IF stop THEN "done" ELSE "reading"
  /\ UNCHANGED <<ownerVars, stop, sinks, copy, called, late, farewell>>

(* The read fails; or the packet is of another stream or is refused by the     *)
(* decoder, or is accepted.                                                    *)
ReadPacket ==
  /\ thread = "reading"
  /\ thread' \in {"rewinding", "outer", "inner"}
  /\ UNCHANGED <<ownerVars, stop, sinks, copy, called, late, farewell>>

(* Faulty variant: after a failed read the file is rewound and read again.     *)
RewindAndRead ==
  /\ thread = "rewinding"
  /\ thread' = "reading"
  /\ UNCHANGED <<ownerVars, stop, sinks, copy, called, late, farewell>>

(* At the end of the file, and after every other error, without a pause.       *)
Rewind ==
  /\ thread = "rewinding"
  /\ thread' = "outer"
  /\ UNCHANGED <<ownerVars, stop, sinks, copy, called, late, farewell>>

(* Faulty variant: the frames of a packet are all delivered.                   *)
KeepReceiving ==
  /\ thread = "inner"
  /\ thread' = "receiving"
  /\ UNCHANGED <<ownerVars, stop, sinks, copy, called, late, farewell>>

TestStopInner ==
  /\ thread = "inner"
  /\ thread' = IF stop THEN "outer" ELSE "receiving"
  /\ UNCHANGED <<ownerVars, stop, sinks, copy, called, late, farewell>>

(* The packet has no more frames, or an error; or a frame is decoded, scaled   *)
(* and stamped.                                                                *)
ReceiveFrame ==
  /\ thread = "receiving"
  /\ thread' \in {"outer", "broadcast"}
  /\ UNCHANGED <<ownerVars, stop, sinks, copy, called, late, farewell>>

CopySinks ==
  /\ thread = "broadcast"
  /\ copy' = sinks
  /\ thread' = "delivering"
  /\ farewell' = IF stop THEN farewell + 1 ELSE farewell
  /\ UNCHANGED <<ownerVars, stop, sinks, called, late>>

(* Faulty variant: sinks that the copy does not list are called.               *)
DeliverToAll(s) ==
  /\ thread = "delivering"
  /\ copy' = [copy EXCEPT ![s] = @ - 1]
  /\ called' = s
  /\ thread' = "calling"
  /\ UNCHANGED <<ownerVars, stop, sinks, late, farewell>>

(* OnFrame of the next sink of the copy; the order of the vector is left out.  *)
DeliverFrame(s) ==
  /\ thread = "delivering"
  /\ copy[s] > 0
  /\ copy' = [copy EXCEPT ![s] = @ - 1]
  /\ called' = s
  /\ thread' = "calling"
  /\ late' = [late EXCEPT ![s] = IF sinks[s] = 0 THEN @ + 1 ELSE @]
  /\ UNCHANGED <<ownerVars, stop, sinks, farewell>>

OnFrameReturns ==
  /\ thread = "calling"
  /\ called' = NoSink
  /\ thread' = "delivering"
  /\ UNCHANGED <<ownerVars, stop, sinks, copy, late, farewell>>

BroadcastEnds ==
  /\ thread = "delivering"
  /\ copy = NoEntries
  /\ thread' = "sleeping"
  /\ UNCHANGED <<ownerVars, stop, sinks, copy, called, late, farewell>>

FrameIntervalEnds ==
  /\ thread = "sleeping"
  /\ thread' = "inner"
  /\ UNCHANGED <<ownerVars, stop, sinks, copy, called, late, farewell>>

DecodeLoop ==
  \/ TestStop \/ ReadPacket \/ Rewind \/ TestStopInner \/ ReceiveFrame
  \/ CopySinks \/ (\E s \in Sinks : DeliverFrame(s)) \/ OnFrameReturns
  \/ BroadcastEnds \/ FrameIntervalEnds
=============================================================================
