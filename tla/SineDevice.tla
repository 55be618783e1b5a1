------------------------------ MODULE SineDevice ------------------------------
(* SineWaveAudioDeviceModule: the audio device that the voice engine drives    *)
(* from the worker thread, one call after another, and its capture thread,     *)
(* which hands the registered callback a buffer of a sine wave every 10 ms.    *)
EXTENDS Integers

CONSTANTS
  Callbacks,   \* the audio transports that may be registered
  NoCallback,
  Flags,       \* the modelled ones of DeviceFlags
  Rate,        \* sample_rate_hz_, and the unit of the phase: Rate is 2 * pi
  Frequency,   \* frequency_hz_, and thus the increment of the phase
  Period,      \* 10 ms, in ticks of the clock
  MaxLag       \* bound: how many ticks late the capture thread can be

(* The members that only remember what they were told.                         *)
DeviceFlags == {"initialized", "recording_initialized", "playout_initialized",
                "playing", "stereo_recording"}

(* ValidateConfig refuses a rate or a frequency below 1, and nothing above.    *)
ASSUME SineAssumption ==
  /\ NoCallback \notin Callbacks
  /\ Flags \subseteq DeviceFlags
  /\ Rate \in Nat \ {0} /\ Frequency \in Nat \ {0}
  /\ Period \in Nat \ {0} /\ MaxLag \in Nat

VARIABLES
  control,    \* what the worker thread is doing: see ControlPhases
  recording,  \* recording_
  callback,   \* audio_callback_
  flags,      \* the flags that are set
  capture,    \* where the capture thread is: see CapturePhases
  filled,     \* samples of the buffer that are written
  phase,
  copy,       \* the capture thread's copy of audio_callback_
  due,        \* next_tick, counted from now
  sampled,    \* samples since the loop began, modulo Rate
  lead,       \* the time of the buffers of the loop minus the time it has run
  late        \* calls of each callback since another one was registered

deviceVars == <<control, recording, callback, flags>>
bufferVars == <<filled, phase, sampled>>
clockVars == <<due, lead>>
callVars == <<copy, late>>
sineVars == <<deviceVars, capture, bufferVars, clockVars, callVars>>

(* "starting": StartRecording has set recording_ and not yet made the thread.  *)
(* The last three: StopRecording has cleared recording_ and not yet joined the *)
(* thread, called for itself, by Terminate and by the destructor.              *)
Stopping == {"stopping", "terminating", "destroying"}
ControlPhases == {"idle", "starting", "gone"} \cup Stopping

(* "none": capture_thread_ is not joinable.  "done": the loop has returned.    *)
CapturePhases == {"none", "testing", "filling", "delivering", "calling",
                  "advancing", "sleeping", "done"}

samples_per_channel == Rate \div 100

SineInit ==
  /\ control = "idle"
  /\ recording = FALSE
  /\ callback = NoCallback
  /\ flags = {}
  /\ capture = "none"
  /\ filled = 0
  /\ phase = 0
  /\ copy = NoCallback
  /\ due = 0
  /\ sampled = 0
  /\ lead = 0
  /\ late = [c \in Callbacks |-> 0]

(* -- the worker thread --------------------------------------------------------- *)

SetFlag(f) ==
  /\ control = "idle"
  /\ flags' = flags \cup {f}
  /\ UNCHANGED <<control, recording, callback, capture, bufferVars, clockVars, callVars>>

(* StopPlayout and SetStereoRecording(false).                                  *)
ClearFlag(f) ==
  /\ control = "idle"
  /\ f \in {"playing", "stereo_recording"}
  /\ flags' = flags \ {f}
  /\ UNCHANGED <<control, recording, callback, capture, bufferVars, clockVars, callVars>>

(* The replaced callback may be running, which makes that call a late one; the *)
(* count starts again for the registered one.                                  *)
RegisterAudioCallback(c) ==
  /\ control = "idle"
  /\ callback' = c
  /\ late' = [d \in Callbacks |->
       IF d = c THEN 0
       ELSE IF d = callback THEN IF capture = "calling" /\ copy = d THEN 1 ELSE 0
       ELSE late[d]]
  /\ UNCHANGED <<control, recording, flags, capture, bufferVars, clockVars, copy>>

StartRecording ==
  /\ control = "idle"
  /\ recording' = TRUE
  /\ control' = IF recording THEN "idle" ELSE "starting"
  /\ UNCHANGED <<callback, flags, capture, bufferVars, clockVars, callVars>>

(* Assigning over a joinable thread would end the process.                     *)
StartCapture ==
  /\ control = "starting"
  /\ capture' = "testing"
  /\ control' = "idle"
  /\ filled' = 0
  /\ phase' = 0
  /\ sampled' = 0
  /\ due' = 0
  /\ lead' = 0
  /\ UNCHANGED <<recording, callback, flags, callVars>>

StopRecording(caller) ==
  /\ control = "idle"
  /\ recording' = FALSE
  /\ control' = caller
  /\ UNCHANGED <<callback, flags, capture, bufferVars, clockVars, callVars>>

StopReturnsTo ==
  /\ control' = IF control = "destroying" THEN "gone" ELSE "idle"
  /\ flags' = IF control = "terminating" THEN flags \ {"initialized"} ELSE flags
  /\ UNCHANGED <<recording, callback, bufferVars, clockVars, callVars>>

(* Faulty variant: the thread is joined only if it has returned already.       *)
PollCapture ==
  /\ control \in Stopping
  /\ capture' = IF capture = "done" THEN "none" ELSE capture
  /\ StopReturnsTo

JoinCapture ==
  /\ control \in Stopping
  /\ capture \in {"none", "done"}
  /\ capture' = "none"
  /\ StopReturnsTo

(* -- the capture thread -------------------------------------------------------- *)

TestRecording ==
  /\ capture = "testing"
  /\ capture' = IF recording THEN "filling" ELSE "done"
  /\ UNCHANGED <<deviceVars, bufferVars, clockVars, callVars>>

(* Faulty variant: one sample is written past the end of the buffer.           *)
FillPastEnd ==
  /\ capture = "filling"
  /\ filled <= samples_per_channel
  /\ filled' = filled + 1
  /\ phase' = phase + Frequency - (IF phase + Frequency > Rate THEN Rate ELSE 0)
  /\ sampled' = (sampled + 1) % Rate
  /\ UNCHANGED <<deviceVars, capture, clockVars, callVars>>

(* Faulty variant: at the end of a turn the phase starts again from zero.      *)
FillFromZero ==
  /\ capture = "filling"
  /\ filled < samples_per_channel
  /\ filled' = filled + 1
  /\ phase' = IF phase + Frequency > Rate THEN 0 ELSE phase + Frequency
  /\ sampled' = (sampled + 1) % Rate
  /\ UNCHANGED <<deviceVars, capture, clockVars, callVars>>

(* At most one turn is taken off per sample.                                   *)
FillSample ==
  /\ capture = "filling"
  /\ filled < samples_per_channel
  /\ filled' = filled + 1
  /\ phase' = phase + Frequency - (IF phase + Frequency > Rate THEN Rate ELSE 0)
  /\ sampled' = (sampled + 1) % Rate
  /\ UNCHANGED <<deviceVars, capture, clockVars, callVars>>

(* Without a callback the buffer is dropped, in the time of one.               *)
CopyCallback ==
  /\ capture = "filling"
  /\ filled = samples_per_channel
  /\ filled' = 0
  /\ copy' = callback
  /\ lead' = lead + Period
  /\ capture' = IF callback = NoCallback THEN "advancing" ELSE "delivering"
  /\ UNCHANGED <<deviceVars, phase, sampled, due, late>>

RecordedDataIsAvailable ==
  /\ capture = "delivering"
  /\ capture' = "calling"
  /\ late' = IF copy = callback THEN late ELSE [late EXCEPT ![copy] = @ + 1]
  /\ UNCHANGED <<deviceVars, bufferVars, clockVars, copy>>

(* Faulty variant: a buffer that the callback refuses is handed to it again.   *)
CallAgain ==
  /\ capture = "calling"
  /\ capture' \in {"advancing", "delivering"}
  /\ copy' = IF capture' = "delivering" THEN copy ELSE NoCallback
  /\ UNCHANGED <<deviceVars, bufferVars, clockVars, late>>

CallbackReturns ==
  /\ capture = "calling"
  /\ capture' = "advancing"
  /\ copy' = NoCallback
  /\ UNCHANGED <<deviceVars, bufferVars, clockVars, late>>

(* Faulty variant: the next buffer is due 10 ms from now, so that every delay  *)
(* adds up.                                                                    *)
AdvanceFromNow ==
  /\ capture = "advancing"
  /\ due' = Period
  /\ capture' = "sleeping"
  /\ UNCHANGED <<deviceVars, bufferVars, lead, callVars>>

AdvanceTick ==
  /\ capture = "advancing"
  /\ due' = due + Period
  /\ capture' = "sleeping"
  /\ UNCHANGED <<deviceVars, bufferVars, lead, callVars>>

(* Faulty variant: overdue buffers are caught up with, recording_ unread.      *)
WakeAndFill ==
  /\ capture = "sleeping"
  /\ due <= 0
  /\ capture' = IF due = 0 THEN "testing" ELSE "filling"
  /\ UNCHANGED <<deviceVars, bufferVars, clockVars, callVars>>

(* sleep_until returns at once when next_tick has passed, and no earlier.      *)
Wake ==
  /\ capture = "sleeping"
  /\ due <= 0
  /\ capture' = "testing"
  /\ UNCHANGED <<deviceVars, bufferVars, clockVars, callVars>>

CaptureLoop ==
  \/ TestRecording
  \/ FillSample
  \/ CopyCallback
  \/ RecordedDataIsAvailable
  \/ CallbackReturns
  \/ AdvanceTick
  \/ Wake

(* A tick of the clock.  The bound is on how late the thread can be.           *)
Tick ==
  /\ capture \notin {"none", "done"}
  /\ due > -MaxLag
  /\ due' = due - 1
  /\ lead' = lead - 1
  /\ UNCHANGED <<deviceVars, capture, bufferVars, callVars>>

SineNext ==
  \/ \E f \in Flags: SetFlag(f) \/ ClearFlag(f)
  \/ \E c \in Callbacks \cup {NoCallback}: RegisterAudioCallback(c)
  \/ StartRecording
  \/ StartCapture
  \/ \E caller \in Stopping: StopRecording(caller)
  \/ JoinCapture
  \/ CaptureLoop
  \/ Tick

SineSpec == SineInit /\ [][SineNext]_sineVars

(* The two threads run, and callbacks return: RecordedDataIsAvailable only     *)
(* hands the samples on.  Time passes.                                         *)
FairSineSpec ==
  /\ SineSpec
  /\ WF_sineVars(StartCapture)
  /\ WF_sineVars(JoinCapture)
  /\ WF_sineVars(CaptureLoop)
  /\ WF_sineVars(Tick)

-----------------------------------------------------------------------------

SineTypeOK ==
  /\ control \in ControlPhases
  /\ recording \in BOOLEAN
  /\ callback \in Callbacks \cup {NoCallback}
  /\ flags \subseteq Flags
  /\ capture \in CapturePhases
  /\ filled \in 0 .. samples_per_channel
  /\ phase \in Nat
  /\ copy \in Callbacks \cup {NoCallback}
  /\ due \in Int
  /\ sampled \in 0 .. Rate - 1
  /\ lead \in Int
  /\ late \in [Callbacks -> Nat]

(* recording_ is one flag for every loop there ever is, so a loop that outlives *)
(* its StopRecording would be revived by the next StartRecording.  None does:   *)
(* no thread is left when StopRecording, Terminate or the destructor return,    *)
(* and StartRecording never assigns over one.                                   *)
OneCaptureLoop ==
  \/ control \in {"idle", "gone"} /\ ~recording
  \/ control = "starting"
  => capture = "none"

(* RegisterAudioCallback does not wait for a call that is running: the replaced *)
(* transport may be called once more, and not twice.                            *)
OneLateBuffer == \A c \in Callbacks: late[c] <= 1

(* The wave goes on from sample to sample and from buffer to buffer without a   *)
(* jump, and its phase stays within a turn when the frequency is at most the    *)
(* rate.                                                                        *)
InTune ==
  /\ phase % Rate = (Frequency * sampled) % Rate
  /\ Frequency <= Rate => phase <= Rate

(* The loop is never more than one buffer ahead of the clock, and a delay is    *)
(* made up for: it waits only when no buffer is overdue.                        *)
InPace ==
  /\ lead <= Period
  /\ capture = "sleeping" /\ due > 0 => lead > 0

(* StopRecording, Terminate and the destructor return, whatever the capture     *)
(* thread is doing.                                                             *)
StopReturns == control \in Stopping ~> control \in {"idle", "gone"}

=============================================================================
