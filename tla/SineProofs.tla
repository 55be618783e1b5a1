------------------------------ MODULE SineProofs ------------------------------
(* The audio device's safety, for every rate, frequency and clock: an           *)
(* inductive invariant in five parts, each preserved by every step.            *)
EXTENDS SineDevice, TLAPS

(* recording_ tells what the worker thread is about to do with the thread.      *)
LoopInv ==
  /\ OneCaptureLoop
  /\ control = "starting" => recording
  /\ control \in Stopping \cup {"gone"} => ~recording

(* The capture thread holds a copy only while it uses it; the registered        *)
(* callback is never late, nor is one that the copy is still to be used for.    *)
LateInv ==
  /\ OneLateBuffer
  /\ copy = NoCallback <=> capture \notin {"delivering", "calling"}
  /\ \A c \in Callbacks :
       /\ c = callback => late[c] = 0
       /\ c = copy /\ capture = "delivering" => late[c] = 0

(* Between two buffers next_tick is when the buffers made so far have run out,  *)
(* and a buffer is not begun before that.                                       *)
Delivered == {"delivering", "calling", "advancing"}

PaceInv ==
  /\ lead = due + (IF capture \in Delivered THEN Period ELSE 0)
  /\ due <= IF capture = "sleeping" THEN Period ELSE 0

PhaseInv == Frequency <= Rate => phase <= Rate

(* The phase is that of the sample's number, but for whole turns: those taken   *)
(* off, and the Frequency turns of every second that sampled starts again.      *)
TurnsInv == \E k \in Int : phase = Frequency * sampled + k * Rate

(* The type of a buffer's length, and of a sample's number within a second.     *)
LEMMA SamplesPerChannelNat == samples_per_channel \in Nat
  BY SineAssumption DEF samples_per_channel

LEMMA SampledWraps ==
  ASSUME NEW s \in 0 .. Rate - 1
  PROVE  (s + 1) % Rate \in 0 .. Rate - 1
  BY SineAssumption

(* Every variable has its type.                                                 *)
LEMMA SineTypeStep ==
  ASSUME SineTypeOK, [SineNext]_sineVars
  PROVE  SineTypeOK'
<1> USE SineAssumption DEF SineTypeOK, ControlPhases, CapturePhases, Stopping, deviceVars, bufferVars, clockVars, callVars
<1>1. CASE \E f \in Flags: SetFlag(f)
  BY <1>1 DEF SetFlag
<1>2. CASE \E f \in Flags: ClearFlag(f)
  BY <1>2 DEF ClearFlag
<1>3. CASE \E c \in Callbacks \cup {NoCallback}: RegisterAudioCallback(c)
  BY <1>3 DEF RegisterAudioCallback
<1>4. CASE StartRecording
  BY <1>4 DEF StartRecording
<1>5. CASE StartCapture
  BY <1>5, SamplesPerChannelNat DEF StartCapture
<1>6. CASE \E caller \in Stopping: StopRecording(caller)
  BY <1>6 DEF StopRecording
<1>7. CASE JoinCapture
  BY <1>7 DEF JoinCapture, StopReturnsTo
<1>8. CASE TestRecording
  BY <1>8 DEF TestRecording
<1>9. CASE FillSample
  BY <1>9, SamplesPerChannelNat, SampledWraps DEF FillSample
<1>10. CASE CopyCallback
  BY <1>10, SamplesPerChannelNat DEF CopyCallback
<1>11. CASE RecordedDataIsAvailable
  <2>1. late' \in [Callbacks -> Nat]
    <3>1. \A c \in Callbacks : late'[c] = late[c] \/ late'[c] = late[c] + 1
      BY <1>11 DEF RecordedDataIsAvailable
    <3>2. late' = [c \in Callbacks |-> late'[c]]
      BY <1>11 DEF RecordedDataIsAvailable
    <3>3. QED
      BY <3>1, <3>2
  <2>2. QED
    BY <1>11, <2>1 DEF RecordedDataIsAvailable
<1>12. CASE CallbackReturns
  BY <1>12 DEF CallbackReturns
<1>13. CASE AdvanceTick
  BY <1>13 DEF AdvanceTick
<1>14. CASE Wake
  BY <1>14 DEF Wake
<1>15. CASE Tick
  BY <1>15 DEF Tick
<1>16. CASE UNCHANGED sineVars
  BY <1>16 DEF sineVars
<1> QED
  BY <1>1, <1>2, <1>3, <1>4, <1>5, <1>6, <1>7, <1>8, <1>9, <1>10, <1>11, <1>12, <1>13, <1>14, <1>15, <1>16 DEF SineNext, CaptureLoop

(* One loop at a time, and none when it was told to stop.                       *)
LEMMA LoopStep ==
  ASSUME SineTypeOK, LoopInv, [SineNext]_sineVars
  PROVE  LoopInv'
<1> USE SineAssumption DEF SineTypeOK, LoopInv, OneCaptureLoop, ControlPhases, CapturePhases, Stopping, deviceVars, bufferVars, clockVars, callVars
<1>1. CASE \E f \in Flags: SetFlag(f)
  BY <1>1 DEF SetFlag
<1>2. CASE \E f \in Flags: ClearFlag(f)
  BY <1>2 DEF ClearFlag
<1>3. CASE \E c \in Callbacks \cup {NoCallback}: RegisterAudioCallback(c)
  BY <1>3 DEF RegisterAudioCallback
<1>4. CASE StartRecording
  BY <1>4 DEF StartRecording
<1>5. CASE StartCapture
  BY <1>5 DEF StartCapture
<1>6. CASE \E caller \in Stopping: StopRecording(caller)
  BY <1>6 DEF StopRecording
<1>7. CASE JoinCapture
  BY <1>7 DEF JoinCapture, StopReturnsTo
<1>8. CASE TestRecording
  BY <1>8 DEF TestRecording
<1>9. CASE FillSample
  BY <1>9 DEF FillSample
<1>10. CASE CopyCallback
  BY <1>10 DEF CopyCallback
<1>11. CASE RecordedDataIsAvailable
  BY <1>11 DEF RecordedDataIsAvailable
<1>12. CASE CallbackReturns
  BY <1>12 DEF CallbackReturns
<1>13. CASE AdvanceTick
  BY <1>13 DEF AdvanceTick
<1>14. CASE Wake
  BY <1>14 DEF Wake
<1>15. CASE Tick
  BY <1>15 DEF Tick
<1>16. CASE UNCHANGED sineVars
  BY <1>16 DEF sineVars
<1> QED
  BY <1>1, <1>2, <1>3, <1>4, <1>5, <1>6, <1>7, <1>8, <1>9, <1>10, <1>11, <1>12, <1>13, <1>14, <1>15, <1>16 DEF SineNext, CaptureLoop

(* A replaced callback is called once more at most.                             *)
LEMMA LateStep ==
  ASSUME SineTypeOK, LoopInv, LateInv, [SineNext]_sineVars
  PROVE  LateInv'
<1> USE SineAssumption DEF SineTypeOK, LateInv, OneLateBuffer, LoopInv, OneCaptureLoop, ControlPhases, CapturePhases, Stopping, deviceVars, bufferVars, clockVars, callVars
<1>1. CASE \E f \in Flags: SetFlag(f)
  BY <1>1 DEF SetFlag
<1>2. CASE \E f \in Flags: ClearFlag(f)
  BY <1>2 DEF ClearFlag
<1>3. CASE \E c \in Callbacks \cup {NoCallback}: RegisterAudioCallback(c)
  BY <1>3 DEF RegisterAudioCallback
<1>4. CASE StartRecording
  BY <1>4 DEF StartRecording
<1>5. CASE StartCapture
  BY <1>5 DEF StartCapture
<1>6. CASE \E caller \in Stopping: StopRecording(caller)
  BY <1>6 DEF StopRecording
<1>7. CASE JoinCapture
  BY <1>7 DEF JoinCapture, StopReturnsTo
<1>8. CASE TestRecording
  BY <1>8 DEF TestRecording
<1>9. CASE FillSample
  BY <1>9 DEF FillSample
<1>10. CASE CopyCallback
  BY <1>10 DEF CopyCallback
<1>11. CASE RecordedDataIsAvailable
  BY <1>11 DEF RecordedDataIsAvailable
<1>12. CASE CallbackReturns
  BY <1>12 DEF CallbackReturns
<1>13. CASE AdvanceTick
  BY <1>13 DEF AdvanceTick
<1>14. CASE Wake
  BY <1>14 DEF Wake
<1>15. CASE Tick
  BY <1>15 DEF Tick
<1>16. CASE UNCHANGED sineVars
  BY <1>16 DEF sineVars
<1> QED
  BY <1>1, <1>2, <1>3, <1>4, <1>5, <1>6, <1>7, <1>8, <1>9, <1>10, <1>11, <1>12, <1>13, <1>14, <1>15, <1>16 DEF SineNext, CaptureLoop

(* next_tick counts the buffers, whatever the delays.                           *)
LEMMA PaceStep ==
  ASSUME SineTypeOK, PaceInv, [SineNext]_sineVars
  PROVE  PaceInv'
<1> USE SineAssumption DEF SineTypeOK, PaceInv, Delivered, deviceVars, bufferVars, clockVars, callVars
<1>1. CASE \E f \in Flags: SetFlag(f)
  BY <1>1 DEF SetFlag
<1>2. CASE \E f \in Flags: ClearFlag(f)
  BY <1>2 DEF ClearFlag
<1>3. CASE \E c \in Callbacks \cup {NoCallback}: RegisterAudioCallback(c)
  BY <1>3 DEF RegisterAudioCallback
<1>4. CASE StartRecording
  BY <1>4 DEF StartRecording
<1>5. CASE StartCapture
  BY <1>5 DEF StartCapture
<1>6. CASE \E caller \in Stopping: StopRecording(caller)
  BY <1>6 DEF StopRecording
<1>7. CASE JoinCapture
  BY <1>7 DEF JoinCapture, StopReturnsTo
<1>8. CASE TestRecording
  BY <1>8 DEF TestRecording
<1>9. CASE FillSample
  BY <1>9 DEF FillSample
<1>10. CASE CopyCallback
  BY <1>10 DEF CopyCallback
<1>11. CASE RecordedDataIsAvailable
  BY <1>11 DEF RecordedDataIsAvailable
<1>12. CASE CallbackReturns
  BY <1>12 DEF CallbackReturns
<1>13. CASE AdvanceTick
  BY <1>13 DEF AdvanceTick
<1>14. CASE Wake
  BY <1>14 DEF Wake
<1>15. CASE Tick
  BY <1>15 DEF Tick
<1>16. CASE UNCHANGED sineVars
  BY <1>16 DEF sineVars
<1> QED
  BY <1>1, <1>2, <1>3, <1>4, <1>5, <1>6, <1>7, <1>8, <1>9, <1>10, <1>11, <1>12, <1>13, <1>14, <1>15, <1>16 DEF SineNext, CaptureLoop

(* At most one turn per sample has to be taken off.                             *)
LEMMA PhaseStep ==
  ASSUME SineTypeOK, PhaseInv, [SineNext]_sineVars
  PROVE  PhaseInv'
<1> USE SineAssumption DEF SineTypeOK, PhaseInv, deviceVars, bufferVars, clockVars, callVars
<1>1. CASE \E f \in Flags: SetFlag(f)
  BY <1>1 DEF SetFlag
<1>2. CASE \E f \in Flags: ClearFlag(f)
  BY <1>2 DEF ClearFlag
<1>3. CASE \E c \in Callbacks \cup {NoCallback}: RegisterAudioCallback(c)
  BY <1>3 DEF RegisterAudioCallback
<1>4. CASE StartRecording
  BY <1>4 DEF StartRecording
<1>5. CASE StartCapture
  BY <1>5 DEF StartCapture
<1>6. CASE \E caller \in Stopping: StopRecording(caller)
  BY <1>6 DEF StopRecording
<1>7. CASE JoinCapture
  BY <1>7 DEF JoinCapture, StopReturnsTo
<1>8. CASE TestRecording
  BY <1>8 DEF TestRecording
<1>9. CASE FillSample
  BY <1>9 DEF FillSample
<1>10. CASE CopyCallback
  BY <1>10 DEF CopyCallback
<1>11. CASE RecordedDataIsAvailable
  BY <1>11 DEF RecordedDataIsAvailable
<1>12. CASE CallbackReturns
  BY <1>12 DEF CallbackReturns
<1>13. CASE AdvanceTick
  BY <1>13 DEF AdvanceTick
<1>14. CASE Wake
  BY <1>14 DEF Wake
<1>15. CASE Tick
  BY <1>15 DEF Tick
<1>16. CASE UNCHANGED sineVars
  BY <1>16 DEF sineVars
<1> QED
  BY <1>1, <1>2, <1>3, <1>4, <1>5, <1>6, <1>7, <1>8, <1>9, <1>10, <1>11, <1>12, <1>13, <1>14, <1>15, <1>16 DEF SineNext, CaptureLoop

(* The only multiple of n closer to zero than n.                                *)
LEMMA MultipleWithin ==
  ASSUME NEW n \in Nat \ {0}, NEW d \in Int, -n < d * n, d * n < n
  PROVE  d = 0
<1>1. CASE d >= 1
  <2>1. (d - 1) * n >= 0
    BY <1>1
  <2>2. (d - 1) * n = d * n - n
    OBVIOUS
  <2> QED
    BY <2>1, <2>2
<1>2. CASE d <= -1
  <2>1. (-1 - d) * n >= 0
    BY <1>2
  <2>2. (-1 - d) * n = -n - d * n
    OBVIOUS
  <2> QED
    BY <2>1, <2>2
<1> QED
  BY <1>1, <1>2

(* Quotient and remainder.                                                      *)
LEMMA Division ==
  ASSUME NEW n \in Nat \ {0}, NEW a \in Int
  PROVE  /\ a \div n \in Int
         /\ a % n \in 0 .. n - 1
         /\ a = n * (a \div n) + (a % n)
  OBVIOUS

(* Whole turns do not change the remainder.                                     *)
LEMMA SameRemainder ==
  ASSUME NEW n \in Nat \ {0}, NEW a \in Int, NEW b \in Int, NEW k \in Int, a = b + k * n
  PROVE  a % n = b % n
<1> DEFINE d == (a \div n) - (b \div n) - k
<1>1. /\ a \div n \in Int /\ a % n \in 0 .. n - 1 /\ a = n * (a \div n) + (a % n)
  BY Division
<1>2. /\ b \div n \in Int /\ b % n \in 0 .. n - 1 /\ b = n * (b \div n) + (b % n)
  BY Division
<1>3. d * n = (b % n) - (a % n)
  <2>1. \A p, q, r, s \in Int : n * p + r = n * q + s + k * n => (p - q - k) * n = s - r
    OBVIOUS
  <2> QED
    BY <1>1, <1>2, <2>1
<1>4. d \in Int
  BY <1>1, <1>2
<1>5. d = 0
  <2>1. -n < d * n /\ d * n < n
    BY <1>1, <1>2, <1>3
  <2> HIDE DEF d
  <2> QED
    BY <1>4, <2>1, MultipleWithin
<1> QED
  <2> HIDE DEF d
  <2>1. 0 * n = 0
    OBVIOUS
  <2> QED
    BY <1>1, <1>2, <1>3, <1>5, <2>1

(* One more sample, with or without a turn taken off, and with or without       *)
(* starting a new second.                                                       *)
LEMMA NextSampleInTune ==
  ASSUME NEW s \in 0 .. Rate - 1, NEW k \in Int, NEW c \in {0, 1}, NEW p \in Int,
         p = Frequency * s + k * Rate
  PROVE  \E m \in Int : p + Frequency - c * Rate = Frequency * ((s + 1) % Rate) + m * Rate
<1> USE SineAssumption
<1>1. CASE s < Rate - 1
  <2>1. (s + 1) % Rate = s + 1
    BY <1>1
  <2>2. /\ Frequency * (s + 1) = Frequency * s + Frequency
        /\ (k - c) * Rate = k * Rate - c * Rate
    OBVIOUS
  <2>3. p + Frequency - c * Rate = Frequency * (s + 1) + (k - c) * Rate
    BY <2>2
  <2>4. k - c \in Int
    OBVIOUS
  <2> WITNESS k - c \in Int
  <2> QED
    BY <2>1, <2>3
<1>2. CASE s = Rate - 1
  <2>1. (s + 1) % Rate = 0
    BY <1>2
  <2>2. /\ Frequency * s = Frequency * Rate - Frequency
        /\ (k + Frequency - c) * Rate = k * Rate + Frequency * Rate - c * Rate
        /\ Frequency * 0 = 0
    BY <1>2
  <2>3. p + Frequency - c * Rate = Frequency * 0 + (k + Frequency - c) * Rate
    BY <2>2
  <2>4. k + Frequency - c \in Int
    OBVIOUS
  <2> WITNESS k + Frequency - c \in Int
  <2> QED
    BY <2>1, <2>3
<1> QED
  BY <1>1, <1>2

(* The phase goes with the samples.                                             *)
LEMMA TurnsStep ==
  ASSUME SineTypeOK, TurnsInv, [SineNext]_sineVars
  PROVE  TurnsInv'
<1> USE SineAssumption DEF TurnsInv, bufferVars
<1>1. CASE FillSample
  <2>1. PICK k \in Int : phase = Frequency * sampled + k * Rate
    BY DEF TurnsInv
  <2>2. PICK c \in {0, 1} : phase' = phase + Frequency - c * Rate
    <3>1. 0 * Rate = 0 /\ 1 * Rate = Rate
      OBVIOUS
    <3> QED
      BY <1>1, <3>1 DEF FillSample, SineTypeOK
  <2>3. sampled' = (sampled + 1) % Rate
    BY <1>1 DEF FillSample
  <2>4. \E m \in Int : phase + Frequency - c * Rate = Frequency * ((sampled + 1) % Rate) + m * Rate
    <3>1. phase \in Int /\ sampled \in 0 .. Rate - 1
      BY DEF SineTypeOK
    <3> QED
      BY ONLY <2>1, <3>1, <2>2, NextSampleInTune, Zenon
  <2> QED
    BY <2>2, <2>3, <2>4
<1>2. CASE StartCapture
  <2>1. phase' = 0 /\ sampled' = 0
    BY <1>2 DEF StartCapture
  <2>2. 0 = Frequency * 0 + 0 * Rate
    OBVIOUS
  <2> QED
    BY <2>1, <2>2
<1>3. ASSUME UNCHANGED <<phase, sampled>>
      PROVE  TurnsInv'
  BY <1>3
<1>4. CASE \/ \E f \in Flags: SetFlag(f) \/ ClearFlag(f)
           \/ \E c \in Callbacks \cup {NoCallback}: RegisterAudioCallback(c)
           \/ StartRecording
           \/ \E caller \in Stopping: StopRecording(caller)
           \/ JoinCapture
  BY <1>3, <1>4 DEF SetFlag, ClearFlag, RegisterAudioCallback, StartRecording, StopRecording,
     JoinCapture, StopReturnsTo
<1>5. CASE \/ TestRecording \/ CopyCallback \/ RecordedDataIsAvailable \/ CallbackReturns
           \/ AdvanceTick \/ Wake \/ Tick \/ UNCHANGED sineVars
  BY <1>3, <1>5 DEF TestRecording, CopyCallback, RecordedDataIsAvailable, CallbackReturns,
     AdvanceTick, Wake, Tick, sineVars
<1> QED
  <2> HIDE DEF TurnsInv
  <2> QED
    BY <1>1, <1>2, <1>4, <1>5 DEF SineNext, CaptureLoop

(* A phase that goes with the samples is in tune.                               *)
LEMMA TurnsInTune ==
  ASSUME SineTypeOK, TurnsInv
  PROVE  phase % Rate = (Frequency * sampled) % Rate
<1> USE SineAssumption DEF SineTypeOK
<1>1. PICK k \in Int : phase = Frequency * sampled + k * Rate
  BY DEF TurnsInv
<1>2. Frequency * sampled \in Int /\ phase \in Int
  OBVIOUS
<1> QED
  BY <1>1, <1>2, SameRemainder

SineInv == SineTypeOK /\ LoopInv /\ LateInv /\ PaceInv /\ PhaseInv /\ TurnsInv

(* The invariant holds in every reachable state.                                *)
LEMMA SineInductive == SineSpec => []SineInv
<1>1. SineInit => SineInv
  <2> SUFFICES ASSUME SineInit PROVE SineInv
    OBVIOUS
  <2> USE SineAssumption DEF SineInit
  <2>1. SineTypeOK
    <3>1. control \in ControlPhases /\ capture \in CapturePhases
      BY DEF ControlPhases, CapturePhases
    <3>2. filled \in 0 .. samples_per_channel /\ sampled \in 0 .. Rate - 1
      BY SamplesPerChannelNat
    <3>3. late \in [Callbacks -> Nat]
      OBVIOUS
    <3>4. flags \subseteq Flags /\ recording \in BOOLEAN
      OBVIOUS
    <3>5. callback \in Callbacks \cup {NoCallback} /\ copy \in Callbacks \cup {NoCallback}
      OBVIOUS
    <3>6. phase \in Nat /\ due \in Int /\ lead \in Int
      OBVIOUS
    <3>7. QED
      BY ONLY <3>1, <3>2, <3>3, <3>4, <3>5, <3>6 DEF SineTypeOK
  <2>2. LoopInv
    BY DEF LoopInv, OneCaptureLoop, Stopping
  <2>3. LateInv
    BY DEF LateInv, OneLateBuffer
  <2>4. PaceInv
    <3>1. capture \notin Delivered /\ capture # "sleeping"
      BY DEF Delivered
    <3>2. QED
      BY <3>1 DEF PaceInv
  <2>5. TurnsInv
    <3>1. 0 = Frequency * 0 + 0 * Rate
      OBVIOUS
    <3>2. QED
      BY <3>1 DEF TurnsInv
  <2>6. QED
    BY <2>1, <2>2, <2>3, <2>4, <2>5 DEF SineInv, PhaseInv
<1>2. SineInv /\ [SineNext]_sineVars => SineInv'
  BY SineTypeStep, LoopStep, LateStep, PaceStep, PhaseStep, TurnsStep DEF SineInv
<1>3. QED
  BY <1>1, <1>2, PTL DEF SineSpec

(* In every reachable state each variable has its type: no sample is written    *)
(* past the end of the buffer, whatever the rate.                               *)
THEOREM BufferNeverOverrun == SineSpec => []SineTypeOK
<1>1. SineInv => SineTypeOK
  BY DEF SineInv
<1>2. QED
  BY <1>1, SineInductive, PTL

(* There is never a second capture loop, and none is left when a stop returns.  *)
THEOREM NeverTwoLoops == SineSpec => []OneCaptureLoop
<1>1. SineInv => OneCaptureLoop
  BY DEF SineInv, LoopInv
<1>2. QED
  BY <1>1, SineInductive, PTL

(* A replaced audio callback gets at most one more buffer.                      *)
THEOREM AtMostOneLateBuffer == SineSpec => []OneLateBuffer
<1>1. SineInv => OneLateBuffer
  BY DEF SineInv, LateInv
<1>2. QED
  BY <1>1, SineInductive, PTL

(* Buffers keep to the clock for any period and any delays: none is early, and  *)
(* the loop waits only when none is overdue.                                    *)
THEOREM KeepsPace == SineSpec => []InPace
<1>1. SineInv => InPace
  BY SineAssumption DEF SineInv, SineTypeOK, PaceInv, Delivered, InPace
<1>2. QED
  BY <1>1, SineInductive, PTL

(* The wave has no jump, from sample to sample and from buffer to buffer, for   *)
(* every rate and frequency; and its phase stays within a turn for every        *)
(* frequency up to the rate.                                                    *)
THEOREM WaveInTune == SineSpec => []InTune
<1>1. SineInv => InTune
  BY TurnsInTune DEF SineInv, PhaseInv, InTune
<1>2. QED
  BY <1>1, SineInductive, PTL

=============================================================================
