# A TLA+ model of the AppRTC command-line client

The program joins a room of an AppRTC-compatible server, negotiates one
WebRTC call with whoever else is in the room, sends a video file and a sine wave
for a while, hangs up and exits with a code that says how the call went. This
directory holds TLA+ modules for it, from the process's entry to its media threads,
the configurations that check them with TLC and proofs checked by TLAPS.

## Inventory

| Part | State it keeps | Operations | What is hard |
|---|---|---|---|
| `CallController` (`apprtc_call.cc`) | `join_response_`, the queue of signaling messages, `negotiation_ready_`, `signaling_action_in_flight_`, `offer_started_`, `peer_connected_`, `remote_media_seen_`, `call_established_`, `finished_`, two timer generations, the exit code | one handler per callback, two timers and the statistics task, `PumpSignalingMessages`, `Finish`, `CompleteFinish` | one action in flight across four asynchronous steps; timers that are cancelled but already due; tasks that run after `Quit`; several reasons to end at once |
| Signaling thread (`webrtc::Thread`, external) | a FIFO of tasks, delayed tasks, quitting | post, post delayed, dispatch, quit | everything above meets here, in any order |
| `AppRtcSignalingClient` | the network thread's queue, the websocket, `mutex_`, the callbacks, `websocket_open_`, `closing_` | join, connect, register, send (two ways), close; websocket open, close, error, message | two threads and a mutex; automatic reconnection; requests behind a slow HTTP request; destruction |
| `PeerConnectionClient` | `connection_`, `task_safety_`, `pending_remote_candidates_`, `remote_description_set_`, `connected_`, `remote_media_seen_`, the frame sink | create and apply descriptions, add and flush candidates, `Close`; the library's callbacks | outcomes that arrive after `Close`; candidates before the remote description; frames from the decoder's thread |
| Shared types (`apprtc_common`) | none | message priorities, parsing, exit codes, `ValidateConfig` | the order of the messages a join response carries |
| Process entry (`main.cc`, `RunAppRtcCall`) | what is initialised, its cleanups | configuration, initialisation, the controller's lifetime, cleanup | threads that still run in the destructors; the exit code of each early failure |
| `FileVideoSource` | the decoder, its sinks, `stop_` | start, decode loop, add and remove a sink | a frame being delivered to a sink that is removed; a loop that spins at a broken file; initialisation that fails half way |
| `SineWaveAudioDeviceModule` | `recording_`, the capture thread, the callback, the phase | start and stop recording, capture loop | one flag for every loop; a callback replaced while it is called; wrap-around of the phase; delays |
| Room server, the other client, `tests/run_e2e.py` | outside the process | | both ends decide for themselves when the call is established; texts of one are read by the other |

The parts interact through one queue. The controller calls the two clients
directly; they answer only by posting tasks to the signaling thread. The
signaling client does its work on a network thread of its own, the websocket
reports on another, the library on its own, the decoder delivers frames on yet
another. What makes each part correct: the controller negotiates one thing at a
time, never stalls, ends exactly once and with an honest exit code; the
signaling client registers once, leaves no websocket open and asks to be taken out of the
room it joined; the peer connection client hands over every candidate once and in order and never acts
for a connection it has released; the times given on the command line bound the
process; no thread touches what another has freed, and every destructor returns.

## Modules

| Module | Models |
|---|---|
| `SignalingTypes` | messages, the sorted order of a join response's messages, termination reasons, exit codes |
| `SignalingThread` | the task queue `tasks`, delayed tasks `timers`, and `loop`, where the process is between `Run` and the end of `~CallController` |
| `SignalingClient` | `net`, the network thread's queue; `socket`, `websocketOpen`, `closing`; what the outside world has done (`membership`, `arrived`, `heard`, `opens`) |
| `PeerConnectionClient` | the record `peer`; methods are functions from record to record, the library's activity is actions |
| `CallController` | the controller's fields, its handlers, and the composition of everything above |
| `CallLifecycle` | the abstract specification: a call is set up, established at most once, says goodbye, is over with a code that fits |
| `CallProperties` | the properties of the composed system |
| `MCCallController` | the room contents used by the configurations |
| `CallTimers` | the same call seen through a clock: timeout, duration, limit of a request |
| `VideoSource` | `FileVideoSource`: its owner, its sinks, its decoder thread, step by step |
| `PeerMedia` | the source and the remote sink as `PeerConnectionClient` creates them and as `Close` takes them apart; `--validate_inputs_only` |
| `SineDevice` | the audio device: worker thread, capture thread, clock |
| `ProcessEntry` | `RunAppRtcCall`, and the destruction of the controller against the signaling client's two threads, lock by lock |
| `SignalingCodec` | the texts of the signaling: written by one client, read by the other |
| `TwoClients` | two calls, each at the level of its phases, in one room |
| `CallHonestyProofs`, `CallClosingProofs`, `CallNegotiationProofs`, `CallTimersProofs`, `MediaProofs`, `SineProofs`, `ProcessProofs`, `RoomProofs` | proofs |

A handler is one action: a task runs to completion on the signaling thread, so
all the calls it makes on that thread happen in one step, and what it posts to
other threads is appended to their queues in the order of the code. `Dispatch` takes the
head of `tasks`; `finished`, the generations and early returns are the guards of
the code. `Finish(reason, role, p)` and `PumpSignalingMessages(n, p)` take the
controller's state as the handler has changed it so far and give the
next state. `CloseAsync` is two steps because the flags are set under the mutex and
the websocket is stopped after it, with the websocket's thread still reporting.
`membership` is what becomes of this client in the room: a join that fails on this side may have been
granted by the server ("unknown"), and `CloseAsync` asks the server to delete the client only if the join response
named it, and ignores the result (`Released`: "asked" or "nameless").

Payloads are abstract. A remote candidate carries a number, in order of
arrival, so that its fate can be followed; all other messages carry 0. The numbers
stand for identity alone, so it is no loss that `ClientAssumption` has the candidates of a join
response numbered 1, 2 and so on in its order (`NumberedInOrder`). Text that
`ParseSignalingMessage` rejects is a type of raw message, `garbled`. A task
protected by a safety flag carries the number of resets seen when it was posted,
and is dropped when that number is no longer current. A frame's task reads the flag on
another thread with no lock while `Close` replaces it: it can carry the old
number or the new one (the second disjunct of `CompleteFinish`).

Timers in `CallController` have no durations: a delayed task becomes due at any moment
after it is posted, so every order of timers and other events is covered.
`CallTimers` adds the clock and leaves the rest out: handlers take no time there,
a task that is due runs before the clock advances, and connecting, closing and
sending on the websocket count as requests that take no more than an HTTP
request may.

The media modules and `ProcessEntry` are finer: their actions are the stretches of
code between two accesses to something shared (an atomic, a mutex, a join, a
callback). `VideoSource` has no `Next` of its own; `PeerMedia` extends it and
says who calls it. `late`, `farewell` (`VideoSource`), `late`, `lead` and `sampled` (`SineDevice`)
are history variables: they count what the properties speak of and guard nothing.
In `ProcessEntry` a destroyed member leaves `members` and a thread goes on as if its
memory were still intact, which is one of the outcomes of the undefined behaviour that
`GuardedMembers` detects; mutex and flags have trivial destructors.
A stretch in which the mutex is held only to set flags is one step that requires it to
be free; copying a callback holds it for two steps, since that is where its holder meets a destructor.

`SignalingCodec` represents a text by the object it parses to, member by
member under the names of the code, so that a name one side writes and the other does not read is
lost. `TwoClients` reduces each call to its phases and to what
decides them. Its wires are sequences of such texts. A text that waits in the room comes with the join response and
is sorted there; later ones arrive in the websocket's envelope. Sending the goodbye and
hearing of its completion are two steps (`SendBye`, `CompleteFinish`): between them a process
can be killed, and the description of a negotiation under way can still follow the goodbye. A failed join may leave the
client counted in the room, so that the other end, taken for the second, waits for an offer in vain.

## What the runs check

| Run | Question | Properties |
|---|---|---|
| `join_queue` | a client joins a room in which its peer has left things | `TypeOK`, `NoStall`, `CandidatesInOrder`, `RoomMessagesInOrder`, `ConnectionLive` |
| `trickle` | three websocket messages of any type meet a negotiation anywhere | `OneContinuation`, `CandidatesInOrder` |
| `ending` | the ways to end, from every state within its bounds | `AlwaysEnding`, `LeavesLast`, `NoCandidateAfterBye`, `ExitHonest`, `FinishedIsFinal`, `ImplementsLifecycle` |
| `reconnect` | a websocket that fails and reopens, with a fuller queue | `RegistersOnce`, `CleanShutdown` |
| `exits` | the process always exits | `Exits`, under `FairSpec` |
| `timers` | how long it can take | `EndsInTime` |
| `overall_timeout` | does the timeout bound the call? | `OverallTimeout`, violated |
| `media` | source, sinks and both decoder threads until `Close` has returned | `MediaTypeOK`, `DecoderSafe`, `OneLateFrame`, `LastFrame`, `RemoteSinkAlive`, `NothingLeft`, `CloseReturns` |
| `sine` | recording and its capture thread | `SineTypeOK`, `OneCaptureLoop`, `OneLateBuffer`, `InTune`, `InPace`, `StopReturns` |
| `process` | every way through the process | `ProcessTypeOK`, `LiveWhileUsed`, `ExitReports`, `ProcessEnds` |
| `guarded_members` | are the guarded members used under their guard? | `GuardedMembers`, violated |
| `two_clients` | both ends of one call | `RoomTypeOK`, `HangUpHonest`, `BothLifecycles`, `BothLeave` |

`OneContinuation` and `NoStall` are the heart of the controller: while
`signaling_action_in_flight_` is set exactly one thing exists that will clear it,
and when it is clear nothing waits. `CandidatesInOrder` accounts for each
received candidate in the five places it can be. `RoomMessagesInOrder` is about the other messages of the join response: a bye
ends the call, so one that its sender left behind an offer must not be handled while the offer or a candidate
still waits. The websocket appends unsorted messages to the same queue, so the invariant speaks of all but as many messages at its
end as have been heard. `AlwaysEnding` says that the loop is never without a live
timer or a pending bye, and is the safety half of `Exits`. `FinishedIsFinal` and `NoCandidateAfterBye`
cover the window between the end of the duration and the bye's completion: a
description may still be sent in it (`SendLocalDescription` does not look at
`finished_`), but it changes nothing. `RegistersOnce` holds although
`OnWebSocketOpen` has no guard of its own, because the error of a closing websocket is always
queued before the next opening. `CleanShutdown` says that the websocket is stopped for good and that the room
server was asked to delete a client known to have joined, as far as the join response names it; whether the server does so is not
known to the program. `ImplementsLifecycle` is the refinement of
`CallLifecycle` under the mapping `Phase`.

`OneLateFrame` and `OneLateBuffer` say how much a removed sink and a replaced callback must
still expect: neither removal waits for a call under way, so the bound is one and not
zero. `LastFrame` and `CloseReturns` hold because `stop_` is tested in both loops and after
every failure. `RemoteSinkAlive` depends on the order of `Close` alone: the
track is never told to forget the sink. `OneCaptureLoop` needs the join,
since `recording_` cannot tell two loops apart. `InTune` relates the phase to the
number of samples since the loop began: it never jumps (run `sine` stays below the
sample rate; theorem `WaveInTune` covers every frequency). `ProcessEnds` is the absence of a deadlock between the main thread
(which joins), the network thread (which stops the websocket) and the websocket's thread
(which takes the mutex). `HangUpHonest` relates the exit codes of two processes. The one case
in which nothing went wrong and an end still reports failure is the end that is hung up on
before its own call was established, as `tests/run_e2e.py` would see if its call were that short.
`BothLifecycles` is the refinement of `CallLifecycle`, once for each end.

### What the violated runs show

The help text of `--timeout_seconds` is "Overall timeout in seconds."
(`main.cc:14`). The timeout only guards the setup: `MaybeMarkCallEstablished` cancels
it and starts the duration timer afresh, so a call established late lasts beyond it.
`EndsInTime` is the bound that does hold.

`apprtc_signaling_client.h:61-63` declares the callbacks `ABSL_GUARDED_BY(mutex_)`. The
destructor takes the mutex only in its body; then the callbacks and the
mutex are destroyed, and only after them `network_thread_` and `websocket_` are joined, because they are
declared first. `GuardedMembers` fails when the call ends with the connect
still queued: the drained connect opens the websocket, whose event copies
`on_error_`. `LiveWhileUsed` says what this order does keep alive.

### Bounds

`MaxTasks` limits the tasks queued when an outside event happens, not those the
program posts itself: two suffice for an event to overtake, or be overtaken by, a
handler's own follow-up, and `reconnect` uses four for a close, an open and
errors in a row. `MaxInbound = 3` and `MaxCandidates = 2` allow a description
between two candidates, and two candidates around an offer. `MaxOpens = 3` is two reconnections.
`MaxLocalCandidates = 1` suffices: local candidates do not interact.
`ending` has `MaxInbound = 2` and one candidate, so that an offer or answer can establish the call and a bye end it, and
two outside events queued at once. `MaxStats = 1` in `exits` lets the statistics task run and rearm once; the other
runs, whose properties it cannot reach, leave it out. One state change and one frame of the library,
and one connection error of the websocket, are queued at a time: further ones
find the same state. The join responses of `BusyRoom` hold the sorting cases:
a candidate and an unparsable text before the offer, a bye before everything, and
candidates without an offer, as a peer leaves them whose offer failed to be sent.
In `CallTimers`, `MaxWaiting` bounds the requests waiting when the call sends another;
the call's sends are limited by its peer and by ICE, which the program does not bound.

In `media` three sinks let one be removed while another is called and a third is still to be. Nothing else is bounded. In
`sine` the unit of the phase is a turn divided by the sample rate: 200 samples a second
give buffers of two samples, and 80 Hz makes the phase wrap within and between buffers.
`Period = 2` and `MaxLag = 3` let the thread be more than one buffer late. Two of the five
flags are enough: they are independent. In `process`, `MaxQueue = 3` is the connect, a send
and a request waiting when the call ends, with the close behind them. `two_clients` has no bounds: each end sends one
description, one candidate (candidates after the first find the same state) and one
goodbye.

### Fairness

`FairSpec` assumes that threads that have work run (`StartCall`, `Dispatch`,
`ReturnFromRun`, `Destroy`), that a delayed task becomes due (`Alarm`), and that each
request ends (`Network`; `CURLOPT_TIMEOUT` is 30 s, the websocket calls do not wait).
Nothing is assumed of the server, the websocket or the peer:
every event of theirs may never happen. Fairness is weak throughout: each of these
steps, once enabled, stays so until it is taken or the loop has ended.

`FairMediaSpec` assumes that threads run, that `OnFrame` returns, and, once `Close` has begun, that
the library removes its sinks and starts no frame for ever; for that last wait it is strong (`SF` of `CloseConnection`): the
remote decoder may deliver frames until the moment it is stopped. The file is not trusted: all its reads may fail. `FairSineSpec` assumes running
threads, callbacks that return, and a clock. `FairProcessSpec` assumes running
threads, requests that end (30 s) and a mutex that a waiter gets in the end, which is strong fairness
of the steps that take it on the main and the network thread; the websocket's thread takes it weakly. `FairRoomSpec` assumes
only the two timers, that the network thread sends the goodbye or fails to, and that its completion is run: no message, no media and no connection need ever arrive.

Deadlock is checked in the runs of the call, where `Exited` is the explicit end, and of `media`.
The device is idle when nobody records, a process ends in "exited" and both ends of a room end in "over": there the
system really stops and the check is off.

## What is proved

* `TypeCorrect` (`CallHonestyProofs`): `Spec => []TypeOK`, for every value of the bounds and
  every set of join responses. `TypeOK` is inductive by itself: its content is that what each
  handler appends to `tasks`, `net` and the message queue is of the form the
  handler at the other end takes, and that the sorted messages of a join response
  are parsed messages. There is one lemma per method of the clients and one per action; the
  lemmas on `Finish` and `PumpSignalingMessages`, which most handlers end with,
  are cited by name.
* `CodeHonest`, `FirstReasonWins`, `LifecycleImplemented` (`CallHonestyProofs`): `Spec` implies
  `[]ExitHonest`, `FinishedIsFinal` and `ImplementsLifecycle`, for the same constants.
  They share one inductive invariant, `HonestInv`. `ExitHonest` is not inductive: the bye's completion sets
  the code to success without looking at any flag, so the invariant must
  say that a bye, requested or answered, exists only after an established call's end, at most once, and while
  the loop still runs (`ByeOnce`). A join response handled late must not find an
  established call, which takes the join to be the first request, its response to be unique
  (`JoinOnce`), and the peer connection to be idle before it (`JoinedFirst`). `CodeKnown` says that `finished_` is set
  before the loop is told to quit, and the code is the initial one until then.
  Every handler is reduced to `Handled`: it goes on, ends the call for a reason that
  fits its state (`Fits`), says goodbye, or has said it. The invariant, the action property and the
  refinement are then each proved once from `Handled`, not once per handler; the
  steps of the other threads are three lemmas (`EventHonest`, `ServedHonest`,
  `ProcessHonest`).
* `NeverStalled`, `LeavingIsLast`, `SilentAfterBye`, `ConnectionOutlivesTasks`,
  `NothingLeftOpen` (`CallClosingProofs`): `Spec` implies `[]` of `NoStall`, `LeavesLast`,
  `NoCandidateAfterBye`, `ConnectionLive` and `CleanShutdown`, for the same constants, from one
  inductive invariant, `ClosingInv`, which contains `HonestInv`. `NoStall` is inductive with it as it
  stands, once registration is known to come after the join (`NothingAsked`). The
  other four are not. A live outcome of an operation must not exist after Quit, or
  `SendLocalDescription`, which does not look at `finished_`, would post behind leaving the room: the
  safety flag carries this (`Connected`). Connecting clears
  `closing_` even when the destructor has set it, so it must be known that leaving is still queued behind
  it (`LeftOnce`). Every handler is reduced to `Works` or `Closes`, as above.
* `ActionContinuesOnce`, `EndAlwaysArmed`, `OneRegistration`, `CandidatesKeepOrder`, `RoomOrderKept`
  (`CallNegotiationProofs`): `Spec` implies `[]` of `OneContinuation`, `AlwaysEnding`, `RegistersOnce`,
  `CandidatesInOrder` and `RoomMessagesInOrder`, for the same constants. The first three count, over queues of any length, so
  the module begins with lemmas on how often a sequence meets a set (`Places`, `Hits`) when elements are
  appended or the head is taken. They share `FlowInv`, which contains `ClosingInv`. `InFlight` and `ByeWaits` are
  the counts, from before the loop runs on; `Armed` is the timer, which a task of an older generation leaves alone.
  `RegistersOnce` alone is not inductive: `RegisteredOnce` adds that a
  websocket that connects while no error is queued has not opened before, that `ConnectAsync` is asked for once, and that nothing
  has set `closing_`. Every handler is again reduced to what it does to the action in flight (`Turn`), the timers and the registration.
  `CandidateInv` contains `FlowInv` and two more parts. `InLine` is the property with the two
  lists of the connection, the queue and the tasks each in order and each before the next, an empty
  buffer once the remote description is set, and nothing before the join. `JoinedInOrder` says that the
  numbers received are 1 to some bound, so that the next candidate comes behind all others, and those of a
  join response that is still queued are all there are. The lemma that the sort of the join response keeps its candidates in
  order is proved from the definition of `QueuedOrders`.
  `RoomInv` adds to it what `RoomMessagesInOrder` needs (`RoomFirst`): the messages heard that are in tasks no more (`Past`)
  are at least as many as the queue has behind those of the room. Handlers only drop messages at the front of the queue
  (`SuffixOf`), after appending one or queueing the join response, once, on an empty queue (`Heeds`).
* `AlwaysInTime` (`CallTimersProofs`): `TimersSpec => []EndsInTime`, for every
  configuration that `ValidateConfig` accepts and any limit. `EndsInTime` is not inductive; `TimersInv` adds that the live timer is
  ahead of the clock and due by `Timeout + Duration`, that a request in service
  has at most its limit left, and that after the call the requests left, with
  those that may still be posted, fit what is left (`BudgetLeft`).

* `MediaProofs`: all six invariants of `media`, for any set of sinks. `MediaInv` adds to them
  how the owner's phase, the references and the two threads go together (`DecoderInv`,
  `LifeInv`, `SinkInv`), that the copy lists a sink at most once and what the
  count of late frames still allows (`BroadcastInv`), and which positions of the decoder thread can still broadcast after
  `stop_` is set (`FarewellInv`).
* `SineProofs`: all invariants of `sine`, for any rate, frequency,
  period and lag. `InTune` compares remainders by a rate that is not a number, with which the provers cannot calculate; `TurnsInv` says
  the same with the number of whole turns as a witness, which each sample changes by the turn taken off and each second by
  `Frequency`, and a lemma on remainders (`SameRemainder`) leads back. `LoopInv` ties the worker thread to the capture thread;
  `PaceInv` states the lead through the buffers delivered and the time to the next tick.
* `ProcessProofs`: the three invariants of `process`, for any backlog. `ProcessInv`
  describes every phase of the main thread by what is live, in which order it will be cleaned
  up, and which members and threads exist (`StageInv`, `ThreadInv`), and the code by how far the process came.
* `RoomProofs`: what is serialised by one client is what the other parses, for every
  description and candidate, the envelope included (`DescriptionUnderstood`, `CandidateUnderstood`); and, on top of it, `RoomTypeOK`,
  `HangUpHonest` and `BothLifecycles` (`NothingLostOnTheWay`, `HungUpOnHonestly`, `BothImplement`).
  `TwoClients` has no constants, and TLC sees all of its states; the proofs give the reason. `HangUpHonest` speaks of the two
  ends' reasons, and the goodbye travels between them, so the invariant `Letters` says of every text on a wire and
  every message in an inbox that the other end can have written it, a goodbye only after its call's end;
  it rests on the lemma that nothing but a goodbye is read as one (`TextRead`). `CallGoes` says
  for each end how stage, reason and establishment go together. The refinement is proved once for
  any end (`Lives`) and then for both instances.

The assumptions are those named in the modules: bounds are natural numbers, join responses are
sequences of raw messages with their candidates numbered in order, `ValidateConfig`. Every invariant, action property and refinement in the table of runs is proved. Liveness
(`Exits`, `CloseReturns`, `StopReturns`, `ProcessEnds`, `BothLeave`) is out of the prover's reach and only model-checked, as are
the two violated runs. No module uses recursion.

## What is not modelled

`ParseIceServers`, `ParseMessageResponse`, URLs and the HTTP bodies: text that decides nothing but whether a call
fails, which is a choice in the models. JSON of a kind the program does not expect where it reads a
string or a number. Pixels, sample values, codecs, logging and statistics contents (`GetStats`, `LogStats`). The
library behind `PeerConnection`, in particular whether it tolerates being released from inside its own
`OnConnectionChange`. Playout, of which the device keeps only flags. The room server and
the websocket server, except for what the clients see of them. The build files. A
join that the server has granted when the timeout ends the call is in the
model (`membership` is "member", `joined` is "none"): the controller cannot leave
a room it does not know of, and `CleanShutdown` does not ask it to. Nor does it ask that the server obeys the
request to delete the client: the program ignores the answer.

## Plan

In this order, done first:

1. `SignalingTypes`, `SignalingThread`, `SignalingClient`, `PeerConnectionClient`,
   `CallController`, `CallLifecycle`, `CallProperties` and their runs. Done.
2. `TypeOK` of the call (`CallHonestyProofs`). Done. `CallTimers` and its proof. Done.
3. `CallHonestyProofs`: `ExitHonest`, `FinishedIsFinal`, `ImplementsLifecycle`. Done.
4. `VideoSource`, `PeerMedia`, `SineDevice`, with `MediaProofs` and `SineProofs`. Done.
5. `ProcessEntry` and `ProcessProofs`: initialisation, destruction order. Done.
6. `SignalingCodec`, `TwoClients`, `RoomProofs`. Done.
7. `CallClosingProofs`: `NoStall`, `LeavesLast`, `NoCandidateAfterBye`, `ConnectionLive`,
   `CleanShutdown`. Done.
8. `CallNegotiationProofs`: `RegistersOnce`, `AlwaysEnding`, `OneContinuation`,
   `CandidatesInOrder`, `RoomMessagesInOrder`. Done. `InTune` in `SineProofs`. Done.
9. Left: the hazards without a property (a join granted too late, a client that the room server does not delete, a candidate whose send fails, the
   connection's own callback during `Close`) once a document says what is meant.
