--------------------------- MODULE CallController ---------------------------
(* CallController: the call's state machine.  All its handlers run as tasks of *)
(* the signaling thread; it drives the signaling client and the peer           *)
(* connection client, and both answer with tasks.  The specification composes  *)
(* the three components and the thread.                                        *)
EXTENDS SignalingClient, PeerConnectionClient

CONSTANT MaxStats  \* bound: times the statistics timer fires

ASSUME ControllerAssumption == MaxStats \in Nat

VARIABLES
  state,            \* state_, reported only
  joined,           \* join_response_: "none" or this client's role
  neg,              \* the negotiation: see Negotiation
  peerConnected,    \* peer_connected_
  remoteMediaSeen,  \* remote_media_seen_
  callEstablished,  \* call_established_
  finished,         \* finished_
  exitCode,         \* exit_code_
  startupGen,       \* startup_timeout_generation_
  durationGen       \* call_duration_generation_

mediaVars == <<peerConnected, remoteMediaSeen, callEstablished>>
finishVars == <<finished, exitCode, startupGen, durationGen, loop>>
vars == <<threadVars, clientVars, peer, state, joined, neg, mediaVars,
          finished, exitCode, startupGen, durationGen>>

(* pending_signaling_messages_, negotiation_ready_,                            *)
(* signaling_action_in_flight_, offer_started_                                 *)
Negotiation == [queue : Seq(Message), ready : BOOLEAN, busy : BOOLEAN,
                offered : BOOLEAN]

CallStates == {"starting", "joining", "connecting", "registering",
               "negotiating", "connected", "stopping", "finished"}

Init ==
  /\ ThreadInit
  /\ ClientInit
  /\ PeerInit
  /\ state = "starting"
  /\ joined = "none"
  /\ neg = [queue |-> <<>>, ready |-> FALSE, busy |-> FALSE, offered |-> FALSE]
  /\ peerConnected = FALSE
  /\ remoteMediaSeen = FALSE
  /\ callEstablished = FALSE
  /\ finished = FALSE
  /\ exitCode = RuntimeFailed
  /\ startupGen = 0
  /\ durationGen = 0

TypeOK ==
  /\ ThreadTypeOK
  /\ ClientTypeOK
  /\ PeerTypeOK
  /\ state \in CallStates
  /\ joined \in Roles \cup {"none"}
  /\ neg \in Negotiation
  /\ {peerConnected, remoteMediaSeen, callEstablished, finished} \subseteq BOOLEAN
  /\ exitCode \in ExitCodes
  /\ startupGen \in Nat
  /\ durationGen \in Nat

(* -- ending the call --------------------------------------------------------- *)

(* The task goes on without ending the call.                                   *)
Continue ==
  /\ tasks' = Tail(tasks)
  /\ UNCHANGED finishVars

(* Faulty variant: the room is not left.                                       *)
CompleteFinishStaying(reason, role, p) ==
  /\ peer' = Close(p)
  /\ net' = net
  /\ exitCode' = ExitCodeForReason[reason]
  /\ state' = "finished"
  /\ loop' = "quit"
  /\ tasks' = Tail(tasks)

(* The peer connection is closed, leaving the room is posted, the loop told to *)
(* quit.  A frame can read the new safety flag in between and post a task.     *)
CompleteFinish(reason, role, p) ==
  /\ peer' = Close(p)
  /\ net' = IF role = "none" THEN net ELSE Append(net, CloseRequest)
  /\ exitCode' = ExitCodeForReason[reason]
  /\ state' = "finished"
  /\ loop' = "quit"
  /\ \/ tasks' = Tail(tasks)
     \/ p.sink /\ tasks' = Append(Tail(tasks), [kind |-> "frame", flag |-> p.flag + 1])

(* Faulty variant: finished_ is not consulted.                                 *)
FinishAgain(reason, role, p) ==
  /\ finished' = TRUE
  /\ startupGen' = startupGen + 1
  /\ durationGen' = durationGen + 1
  /\ IF reason = "LocalDurationReached" /\ role # "none"
       THEN /\ state' = "stopping"
            /\ net' = Append(net, SendRequest(role, "bye"))
            /\ peer' = p
            /\ tasks' = Tail(tasks)
            /\ UNCHANGED <<exitCode, loop>>
       ELSE CompleteFinish(reason, role, p)

(* role and p are join_response_ and the peer client as the handler leaves     *)
(* them.  After LocalDurationReached the bye's completion ends the call.       *)
Finish(reason, role, p) ==
  \/ finished /\ Continue /\ peer' = p /\ UNCHANGED <<net, state>>
  \/ /\ ~finished
     /\ finished' = TRUE
     /\ startupGen' = startupGen + 1
     /\ durationGen' = durationGen + 1
     /\ IF reason = "LocalDurationReached" /\ role # "none"
          THEN /\ state' = "stopping"
               /\ net' = Append(net, SendRequest(role, "bye"))
               /\ peer' = p
               /\ tasks' = Tail(tasks)
               /\ UNCHANGED <<exitCode, loop>>
          ELSE CompleteFinish(reason, role, p)

(* The handler returns early.                                                  *)
Ignore ==
  /\ Continue
  /\ UNCHANGED <<net, timers, peer, state, joined, neg, mediaVars>>

(* -- negotiation ------------------------------------------------------------- *)

StartNegotiating(n, p, step) ==
  /\ neg' = [n EXCEPT !.busy = TRUE]
  /\ peer' = Start(p, step)
  /\ state' = "negotiating"
  /\ UNCHANGED net
  /\ Continue

(* An offer or an answer: its text may not parse, which is reported at once.   *)
ApplyDescription(n, p, step) ==
  \/ StartNegotiating(n, p, step)
  \/ neg' = n /\ Finish("PeerConnectionError", joined, p)

(* The front of the queue, n.queue, is not a candidate.                        *)
PumpNext(n, p) ==
  LET rest == [n EXCEPT !.queue = Tail(@)]
      Front(type) == n.queue # <<>> /\ Head(n.queue).type = type
  IN  \/ /\ n.queue = <<>>
         /\ joined = "initiator" /\ ~n.offered
         /\ StartNegotiating([n EXCEPT !.offered = TRUE], p, "createOffer")
      \/ /\ n.queue = <<>>
         /\ joined # "initiator" \/ n.offered
         /\ neg' = n /\ peer' = p
         /\ UNCHANGED <<net, state>>
         /\ Continue
      \/ /\ Front("bye")
         /\ neg' = rest
         /\ Finish(IF callEstablished THEN "RemoteByeAfterEstablished"
                                      ELSE "RemoteByeBeforeEstablished", joined, p)
      \/ Front("answer") /\ ApplyDescription(rest, p, "setRemoteAnswer")
      \/ Front("offer") /\ ApplyDescription(rest, p, "setRemoteOffer")
      \/ Front("unknown") /\ neg' = rest /\ Finish("SignalingError", joined, p)

IsCandidate(message) == message.type = "candidate"

(* Faulty variant: the action in flight is not waited for.                     *)
PumpInFlight(n, p) ==
  \/ /\ finished \/ ~n.ready \/ joined = "none" \/ Len(n.queue) > 1
     /\ neg' = n /\ peer' = p
     /\ UNCHANGED <<net, state>>
     /\ Continue
  \/ /\ ~finished /\ n.ready /\ joined # "none" /\ Len(n.queue) <= 1
     /\ PumpNext(n, p)

(* PumpSignalingMessages, called with negotiation n and peer client p: the     *)
(* candidates at the front are added, then one more message or the first offer *)
(* is handled.  A candidate can be refused once the remote description is set. *)
PumpSignalingMessages(n, p) ==
  \/ /\ finished \/ ~n.ready \/ n.busy \/ joined = "none"
     /\ neg' = n /\ peer' = p
     /\ UNCHANGED <<net, state>>
     /\ Continue
  \/ /\ ~finished /\ n.ready /\ ~n.busy /\ joined # "none"
     /\ \E k \in 0..Len(n.queue) :
          LET ids == [l \in 1..k |-> n.queue[l].id]
              After(l) == [n EXCEPT !.queue = SubSeq(@, l, Len(@))]
              added == AddRemoteCandidates(p, ids)
              more == k < Len(n.queue) /\ IsCandidate(n.queue[k + 1])
          IN  /\ \A l \in 1..k : IsCandidate(n.queue[l])
              /\ \/ ~more /\ PumpNext(After(k + 1), added)
                 \/ /\ more /\ p.described
                    /\ neg' = After(k + 2)
                    /\ Finish("PeerConnectionError", joined, added)

(* The action in flight has ended, well or not.                                *)
Settled == [neg EXCEPT !.busy = FALSE]

(* SendLocalDescription does not look at finished_.                            *)
SendLocalDescription ==
  /\ net' = Append(net, SendRequest(joined, "description"))
  /\ UNCHANGED <<neg, peer, state>>
  /\ Continue

(* -- the process ------------------------------------------------------------- *)

(* Faulty variant: no startup timeout.                                         *)
StartCallUntimed ==
  /\ loop = "starting"
  /\ loop' = "running"
  /\ state' = "joining"
  /\ startupGen' = startupGen + 1
  /\ net' = Append(net, JoinRequest)
  /\ UNCHANGED <<tasks, timers, socketVars, peer, joined, neg, mediaVars, finished,
                 exitCode, durationGen>>

(* Run calls Start, then ProcessMessages.                                      *)
StartCall ==
  /\ loop = "starting"
  /\ loop' = "running"
  /\ state' = "joining"
  /\ startupGen' = startupGen + 1
  /\ timers' = timers \cup {[kind |-> "startup", gen |-> startupGen + 1]}
  /\ net' = Append(net, JoinRequest)
  /\ UNCHANGED <<tasks, socketVars, peer, joined, neg, mediaVars, finished,
                 exitCode, durationGen>>

(* The queue is drained: Run returns exit_code_, ~PeerConnectionClient closes  *)
(* again, ~AppRtcSignalingClient sets closing_ and joins the network thread.   *)
ReturnFromRun ==
  /\ loop = "quit"
  /\ tasks = <<>>
  /\ loop' = "returned"
  /\ peer' = Close(peer)
  /\ closing' = TRUE
  /\ UNCHANGED <<tasks, timers, net, socket, websocketOpen, membership, arrived,
                 heard, opens, state, joined, neg, mediaVars, finished,
                 exitCode, startupGen, durationGen>>

(* The network thread has drained its queue; ~ix::WebSocket stops the socket.  *)
Destroy ==
  /\ loop = "returned"
  /\ net = <<>>
  /\ loop' = "destroyed"
  /\ socket' = IF socket = "idle" THEN "idle" ELSE "stopped"
  /\ websocketOpen' = FALSE
  /\ UNCHANGED <<tasks, timers, net, closing, membership, arrived, heard, opens,
                 peer, state, joined, neg, mediaVars, finished, exitCode,
                 startupGen, durationGen>>

(* -- signaling handlers ------------------------------------------------------ *)

OnJoinComplete ==
  /\ Running("joined")
  /\ \/ finished /\ Ignore
     \/ /\ ~finished
        /\ Head(tasks).role = "none"
        /\ Finish("SignalingError", joined, peer)
        /\ UNCHANGED <<joined, neg, timers, mediaVars>>
     \/ /\ ~finished
        /\ Head(tasks).role # "none"
        /\ joined' = Head(tasks).role
        /\ UNCHANGED <<timers, mediaVars>>
        /\ \/ neg' = neg /\ Finish("PeerConnectionError", joined', peer)
           \/ neg' = neg /\ Finish("MediaError", joined', Initialize(peer))
           \/ /\ \E queue \in QueuedOrders(Head(tasks).msgs) :
                   neg' = [neg EXCEPT !.queue = @ \o queue]
              /\ peer' = Initialize(peer)
              /\ state' = "connecting"
              /\ net' = Append(net, ConnectRequest)
              /\ Continue
  /\ UNCHANGED socketVars

OnWebSocketOpen ==
  /\ Running("opened")
  /\ \/ (finished \/ joined = "none") /\ Ignore
     \/ /\ ~finished /\ joined # "none"
        /\ state' = "registering"
        /\ net' = Append(net, RegisterRequest)
        /\ Continue
        /\ UNCHANGED <<timers, peer, joined, neg, mediaVars>>
  /\ UNCHANGED socketVars

(* stats_task_ is started where negotiation_ready_ is set and stopped where    *)
(* finished_ is set; neither is ever cleared.                                  *)
StatsRunning == neg.ready /\ ~finished

StatsTimers(n) == IF n <= MaxStats THEN {[kind |-> "stats", gen |-> n]} ELSE {}

OnRegisterComplete ==
  /\ Running("registered")
  /\ \/ finished /\ Ignore
     \/ /\ ~finished /\ ~Head(tasks).ok
        /\ Finish("SignalingError", joined, peer)
        /\ UNCHANGED <<neg, timers, joined, mediaVars>>
     \/ /\ ~finished /\ Head(tasks).ok
        /\ timers' = IF StatsRunning THEN timers ELSE timers \cup StatsTimers(1)
        /\ PumpSignalingMessages([neg EXCEPT !.ready = TRUE], peer)
        /\ UNCHANGED <<joined, mediaVars>>
  /\ UNCHANGED socketVars

OnInboundSignalingMessage ==
  /\ Running("inbound")
  /\ \/ finished /\ Ignore
     \/ /\ ~finished
        /\ PumpSignalingMessages([neg EXCEPT !.queue = Append(@, Head(tasks).msg)], peer)
        /\ UNCHANGED <<timers, joined, mediaVars>>
  /\ UNCHANGED socketVars

OnSignalingError ==
  /\ Running("error")
  /\ Finish("SignalingError", joined, peer)
  /\ UNCHANGED <<timers, socketVars, joined, neg, mediaVars>>

(* Faulty variant: the queue is not pumped again.                              *)
OnDescriptionSentNoPump ==
  /\ Running("sent") /\ Head(tasks).what = "description"
  /\ neg' = Settled
  /\ IF Head(tasks).ok
       THEN Continue /\ UNCHANGED <<net, state, peer>>
       ELSE Finish("SignalingError", joined, peer)
  /\ UNCHANGED <<timers, socketVars, joined, mediaVars>>

(* The completion of a description, of a candidate, or of the bye.             *)
OnDescriptionSent ==
  /\ Running("sent") /\ Head(tasks).what = "description"
  /\ IF Head(tasks).ok
       THEN PumpSignalingMessages(Settled, peer)
       ELSE neg' = Settled /\ Finish("SignalingError", joined, peer)
  /\ UNCHANGED <<timers, socketVars, joined, mediaVars>>

OnCandidateSent ==
  /\ Running("sent") /\ Head(tasks).what = "candidate"
  /\ \/ Head(tasks).ok /\ Ignore
     \/ /\ ~Head(tasks).ok
        /\ Finish("SignalingError", joined, peer)
        /\ UNCHANGED <<timers, joined, neg, mediaVars>>
  /\ UNCHANGED socketVars

OnByeSent ==
  /\ Running("sent") /\ Head(tasks).what = "bye"
  /\ CompleteFinish("LocalDurationReached", joined, peer)
  /\ UNCHANGED <<timers, socketVars, joined, neg, mediaVars, finished,
                 startupGen, durationGen>>

(* -- peer connection handlers ------------------------------------------------ *)

(* A task whose safety flag was reset is dropped.                              *)
DropDead ==
  /\ \E kind \in {"observer", "localCandidate", "connection", "frame"} : Running(kind)
  /\ ~Live(Head(tasks))
  /\ Ignore
  /\ UNCHANGED socketVars

RunningLive(kind) == Running(kind) /\ Live(Head(tasks))

(* An operation failed: its callback ends the action in flight and the call.   *)
OnStepFailed ==
  /\ RunningLive("observer") /\ ~Head(tasks).ok
  /\ neg' = Settled
  /\ Finish("PeerConnectionError", joined, peer)
  /\ UNCHANGED <<timers, socketVars, joined, mediaVars>>

(* createOffer and createAnswer go on with the local description.              *)
OnCreated ==
  /\ RunningLive("observer") /\ Head(tasks).ok
  /\ Head(tasks).step \in {"createOffer", "createAnswer"}
  /\ peer' = Start(peer, NextStep[Head(tasks).step])
  /\ Continue
  /\ UNCHANGED <<timers, clientVars, state, joined, neg, mediaVars>>

OnLocalDescriptionSet ==
  /\ RunningLive("observer") /\ Head(tasks).ok
  /\ Head(tasks).step \in {"setLocalOffer", "setLocalAnswer"}
  /\ SendLocalDescription
  /\ UNCHANGED <<timers, socketVars, joined, mediaVars>>

(* The buffered candidates are applied; an offer is then answered, an answer   *)
(* ends the action in flight.                                                  *)
OnRemoteDescriptionSet ==
  /\ RunningLive("observer") /\ Head(tasks).ok
  /\ LET step == Head(tasks).step
         flushed == FlushPendingRemoteCandidates(peer)
     IN  /\ step \in {"setRemoteOffer", "setRemoteAnswer"}
         /\ \/ /\ step = "setRemoteOffer"
               /\ peer' = Start(flushed, NextStep[step])
               /\ Continue
               /\ UNCHANGED <<net, state, neg>>
            \/ /\ step = "setRemoteAnswer"
               /\ PumpSignalingMessages(Settled, flushed)
            \/ /\ neg' = Settled
               /\ \E k \in 0..(Len(peer.buffered) - 1) :
                    Finish("PeerConnectionError", joined, FlushRefused(peer, k))
  /\ UNCHANGED <<timers, socketVars, joined, mediaVars>>

(* Faulty variant: finished_ is not consulted.                                 *)
OnIceCandidateLate ==
  /\ RunningLive("localCandidate")
  /\ joined # "none"
  /\ net' = Append(net, SendRequest(joined, "candidate"))
  /\ Continue
  /\ UNCHANGED <<timers, peer, state, joined, neg, mediaVars, socketVars>>

(* OnIceCandidate and OnLocalSignalingMessage; a candidate that cannot be      *)
(* serialised is skipped.                                                      *)
OnIceCandidate ==
  /\ RunningLive("localCandidate")
  /\ \/ Ignore
     \/ /\ ~finished /\ joined # "none"
        /\ net' = Append(net, SendRequest(joined, "candidate"))
        /\ Continue
        /\ UNCHANGED <<timers, peer, state, joined, neg, mediaVars>>
  /\ UNCHANGED socketVars

(* Faulty variant: the call has no maximum duration.                           *)
MarkUntimed ==
  LET marks == ~callEstablished /\ peerConnected' /\ remoteMediaSeen'
  IN  /\ callEstablished' = (callEstablished \/ marks)
      /\ startupGen' = IF marks THEN startupGen + 1 ELSE startupGen
      /\ state' = IF marks THEN "connected" ELSE state
      /\ tasks' = Tail(tasks)
      /\ UNCHANGED <<net, timers, finished, exitCode, loop, durationGen>>

(* The first time the peer is connected and has shown media: the startup       *)
(* timeout is cancelled and the call's duration starts.                        *)
MaybeMarkCallEstablished ==
  LET marks == ~callEstablished /\ peerConnected' /\ remoteMediaSeen'
  IN  /\ callEstablished' = (callEstablished \/ marks)
      /\ startupGen' = IF marks THEN startupGen + 1 ELSE startupGen
      /\ durationGen' = IF marks THEN durationGen + 1 ELSE durationGen
      /\ state' = IF marks THEN "connected" ELSE state
      /\ timers' = IF marks
           THEN timers \cup {[kind |-> "duration", gen |-> durationGen + 1]}
           ELSE timers
      /\ tasks' = Tail(tasks)
      /\ UNCHANGED <<net, finished, exitCode, loop>>

(* OnConnectionChange reports a change of connected_, then a failure.  Closing *)
(* the connection reports one more change, when finished_ is already set.      *)
OnConnectionChange ==
  /\ RunningLive("connection")
  /\ LET connected == Head(tasks).to = "connected"
         changed == peer.connected # connected
         noted == [peer EXCEPT !.connected = connected]
     IN  /\ peerConnected' = IF changed /\ ~finished THEN connected ELSE peerConnected
         /\ remoteMediaSeen' = remoteMediaSeen
         /\ \/ /\ Head(tasks).to = "failed"
               /\ Finish("PeerConnectionError", joined, noted)
               /\ UNCHANGED <<timers, callEstablished>>
            \/ /\ Head(tasks).to # "failed" /\ changed /\ ~finished
               /\ MaybeMarkCallEstablished
               /\ peer' = noted
            \/ /\ Head(tasks).to # "failed" /\ ~(changed /\ ~finished)
               /\ peer' = noted
               /\ Continue
               /\ UNCHANGED <<timers, net, state, callEstablished>>
  /\ UNCHANGED <<socketVars, joined, neg>>

(* Faulty variant: a frame counts after finished_ is set.                      *)
OnFrameLate ==
  /\ RunningLive("frame")
  /\ peer' = [peer EXCEPT !.seen = TRUE]
  /\ peerConnected' = peerConnected
  /\ remoteMediaSeen' = TRUE
  /\ MaybeMarkCallEstablished
  /\ UNCHANGED <<socketVars, joined, neg>>

(* Only the first frame is reported.                                           *)
OnFrame ==
  /\ RunningLive("frame")
  /\ peer' = [peer EXCEPT !.seen = TRUE]
  /\ peerConnected' = peerConnected
  /\ \/ /\ peer.seen \/ finished
        /\ Continue
        /\ UNCHANGED <<timers, net, state, remoteMediaSeen, callEstablished>>
     \/ /\ ~peer.seen /\ ~finished
        /\ remoteMediaSeen' = TRUE
        /\ MaybeMarkCallEstablished
  /\ UNCHANGED <<socketVars, joined, neg>>

(* -- timers ------------------------------------------------------------------ *)

(* Faulty variant: the startup timeout is never cancelled.                     *)
OnStartupTimeoutAlways ==
  /\ Running("startup")
  /\ Finish("StartupTimeout", joined, peer)
  /\ UNCHANGED <<timers, joined, neg, mediaVars, socketVars>>

OnStartupTimeout ==
  /\ Running("startup")
  /\ \/ /\ finished \/ Head(tasks).gen # startupGen \/ callEstablished
        /\ Ignore
     \/ /\ ~finished /\ Head(tasks).gen = startupGen /\ ~callEstablished
        /\ Finish("StartupTimeout", joined, peer)
        /\ UNCHANGED <<timers, joined, neg, mediaVars>>
  /\ UNCHANGED socketVars

OnCallDuration ==
  /\ Running("duration")
  /\ \/ /\ finished \/ Head(tasks).gen # durationGen \/ ~callEstablished
        /\ Ignore
     \/ /\ ~finished /\ Head(tasks).gen = durationGen /\ callEstablished
        /\ Finish("LocalDurationReached", joined, peer)
        /\ UNCHANGED <<timers, joined, neg, mediaVars>>
  /\ UNCHANGED socketVars

OnStats ==
  /\ Running("stats")
  /\ timers' = IF StatsRunning THEN timers \cup StatsTimers(Head(tasks).gen + 1)
                             ELSE timers
  /\ Continue
  /\ UNCHANGED <<clientVars, peer, state, joined, neg, mediaVars>>

(* -- the specification ------------------------------------------------------- *)

Dispatch ==
  \/ OnJoinComplete \/ OnWebSocketOpen \/ OnRegisterComplete
  \/ OnInboundSignalingMessage \/ OnSignalingError
  \/ OnDescriptionSent \/ OnCandidateSent \/ OnByeSent
  \/ DropDead \/ OnStepFailed \/ OnCreated
  \/ OnLocalDescriptionSet \/ OnRemoteDescriptionSet
  \/ OnIceCandidate \/ OnConnectionChange \/ OnFrame
  \/ OnStartupTimeout \/ OnCallDuration \/ OnStats

controlVars == <<state, joined, neg, mediaVars, finished, exitCode, startupGen,
                 durationGen>>

Network == NetworkStep /\ UNCHANGED <<peer, controlVars>>
WebSocket == WebSocketEvent /\ UNCHANGED <<peer, controlVars>>
Library == LibraryEvent /\ UNCHANGED <<clientVars, controlVars>>
Alarm(kind) == TimerDue(kind) /\ UNCHANGED <<clientVars, peer, controlVars>>

(* The process has ended.                                                      *)
Exited == loop = "destroyed" /\ UNCHANGED vars

Next ==
  \/ StartCall
  \/ Dispatch
  \/ Network
  \/ WebSocket
  \/ Library
  \/ \E kind \in TimerKinds : Alarm(kind)
  \/ ReturnFromRun
  \/ Destroy
  \/ Exited

(* Threads run, HTTP requests end (libcurl's 30 s limit) and delayed tasks     *)
(* become due.  Nothing is assumed of the websocket, the server or the peer.   *)
Fairness ==
  /\ WF_vars(StartCall)
  /\ WF_vars(Dispatch)
  /\ WF_vars(Network)
  /\ \A kind \in TimerKinds : WF_vars(Alarm(kind))
  /\ WF_vars(ReturnFromRun)
  /\ WF_vars(Destroy)

Spec == Init /\ [][Next]_vars
FairSpec == Spec /\ Fairness
=============================================================================
