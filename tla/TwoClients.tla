------------------------------ MODULE TwoClients ------------------------------
(* Two processes in one room, as tests/run_e2e.py starts them, each at the     *)
(* level of its call's phases.  What they send goes through the room server,   *)
(* which keeps it for a client that has not joined, or through its websocket   *)
(* server; both are external, as is the media's way between the two ends.      *)
EXTENDS SignalingTypes, SignalingCodec

VARIABLES
  role,         \* is_initiator of the join response, once there is one
  stage,        \* where each call is: see Stages
  dead,         \* the processes that were killed
  inRoom,       \* the clients the room server counts
  reason,       \* the reason the call ended for
  offered,      \* offer_started_
  inFlight,     \* signaling_action_in_flight_: a description is still to be sent
  described,    \* the descriptions that are set
  trickled,     \* a candidate has been found and sent
  connected,    \* peer_connected_
  seen,         \* remote_media_seen_
  established,  \* call_established_
  inbox,        \* pending_signaling_messages_
  wire,         \* the texts on their way to each client
  trouble       \* something failed, timed out, was lost or was killed

callVars == <<role, stage, reason, offered, inFlight, described, trickled,
              connected, seen, established, inbox>>
roomVars == <<callVars, dead, inRoom, wire, trouble>>

Ends == {"a", "b"}
Other(e) == IF e = "a" THEN "b" ELSE "a"

(* "joined": not yet registered.  "farewell": finished, the goodbye is handed   *)
(* to the network thread.  "parting": it is sent or has failed, which the      *)
(* controller does not know yet.                                               *)
Stages == {"absent", "joined", "ready", "farewell", "parting", "over"}

Both == {"local", "remote"}
Going(e) == e \notin dead /\ stage[e] \in {"joined", "ready"}
Ready(e) == e \notin dead /\ stage[e] = "ready"

RoomInit ==
  /\ role = [e \in Ends |-> "none"]
  /\ stage = [e \in Ends |-> "absent"]
  /\ dead = {}
  /\ inRoom = {}
  /\ reason = [e \in Ends |-> "none"]
  /\ offered = [e \in Ends |-> FALSE]
  /\ inFlight = [e \in Ends |-> FALSE]
  /\ described = [e \in Ends |-> {}]
  /\ trickled = [e \in Ends |-> FALSE]
  /\ connected = [e \in Ends |-> FALSE]
  /\ seen = [e \in Ends |-> FALSE]
  /\ established = [e \in Ends |-> FALSE]
  /\ inbox = [e \in Ends |-> <<>>]
  /\ wire = [e \in Ends |-> <<>>]
  /\ trouble = FALSE

(* -- the room (external) ---------------------------------------------------------*)

(* The first client in the room is the initiator; the answer says so with a    *)
(* boolean or a string.                                                        *)
InitiatorField(b) == {JsonBool(b), JsonString(IF b THEN "true" ELSE "false")}

(* What the websocket server passes on of a message.                           *)
Relay(text) == Object([msg |-> JsonString(text), error |-> JsonString("")])

(* A text for a client that is gone is dropped.                                *)
Posted(e, text) ==
  IF stage[Other(e)] = "over" \/ Other(e) \in dead THEN wire
  ELSE [wire EXCEPT ![Other(e)] = Append(@, text)]

(* The room may count a client whose join has failed on its side.  It may      *)
(* forget a client that leaves, and with it what it sent to nobody.            *)
Left(e, sent) ==
  \/ /\ inRoom' \in {inRoom, inRoom \cup {e}}
     /\ wire' = [sent EXCEPT ![e] = <<>>]
  \/ /\ inRoom' = inRoom \ {e}
     /\ wire' = [sent EXCEPT ![e] = <<>>,
                             ![Other(e)] = IF stage[Other(e)] = "absent" THEN <<>> ELSE @]

(* -- each call -------------------------------------------------------------------*)

(* Finish and CompleteFinish.  After these nothing of the call is used.        *)
End(e, why, sent) ==
  /\ stage' = [stage EXCEPT ![e] = "over"]
  /\ reason' = [reason EXCEPT ![e] = why]
  /\ inbox' = [inbox EXCEPT ![e] = <<>>]
  /\ inFlight' = [inFlight EXCEPT ![e] = FALSE]
  /\ Left(e, sent)
  /\ UNCHANGED <<role, dead, offered, described, trickled, connected, seen, established>>

(* The texts that wait in the room come with the join response.                *)
JoinRoom(e) ==
  /\ e \notin dead /\ stage[e] = "absent"
  /\ \E v \in InitiatorField(inRoom = {}) :
       role' = [role EXCEPT ![e] = IF ParseInitiatorField(v) THEN "initiator" ELSE "callee"]
  /\ stage' = [stage EXCEPT ![e] = "joined"]
  /\ inRoom' = inRoom \cup {e}
  /\ \E queued \in QueuedOrders([k \in DOMAIN wire[e] |-> ParseSignalingMessage(wire[e][k]).message]) :
       inbox' = [inbox EXCEPT ![e] = queued]
  /\ wire' = [wire EXCEPT ![e] = <<>>]
  /\ UNCHANGED <<dead, reason, offered, inFlight, described, trickled, connected,
                 seen, established, trouble>>

Register(e) ==
  /\ e \notin dead /\ stage[e] = "joined"
  /\ stage' = [stage EXCEPT ![e] = "ready"]
  /\ UNCHANGED <<role, dead, inRoom, reason, offered, inFlight, described, trickled,
                 connected, seen, established, inbox, wire, trouble>>

OnWebSocketMessage(e) ==
  /\ Ready(e)
  /\ wire[e] # <<>>
  /\ LET parsed == ParseEnvelope(Relay(Head(wire[e])))
         taken == [wire EXCEPT ![e] = Tail(@)]
     IN  IF parsed.ok
         THEN /\ inbox' = [inbox EXCEPT ![e] = Append(@, parsed.message)]
              /\ wire' = taken
              /\ UNCHANGED <<role, stage, dead, inRoom, reason, offered, inFlight,
                             described, trickled, connected, seen, established>>
         ELSE End(e, "SignalingError", taken)
  /\ UNCHANGED trouble

NextMessage(e, type) ==
  Ready(e) /\ ~inFlight[e] /\ inbox[e] # <<>> /\ Head(inbox[e]).type = type

(* Faulty variant: a goodbye is a success whenever it comes.                   *)
OnByeGladly(e) ==
  /\ NextMessage(e, "bye")
  /\ End(e, "RemoteByeAfterEstablished", wire)
  /\ UNCHANGED trouble

OnBye(e) ==
  /\ NextMessage(e, "bye")
  /\ End(e, IF established[e] THEN "RemoteByeAfterEstablished"
                              ELSE "RemoteByeBeforeEstablished", wire)
  /\ UNCHANGED trouble

OnCandidate(e) ==
  /\ NextMessage(e, "candidate")
  /\ inbox' = [inbox EXCEPT ![e] = Tail(@)]
  /\ UNCHANGED <<role, stage, dead, inRoom, reason, offered, inFlight, described,
                 trickled, connected, seen, established, wire, trouble>>

(* An offer is answered once its remote and local descriptions are set.        *)
OnOffer(e) ==
  /\ NextMessage(e, "offer")
  /\ inbox' = [inbox EXCEPT ![e] = Tail(@)]
  /\ described' = [described EXCEPT ![e] = Both]
  /\ inFlight' = [inFlight EXCEPT ![e] = TRUE]
  /\ UNCHANGED <<role, stage, dead, inRoom, reason, offered, trickled, connected,
                 seen, established, wire, trouble>>

OnAnswer(e) ==
  /\ NextMessage(e, "answer")
  /\ inbox' = [inbox EXCEPT ![e] = Tail(@)]
  /\ described' = [described EXCEPT ![e] = @ \cup {"remote"}]
  /\ UNCHANGED <<role, stage, dead, inRoom, reason, offered, inFlight, trickled,
                 connected, seen, established, wire, trouble>>

CreateOffer(e) ==
  /\ Ready(e) /\ ~inFlight[e] /\ inbox[e] = <<>>
  /\ role[e] = "initiator" /\ ~offered[e]
  /\ offered' = [offered EXCEPT ![e] = TRUE]
  /\ described' = [described EXCEPT ![e] = @ \cup {"local"}]
  /\ inFlight' = [inFlight EXCEPT ![e] = TRUE]
  /\ UNCHANGED <<role, stage, dead, inRoom, reason, trickled, connected, seen,
                 established, inbox, wire, trouble>>

Description(e) == [type |-> IF offered[e] THEN "offer" ELSE "answer", sdp |-> e]
Candidate(e) == [sdp_mid |-> "0", sdp_mline_index |-> 1, sdp |-> e]

(* A negotiation under way goes on until the connection is closed: its         *)
(* description may be sent before the goodbye or behind it.                    *)
SendLocalDescription(e) ==
  /\ e \notin dead /\ stage[e] \in {"ready", "farewell", "parting"}
  /\ inFlight[e]
  /\ inFlight' = [inFlight EXCEPT ![e] = FALSE]
  /\ wire' = Posted(e, SerializeSessionDescription(Description(e)))
  /\ UNCHANGED <<role, stage, dead, inRoom, reason, offered, described, trickled,
                 connected, seen, established, inbox, trouble>>

(* A candidate is found as soon as the local description is set, and may be    *)
(* sent before it.                                                             *)
SendCandidate(e) ==
  /\ Ready(e) /\ "local" \in described[e] /\ ~trickled[e]
  /\ trickled' = [trickled EXCEPT ![e] = TRUE]
  /\ wire' = Posted(e, SerializeIceCandidate(Candidate(e)))
  /\ UNCHANGED <<role, stage, dead, inRoom, reason, offered, inFlight, described,
                 connected, seen, established, inbox, trouble>>

Negotiated(e) == described[e] = Both /\ described[Other(e)] = Both

(* The two ends connect and see media independently of each other; what either *)
(* hears of it may be older than the end of the other.                         *)
OnConnected(e) ==
  /\ Ready(e) /\ Negotiated(e) /\ ~connected[e]
  /\ connected' = [connected EXCEPT ![e] = TRUE]
  /\ established' = [established EXCEPT ![e] = @ \/ seen[e]]
  /\ UNCHANGED <<role, stage, dead, inRoom, reason, offered, inFlight, described,
                 trickled, seen, inbox, wire, trouble>>

OnDisconnected(e) ==
  /\ Ready(e) /\ connected[e]
  /\ connected' = [connected EXCEPT ![e] = FALSE]
  /\ trouble' = TRUE
  /\ UNCHANGED <<role, stage, dead, inRoom, reason, offered, inFlight, described,
                 trickled, seen, established, inbox, wire>>

OnRemoteMedia(e) ==
  /\ Ready(e) /\ Negotiated(e) /\ ~seen[e]
  /\ seen' = [seen EXCEPT ![e] = TRUE]
  /\ established' = [established EXCEPT ![e] = @ \/ connected[e]]
  /\ UNCHANGED <<role, stage, dead, inRoom, reason, offered, inFlight, described,
                 trickled, connected, inbox, wire, trouble>>

(* Faulty variant: only the initiator limits the call.                         *)
OnCallDurationOfInitiator(e) ==
  /\ Ready(e) /\ established[e] /\ role[e] = "initiator"
  /\ stage' = [stage EXCEPT ![e] = "farewell"]
  /\ UNCHANGED <<role, dead, inRoom, reason, offered, inFlight, described, trickled,
                 connected, seen, established, inbox, wire, trouble>>

OnCallDuration(e) ==
  /\ Ready(e) /\ established[e]
  /\ stage' = [stage EXCEPT ![e] = "farewell"]
  /\ UNCHANGED <<role, dead, inRoom, reason, offered, inFlight, described, trickled,
                 connected, seen, established, inbox, wire, trouble>>

(* The network thread sends the goodbye, which may fail.                       *)
SendBye(e) ==
  /\ e \notin dead /\ stage[e] = "farewell"
  /\ stage' = [stage EXCEPT ![e] = "parting"]
  /\ \/ wire' = Posted(e, BuildByeMessage) /\ trouble' = trouble
     \/ wire' = wire /\ trouble' = TRUE
  /\ UNCHANGED <<role, dead, inRoom, reason, offered, inFlight, described, trickled,
                 connected, seen, established, inbox>>

(* The call ends whether or not the goodbye got through.                       *)
CompleteFinish(e) ==
  /\ e \notin dead /\ stage[e] = "parting"
  /\ End(e, "LocalDurationReached", wire)
  /\ UNCHANGED trouble

(* Faulty variant: a call that times out says goodbye as well.                 *)
OnStartupTimeoutWithBye(e) ==
  /\ Going(e) /\ ~established[e]
  /\ End(e, "StartupTimeout", Posted(e, BuildByeMessage))
  /\ trouble' = TRUE

OnStartupTimeout(e) ==
  /\ Going(e) /\ ~established[e]
  /\ End(e, "StartupTimeout", wire)
  /\ trouble' = TRUE

(* Joining, a request, the websocket, the peer connection or its media fail.   *)
Fail(e) ==
  /\ \/ e \notin dead /\ stage[e] = "absent" /\ End(e, "SignalingError", wire)
     \/ /\ Going(e)
        /\ \E why \in {"SignalingError", "PeerConnectionError"} : End(e, why, wire)
     \/ e \notin dead /\ stage[e] = "joined" /\ End(e, "MediaError", wire)
  /\ trouble' = TRUE

(* The process is killed: the room hears nothing of it.                        *)
Kill(e) ==
  /\ e \notin dead /\ stage[e] \notin {"absent", "over"}
  /\ dead' = dead \cup {e}
  /\ wire' = [wire EXCEPT ![e] = <<>>]
  /\ trouble' = TRUE
  /\ UNCHANGED <<callVars, inRoom>>

RoomNext ==
  \E e \in Ends :
    \/ JoinRoom(e) \/ Register(e) \/ OnWebSocketMessage(e)
    \/ OnBye(e) \/ OnCandidate(e) \/ OnOffer(e) \/ OnAnswer(e)
    \/ CreateOffer(e) \/ SendLocalDescription(e) \/ SendCandidate(e)
    \/ OnConnected(e) \/ OnDisconnected(e) \/ OnRemoteMedia(e)
    \/ OnCallDuration(e) \/ SendBye(e) \/ CompleteFinish(e) \/ OnStartupTimeout(e)
    \/ Fail(e) \/ Kill(e)

RoomSpec == RoomInit /\ [][RoomNext]_roomVars

(* Timers go off, and the request or the websocket message that carries a      *)
(* goodbye completes.  Neither messages nor media need ever arrive.            *)
FairRoomSpec ==
  /\ RoomSpec
  /\ \A e \in Ends :
       /\ WF_roomVars(OnCallDuration(e))
       /\ WF_roomVars(SendBye(e))
       /\ WF_roomVars(CompleteFinish(e))
       /\ WF_roomVars(OnStartupTimeout(e))

-----------------------------------------------------------------------------

(* What the other end can have meant by a message.                             *)
Meant(e) ==
  {[EmptyMessage EXCEPT !.type = t, !.sdp_type = t, !.sdp = e] : t \in {"offer", "answer"}}
    \cup {[EmptyMessage EXCEPT !.type = "candidate", !.candidate = e, !.sdp_mid = "0",
             !.sdp_mline_index = 1],
          [EmptyMessage EXCEPT !.type = "bye"]}

(* Every variable has its type; a message that waits to be handled is one that *)
(* the other end sent, with nothing lost on the way.                           *)
RoomTypeOK ==
  /\ role \in [Ends -> {"none", "initiator", "callee"}]
  /\ stage \in [Ends -> Stages]
  /\ dead \subseteq Ends
  /\ inRoom \subseteq Ends
  /\ reason \in [Ends -> TerminalReasons \cup {"none"}]
  /\ offered \in [Ends -> BOOLEAN]
  /\ inFlight \in [Ends -> BOOLEAN]
  /\ described \in [Ends -> SUBSET Both]
  /\ trickled \in [Ends -> BOOLEAN]
  /\ connected \in [Ends -> BOOLEAN]
  /\ seen \in [Ends -> BOOLEAN]
  /\ established \in [Ends -> BOOLEAN]
  /\ \A e \in Ends : \A k \in DOMAIN inbox[e] : inbox[e][k] \in Meant(Other(e))
  /\ trouble \in BOOLEAN

(* e says goodbye, or said it, because its call lasted its duration; it may    *)
(* have been killed before it could say why it ends.                           *)
HungUp(e) ==
  established[e] /\ (stage[e] = "parting" \/ reason[e] = "LocalDurationReached")

(* An end is hung up on only by one whose call was established and lasted its  *)
(* duration.  When nothing failed and nothing timed out, both ends report      *)
(* success but one that was hung up on before its own call was established.    *)
HangUpHonest ==
  \A e \in Ends :
    /\ reason[e] \in {"RemoteByeAfterEstablished", "RemoteByeBeforeEstablished"} =>
         HungUp(Other(e))
    /\ ~trouble /\ stage[e] = "over" =>
         \/ ExitCodeForReason[reason[e]] = Success
         \/ ~established[e] /\ reason[e] = "RemoteByeBeforeEstablished"

(* Each end's call, seen alone, is the one CallLifecycle promises.             *)
PhaseOf(e) ==
  CASE stage[e] = "over" -> "over"
    [] stage[e] \in {"farewell", "parting"} -> "farewell"
    [] OTHER -> IF established[e] THEN "established" ELSE "setup"

CodeOf(e) == IF stage[e] = "over" THEN ExitCodeForReason[reason[e]] ELSE RuntimeFailed

A == INSTANCE CallLifecycle WITH phase <- PhaseOf("a"), code <- CodeOf("a")
B == INSTANCE CallLifecycle WITH phase <- PhaseOf("b"), code <- CodeOf("b")

(* Both ends implement the lifecycle, whatever the other one does.             *)
BothLifecycles == A!LifecycleSpec /\ B!LifecycleSpec

(* Each end leaves in the end, even when the other is killed or its goodbye is  *)
(* lost.                                                                       *)
BothLeave ==
  \A e \in Ends : stage[e] \notin {"absent", "over"} ~> stage[e] = "over" \/ e \in dead

=============================================================================
