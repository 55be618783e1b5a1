--------------------------- MODULE SignalingClient ---------------------------
(* AppRtcSignalingClient: a network thread that runs the controller's requests *)
(* in order (HTTP requests to the room server, websocket sends) and the        *)
(* websocket's own thread, which reports events.  Both post their results to   *)
(* the signaling thread; mutex_ guards websocket_open_ and closing_.           *)
EXTENDS SignalingThread

CONSTANTS
  JoinQueues,     \* the "messages" arrays a join response may carry
  MaxInbound,     \* bound: messages received on the websocket
  MaxCandidates,  \* bound: remote candidates
  MaxOpens        \* bound: times the websocket opens

CandidateIds(raw) ==
  {raw[k].id : k \in {l \in DOMAIN raw : raw[l].type = "candidate"}}

(* The candidates of a join response are the first ones received: in the order *)
(* of the response they are 1, 2 and so on.                                    *)
NumberedInOrder(raw) ==
  /\ \A n \in CandidateIds(raw) : n # 0 /\ 1..n \subseteq CandidateIds(raw)
  /\ \A k, l \in DOMAIN raw :
       k < l /\ raw[k].type = "candidate" /\ raw[l].type = "candidate" =>
         raw[k].id < raw[l].id

ASSUME ClientAssumption ==
  /\ JoinQueues \subseteq Seq(RawMessage)
  /\ \A raw \in JoinQueues : NumberedInOrder(raw)
  /\ MaxInbound \in Nat /\ MaxCandidates \in Nat /\ MaxOpens \in Nat

VARIABLES
  net,            \* requests posted to the network thread, oldest first
  socket,         \* ix::WebSocket, which reconnects by itself when it closes
  websocketOpen,  \* websocket_open_
  closing,        \* closing_
  membership,     \* this client's place in the room: see Memberships
  arrived,        \* ids of the candidates received so far
  heard,          \* messages received on the websocket so far
  opens           \* times the websocket has opened

socketVars ==
  <<socket, websocketOpen, closing, membership, arrived, heard, opens>>
clientVars == <<net, socketVars>>

(* "none": the join has not been answered.  "unknown": it has failed on this     *)
(* side, and the server may count the client or not.  "member": it was granted. *)
(* "asked": the server has been asked to delete the client, with what result is *)
(* not looked at.  "nameless": the join response had not all that the request   *)
(* needs (wss_post_url, room_id, client_id), so that it is left out.            *)
Released == {"asked", "nameless"}
Memberships == {"none", "unknown", "member"} \cup Released

Request ==
  [op : {"join", "connect", "register", "close", "stop"}]
    \cup [op : {"post", "send"}, what : Payloads]

JoinRequest == [op |-> "join"]
ConnectRequest == [op |-> "connect"]
RegisterRequest == [op |-> "register"]
CloseRequest == [op |-> "close"]

(* The initiator sends through the room server, the other side through the     *)
(* websocket.                                                                  *)
SendRequest(role, payload) ==
  [op |-> IF role = "initiator" THEN "post" ELSE "send", what |-> payload]

ClientInit ==
  /\ net = <<>>
  /\ socket = "idle"
  /\ websocketOpen = FALSE
  /\ closing = FALSE
  /\ membership = "none"
  /\ arrived = {}
  /\ heard = 0
  /\ opens = 0

ClientTypeOK ==
  /\ net \in Seq(Request)
  /\ socket \in {"idle", "connecting", "open", "stopped"}
  /\ {websocketOpen, closing} \subseteq BOOLEAN
  /\ membership \in Memberships
  /\ arrived \subseteq Nat
  /\ heard \in Nat
  /\ opens \in Nat

(* -- the network thread ----------------------------------------------------- *)

(* Its next request is op; it drains its queue even after it is told to stop.  *)
Serving(op) ==
  /\ loop # "destroyed"
  /\ net # <<>>
  /\ Head(net).op = op

(* A join can fail after the server has granted it: the answer is lost, does   *)
(* not parse, or holds a pc_config that does not.                              *)
JoinRoom ==
  /\ Serving("join")
  /\ net' = Tail(net)
  /\ \/ /\ PostTask([kind |-> "joined", role |-> "none", msgs |-> <<>>])
        /\ membership' = "unknown"
        /\ UNCHANGED arrived
     \/ /\ \E role \in Roles, raw \in JoinQueues :
             /\ PostTask([kind |-> "joined", role |-> role, msgs |-> raw])
             /\ arrived' = CandidateIds(raw)
        /\ membership' = "member"
  /\ UNCHANGED <<timers, loop, socket, websocketOpen, closing, heard, opens>>

ConnectWebSocket ==
  /\ Serving("connect")
  /\ net' = Tail(net)
  /\ closing' = FALSE
  /\ websocketOpen' = FALSE
  /\ socket' = "connecting"
  /\ UNCHANGED <<threadVars, membership, arrived, heard, opens>>

(* A send fails at once when websocket_open_ is clear, and may fail otherwise: *)
(* the socket can close after the flag was read.                               *)
Register ==
  /\ Serving("register")
  /\ net' = Tail(net)
  /\ \E ok \in IF websocketOpen THEN BOOLEAN ELSE {FALSE} :
       PostTask([kind |-> "registered", ok |-> ok])
  /\ UNCHANGED <<timers, loop, socketVars>>

SendToRoom ==
  /\ Serving("post")
  /\ net' = Tail(net)
  /\ \E ok \in BOOLEAN :
       PostTask([kind |-> "sent", what |-> Head(net).what, ok |-> ok])
  /\ UNCHANGED <<timers, loop, socketVars>>

SendWebSocketMessage ==
  /\ Serving("send")
  /\ net' = Tail(net)
  /\ \E ok \in IF websocketOpen THEN BOOLEAN ELSE {FALSE} :
       PostTask([kind |-> "sent", what |-> Head(net).what, ok |-> ok])
  /\ UNCHANGED <<timers, loop, socketVars>>

(* CloseAsync's task in two steps: the flags are set under the mutex, then the *)
(* websocket is stopped and the room server asked to delete the client, if the *)
(* join response says whom.  Between them the websocket's thread still reports *)
(* events.                                                                     *)
CloseMarks ==
  /\ Serving("close")
  /\ net' = [net EXCEPT ![1] = [op |-> "stop"]]
  /\ closing' = TRUE
  /\ websocketOpen' = FALSE
  /\ UNCHANGED <<threadVars, socket, membership, arrived, heard, opens>>

CloseStops ==
  /\ Serving("stop")
  /\ net' = Tail(net)
  /\ socket' = "stopped"
  /\ websocketOpen' = FALSE
  /\ membership' \in Released
  /\ UNCHANGED <<threadVars, closing, arrived, heard, opens>>

NetworkStep ==
  \/ JoinRoom
  \/ ConnectWebSocket
  \/ Register
  \/ SendToRoom
  \/ SendWebSocketMessage
  \/ CloseMarks
  \/ CloseStops

(* -- the websocket's thread ------------------------------------------------- *)

WebSocketOpens ==
  /\ socket = "connecting"
  /\ opens < MaxOpens
  /\ opens' = opens + 1
  /\ socket' = "open"
  /\ websocketOpen' = TRUE
  /\ PostTask([kind |-> "opened"])
  /\ UNCHANGED <<timers, loop, net, closing, membership, arrived, heard>>

(* Faulty variant: the closing of the websocket is not reported.               *)
WebSocketClosesSilently ==
  /\ socket = "open"
  /\ socket' = "connecting"
  /\ websocketOpen' = FALSE
  /\ UNCHANGED <<threadVars, net, closing, membership, arrived, heard, opens>>

WebSocketCloses ==
  /\ socket = "open"
  /\ socket' = "connecting"
  /\ websocketOpen' = FALSE
  /\ IF closing THEN UNCHANGED tasks ELSE PostTask([kind |-> "error"])
  /\ UNCHANGED <<timers, loop, net, closing, membership, arrived, heard, opens>>

(* A connection attempt fails and will be repeated.  Bound: one queued error.  *)
WebSocketFails ==
  /\ socket = "connecting"
  /\ \A k \in DOMAIN tasks : tasks[k].kind # "error"
  /\ websocketOpen' = FALSE
  /\ PostTask([kind |-> "error"])
  /\ UNCHANGED <<timers, loop, net, socket, closing, membership, arrived, heard,
                 opens>>

(* A message: the smallest unused id names a candidate.                        *)
WebSocketMessage ==
  /\ socket = "open"
  /\ heard < MaxInbound
  /\ heard' = heard + 1
  /\ \E message \in [type : MessageTypes, id : 0..MaxCandidates] :
       /\ IF message.type = "candidate"
            THEN /\ message.id \notin arrived \cup {0}
                 /\ 1..(message.id - 1) \subseteq arrived
                 /\ arrived' = arrived \cup {message.id}
            ELSE message.id = 0 /\ UNCHANGED arrived
       /\ PostTask([kind |-> "inbound", msg |-> message])
  /\ UNCHANGED <<timers, loop, net, socket, websocketOpen, closing, membership,
                 opens>>

(* Text that does not parse, or a server error.                                *)
WebSocketBadMessage ==
  /\ socket = "open"
  /\ heard < MaxInbound
  /\ heard' = heard + 1
  /\ PostTask([kind |-> "error"])
  /\ UNCHANGED <<timers, loop, net, socket, websocketOpen, closing, membership,
                 arrived, opens>>

WebSocketEvent ==
  /\ HasRoom
  /\ \/ WebSocketOpens
     \/ WebSocketCloses
     \/ WebSocketFails
     \/ WebSocketMessage
     \/ WebSocketBadMessage
=============================================================================
