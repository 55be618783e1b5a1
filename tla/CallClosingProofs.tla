-------------------------- MODULE CallClosingProofs --------------------------
(* The call closes in order: what is asked of the network thread, the          *)
(* connection and the websocket when the call ends, and that no message waits  *)
(* for ever before it, for every value of the constants.                       *)
EXTENDS CallHonestyProofs

(* -- the inductive invariant -------------------------------------------------- *)

Leaving(request) == request.op \in {"close", "stop"}

(* Leaving is asked for when the loop is told to quit, behind everything else, *)
(* and it is done once nothing is left to serve.                               *)
LeftOnce ==
  /\ \A k \in DOMAIN net : Leaving(net[k]) => IsOver /\ k = Len(net)
  /\ \A k \in DOMAIN net : net[k].op = "stop" => k = 1 /\ closing
  /\ IsOver /\ joined # "none" =>
       IF net = <<>> THEN membership \in Released /\ closing ELSE Leaving(net[Len(net)])

(* Until the join is answered nothing but the join was asked for.              *)
NothingAsked ==
  joined = "none" =>
    /\ ~neg.ready
    /\ \A k \in DOMAIN net : net[k].op = "join"
    /\ \A k \in DOMAIN tasks : tasks[k].kind # "registered"
    /\ loop \in {"returned", "destroyed"} => closing

(* The connection is open from the join to the end of the loop; then no        *)
(* operation of it is under way and no outcome of one is live.                 *)
Connected ==
  /\ loop = "running" /\ joined # "none" => peer.connection = "open"
  /\ IsOver => peer.connection # "open" /\ peer.pending = {}
  /\ \A k \in DOMAIN tasks : tasks[k].kind = "observer" =>
       tasks[k].flag <= peer.flag /\ (IsOver => tasks[k].flag # peer.flag)

Stopped ==
  loop = "destroyed" =>
    net = <<>> /\ socket \in {"idle", "stopped"} /\ ~websocketOpen

ClosingInv ==
  HonestInv /\ LeftOnce /\ NothingAsked /\ Connected /\ Stopped
    /\ NoCandidateAfterBye /\ NoStall

(* -- what a handler does to the connection and the requests ------------------- *)

(* The peer client as a handler may leave it without ending the call.          *)
Usable(p) ==
  /\ p \in Peer /\ p.flag = peer.flag
  /\ loop = "quit" => p.connection # "open" /\ p.pending = {}
  /\ loop = "running" /\ joined # "none" => p.connection = "open"

Asks(request) ==
  /\ request \in Request /\ ~Leaving(request)
  /\ IsPayload(request, "candidate") => ~finished

(* The call goes on, or is draining its queue.                                 *)
Works ==
  /\ loop' = loop /\ peer'.flag = peer.flag
  /\ loop = "quit" => net' = net /\ peer'.connection # "open" /\ peer'.pending = {}
  /\ loop = "running" /\ joined' # "none" => peer'.connection = "open"
  /\ \/ net' = net
     \/ joined' # "none" /\ \E request : Asks(request) /\ net' = Append(net, request)

Closes ==
  /\ loop = "running" /\ loop' = "quit"
  /\ peer'.flag = peer.flag + 1 /\ peer'.connection # "open" /\ peer'.pending = {}
  /\ net' = IF joined' = "none" THEN net ELSE Append(net, CloseRequest)

Moves == Works \/ Closes

Moved ==
  /\ Moves /\ NoStall' /\ UNCHANGED socketVars
  /\ joined' = "none" => neg'.ready = neg.ready

(* A handler runs.                                                             *)
InTask == HasTask /\ loop \in {"running", "quit"}

(* -- the parts handlers share -------------------------------------------------- *)

LEMMA InTaskFacts ==
  ASSUME ClosingInv, InTask
  PROVE  /\ Usable(peer) /\ TypeOK /\ peer \in Peer /\ neg \in Negotiation
         /\ loop = "quit" => finished
         /\ neg.ready => joined # "none"
  <1>1. TypeOK /\ peer \in Peer /\ neg \in Negotiation
    BY TypeParts DEF ClosingInv, HonestInv
  <1>2. Usable(peer)
    BY <1>1 DEF ClosingInv, Connected, Usable, InTask, IsOver
  <1>3. loop = "quit" => finished
    BY DEF ClosingInv, HonestInv, CodeKnown
  <1> QED
    BY <1>1, <1>2, <1>3 DEF ClosingInv, NothingAsked

LEMMA ContinueWorks ==
  ASSUME InTask, Continue, Usable(peer'), joined' = joined, net' = net
  PROVE  Works
  BY DEF InTask, Continue, finishVars, Usable, Works

LEMMA AskWorks ==
  ASSUME InTask, Continue, Usable(peer'), joined' = joined, joined # "none",
         loop = "running", NEW request, Asks(request), net' = Append(net, request)
  PROVE  Works
  BY DEF InTask, Continue, finishVars, Usable, Works

LEMMA CompleteCloses ==
  ASSUME loop = "running", NEW p \in Peer, p.flag = peer.flag, NEW reason,
         NEW role, role = joined', CompleteFinish(reason, role, p)
  PROVE  Closes
  <1>1. /\ peer' = Close(p) /\ loop' = "quit"
        /\ net' = IF role = "none" THEN net ELSE Append(net, CloseRequest)
    BY DEF CompleteFinish
  <1>2. Close(p).flag = p.flag + 1 /\ Close(p).connection # "open" /\ Close(p).pending = {}
    BY DEF Close, Peer
  <1> QED
    BY <1>1, <1>2 DEF Closes

LEMMA FinishMoves ==
  ASSUME ClosingInv, InTask, NEW p, Usable(p), NEW reason, joined' = joined,
         Finish(reason, joined, p)
  PROVE  Moves /\ finished'
  <1>1. CASE finished /\ Continue /\ peer' = p /\ UNCHANGED <<net, state>>
    BY <1>1, ContinueWorks DEF Continue, finishVars, Moves
  <1>2. CASE ~finished
    <2>1. loop = "running" /\ p \in Peer /\ p.flag = peer.flag
      BY <1>2, InTaskFacts DEF InTask, Usable
    <2>2. finished' = TRUE
      BY <1>2 DEF Finish
    <2>3. CASE reason = "LocalDurationReached" /\ joined # "none"
      <3>1. /\ net' = Append(net, SendRequest(joined, "bye")) /\ peer' = p
            /\ UNCHANGED loop
        BY <1>2, <2>3 DEF Finish
      <3>2. Asks(SendRequest(joined, "bye"))
        BY <1>2, RequestType DEF Asks, Leaving, SendRequest, Payloads
      <3>3. Works
        BY <2>1, <2>3, <3>1, <3>2 DEF Works, Usable
      <3> QED
        BY <2>2, <3>3 DEF Moves
    <2>4. CASE ~(reason = "LocalDurationReached" /\ joined # "none")
      <3>1. CompleteFinish(reason, joined, p)
        BY <1>2, <2>4 DEF Finish
      <3> QED
        BY <2>1, <2>2, <3>1, CompleteCloses DEF Moves
    <2> QED
      BY <2>3, <2>4
  <1> QED
    BY <1>1, <1>2 DEF Finish

(* The handler leaves the negotiation alone.                                   *)
LEMMA QuietMoved ==
  ASSUME ClosingInv, Moves, UNCHANGED <<socketVars, joined, neg>>,
         finished => finished'
  PROVE  Moved
  BY DEF ClosingInv, NoStall, Moved

LEMMA IgnoreMoved ==
  ASSUME ClosingInv, InTask, Ignore, UNCHANGED socketVars PROVE Moved
  <1>1. /\ Continue /\ UNCHANGED <<net, peer, joined, neg>>
    BY DEF Ignore
  <1>2. Works
    <2>1. Usable(peer)
      BY InTaskFacts
    <2>2. Usable(peer')
      BY <1>1, <2>1 DEF Usable
    <2> QED
      BY <1>1, <2>2, ContinueWorks
  <1> QED
    BY <1>1, <1>2, QuietMoved DEF Moves, Continue, finishVars

(* A handler that at most ends the call, the negotiation settled or not.       *)
LEMMA FinishMoved ==
  ASSUME ClosingInv, InTask, NEW p, Usable(p), NEW reason, Finish(reason, joined, p),
         UNCHANGED <<socketVars, joined>>, neg' = neg \/ neg' = Settled
  PROVE  Moved
  <1>1. Moves /\ finished'
    BY FinishMoves
  <1>2. neg'.ready = neg.ready
    BY InTaskFacts DEF Settled, Negotiation
  <1>3. NoStall'
    BY <1>1 DEF NoStall
  <1> QED
    BY <1>1, <1>2, <1>3 DEF Moved

(* -- negotiation ------------------------------------------------------------- *)

(* A message was handled: the call has ended, an action is in flight, or there *)
(* is nothing left to do.                                                      *)
Flows ==
  \/ finished'
  \/ neg'.busy
  \/ neg'.queue = <<>> /\ (joined' = "initiator" => neg'.offered)

LEMMA StartMoves ==
  ASSUME ClosingInv, InTask, loop = "running", NEW n \in Negotiation, NEW p, Usable(p),
         NEW step \in Steps, StartNegotiating(n, p, step), joined' = joined
  PROVE  Moves /\ Flows
  <1>1. neg' = [n EXCEPT !.busy = TRUE] /\ peer' = Start(p, step) /\ net' = net /\ Continue
    BY DEF StartNegotiating
  <1>2. Usable(Start(p, step))
    <2>1. Start(p, step) \in Peer
      BY StartType DEF Usable
    <2>2. Start(p, step).flag = p.flag /\ Start(p, step).connection = p.connection
      BY DEF Start, Usable, Peer
    <2> QED
      BY <2>1, <2>2 DEF Usable
  <1>3. Usable(peer')
    BY <1>1, <1>2
  <1>4. neg'.busy
    BY <1>1 DEF Negotiation
  <1> QED
    BY <1>1, <1>3, <1>4, ContinueWorks DEF Moves, Flows

LEMMA ApplyMoves ==
  ASSUME ClosingInv, InTask, loop = "running", NEW n \in Negotiation, NEW p, Usable(p),
         NEW step \in Steps, ApplyDescription(n, p, step), joined' = joined
  PROVE  Moves /\ Flows
  BY StartMoves, FinishMoves DEF ApplyDescription, Flows

LEMMA NextMoves ==
  ASSUME ClosingInv, InTask, loop = "running", NEW n \in Negotiation, NEW p, Usable(p),
         PumpNext(n, p), joined' = joined
  PROVE  Moves /\ Flows
  <1> DEFINE rest == [n EXCEPT !.queue = Tail(@)]
             bye == IF callEstablished THEN "RemoteByeAfterEstablished"
                                       ELSE "RemoteByeBeforeEstablished"
  <1>1. CASE StartNegotiating([n EXCEPT !.offered = TRUE], p, "createOffer")
    <2>1. [n EXCEPT !.offered = TRUE] \in Negotiation
      BY DEF Negotiation
    <2> QED
      BY <1>1, <2>1, StartMoves DEF Steps
  <1>2. CASE /\ n.queue = <<>> /\ (joined # "initiator" \/ n.offered)
             /\ neg' = n /\ peer' = p /\ UNCHANGED net /\ Continue
    <2>1. Usable(peer')
      <3>1. peer' = p
        BY <1>2
      <3> QED
        BY <3>1
    <2>2. Flows
      BY <1>2 DEF Flows
    <2> QED
      BY <1>2, <2>1, <2>2, ContinueWorks DEF Moves
  <1>3. CASE Finish(bye, joined, p) \/ Finish("SignalingError", joined, p)
    BY <1>3, FinishMoves DEF Flows
  <1>4. CASE /\ n.queue # <<>>
             /\ \E step \in {"setRemoteAnswer", "setRemoteOffer"} :
                  ApplyDescription(rest, p, step)
    <2>1. rest \in Negotiation
      BY <1>4, RestType
    <2> HIDE DEF rest
    <2> QED
      BY <1>4, <2>1, ApplyMoves DEF Steps
  <1> QED
    BY <1>1, <1>2, <1>3, <1>4 DEF PumpNext

LEMMA PumpMoves ==
  ASSUME ClosingInv, InTask, NEW n \in Negotiation, NEW p, Usable(p),
         n.ready => joined # "none", PumpSignalingMessages(n, p), joined' = joined
  PROVE  Moves /\ NoStall' /\ (joined = "none" => neg' = n)
  <1>1. CASE /\ finished \/ ~n.ready \/ n.busy \/ joined = "none"
             /\ neg' = n /\ peer' = p /\ UNCHANGED <<net, state>> /\ Continue
    <2>1. Usable(peer')
      <3>1. peer' = p
        BY <1>1
      <3> QED
        BY <3>1
    <2>2. NoStall'
      BY <1>1 DEF NoStall, Continue, finishVars
    <2> QED
      BY <1>1, <2>1, <2>2, ContinueWorks DEF Moves
  <1>2. ASSUME ~finished, joined # "none", NEW k \in 0..Len(n.queue),
               LET ids == [l \in 1..k |-> n.queue[l].id]
                   After(l) == [n EXCEPT !.queue = SubSeq(@, l, Len(@))]
                   added == AddRemoteCandidates(p, ids)
               IN  \/ PumpNext(After(k + 1), added)
                   \/ Finish("PeerConnectionError", joined, added)
        PROVE  Moves /\ Flows
    <2> DEFINE ids == [l \in 1..k |-> n.queue[l].id]
               After(l) == [n EXCEPT !.queue = SubSeq(@, l, Len(@))]
               added == AddRemoteCandidates(p, ids)
    <2>1. n.queue \in Seq(Message) /\ Len(n.queue) \in Nat /\ k \in Nat
      BY LenProperties DEF Negotiation
    <2>2. \A l \in 1..k : n.queue[l].id \in Nat
      <3>1. \A l \in 1..k : n.queue[l] \in Message
        BY <2>1, ElementOfSeq
      <3> QED
        BY <3>1 DEF Message
    <2>3. ids \in Seq(Nat)
      <3>1. ids \in [1..k -> Nat]
        BY <2>2
      <3> QED
        BY <2>1, <3>1, SeqDef
    <2>4. Usable(added)
      <3> HIDE DEF ids
      <3>1. added \in Peer
        BY <2>3, AddType DEF Usable
      <3>2. /\ added.flag = p.flag /\ added.connection = p.connection
            /\ added.pending = p.pending
        BY DEF AddRemoteCandidates, Usable, Peer
      <3> HIDE DEF added
      <3> QED
        BY <3>1, <3>2 DEF Usable
    <2>5. After(k + 1) \in Negotiation
      <3>1. k + 1 \in Nat \ {0}
        BY <2>1
      <3> QED
        BY <3>1, AfterType
    <2>6. PumpNext(After(k + 1), added) \/ Finish("PeerConnectionError", joined, added)
      BY <1>2
    <2>7. loop = "running"
      BY <1>2, InTaskFacts DEF InTask
    <2> HIDE DEF added, After
    <2> QED
      BY <2>4, <2>5, <2>6, <2>7, NextMoves, FinishMoves DEF Flows
  <1>3. Flows => NoStall'
    BY DEF Flows, NoStall
  <1> QED
    BY <1>1, <1>2, <1>3 DEF PumpSignalingMessages

LEMMA PumpMoved ==
  ASSUME ClosingInv, InTask, NEW n \in Negotiation, NEW p, Usable(p),
         n.ready => joined # "none", joined = "none" => n.ready = neg.ready,
         PumpSignalingMessages(n, p), UNCHANGED <<socketVars, joined>>
  PROVE  Moved
  BY PumpMoves DEF Moved

(* -- the handlers ------------------------------------------------------------ *)

LEMMA DispatchedTask == ASSUME NEW kind, Running(kind) PROVE InTask /\ Head(tasks).kind = kind
  BY Dispatched DEF InTask

LEMMA OnJoinCompleteMoved == ClosingInv /\ OnJoinComplete => Moved
  <1> SUFFICES ASSUME ClosingInv, OnJoinComplete PROVE Moved
    OBVIOUS
  <1>1. InTask /\ Head(tasks).kind = "joined" /\ UNCHANGED socketVars
    BY DispatchedTask DEF OnJoinComplete
  <1>2. /\ joined = "none" /\ ~neg.ready
        /\ peer \in Peer /\ Initialize(peer) \in Peer
        /\ Usable(peer) /\ (~finished => loop = "running")
    BY <1>1, HeadFacts, InTaskFacts, InitializeType
    DEF InTask, ClosingInv, NothingAsked
  <1>3. /\ Initialize(peer).flag = peer.flag
        /\ Initialize(peer).connection = "open"
    BY <1>2 DEF Initialize, Peer
  <1>4. CASE Ignore
    BY <1>1, <1>4, IgnoreMoved
  <1>5. CASE Finish("SignalingError", joined, peer) /\ UNCHANGED <<joined, neg>>
    BY <1>1, <1>2, <1>5, FinishMoved
  <1>6. CASE /\ ~finished /\ joined' # "none" /\ neg' = neg
             /\ \/ Finish("PeerConnectionError", joined', peer)
                \/ Finish("MediaError", joined', Initialize(peer))
    <2>1. PICK reason \in {"PeerConnectionError", "MediaError"}, p \in Peer :
            p.flag = peer.flag /\ Finish(reason, joined', p)
      BY <1>2, <1>3, <1>6
    <2>2. CompleteFinish(reason, joined', p) /\ finished' = TRUE
      BY <1>6, <2>1 DEF Finish
    <2>3. Closes
      BY <1>2, <1>6, <2>1, <2>2, CompleteCloses
    <2> QED
      BY <1>1, <1>6, <2>2, <2>3 DEF Moved, Moves, NoStall
  <1>7. CASE /\ ~finished /\ joined' # "none"
             /\ \E queue : neg' = [neg EXCEPT !.queue = @ \o queue]
             /\ peer' = Initialize(peer)
             /\ net' = Append(net, ConnectRequest)
             /\ Continue
    <2>1. Asks(ConnectRequest)
      BY RequestType DEF Asks, Leaving, ConnectRequest, IsPayload
    <2>2. Works
      BY <1>2, <1>3, <1>7, <2>1 DEF Works, Continue, finishVars
    <2>3. ~neg'.ready
      BY <1>1, <1>2, <1>7, InTaskFacts DEF Negotiation
    <2> QED
      BY <1>1, <1>7, <2>2, <2>3 DEF Moved, Moves, NoStall
  <1> QED
    BY <1>4, <1>5, <1>6, <1>7 DEF OnJoinComplete

LEMMA OnWebSocketOpenMoved == ClosingInv /\ OnWebSocketOpen => Moved
  <1> SUFFICES ASSUME ClosingInv, OnWebSocketOpen PROVE Moved
    OBVIOUS
  <1>1. InTask /\ UNCHANGED socketVars
    BY DispatchedTask DEF OnWebSocketOpen
  <1>2. CASE Ignore
    BY <1>1, <1>2, IgnoreMoved
  <1>3. CASE /\ ~finished /\ joined # "none" /\ net' = Append(net, RegisterRequest)
             /\ Continue /\ UNCHANGED <<peer, joined, neg>>
    <2>1. Asks(RegisterRequest)
      BY RequestType DEF Asks, Leaving, RegisterRequest, IsPayload
    <2>2. loop = "running" /\ Usable(peer')
      BY <1>1, <1>3, InTaskFacts DEF InTask, Usable
    <2>3. Works
      BY <1>1, <1>3, <2>1, <2>2, AskWorks
    <2> QED
      BY <1>1, <1>3, <2>3, QuietMoved DEF Moves, Continue, finishVars
  <1> QED
    BY <1>2, <1>3 DEF OnWebSocketOpen

LEMMA OnRegisterCompleteMoved == ClosingInv /\ OnRegisterComplete => Moved
  <1> SUFFICES ASSUME ClosingInv, OnRegisterComplete PROVE Moved
    OBVIOUS
  <1>1. InTask /\ Head(tasks).kind = "registered" /\ UNCHANGED socketVars
    BY DispatchedTask DEF OnRegisterComplete
  <1>2. Usable(peer) /\ joined # "none"
    BY <1>1, InTaskFacts, HeadFacts DEF InTask, ClosingInv, NothingAsked
  <1>3. CASE Ignore
    BY <1>1, <1>3, IgnoreMoved
  <1>4. CASE Finish("SignalingError", joined, peer) /\ UNCHANGED <<joined, neg>>
    BY <1>1, <1>2, <1>4, FinishMoved
  <1>5. CASE /\ PumpSignalingMessages([neg EXCEPT !.ready = TRUE], peer)
             /\ UNCHANGED joined
    <2>1. [neg EXCEPT !.ready = TRUE] \in Negotiation
      BY <1>1, InTaskFacts DEF Negotiation
    <2> QED
      BY <1>1, <1>2, <1>5, <2>1, PumpMoved
  <1> QED
    BY <1>3, <1>4, <1>5 DEF OnRegisterComplete

LEMMA OnInboundMoved == ClosingInv /\ OnInboundSignalingMessage => Moved
  <1> SUFFICES ASSUME ClosingInv, OnInboundSignalingMessage PROVE Moved
    OBVIOUS
  <1>1. InTask /\ Head(tasks).kind = "inbound" /\ UNCHANGED socketVars
    BY DispatchedTask DEF OnInboundSignalingMessage
  <1>2. CASE Ignore
    BY <1>1, <1>2, IgnoreMoved
  <1>3. CASE /\ PumpSignalingMessages([neg EXCEPT !.queue = Append(@, Head(tasks).msg)], peer)
             /\ UNCHANGED joined
    <2> DEFINE n == [neg EXCEPT !.queue = Append(@, Head(tasks).msg)]
    <2>1. Append(neg.queue, Head(tasks).msg) \in Seq(Message)
      BY <1>1, TaskFields, InTaskFacts, AppendProperties DEF InTask, Negotiation
    <2>2. n \in Negotiation /\ n.ready = neg.ready
      BY <1>1, <2>1, InTaskFacts DEF Negotiation
    <2>3. Usable(peer) /\ (neg.ready => joined # "none")
      BY <1>1, InTaskFacts
    <2>4. PumpSignalingMessages(n, peer)
      BY <1>3
    <2> HIDE DEF n
    <2> QED
      BY <1>1, <1>3, <2>2, <2>3, <2>4, PumpMoved
  <1> QED
    BY <1>2, <1>3 DEF OnInboundSignalingMessage

LEMMA SettledFacts ==
  ASSUME ClosingInv, InTask
  PROVE  /\ Settled \in Negotiation /\ Settled.ready = neg.ready
         /\ neg.ready => joined # "none"
  <1>1. Settled \in Negotiation
    BY SettledType, InTaskFacts
  <1>2. Settled.ready = neg.ready
    BY InTaskFacts DEF Settled, Negotiation
  <1> QED
    BY <1>1, <1>2, InTaskFacts

LEMMA OnSignalingErrorMoved == ClosingInv /\ OnSignalingError => Moved
  BY DispatchedTask, InTaskFacts, FinishMoved DEF OnSignalingError

LEMMA OnSentMoved ==
  ClosingInv /\ (OnDescriptionSent \/ OnCandidateSent \/ OnByeSent) => Moved
  <1> SUFFICES ASSUME ClosingInv, OnDescriptionSent \/ OnCandidateSent \/ OnByeSent
               PROVE  Moved
    OBVIOUS
  <1>1. InTask /\ Head(tasks).kind = "sent" /\ UNCHANGED <<socketVars, joined>>
    BY DispatchedTask DEF OnDescriptionSent, OnCandidateSent, OnByeSent, Ignore
  <1>2. Usable(peer) /\ peer \in Peer
    BY <1>1, InTaskFacts
  <1>3. CASE OnDescriptionSent
    BY <1>1, <1>2, <1>3, SettledFacts, PumpMoved, FinishMoved DEF OnDescriptionSent
  <1>4. CASE OnCandidateSent
    BY <1>1, <1>2, <1>4, IgnoreMoved, FinishMoved DEF OnCandidateSent
  <1>5. CASE OnByeSent
    <2>1. loop = "running"
      BY <1>1, <1>5, HeadFacts DEF OnByeSent, IsSent, InTask, ClosingInv
    <2>2. CompleteFinish("LocalDurationReached", joined, peer) /\ joined' = joined
          /\ UNCHANGED <<neg, finished>>
      BY <1>5 DEF OnByeSent
    <2>3. Closes
      BY <1>2, <2>1, <2>2, CompleteCloses
    <2> QED
      BY <1>1, <2>2, <2>3, QuietMoved DEF Moves
  <1> QED
    BY <1>3, <1>4, <1>5

(* The outcome of an operation is live only while the loop runs.               *)
LEMMA LiveOutcome ==
  ASSUME ClosingInv, RunningLive("observer")
  PROVE  InTask /\ loop = "running" /\ joined # "none"
  <1>1. InTask /\ Head(tasks).kind = "observer" /\ Head(tasks).flag = peer.flag
    BY DispatchedTask DEF RunningLive, Live
  <1>2. 1 \in DOMAIN tasks /\ Head(tasks) = tasks[1] /\ joined # "none"
    BY <1>1, HeadFacts DEF InTask, ClosingInv
  <1> QED
    BY <1>1, <1>2 DEF ClosingInv, Connected, InTask, IsOver

LEMMA FlushUsable ==
  ASSUME ClosingInv, InTask
  PROVE  /\ Usable(FlushPendingRemoteCandidates(peer))
         /\ \A k \in 0..(Len(peer.buffered) - 1) : Usable(FlushRefused(peer, k))
  <1>1. peer \in Peer /\ Usable(peer)
    BY InTaskFacts
  <1>2. Usable(FlushPendingRemoteCandidates(peer))
    <2> DEFINE p == FlushPendingRemoteCandidates(peer)
    <2>1. p \in Peer
      BY <1>1, FlushType
    <2>2. p.flag = peer.flag /\ p.connection = peer.connection /\ p.pending = peer.pending
      BY <1>1 DEF FlushPendingRemoteCandidates, Peer
    <2> HIDE DEF p
    <2>3. Usable(p)
      BY <1>1, <2>1, <2>2 DEF Usable
    <2> QED
      BY <2>3 DEF p
  <1>3. ASSUME NEW k \in 0..(Len(peer.buffered) - 1) PROVE Usable(FlushRefused(peer, k))
    <2> DEFINE p == FlushRefused(peer, k)
    <2>1. p \in Peer
      BY <1>1, FlushRefusedType
    <2>2. p.flag = peer.flag /\ p.connection = peer.connection /\ p.pending = peer.pending
      BY <1>1 DEF FlushRefused, Peer
    <2> HIDE DEF p
    <2>3. Usable(p)
      BY <1>1, <2>1, <2>2 DEF Usable
    <2> QED
      BY <2>3 DEF p
  <1> QED
    BY <1>2, <1>3

(* The next operation of a chain starts.                                       *)
LEMMA StartGoesOn ==
  ASSUME ClosingInv, InTask, loop = "running", NEW p, Usable(p), NEW step \in Steps,
         peer' = Start(p, step), Continue, UNCHANGED <<net, socketVars, joined, neg>>
  PROVE  Moved
  <1>1. Start(p, step) \in Peer
    BY StartType DEF Usable
  <1>2. Start(p, step).flag = p.flag /\ Start(p, step).connection = p.connection
    BY DEF Start, Usable, Peer
  <1>3. Usable(peer')
    BY <1>1, <1>2 DEF Usable
  <1>4. Works
    BY <1>3, ContinueWorks
  <1> QED
    BY <1>4, QuietMoved DEF Moves, Continue, finishVars

LEMMA OnObserverMoved ==
  ClosingInv /\ (OnStepFailed \/ OnCreated \/ OnLocalDescriptionSet \/ OnRemoteDescriptionSet)
    => Moved
  <1> SUFFICES ASSUME ClosingInv, \/ OnStepFailed \/ OnCreated
                                  \/ OnLocalDescriptionSet \/ OnRemoteDescriptionSet
               PROVE  Moved
    OBVIOUS
  <1>1. InTask /\ loop = "running" /\ joined # "none"
    BY LiveOutcome
    DEF OnStepFailed, OnCreated, OnLocalDescriptionSet, OnRemoteDescriptionSet
  <1>2. Usable(peer)
    BY <1>1, InTaskFacts
  <1>3. CASE OnStepFailed
    BY <1>1, <1>2, <1>3, FinishMoved DEF OnStepFailed
  <1>4. CASE OnCreated
    <2>1. NextStep[Head(tasks).step] \in Steps
      BY <1>4 DEF OnCreated, NextStep, Steps
    <2> QED
      BY <1>1, <1>2, <1>4, <2>1, StartGoesOn DEF OnCreated, clientVars
  <1>5. CASE OnLocalDescriptionSet
    <2> DEFINE r == SendRequest(joined, "description")
    <2>1. Asks(r)
      BY RequestType DEF Asks, Leaving, SendRequest, Payloads, IsPayload
    <2>2. /\ net' = Append(net, r) /\ Continue
          /\ UNCHANGED <<socketVars, joined, neg, peer>>
      BY <1>5 DEF OnLocalDescriptionSet, SendLocalDescription
    <2> HIDE DEF r
    <2>3. Usable(peer')
      BY <1>2, <2>2 DEF Usable
    <2>4. Works
      BY <1>1, <2>1, <2>2, <2>3, AskWorks
    <2> QED
      BY <2>2, <2>4, QuietMoved DEF Moves, Continue, finishVars
  <1>6. CASE OnRemoteDescriptionSet
    <2> DEFINE flushed == FlushPendingRemoteCandidates(peer)
    <2>1. Usable(flushed) /\ UNCHANGED <<socketVars, joined>>
      BY <1>1, <1>6, FlushUsable DEF OnRemoteDescriptionSet
    <2>2. CASE /\ peer' = Start(flushed, NextStep["setRemoteOffer"]) /\ Continue
               /\ UNCHANGED <<net, neg>>
      <3>1. NextStep["setRemoteOffer"] \in Steps
        BY DEF NextStep, Steps
      <3> HIDE DEF flushed
      <3> QED
        BY <1>1, <2>1, <2>2, <3>1, StartGoesOn
    <2>3. CASE PumpSignalingMessages(Settled, flushed)
      <3> HIDE DEF flushed
      <3> QED
        BY <1>1, <2>1, <2>3, SettledFacts, PumpMoved
    <2>4. CASE /\ neg' = Settled
               /\ \E k \in 0..(Len(peer.buffered) - 1) :
                    Finish("PeerConnectionError", joined, FlushRefused(peer, k))
      BY <1>1, <2>1, <2>4, FlushUsable, FinishMoved
    <2> QED
      BY <1>6, <2>2, <2>3, <2>4 DEF OnRemoteDescriptionSet
  <1> QED
    BY <1>3, <1>4, <1>5, <1>6

LEMMA OnIceCandidateMoved == ClosingInv /\ (OnIceCandidate \/ DropDead) => Moved
  <1> SUFFICES ASSUME ClosingInv, OnIceCandidate \/ DropDead PROVE Moved
    OBVIOUS
  <1>1. InTask /\ UNCHANGED socketVars
    BY DispatchedTask DEF OnIceCandidate, DropDead, RunningLive
  <1>2. CASE Ignore
    BY <1>1, <1>2, IgnoreMoved
  <1>3. CASE /\ ~finished /\ joined # "none"
             /\ net' = Append(net, SendRequest(joined, "candidate"))
             /\ Continue /\ UNCHANGED <<peer, joined, neg>>
    <2> DEFINE r == SendRequest(joined, "candidate")
    <2>1. Asks(r)
      BY <1>3, RequestType DEF Asks, Leaving, SendRequest, Payloads
    <2>2. net' = Append(net, r)
      BY <1>3
    <2> HIDE DEF r
    <2>3. loop = "running" /\ Usable(peer')
      BY <1>1, <1>3, InTaskFacts DEF InTask, Usable
    <2>4. Works
      BY <1>1, <1>3, <2>1, <2>2, <2>3, AskWorks
    <2> QED
      BY <1>1, <1>3, <2>4, QuietMoved DEF Moves, Continue, finishVars
  <1> QED
    BY <1>2, <1>3 DEF OnIceCandidate, DropDead

(* The peer client only notes what was reported.                               *)
LEMMA NotedMoved ==
  ASSUME ClosingInv, InTask, Usable(peer'), tasks' = Tail(tasks),
         UNCHANGED <<net, socketVars, joined, neg, finished, loop>>
  PROVE  Moved
  <1>1. Works
    BY DEF InTask, Usable, Works
  <1> QED
    BY <1>1, QuietMoved DEF Moves

LEMMA OnConnectionChangeMoved == ClosingInv /\ OnConnectionChange => Moved
  <1> SUFFICES ASSUME ClosingInv, OnConnectionChange PROVE Moved
    OBVIOUS
  <1> DEFINE connected == Head(tasks).to = "connected"
             noted == [peer EXCEPT !.connected = connected]
  <1>1. InTask /\ UNCHANGED <<socketVars, joined, neg>>
    BY DispatchedTask DEF OnConnectionChange, RunningLive
  <1>2. Usable(peer) /\ peer \in Peer
    BY <1>1, InTaskFacts
  <1>3. Usable(noted)
    <2>1. noted \in Peer
      BY <1>1, InTaskFacts, NotedType
    <2>2. /\ noted.flag = peer.flag /\ noted.connection = peer.connection
          /\ noted.pending = peer.pending
      BY <1>2 DEF Peer
    <2> HIDE DEF noted
    <2> QED
      BY <1>2, <2>1, <2>2 DEF Usable
  <1> HIDE DEF noted
  <1>4. CASE Finish("PeerConnectionError", joined, noted)
    BY <1>1, <1>3, <1>4, FinishMoved
  <1>5. CASE (MaybeMarkCallEstablished \/ (Continue /\ net' = net)) /\ peer' = noted
    <2>1. Usable(peer')
      BY <1>3, <1>5
    <2> QED
      BY <1>1, <1>5, <2>1, NotedMoved DEF MaybeMarkCallEstablished, Continue, finishVars
  <1> QED
    BY <1>4, <1>5 DEF OnConnectionChange, noted

LEMMA OnFrameMoved == ClosingInv /\ OnFrame => Moved
  <1> SUFFICES ASSUME ClosingInv, OnFrame PROVE Moved
    OBVIOUS
  <1> DEFINE shown == [peer EXCEPT !.seen = TRUE]
  <1>1. InTask /\ UNCHANGED <<socketVars, joined, neg>> /\ peer' = shown
    BY DispatchedTask DEF OnFrame, RunningLive
  <1>2. Usable(peer) /\ peer \in Peer
    BY <1>1, InTaskFacts
  <1>3. /\ shown \in Peer /\ shown.flag = peer.flag
        /\ shown.connection = peer.connection /\ shown.pending = peer.pending
    BY <1>2 DEF Peer
  <1> HIDE DEF shown
  <1>4. Usable(peer')
    BY <1>1, <1>2, <1>3 DEF Usable
  <1>5. MaybeMarkCallEstablished \/ (Continue /\ net' = net)
    BY DEF OnFrame
  <1> QED
    BY <1>1, <1>4, <1>5, NotedMoved DEF MaybeMarkCallEstablished, Continue, finishVars

LEMMA OnTimerMoved ==
  ClosingInv /\ (OnStartupTimeout \/ OnCallDuration \/ OnStats) => Moved
  <1> SUFFICES ASSUME ClosingInv, OnStartupTimeout \/ OnCallDuration \/ OnStats PROVE Moved
    OBVIOUS
  <1>1. InTask /\ UNCHANGED socketVars
    BY DispatchedTask DEF OnStartupTimeout, OnCallDuration, OnStats, clientVars
  <1>2. Usable(peer)
    BY <1>1, InTaskFacts
  <1>3. CASE Ignore
    BY <1>1, <1>3, IgnoreMoved
  <1>4. CASE /\ \E reason : Finish(reason, joined, peer)
             /\ UNCHANGED <<joined, neg>>
    BY <1>1, <1>2, <1>4, FinishMoved
  <1>5. CASE Continue /\ UNCHANGED <<net, peer, joined, neg>>
    <2>1. Usable(peer')
      BY <1>2, <1>5 DEF Usable
    <2> QED
      BY <1>1, <1>5, <2>1, NotedMoved DEF Continue, finishVars
  <1> QED
    BY <1>3, <1>4, <1>5 DEF OnStartupTimeout, OnCallDuration, OnStats, clientVars

LEMMA DispatchMoved == ClosingInv /\ Dispatch => Moved
  BY OnJoinCompleteMoved, OnWebSocketOpenMoved, OnRegisterCompleteMoved, OnInboundMoved,
     OnSignalingErrorMoved, OnSentMoved, OnObserverMoved, OnIceCandidateMoved,
     OnConnectionChangeMoved, OnFrameMoved, OnTimerMoved
  DEF Dispatch

(* -- a handler keeps the invariant -------------------------------------------- *)

LEMMA AppendedNet ==
  ASSUME TypeOK, NEW r \in Request, net' = Append(net, r)
  PROVE  /\ Len(net) \in Nat /\ DOMAIN net = 1..Len(net)
         /\ Len(net') = Len(net) + 1 /\ DOMAIN net' = 1..(Len(net) + 1)
         /\ \A k \in 1..Len(net) : net'[k] = net[k]
         /\ net'[Len(net) + 1] = r /\ net' # <<>>
  <1>1. net \in Seq(Request)
    BY TypeParts
  <1>2. /\ Append(net, r) \in Seq(Request) /\ Len(Append(net, r)) = Len(net) + 1
        /\ \A k \in 1..Len(net) : Append(net, r)[k] = net[k]
        /\ Append(net, r)[Len(net) + 1] = r
    BY <1>1, AppendProperties
  <1>3. /\ Len(net) \in Nat /\ DOMAIN net = 1..Len(net)
        /\ DOMAIN Append(net, r) = 1..Len(Append(net, r))
    BY <1>1, <1>2, LenProperties
  <1>4. net' # <<>>
    BY <1>2, <1>3, EmptySeq
  <1> QED
    BY <1>2, <1>3, <1>4

(* What a handler appends is one request; a joined call may then close.        *)
LEMMA MovedNet ==
  ASSUME ClosingInv, Handled, Moved
  PROVE  \/ net' = net
         \/ /\ joined' # "none" /\ loop = "running"
            /\ \E r \in Request :
                 /\ net' = Append(net, r)
                 /\ IsPayload(r, "candidate") => ~finished
                 /\ Leaving(r) => loop' = "quit" /\ r.op = "close"
                 /\ loop' = "quit" => Leaving(r)
  <1>1. CASE Works
    BY <1>1 DEF Works, Asks, Handled
  <1>2. CASE Closes
    <2>1. CloseRequest \in Request /\ CloseRequest.op = "close"
      BY RequestType DEF CloseRequest
    <2> QED
      BY <1>2, <2>1 DEF Closes, Leaving, IsPayload
  <1> QED
    BY <1>1, <1>2 DEF Moved, Moves

LEMMA MovedLoop ==
  ASSUME ClosingInv, Handled, Moved
  PROVE  /\ (IsOver <=> loop = "quit") /\ (IsOver' <=> loop' = "quit")
         /\ loop' \in {"running", "quit"} /\ (loop = "quit" => loop' = "quit")
         /\ loop = "quit" => net' = net /\ joined' = joined
         /\ joined' = "none" => joined = "none" /\ net' = net
         /\ UNCHANGED <<closing, membership>>
  <1>1. loop = "quit" => joined' = joined
    BY DEF ClosingInv, HonestInv, CodeKnown, Handled, FinalKept
  <1>2. joined' = "none" => joined = "none"
    BY DEF Handled, JoinedKept
  <1>3. loop = "quit" => loop' = "quit" /\ net' = net
    BY DEF Moved, Moves, Works, Closes
  <1>4. joined' = "none" => net' = net
    BY MovedNet
  <1>5. loop \in {"running", "quit"} /\ loop' \in {"running", "quit"}
    BY DEF Handled, Moved, Moves, Works, Closes
  <1> QED
    BY <1>1, <1>2, <1>3, <1>4, <1>5 DEF IsOver, Moved, socketVars

LEMMA MovedLeftOnce == ASSUME ClosingInv, Handled, Moved PROVE LeftOnce'
  <1>1. CASE net' = net /\ loop' = loop
    <2>1. (IsOver' <=> IsOver) /\ (IsOver => joined' = joined) /\ UNCHANGED <<closing, membership>>
      BY <1>1, MovedLoop
    <2> QED
      BY <1>1, <2>1 DEF ClosingInv, LeftOnce, Leaving
  <1>2. CASE loop' # loop \/ net' # net
    <2>1. loop = "running"
      BY <1>2, MovedLoop DEF Handled
    <2>2. \A k \in DOMAIN net : ~Leaving(net[k])
      BY <2>1, MovedLoop DEF ClosingInv, LeftOnce
    <2>3. CASE net' = net
      <3>1. loop' = "quit" /\ Closes
        BY <1>2, <2>1, <2>3, MovedLoop DEF Moved, Moves, Works
      <3>2. joined' = "none"
        <4>1. net' # Append(net, CloseRequest)
          BY <2>3, AppendedNet, RequestType DEF ClosingInv, HonestInv
        <4> QED
          BY <3>1, <4>1 DEF Closes
      <3> QED
        BY <2>2, <2>3, <3>2 DEF LeftOnce, Leaving
    <2>4. CASE net' # net
      <3>1. PICK r \in Request :
              /\ net' = Append(net, r)
              /\ Leaving(r) => loop' = "quit" /\ r.op = "close"
              /\ loop' = "quit" => Leaving(r)
        BY <2>4, MovedNet
      <3>2. /\ Len(net) \in Nat /\ DOMAIN net = 1..Len(net)
            /\ Len(net') = Len(net) + 1 /\ DOMAIN net' = 1..(Len(net) + 1)
            /\ \A k \in 1..Len(net) : net'[k] = net[k]
            /\ net'[Len(net) + 1] = r /\ net' # <<>>
        BY <3>1, AppendedNet DEF ClosingInv, HonestInv
      <3>3. \A k \in DOMAIN net' : Leaving(net'[k]) => k = Len(net') /\ net'[k] = r
        BY <2>2, <3>2
      <3>4. \A k \in DOMAIN net' : net'[k].op # "stop"
        BY <3>1, <3>3 DEF Leaving
      <3>5. IsOver' => Leaving(net'[Len(net')])
        BY <3>1, <3>2, MovedLoop
      <3> QED
        BY <3>1, <3>2, <3>3, <3>4, <3>5, MovedLoop DEF LeftOnce, Leaving
    <2> QED
      BY <2>3, <2>4
  <1> QED
    BY <1>1, <1>2

LEMMA MovedNothingAsked ==
  ASSUME ClosingInv, HonestInv', Handled, Moved PROVE NothingAsked'
  <1> SUFFICES ASSUME joined' = "none"
               PROVE  /\ ~neg'.ready
                      /\ \A k \in DOMAIN net' : net'[k].op = "join"
                      /\ \A k \in DOMAIN tasks' : tasks'[k].kind # "registered"
                      /\ loop' \notin {"returned", "destroyed"}
    BY DEF NothingAsked
  <1>1. joined = "none" /\ net' = net /\ neg'.ready = neg.ready
    BY MovedLoop DEF Moved
  <1>2. \A k \in DOMAIN tasks' : tasks'[k].kind # "registered"
    BY <1>1, HandledTasks DEF ClosingInv, HonestInv, NothingAsked
  <1> QED
    BY <1>1, <1>2, MovedLoop DEF ClosingInv, NothingAsked

LEMMA ObserverFlag ==
  ASSUME TypeOK
  PROVE  /\ peer.flag \in Nat
         /\ \A k \in DOMAIN tasks : tasks[k].kind = "observer" => tasks[k].flag \in Nat
  <1>1. \A k \in DOMAIN tasks : tasks[k] \in Task
    BY TypeParts, ElementOfSeq, LenProperties
  <1> QED
    BY <1>1, TypeParts
    DEF Peer, Task, JoinedTask, InboundTask, SentTask, ObserverTask, ConnectionTask,
        Timer, TimerKinds

LEMMA MovedConnected ==
  ASSUME ClosingInv, HonestInv', Handled, Moved PROVE Connected'
  <1>1. loop' = "running" /\ joined' # "none" => peer'.connection = "open"
    BY DEF Moved, Moves, Works, Closes
  <1>2. IsOver' => peer'.connection # "open" /\ peer'.pending = {}
    BY MovedLoop DEF Moved, Moves, Works, Closes
  <1>3. ASSUME NEW k \in DOMAIN tasks', tasks'[k].kind = "observer"
        PROVE  tasks'[k].flag <= peer'.flag /\ (IsOver' => tasks'[k].flag # peer'.flag)
    <2>1. k + 1 \in DOMAIN tasks /\ tasks'[k] = tasks[k + 1]
      BY <1>3, HandledTasks DEF ClosingInv, HonestInv
    <2>2. /\ tasks'[k].flag \in Nat /\ peer.flag \in Nat
          /\ tasks'[k].flag <= peer.flag /\ (IsOver => tasks'[k].flag # peer.flag)
      BY <1>3, <2>1, ObserverFlag DEF ClosingInv, HonestInv, Connected
    <2>3. \/ peer'.flag = peer.flag /\ (IsOver' => IsOver)
          \/ peer'.flag = peer.flag + 1
      BY MovedLoop DEF Moved, Moves, Works, Closes
    <2> QED
      BY <2>2, <2>3
  <1> QED
    BY <1>1, <1>2, <1>3 DEF Connected

LEMMA MovedCandidates ==
  ASSUME ClosingInv, Handled, Moved PROVE NoCandidateAfterBye'
  <1>1. CASE net' = net
    BY <1>1 DEF ClosingInv, NoCandidateAfterBye, IsPayload
  <1>2. CASE net' # net
    <2>1. PICK r \in Request :
            net' = Append(net, r) /\ (IsPayload(r, "candidate") => ~finished)
      BY <1>2, MovedNet
    <2>2. /\ Len(net) \in Nat /\ DOMAIN net = 1..Len(net)
          /\ DOMAIN net' = 1..(Len(net) + 1)
          /\ \A k \in 1..Len(net) : net'[k] = net[k]
          /\ net'[Len(net) + 1] = r
      BY <2>1, AppendedNet DEF ClosingInv, HonestInv
    <2>3. ~finished => \A k \in DOMAIN net : ~IsPayload(net[k], "bye")
      BY DEF ClosingInv, HonestInv, ByeOnce
    <2>4. ASSUME NEW k \in DOMAIN net', NEW l \in DOMAIN net', k < l,
                 IsPayload(net'[k], "bye")
          PROVE  ~IsPayload(net'[l], "candidate")
      <3>1. k \in DOMAIN net /\ net'[k] = net[k]
        BY <2>2, <2>4
      <3>2. CASE l \in DOMAIN net
        <4>1. net'[l] = net[l]
          BY <2>2, <3>2
        <4> QED
          BY <2>4, <3>1, <3>2, <4>1 DEF ClosingInv, NoCandidateAfterBye
      <3>3. CASE l = Len(net) + 1
        BY <2>1, <2>2, <2>3, <2>4, <3>1, <3>3
      <3> QED
        BY <2>2, <3>2, <3>3
    <2> QED
      BY <2>4 DEF NoCandidateAfterBye, IsPayload
  <1> QED
    BY <1>1, <1>2

LEMMA DispatchClosing == ClosingInv /\ Dispatch => ClosingInv'
  <1> SUFFICES ASSUME ClosingInv, Dispatch PROVE ClosingInv'
    OBVIOUS
  <1>1. Handled /\ Moved
    BY DispatchHandled, DispatchMoved DEF ClosingInv
  <1>2. HonestInv'
    BY DispatchHonest DEF ClosingInv
  <1>3. Stopped'
    BY <1>1, MovedLoop DEF Stopped
  <1>4. NoStall'
    BY <1>1 DEF Moved
  <1> QED
    BY <1>1, <1>2, <1>3, <1>4, MovedLeftOnce, MovedNothingAsked, MovedConnected,
       MovedCandidates
    DEF ClosingInv

(* -- the other steps keep the invariant --------------------------------------- *)

(* An event reported by the websocket, the library or a timer.                 *)
LEMMA EventClosing ==
  ASSUME ClosingInv, HonestInv', NEW task \in Task,
         tasks' = tasks \/ tasks' = Append(tasks, task), task.kind # "registered",
         task.kind = "observer" => task.flag = peer.flag /\ (IsOver => tasks' = tasks),
         UNCHANGED <<net, joined, neg, finished, loop, closing, membership>>,
         peer'.flag = peer.flag, peer'.connection = peer.connection,
         peer'.pending \subseteq peer.pending, Stopped'
  PROVE  ClosingInv'
  <1>1. \A k \in DOMAIN tasks' :
          \/ k \in DOMAIN tasks /\ tasks'[k] = tasks[k]
          \/ tasks' # tasks /\ tasks'[k] = task
    BY PostedElements DEF ClosingInv, HonestInv
  <1>2. IsOver' <=> IsOver
    BY DEF IsOver
  <1>3. LeftOnce'
    BY <1>2 DEF ClosingInv, LeftOnce, Leaving
  <1>4. NothingAsked'
    BY <1>1 DEF ClosingInv, NothingAsked
  <1>5. Connected'
    <2>1. ASSUME NEW k \in DOMAIN tasks', tasks'[k].kind = "observer"
          PROVE  tasks'[k].flag <= peer'.flag /\ (IsOver' => tasks'[k].flag # peer'.flag)
      <3>1. CASE k \in DOMAIN tasks /\ tasks'[k] = tasks[k]
        BY <1>2, <2>1, <3>1 DEF ClosingInv, Connected
      <3>2. CASE tasks' # tasks /\ tasks'[k] = task
        BY <1>2, <2>1, <3>2, ObserverFlag DEF ClosingInv, HonestInv
      <3> QED
        BY <1>1, <3>1, <3>2
    <2>2. IsOver' => peer'.connection # "open" /\ peer'.pending = {}
      BY <1>2 DEF ClosingInv, Connected
    <2> QED
      BY <2>1, <2>2 DEF ClosingInv, Connected
  <1>6. NoCandidateAfterBye' /\ NoStall'
    BY DEF ClosingInv, NoCandidateAfterBye, NoStall, IsPayload
  <1> QED
    BY <1>3, <1>4, <1>5, <1>6 DEF ClosingInv

(* The network thread has taken its next request.                              *)
LEMMA ServedElements ==
  ASSUME TypeOK, net # <<>>, net' = Tail(net)
  PROVE  /\ Len(net) \in Nat \ {0} /\ DOMAIN net = 1..Len(net) /\ Head(net) = net[1]
         /\ Len(net') = Len(net) - 1 /\ DOMAIN net' = 1..(Len(net) - 1)
         /\ \A k \in 1..(Len(net) - 1) : net'[k] = net[k + 1]
         /\ net' = <<>> <=> Len(net) = 1
  <1>1. net \in Seq(Request)
    BY TypeParts
  <1>2. /\ Tail(net) \in Seq(Request) /\ Len(Tail(net)) = Len(net) - 1
        /\ Head(net) = net[1]
        /\ \A k \in 1..Len(Tail(net)) : Tail(net)[k] = net[k + 1]
    BY <1>1, HeadTailProperties
  <1>3. /\ Len(net) \in Nat /\ DOMAIN net = 1..Len(net) /\ Len(net) # 0
        /\ DOMAIN Tail(net) = 1..Len(Tail(net))
        /\ Tail(net) = <<>> <=> Len(Tail(net)) = 0
    BY <1>1, <1>2, LenProperties, EmptySeq
  <1> QED
    BY <1>2, <1>3

(* Serving a request reports its outcome and moves the others up.              *)
LEMMA ServedRest ==
  ASSUME ClosingInv, HonestInv', net # <<>>, net' = Tail(net), NEW task \in Task,
         tasks' = tasks \/ tasks' = Append(tasks, task), task.kind # "observer",
         task.kind = "registered" => Head(net).op = "register",
         UNCHANGED <<peer, joined, neg, finished, loop>>, loop # "destroyed",
         closing' = closing \/ Head(net).op = "connect"
  PROVE  NothingAsked' /\ Connected' /\ Stopped' /\ NoCandidateAfterBye' /\ NoStall'
  <1>1. \A k \in DOMAIN tasks' :
          \/ k \in DOMAIN tasks /\ tasks'[k] = tasks[k]
          \/ tasks'[k] = task
    BY PostedElements DEF ClosingInv, HonestInv
  <1>2. /\ Len(net) \in Nat \ {0} /\ DOMAIN net = 1..Len(net) /\ Head(net) = net[1]
        /\ DOMAIN net' = 1..(Len(net) - 1)
        /\ \A k \in 1..(Len(net) - 1) : net'[k] = net[k + 1]
    BY ServedElements DEF ClosingInv, HonestInv
  <1>3. \A k \in DOMAIN net' : k + 1 \in DOMAIN net /\ net'[k] = net[k + 1]
    BY <1>2
  <1>4. joined = "none" => Head(net).op = "join"
    BY <1>2 DEF ClosingInv, NothingAsked
  <1>5. NothingAsked'
    BY <1>1, <1>3, <1>4 DEF ClosingInv, NothingAsked
  <1>6. Connected'
    BY <1>1 DEF ClosingInv, Connected, IsOver
  <1>7. NoCandidateAfterBye'
    <2>1. ASSUME NEW k \in DOMAIN net', NEW l \in DOMAIN net', k < l,
                 IsPayload(net'[k], "bye")
          PROVE  ~IsPayload(net'[l], "candidate")
      <3>1. /\ k + 1 \in DOMAIN net /\ l + 1 \in DOMAIN net /\ k + 1 < l + 1
            /\ net'[k] = net[k + 1] /\ net'[l] = net[l + 1]
        BY <1>2, <2>1
      <3> QED
        BY <2>1, <3>1 DEF ClosingInv, NoCandidateAfterBye
    <2> QED
      BY <2>1 DEF NoCandidateAfterBye, IsPayload
  <1>8. Stopped' /\ NoStall'
    BY DEF ClosingInv, Stopped, NoStall
  <1> QED
    BY <1>5, <1>6, <1>7, <1>8

LEMMA ServedClosing ==
  ASSUME ClosingInv, HonestInv', net # <<>>, net' = Tail(net), NEW task \in Task,
         tasks' = tasks \/ tasks' = Append(tasks, task), task.kind # "observer",
         task.kind = "registered" => Head(net).op = "register", ~Leaving(Head(net)),
         UNCHANGED <<peer, joined, neg, finished, loop>>, loop # "destroyed",
         closing' = closing \/ Head(net).op = "connect"
  PROVE  ClosingInv'
  <1>1. /\ Len(net) \in Nat \ {0} /\ DOMAIN net = 1..Len(net) /\ Head(net) = net[1]
        /\ Len(net') = Len(net) - 1 /\ DOMAIN net' = 1..(Len(net) - 1)
        /\ \A k \in 1..(Len(net) - 1) : net'[k] = net[k + 1]
        /\ net' = <<>> <=> Len(net) = 1
    BY ServedElements DEF ClosingInv, HonestInv
  <1>2. LeftOnce'
    <2>1. IsOver' <=> IsOver
      BY DEF IsOver
    <2>2. ASSUME NEW k \in DOMAIN net', Leaving(net'[k]) PROVE IsOver /\ k = Len(net')
      <3>1. k + 1 \in DOMAIN net /\ Leaving(net[k + 1])
        BY <1>1, <2>2
      <3>2. IsOver /\ k + 1 = Len(net)
        BY <3>1 DEF ClosingInv, LeftOnce
      <3> QED
        BY <1>1, <2>2, <3>2
    <2>3. ASSUME NEW k \in DOMAIN net', net'[k].op = "stop" PROVE FALSE
      <3>1. k + 1 \in DOMAIN net /\ net[k + 1].op = "stop"
        BY <1>1, <2>3
      <3>2. k + 1 = 1 /\ k \in Nat \ {0}
        BY <1>1, <2>3, <3>1 DEF ClosingInv, LeftOnce
      <3> QED
        BY <3>2
    <2>4. ASSUME IsOver, joined # "none" PROVE net' # <<>> /\ Leaving(net'[Len(net')])
      <3>1. Leaving(net[Len(net)])
        BY <2>4 DEF ClosingInv, LeftOnce
      <3>2. Len(net) # 1
        BY <1>1, <3>1
      <3>3. Len(net) - 1 \in 1..(Len(net) - 1) /\ (Len(net) - 1) + 1 = Len(net)
        BY <1>1, <3>2
      <3>4. net'[Len(net')] = net[Len(net)]
        BY <1>1, <3>3
      <3> QED
        BY <1>1, <3>1, <3>2, <3>4
    <2> QED
      BY <2>1, <2>2, <2>3, <2>4 DEF LeftOnce, Leaving
  <1> QED
    BY <1>2, ServedRest DEF ClosingInv

LEMMA StopClosing == ClosingInv /\ HonestInv' /\ CloseStops /\ UNCHANGED <<peer, controlVars>>
                       => ClosingInv'
  <1> SUFFICES ASSUME ClosingInv, HonestInv', CloseStops, UNCHANGED <<peer, controlVars>>
               PROVE  ClosingInv'
    OBVIOUS
  <1>1. /\ net # <<>> /\ net' = Tail(net) /\ Head(net).op = "stop" /\ loop # "destroyed"
        /\ tasks' = tasks /\ closing' = closing /\ membership' \in Released
        /\ UNCHANGED <<peer, joined, neg, finished, loop>>
    BY DEF CloseStops, Serving, threadVars, controlVars
  <1>2. /\ Len(net) \in Nat \ {0} /\ DOMAIN net = 1..Len(net) /\ Head(net) = net[1]
        /\ net' = <<>> <=> Len(net) = 1
    BY <1>1, ServedElements DEF ClosingInv, HonestInv
  <1>3. net' = <<>> /\ closing
    BY <1>1, <1>2 DEF ClosingInv, LeftOnce, Leaving
  <1>4. LeftOnce'
    BY <1>1, <1>3 DEF LeftOnce
  <1>5. [kind |-> "error"] \in Task /\ [kind |-> "error"].kind = "error"
    BY DEF Task
  <1> QED
    BY <1>1, <1>4, <1>5, ServedRest DEF ClosingInv

LEMMA MarkClosing == ClosingInv /\ HonestInv' /\ CloseMarks /\ UNCHANGED <<peer, controlVars>>
                       => ClosingInv'
  <1> SUFFICES ASSUME ClosingInv, HonestInv', CloseMarks, UNCHANGED <<peer, controlVars>>
               PROVE  ClosingInv'
    OBVIOUS
  <1>1. /\ net # <<>> /\ net' = [net EXCEPT ![1] = [op |-> "stop"]]
        /\ Head(net).op = "close" /\ loop # "destroyed" /\ tasks' = tasks /\ closing'
        /\ UNCHANGED <<peer, joined, neg, finished, loop>>
    BY DEF CloseMarks, Serving, threadVars, controlVars
  <1>2. net \in Seq(Request) /\ net' \in Seq(Request)
    BY TypeParts DEF ClosingInv, HonestInv, TypeOK, ClientTypeOK
  <1>3. 1 \in DOMAIN net /\ Head(net) = net[1] /\ DOMAIN net = 1..Len(net)
    BY <1>1, <1>2, TailElements, LenProperties
  <1>4. Leaving(net[1])
    BY <1>1, <1>3 DEF Leaving
  <1>5. IsOver /\ Len(net) = 1
    BY <1>3, <1>4 DEF ClosingInv, LeftOnce
  <1>6. DOMAIN net' = {1} /\ net'[1].op = "stop" /\ Len(net') = 1 /\ net' # <<>>
    <2>1. DOMAIN net' = {1} /\ net'[1] = [op |-> "stop"]
      BY <1>1, <1>3, <1>5
    <2>2. Len(net') = 1
      BY <1>2, <2>1, LenProperties
    <2>3. net' # <<>>
      <3>1. Len(<<>>) = 0
        OBVIOUS
      <3> QED
        BY <2>2, <3>1
    <2>4. net'[1].op = "stop"
      BY <2>1
    <2> QED
      BY <2>1, <2>2, <2>3, <2>4
  <1>7. LeftOnce'
    BY <1>1, <1>5, <1>6 DEF LeftOnce, Leaving, IsOver
  <1>8. NothingAsked'
    <2>1. joined # "none"
      BY <1>1, <1>3 DEF ClosingInv, NothingAsked
    <2> QED
      BY <1>1, <2>1 DEF NothingAsked
  <1>9. Connected' /\ Stopped' /\ NoStall'
    BY <1>1 DEF ClosingInv, Connected, Stopped, NoStall, IsOver
  <1>10. NoCandidateAfterBye'
    BY <1>6 DEF NoCandidateAfterBye, IsPayload
  <1> QED
    BY <1>7, <1>8, <1>9, <1>10 DEF ClosingInv

LEMMA NetworkClosing == ClosingInv /\ Network => ClosingInv'
  <1> SUFFICES ASSUME ClosingInv, NetworkStep, UNCHANGED <<peer, controlVars>>
               PROVE  ClosingInv'
    BY DEF Network
  <1>1. HonestInv' /\ TypeOK
    BY NetworkHonest DEF ClosingInv, HonestInv, Network
  <1>2. /\ net # <<>> /\ loop # "destroyed"
        /\ UNCHANGED <<peer, joined, neg, finished, loop>>
    BY DEF NetworkStep, JoinRoom, ConnectWebSocket, Register, SendToRoom,
           SendWebSocketMessage, CloseMarks, CloseStops, Serving, threadVars, controlVars
  <1>3. CASE CloseMarks \/ CloseStops
    BY <1>1, <1>3, MarkClosing, StopClosing
  <1>4. CASE JoinRoom
    <2>1. PICK role \in Roles \cup {"none"}, raw \in Seq(RawMessage) :
            PostTask([kind |-> "joined", role |-> role, msgs |-> raw])
      BY <1>4, EmptySeq, ClientAssumption DEF JoinRoom
    <2> DEFINE task == [kind |-> "joined", role |-> role, msgs |-> raw]
    <2>2. task \in Task /\ task.kind = "joined"
      BY DEF Task, JoinedTask
    <2>3. (tasks' = tasks \/ tasks' = Append(tasks, task)) /\ net' = Tail(net)
          /\ closing' = closing /\ ~Leaving(Head(net))
      BY <1>4, <2>1 DEF PostTask, JoinRoom, Serving, Leaving
    <2> HIDE DEF task
    <2> QED
      BY <1>1, <1>2, <2>2, <2>3, ServedClosing
  <1>5. CASE ConnectWebSocket
    <2>1. [kind |-> "error"] \in Task /\ [kind |-> "error"].kind = "error"
      BY DEF Task
    <2>2. /\ tasks' = tasks /\ net' = Tail(net) /\ ~Leaving(Head(net))
          /\ Head(net).op = "connect"
      BY <1>5 DEF ConnectWebSocket, Serving, Leaving, threadVars
    <2> QED
      BY <1>1, <1>2, <2>1, <2>2, ServedClosing
  <1>6. CASE Register
    <2>1. PICK ok \in BOOLEAN : PostTask([kind |-> "registered", ok |-> ok])
      BY <1>6 DEF Register
    <2> DEFINE task == [kind |-> "registered", ok |-> ok]
    <2>2. task \in Task /\ task.kind = "registered"
      BY DEF Task
    <2>3. /\ tasks' = tasks \/ tasks' = Append(tasks, task)
          /\ net' = Tail(net) /\ closing' = closing
          /\ Head(net).op = "register" /\ ~Leaving(Head(net))
      BY <1>6, <2>1 DEF Register, PostTask, Serving, Leaving, socketVars
    <2> HIDE DEF task
    <2> QED
      BY <1>1, <1>2, <2>2, <2>3, ServedClosing
  <1>7. CASE SendToRoom \/ SendWebSocketMessage
    <2>1. PICK ok \in BOOLEAN :
            PostTask([kind |-> "sent", what |-> Head(net).what, ok |-> ok])
      BY <1>7 DEF SendToRoom, SendWebSocketMessage
    <2> DEFINE task == [kind |-> "sent", what |-> Head(net).what, ok |-> ok]
    <2>2. Head(net).op \in {"post", "send"} /\ Head(net) \in Request
      BY <1>1, <1>2, <1>7, NetTailType DEF SendToRoom, SendWebSocketMessage, Serving
    <2>3. task \in Task /\ task.kind = "sent"
      BY <2>2 DEF Request, Task, SentTask
    <2>4. /\ tasks' = tasks \/ tasks' = Append(tasks, task)
          /\ net' = Tail(net) /\ closing' = closing /\ ~Leaving(Head(net))
      BY <1>7, <2>1, <2>2
      DEF SendToRoom, SendWebSocketMessage, PostTask, Leaving, socketVars
    <2> HIDE DEF task
    <2> QED
      BY <1>1, <1>2, <2>3, <2>4, ServedClosing
  <1> QED
    BY <1>3, <1>4, <1>5, <1>6, <1>7 DEF NetworkStep

LEMMA WebSocketClosing == ClosingInv /\ WebSocket => ClosingInv'
  <1> SUFFICES ASSUME ClosingInv, WebSocket PROVE ClosingInv'
    OBVIOUS
  <1>1. HonestInv'
    BY WebSocketHonest DEF ClosingInv
  <1>2. UNCHANGED <<net, joined, neg, finished, loop, closing, membership, peer>>
    BY DEF WebSocket, WebSocketEvent, WebSocketOpens, WebSocketCloses, WebSocketFails,
           WebSocketMessage, WebSocketBadMessage, controlVars
  <1>3. Stopped'
    <2>1. socket \in {"connecting", "open"}
      BY DEF WebSocket, WebSocketEvent, WebSocketOpens, WebSocketCloses, WebSocketFails,
             WebSocketMessage, WebSocketBadMessage
    <2> QED
      BY <1>2, <2>1 DEF ClosingInv, Stopped
  <1>4. PICK task \in Task :
          /\ task.kind \in {"opened", "error", "inbound"}
          /\ tasks' = tasks \/ tasks' = Append(tasks, task)
    <2>1. CASE WebSocketMessage
      <3>1. PICK message \in [type : MessageTypes, id : 0..MaxCandidates] :
              PostTask([kind |-> "inbound", msg |-> message])
        BY <2>1 DEF WebSocketMessage
      <3>2. [kind |-> "inbound", msg |-> message] \in Task
        BY ClientAssumption DEF Task, InboundTask, Message
      <3> QED
        BY <3>1, <3>2 DEF PostTask
    <2>2. CASE WebSocketOpens
      BY <2>2 DEF WebSocketOpens, PostTask, Task
    <2>3. CASE WebSocketCloses \/ WebSocketFails \/ WebSocketBadMessage
      <3>1. tasks' = tasks \/ tasks' = Append(tasks, [kind |-> "error"])
        BY <2>3 DEF WebSocketCloses, WebSocketFails, WebSocketBadMessage, PostTask
      <3> QED
        BY <3>1 DEF Task
    <2> QED
      BY <2>1, <2>2, <2>3 DEF WebSocket, WebSocketEvent
  <1> QED
    BY <1>1, <1>2, <1>3, <1>4, EventClosing

LEMMA LibraryClosing == ClosingInv /\ Library => ClosingInv'
  <1> SUFFICES ASSUME ClosingInv, LibraryEvent, UNCHANGED <<clientVars, controlVars>>
               PROVE  ClosingInv'
    BY DEF Library
  <1>1. HonestInv' /\ TypeOK
    BY LibraryHonest DEF ClosingInv, HonestInv, Library
  <1>2. UNCHANGED <<net, joined, neg, finished, loop, closing, membership>>
    BY DEF LibraryEvent, OperationCompletes, CandidateGathered, ConnectionChanges,
           OnFrameDelivered, clientVars, socketVars, controlVars
  <1>3. peer \in Peer /\ peer.flag \in Nat
    BY <1>1, TypeParts DEF Peer
  <1>4. /\ peer'.flag = peer.flag /\ peer'.connection = peer.connection
        /\ peer'.pending \subseteq peer.pending
    <2>1. CASE OperationCompletes
      BY <1>3, <2>1 DEF OperationCompletes, Peer
    <2>2. CASE CandidateGathered
      BY <1>3, <2>2 DEF CandidateGathered, Peer
    <2>3. CASE ConnectionChanges \/ OnFrameDelivered
      BY <2>3 DEF ConnectionChanges, OnFrameDelivered
    <2> QED
      BY <2>1, <2>2, <2>3 DEF LibraryEvent
  <1>5. Stopped'
    BY <1>2 DEF ClosingInv, Stopped, clientVars, socketVars
  <1>6. PICK task \in Task :
          /\ PostTask(task)
          /\ task.kind \in {"observer", "localCandidate", "connection", "frame"}
          /\ task.flag = peer.flag
    <2>1. CASE OperationCompletes
      <3>1. PICK step \in peer.pending, ok \in BOOLEAN :
              PostTask([kind |-> "observer", step |-> step, ok |-> ok, flag |-> peer.flag])
        BY <2>1 DEF OperationCompletes
      <3>2. [kind |-> "observer", step |-> step, ok |-> ok, flag |-> peer.flag] \in Task
        BY <1>3 DEF Peer, Task, ObserverTask
      <3> QED
        BY <3>1, <3>2
    <2>2. CASE CandidateGathered
      BY <1>3, <2>2 DEF CandidateGathered, Task
    <2>3. CASE ConnectionChanges
      <3>1. PICK to \in {"connected", "disconnected", "failed"} :
              PostTask([kind |-> "connection", to |-> to, flag |-> peer.flag])
        BY <2>3 DEF ConnectionChanges
      <3>2. [kind |-> "connection", to |-> to, flag |-> peer.flag] \in Task
        BY <1>3 DEF Task, ConnectionTask
      <3> QED
        BY <3>1, <3>2
    <2>4. CASE OnFrameDelivered
      BY <1>3, <2>4 DEF OnFrameDelivered, Task
    <2> QED
      BY <2>1, <2>2, <2>3, <2>4 DEF LibraryEvent
  <1>7. /\ tasks' = tasks \/ tasks' = Append(tasks, task)
        /\ IsOver => tasks' = tasks
    BY <1>6 DEF PostTask, IsOver
  <1> QED
    BY <1>1, <1>2, <1>4, <1>5, <1>6, <1>7, EventClosing

LEMMA AlarmClosing == ASSUME ClosingInv, NEW kind, Alarm(kind) PROVE ClosingInv'
  <1>1. HonestInv' /\ TypeOK
    BY AlarmHonest DEF ClosingInv, HonestInv
  <1>2. PICK timer \in timers : tasks' = Append(tasks, timer)
    BY DEF Alarm, TimerDue
  <1>3. timer \in Task /\ timer.kind \in TimerKinds
    BY <1>1, <1>2, TypeParts DEF Task, Timer
  <1>4. timer.kind \notin {"registered", "observer"}
    BY <1>3 DEF TimerKinds
  <1>5. UNCHANGED <<clientVars, peer, joined, neg, finished, loop>>
    BY DEF Alarm, TimerDue, controlVars
  <1>6. Stopped' /\ UNCHANGED <<net, closing, membership>>
    BY <1>5 DEF ClosingInv, Stopped, clientVars, socketVars
  <1> QED
    BY <1>1, <1>2, <1>3, <1>4, <1>5, <1>6, EventClosing

LEMMA ProcessClosing == ClosingInv /\ (StartCall \/ ReturnFromRun \/ Destroy) => ClosingInv'
  <1> SUFFICES ASSUME ClosingInv, StartCall \/ ReturnFromRun \/ Destroy PROVE ClosingInv'
    OBVIOUS
  <1>1. HonestInv' /\ TypeOK
    BY ProcessHonest DEF ClosingInv, HonestInv
  <1>2. CASE StartCall
    <2>1. /\ loop = "starting" /\ loop' = "running" /\ net' = Append(net, JoinRequest)
          /\ UNCHANGED <<tasks, socketVars, peer, joined, neg, finished>>
      BY <1>2 DEF StartCall
    <2>2. net = <<>> /\ joined = "none"
      BY <2>1 DEF ClosingInv, HonestInv, JoinOnce
    <2>3. net' = <<JoinRequest>>
      BY <2>1, <2>2
    <2>4. \A k \in DOMAIN net' : net'[k].op = "join"
      BY <2>3 DEF JoinRequest
    <2>5. LeftOnce' /\ NoCandidateAfterBye'
      BY <2>1, <2>2, <2>4 DEF LeftOnce, NoCandidateAfterBye, Leaving, IsOver, IsPayload
    <2>6. NothingAsked'
      BY <2>1, <2>2, <2>4 DEF ClosingInv, NothingAsked
    <2>7. Connected' /\ Stopped' /\ NoStall'
      BY <2>1, <2>2 DEF ClosingInv, Connected, Stopped, NoStall, IsOver
    <2> QED
      BY <1>1, <2>5, <2>6, <2>7 DEF ClosingInv
  <1>3. CASE ReturnFromRun
    <2>1. /\ loop = "quit" /\ loop' = "returned" /\ tasks = <<>> /\ closing'
          /\ peer' = Close(peer)
          /\ UNCHANGED <<tasks, net, membership, joined, neg, finished>>
      BY <1>3 DEF ReturnFromRun
    <2>2. peer'.connection # "open" /\ peer'.pending = {}
      BY <1>1, <2>1, TypeParts DEF Close, Peer
    <2>3. IsOver /\ IsOver'
      BY <2>1 DEF IsOver
    <2>4. DOMAIN tasks' = {}
      BY <2>1
    <2>5. LeftOnce'
      BY <2>1, <2>3 DEF ClosingInv, LeftOnce, Leaving
    <2>6. NothingAsked' /\ Connected'
      BY <2>1, <2>2, <2>4 DEF ClosingInv, NothingAsked, Connected
    <2>7. Stopped' /\ NoStall' /\ NoCandidateAfterBye'
      BY <2>1 DEF ClosingInv, Stopped, NoStall, NoCandidateAfterBye, IsPayload
    <2> QED
      BY <1>1, <2>5, <2>6, <2>7 DEF ClosingInv
  <1>4. CASE Destroy
    <2>1. /\ loop = "returned" /\ loop' = "destroyed" /\ net = <<>>
          /\ socket' \in {"idle", "stopped"} /\ ~websocketOpen'
          /\ UNCHANGED <<tasks, net, closing, membership, peer, joined, neg, finished>>
      BY <1>4 DEF Destroy
    <2>2. IsOver /\ IsOver'
      BY <2>1 DEF IsOver
    <2>3. LeftOnce'
      BY <2>1, <2>2 DEF ClosingInv, LeftOnce, Leaving
    <2>4. NothingAsked' /\ Connected'
      BY <2>1, <2>2 DEF ClosingInv, NothingAsked, Connected
    <2>5. Stopped' /\ NoStall' /\ NoCandidateAfterBye'
      BY <2>1 DEF ClosingInv, Stopped, NoStall, NoCandidateAfterBye, IsPayload
    <2> QED
      BY <1>1, <2>3, <2>4, <2>5 DEF ClosingInv
  <1> QED
    BY <1>2, <1>3, <1>4

LEMMA InitClosing == Init => ClosingInv
  <1> SUFFICES ASSUME Init PROVE ClosingInv
    OBVIOUS
  <1>1. HonestInv
    BY InitHonest
  <1>2. /\ DOMAIN tasks = {} /\ DOMAIN net = {} /\ loop = "starting" /\ ~neg.ready
        /\ peer.flag = 0
    BY DEF Init, ThreadInit, ClientInit, PeerInit
  <1>3. LeftOnce /\ NothingAsked /\ Connected
    BY <1>2 DEF LeftOnce, NothingAsked, Connected, IsOver, Init
  <1>4. Stopped /\ NoCandidateAfterBye /\ NoStall
    BY <1>2 DEF Stopped, NoCandidateAfterBye, NoStall
  <1> QED
    BY <1>1, <1>3, <1>4 DEF ClosingInv

LEMMA StepClosing == ClosingInv /\ [Next]_vars => ClosingInv'
  <1> SUFFICES ASSUME ClosingInv, [Next]_vars PROVE ClosingInv'
    OBVIOUS
  <1>1. CASE Dispatch
    BY <1>1, DispatchClosing
  <1>2. CASE Network \/ WebSocket \/ Library
    BY <1>2, NetworkClosing, WebSocketClosing, LibraryClosing
  <1>3. CASE \E kind \in TimerKinds : Alarm(kind)
    BY <1>3, AlarmClosing
  <1>4. CASE StartCall \/ ReturnFromRun \/ Destroy
    BY <1>4, ProcessClosing
  <1>5. CASE Exited \/ UNCHANGED vars
    <2>1. UNCHANGED vars
      BY <1>5 DEF Exited
    <2>2. HonestInv'
      BY <2>1, StepHonest DEF ClosingInv
    <2>3. /\ UNCHANGED <<tasks, net, loop, closing, membership, socket, websocketOpen>>
          /\ UNCHANGED <<peer, joined, neg, finished>>
      BY <2>1 DEF vars, threadVars, clientVars, socketVars
    <2>4. LeftOnce' /\ NothingAsked' /\ Connected'
      BY <2>3 DEF ClosingInv, LeftOnce, NothingAsked, Connected, Leaving, IsOver
    <2>5. Stopped' /\ NoCandidateAfterBye' /\ NoStall'
      BY <2>3 DEF ClosingInv, Stopped, NoCandidateAfterBye, NoStall, IsPayload
    <2> QED
      BY <2>2, <2>4, <2>5 DEF ClosingInv
  <1> QED
    BY <1>1, <1>2, <1>3, <1>4, <1>5 DEF Next

LEMMA ClosingAlways == Spec => []ClosingInv
  BY InitClosing, StepClosing, PTL DEF Spec

(* -- the theorems ------------------------------------------------------------- *)

(* No signaling message waits for ever: every path that clears                 *)
(* signaling_action_in_flight_ pumps the queue, whatever its length and the    *)
(* order of the messages.                                                      *)
THEOREM NeverStalled == Spec => []NoStall
  <1>1. ClosingInv => NoStall
    BY DEF ClosingInv
  <1> QED
    BY <1>1, ClosingAlways, PTL

(* Nothing is asked of the network thread behind leaving the room, however     *)
(* many tasks are drained after Quit.                                          *)
THEOREM LeavingIsLast == Spec => []LeavesLast
  <1>1. ClosingInv => LeavesLast
    BY DEF ClosingInv, LeftOnce, LeavesLast, Leaving
  <1> QED
    BY <1>1, ClosingAlways, PTL

(* No ICE candidate follows the bye, however many the library still gathers.   *)
THEOREM SilentAfterBye == Spec => []NoCandidateAfterBye
  <1>1. ClosingInv => NoCandidateAfterBye
    BY DEF ClosingInv
  <1> QED
    BY <1>1, ClosingAlways, PTL

(* No task or negotiation step finds connection_ released: Close resets the    *)
(* safety flag before it releases, and only the end of the call closes.        *)
THEOREM ConnectionOutlivesTasks == Spec => []ConnectionLive
  <1>1. ClosingInv => ConnectionLive
    <2> SUFFICES ASSUME ClosingInv,
                        \/ \E k \in DOMAIN tasks : tasks[k].kind = "observer" /\ Live(tasks[k])
                        \/ peer.pending # {}
                        \/ neg.ready /\ ~finished
                 PROVE  peer.connection = "open"
      BY DEF ConnectionLive
    <2>1. joined # "none"
      BY DEF ClosingInv, HonestInv, JoinedFirst, NothingAsked
    <2>2. ~IsOver
      BY DEF ClosingInv, HonestInv, CodeKnown, Connected, Live, IsOver
    <2>3. loop # "starting"
      BY <2>1 DEF ClosingInv, HonestInv, JoinOnce
    <2>4. loop = "running"
      BY <2>2, <2>3 DEF ClosingInv, HonestInv, TypeOK, ThreadTypeOK, Phases, IsOver
    <2> QED
      BY <2>1, <2>4 DEF ClosingInv, Connected
  <1> QED
    BY <1>1, ClosingAlways, PTL

(* The process leaves nothing open: whatever was queued when the call ended    *)
(* and however often the websocket reconnected, the websocket is stopped, the  *)
(* connection closed, and the step that asks the room server to delete the     *)
(* client (if the join response says whom) was taken, with nothing after it    *)
(* that would join or connect again.                                           *)
THEOREM NothingLeftOpen == Spec => []CleanShutdown
  <1>1. ClosingInv => CleanShutdown
    <2> SUFFICES ASSUME ClosingInv, loop = "destroyed"
                 PROVE  /\ socket \in {"idle", "stopped"} /\ ~websocketOpen /\ closing
                        /\ joined # "none" => membership \in Released
                        /\ peer.connection # "open"
      BY DEF CleanShutdown
    <2>1. IsOver /\ net = <<>>
      BY DEF ClosingInv, Stopped, IsOver
    <2> QED
      BY <2>1 DEF ClosingInv, Stopped, LeftOnce, NothingAsked, Connected
  <1> QED
    BY <1>1, ClosingAlways, PTL
=============================================================================
