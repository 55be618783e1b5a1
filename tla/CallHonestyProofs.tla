-------------------------- MODULE CallHonestyProofs --------------------------
(* Type correctness of the call; then, that the exit code is honest, the first *)
(* reason to end the call is final, and the controller implements the abstract *)
(* life of a call: for every value of the constants.                           *)
EXTENDS CallProperties, SequenceTheorems, TLAPS

(* -- the methods of the peer client ------------------------------------------ *)

(* Every method maps a peer record to a peer record.                           *)
LEMMA InitializeType == ASSUME NEW p \in Peer PROVE Initialize(p) \in Peer
  BY EmptySeq DEF Initialize, Peer

LEMMA StartType ==
  ASSUME NEW p \in Peer, NEW step \in Steps PROVE Start(p, step) \in Peer
  BY DEF Start, Peer

LEMMA CloseType == ASSUME NEW p \in Peer PROVE Close(p) \in Peer
  <1>1. p.flag + 1 \in Nat /\ <<>> \in Seq(Nat)
    BY EmptySeq DEF Peer
  <1>2. (IF p.connection = "open" THEN "closed" ELSE p.connection)
          \in {"none", "open", "closed"}
    BY DEF Peer
  <1> QED
    BY <1>1, <1>2 DEF Close, Peer

LEMMA AddType ==
  ASSUME NEW p \in Peer, NEW ids \in Seq(Nat)
  PROVE  AddRemoteCandidates(p, ids) \in Peer
  <1>1. p.applied \o ids \in Seq(Nat) /\ p.buffered \o ids \in Seq(Nat)
    BY ConcatProperties DEF Peer
  <1> QED
    BY <1>1 DEF AddRemoteCandidates, Peer

LEMMA FlushType ==
  ASSUME NEW p \in Peer PROVE FlushPendingRemoteCandidates(p) \in Peer
  <1>1. p.applied \o p.buffered \in Seq(Nat)
    BY ConcatProperties DEF Peer
  <1> QED
    BY <1>1, EmptySeq DEF FlushPendingRemoteCandidates, Peer

LEMMA FlushRefusedType ==
  ASSUME NEW p \in Peer, NEW k \in 0..(Len(p.buffered) - 1)
  PROVE  FlushRefused(p, k) \in Peer
  <1>1. p.buffered \in Seq(Nat) /\ p.applied \in Seq(Nat)
    BY DEF Peer
  <1>2. SubSeq(p.buffered, 1, k) \in Seq(Nat)
    <2>1. k \in Int /\ \A i \in 1..k : p.buffered[i] \in Nat
      BY <1>1, ElementOfSeq
    <2> QED
      BY <2>1, SubSeqProperties
  <1>3. p.applied \o SubSeq(p.buffered, 1, k) \in Seq(Nat)
    BY <1>1, <1>2, ConcatProperties
  <1> QED
    BY <1>3 DEF FlushRefused, Peer

(* -- the tasks and the messages ---------------------------------------------- *)

(* What a join response's messages are sorted into is a queue of messages.     *)
LEMMA QueuedOrdersType ==
  ASSUME NEW raw \in Seq(RawMessage), NEW queue \in QueuedOrders(raw)
  PROVE  queue \in Seq(Message)
  <1>0. PICK n \in 0..Len(raw) : queue \in OrdersOfLength(raw, n)
    BY DEF QueuedOrders
  <1>1. PICK p \in [1..n -> Parsable(raw)] : queue = [k \in 1..n |-> raw[p[k]]]
    BY <1>0 DEF OrdersOfLength
  <1>2. ASSUME NEW k \in 1..n PROVE raw[p[k]] \in Message
    <2>1. p[k] \in Parsable(raw)
      BY <1>1
    <2>2. p[k] \in 1..Len(raw) /\ raw[p[k]].type \in MessageTypes
      BY <2>1, LenProperties DEF Parsable
    <2>3. raw[p[k]] \in RawMessage
      BY <2>2, ElementOfSeq
    <2> QED
      BY <2>2, <2>3 DEF RawMessage, Message
  <1>3. n \in Nat
    BY <1>1
  <1>4. queue \in [1..n -> Message]
    BY <1>1, <1>2
  <1> QED
    BY <1>3, <1>4, SeqDef

(* -- what every handler does ------------------------------------------------- *)

(* The thread has a task to run.                                               *)
HasTask == tasks # <<>>

(* The types of what a handler's common parts assign.                          *)
EndTyped ==
  /\ tasks' \in Seq(Task)
  /\ loop' \in Phases
  /\ net' \in Seq(Request)
  /\ peer' \in Peer
  /\ state' \in CallStates
  /\ finished' \in BOOLEAN
  /\ exitCode' \in ExitCodes
  /\ startupGen' \in Nat
  /\ durationGen' \in Nat

LEMMA TailType == TypeOK /\ HasTask => Tail(tasks) \in Seq(Task) /\ Head(tasks) \in Task
  BY HeadTailProperties DEF TypeOK, ThreadTypeOK, HasTask

LEMMA ContinueType ==
  ASSUME TypeOK, HasTask, Continue,
         peer' \in Peer, net' \in Seq(Request), state' \in CallStates
  PROVE  EndTyped
  BY TailType DEF Continue, finishVars, EndTyped, TypeOK, ThreadTypeOK

LEMMA RequestType ==
  /\ JoinRequest \in Request /\ ConnectRequest \in Request
  /\ RegisterRequest \in Request /\ CloseRequest \in Request
  /\ \A role : \A what \in Payloads : SendRequest(role, what) \in Request
  BY DEF JoinRequest, ConnectRequest, RegisterRequest, CloseRequest, SendRequest,
         Request

LEMMA NetType ==
  ASSUME TypeOK, NEW r \in Request PROVE Append(net, r) \in Seq(Request)
  BY AppendProperties DEF TypeOK, ClientTypeOK

LEMMA ExitCodeType == \A reason \in TerminalReasons : ExitCodeForReason[reason] \in ExitCodes
  BY DEF TerminalReasons, ExitCodeForReason, ExitCodes

LEMMA CompleteFinishType ==
  ASSUME TypeOK, HasTask, NEW reason \in TerminalReasons, NEW role, NEW p \in Peer,
         CompleteFinish(reason, role, p)
  PROVE  /\ tasks' \in Seq(Task) /\ loop' \in Phases /\ net' \in Seq(Request)
         /\ peer' \in Peer /\ state' \in CallStates /\ exitCode' \in ExitCodes
  <1>1. tasks' \in Seq(Task)
    <2>1. [kind |-> "frame", flag |-> p.flag + 1] \in Task
      BY DEF Task, Peer
    <2> QED
      BY <2>1, TailType, AppendProperties DEF CompleteFinish
  <1>2. net' \in Seq(Request)
    BY RequestType, NetType DEF CompleteFinish, TypeOK, ClientTypeOK
  <1> QED
    BY <1>1, <1>2, CloseType, ExitCodeType DEF CompleteFinish, Phases, CallStates

LEMMA FinishType ==
  ASSUME TypeOK, HasTask, NEW reason \in TerminalReasons, NEW role, NEW p \in Peer,
         Finish(reason, role, p)
  PROVE  EndTyped
  <1>1. CASE finished /\ Continue /\ peer' = p /\ UNCHANGED <<net, state>>
    BY <1>1, ContinueType DEF TypeOK, ClientTypeOK
  <1>2. CASE ~finished
    <2>1. /\ finished' \in BOOLEAN /\ startupGen' \in Nat /\ durationGen' \in Nat
      <3>1. finished' = TRUE /\ startupGen' = startupGen + 1 /\ durationGen' = durationGen + 1
        BY <1>2 DEF Finish
      <3> QED
        BY <3>1 DEF TypeOK
    <2>2. CASE reason = "LocalDurationReached" /\ role # "none"
      <3>1. net' \in Seq(Request)
        BY <1>2, <2>2, RequestType, NetType DEF Finish, Payloads
      <3> QED
        BY <1>2, <2>1, <2>2, <3>1, TailType
        DEF Finish, EndTyped, TypeOK, ThreadTypeOK, CallStates
    <2>3. CASE ~(reason = "LocalDurationReached" /\ role # "none")
      <3>1. CompleteFinish(reason, role, p)
        BY <1>2, <2>3 DEF Finish
      <3> QED
        BY <2>1, <3>1, CompleteFinishType DEF EndTyped
    <2> QED
      BY <2>2, <2>3
  <1> QED
    BY <1>1, <1>2 DEF Finish

LEMMA ReasonTypes ==
  {"LocalDurationReached", "RemoteByeAfterEstablished", "RemoteByeBeforeEstablished",
   "StartupTimeout", "SignalingError", "PeerConnectionError", "MediaError"}
    \subseteq TerminalReasons
  BY DEF TerminalReasons

(* -- negotiation ------------------------------------------------------------- *)

LEMMA StartNegotiatingType ==
  ASSUME TypeOK, HasTask, NEW n \in Negotiation, NEW p \in Peer, NEW step \in Steps,
         StartNegotiating(n, p, step)
  PROVE  EndTyped /\ neg' \in Negotiation
  <1>1. /\ neg' = [n EXCEPT !.busy = TRUE] /\ peer' = Start(p, step)
        /\ state' = "negotiating" /\ net' = net /\ Continue
    BY DEF StartNegotiating
  <1>2. neg' \in Negotiation
    BY <1>1 DEF Negotiation
  <1>3. peer' \in Peer /\ net' \in Seq(Request) /\ state' \in CallStates
    BY <1>1, StartType DEF TypeOK, ClientTypeOK, CallStates
  <1> QED
    BY <1>1, <1>2, <1>3, ContinueType

LEMMA ApplyDescriptionType ==
  ASSUME TypeOK, HasTask, NEW n \in Negotiation, NEW p \in Peer, NEW step \in Steps,
         ApplyDescription(n, p, step)
  PROVE  EndTyped /\ neg' \in Negotiation
  <1>1. CASE StartNegotiating(n, p, step)
    BY <1>1, StartNegotiatingType
  <1>2. CASE neg' = n /\ Finish("PeerConnectionError", joined, p)
    BY <1>2, FinishType, ReasonTypes
  <1> QED
    BY <1>1, <1>2 DEF ApplyDescription

LEMMA RestType ==
  ASSUME NEW n \in Negotiation, n.queue # <<>>
  PROVE  [n EXCEPT !.queue = Tail(@)] \in Negotiation
  <1>1. Tail(n.queue) \in Seq(Message)
    BY HeadTailProperties DEF Negotiation
  <1> QED
    BY <1>1 DEF Negotiation

LEMMA PumpNextType ==
  ASSUME TypeOK, HasTask, NEW n \in Negotiation, NEW p \in Peer, PumpNext(n, p)
  PROVE  EndTyped /\ neg' \in Negotiation
  <1> DEFINE rest == [n EXCEPT !.queue = Tail(@)]
  <1>1. CASE StartNegotiating([n EXCEPT !.offered = TRUE], p, "createOffer")
    <2>1. [n EXCEPT !.offered = TRUE] \in Negotiation
      BY DEF Negotiation
    <2> QED
      BY <1>1, <2>1, StartNegotiatingType DEF Steps
  <1>2. CASE neg' = n /\ peer' = p /\ UNCHANGED <<net, state>> /\ Continue
    BY <1>2, ContinueType DEF TypeOK, ClientTypeOK
  <1>3. CASE /\ n.queue # <<>> /\ neg' = rest
             /\ \E reason \in TerminalReasons : Finish(reason, joined, p)
    BY <1>3, RestType, FinishType
  <1>4. CASE n.queue # <<>> /\ \E step \in Steps : ApplyDescription(rest, p, step)
    BY <1>4, RestType, ApplyDescriptionType
  <1> QED
    BY <1>1, <1>2, <1>3, <1>4 DEF PumpNext, Steps, TerminalReasons

(* n after the messages before the l-th were handled.                          *)
LEMMA AfterType ==
  ASSUME NEW n \in Negotiation, NEW l \in Nat \ {0}
  PROVE  [n EXCEPT !.queue = SubSeq(@, l, Len(@))] \in Negotiation
  <1>1. n.queue \in Seq(Message) /\ Len(n.queue) \in Nat
    BY LenProperties DEF Negotiation
  <1>2. \A i \in l..Len(n.queue) : n.queue[i] \in Message
    BY <1>1, ElementOfSeq
  <1>3. SubSeq(n.queue, l, Len(n.queue)) \in Seq(Message)
    BY <1>1, <1>2, SubSeqProperties
  <1> QED
    BY <1>3 DEF Negotiation

LEMMA PumpType ==
  ASSUME TypeOK, HasTask, NEW n \in Negotiation, NEW p \in Peer,
         PumpSignalingMessages(n, p)
  PROVE  EndTyped /\ neg' \in Negotiation
  <1>1. CASE neg' = n /\ peer' = p /\ UNCHANGED <<net, state>> /\ Continue
    BY <1>1, ContinueType DEF TypeOK, ClientTypeOK
  <1>2. ASSUME NEW k \in 0..Len(n.queue),
               LET ids == [l \in 1..k |-> n.queue[l].id]
                   After(l) == [n EXCEPT !.queue = SubSeq(@, l, Len(@))]
                   added == AddRemoteCandidates(p, ids)
               IN  \/ PumpNext(After(k + 1), added)
                   \/ /\ neg' = After(k + 2)
                      /\ Finish("PeerConnectionError", joined, added)
        PROVE  EndTyped /\ neg' \in Negotiation
    <2> DEFINE ids == [l \in 1..k |-> n.queue[l].id]
               After(l) == [n EXCEPT !.queue = SubSeq(@, l, Len(@))]
               added == AddRemoteCandidates(p, ids)
    <2>1. n.queue \in Seq(Message) /\ Len(n.queue) \in Nat /\ k \in Nat
      BY LenProperties DEF Negotiation
    <2>2. \A l \in 1..k : n.queue[l].id \in Nat
      <3>1. \A l \in 1..k : n.queue[l] \in Message
        BY <2>1, ElementOfSeq
      <3> QED
        BY <3>1 DEF Message
    <2>3. ids \in [1..k -> Nat]
      BY <2>2
    <2>4. ids \in Seq(Nat)
      BY <2>1, <2>3, SeqDef
    <2>5. added \in Peer
      BY <2>4, AddType
    <2>6. After(k + 1) \in Negotiation /\ After(k + 2) \in Negotiation
      <3>1. k + 1 \in Nat \ {0} /\ k + 2 \in Nat \ {0}
        BY <2>1
      <3>2. \A l \in Nat \ {0} : After(l) \in Negotiation
        BY AfterType
      <3> HIDE DEF After
      <3> QED
        BY <3>1, <3>2
    <2>7. PumpNext(After(k + 1), added)
            \/ (neg' = After(k + 2) /\ Finish("PeerConnectionError", joined, added))
      BY <1>2
    <2> HIDE DEF added, After
    <2> QED
      BY <2>5, <2>6, <2>7, PumpNextType, FinishType, ReasonTypes
  <1> QED
    BY <1>1, <1>2 DEF PumpSignalingMessages

(* -- the handlers ------------------------------------------------------------ *)

MediaTyped ==
  /\ peerConnected' \in BOOLEAN
  /\ remoteMediaSeen' \in BOOLEAN
  /\ callEstablished' \in BOOLEAN

LEMMA AssembleType ==
  ASSUME TypeOK, EndTyped, UNCHANGED socketVars, timers' \subseteq Timer,
         joined' \in Roles \cup {"none"}, neg' \in Negotiation, MediaTyped
  PROVE  TypeOK'
  <1>1. ThreadTypeOK'
    BY DEF EndTyped, ThreadTypeOK
  <1>2. ClientTypeOK'
    BY DEF EndTyped, socketVars, TypeOK, ClientTypeOK
  <1>3. PeerTypeOK'
    BY DEF EndTyped, PeerTypeOK
  <1> QED
    BY <1>1, <1>2, <1>3 DEF EndTyped, MediaTyped, TypeOK

(* The parts of the type invariant that a handler reads.                       *)
LEMMA TypeParts ==
  ASSUME TypeOK
  PROVE  /\ tasks \in Seq(Task) /\ timers \subseteq Timer /\ net \in Seq(Request)
         /\ peer \in Peer /\ state \in CallStates /\ neg \in Negotiation
         /\ joined \in Roles \cup {"none"}
         /\ peerConnected \in BOOLEAN /\ remoteMediaSeen \in BOOLEAN
         /\ callEstablished \in BOOLEAN /\ finished \in BOOLEAN
         /\ startupGen \in Nat /\ durationGen \in Nat
  BY DEF TypeOK, ThreadTypeOK, ClientTypeOK, PeerTypeOK

(* A handler that leaves the timers and the media flags alone.                 *)
LEMMA QuietType ==
  ASSUME TypeOK, EndTyped, neg' \in Negotiation, joined' \in Roles \cup {"none"},
         UNCHANGED <<timers, socketVars, mediaVars>>
  PROVE  TypeOK'
  <1>1. timers' \subseteq Timer /\ MediaTyped
    BY TypeParts DEF mediaVars, MediaTyped
  <1> QED
    BY <1>1, AssembleType

LEMMA IgnoreType ==
  ASSUME TypeOK, HasTask, Ignore, UNCHANGED socketVars PROVE TypeOK'
  <1>1. EndTyped
    BY TypeParts, ContinueType DEF Ignore
  <1> QED
    BY <1>1, TypeParts, QuietType DEF Ignore

(* A handler that at most ends the call.                                       *)
LEMMA FinishOnlyType ==
  ASSUME TypeOK, HasTask, NEW reason \in TerminalReasons, Finish(reason, joined, peer),
         UNCHANGED <<timers, socketVars, joined, neg, mediaVars>>
  PROVE  TypeOK'
  <1>1. EndTyped
    BY TypeParts, FinishType
  <1> QED
    BY <1>1, TypeParts, QuietType

LEMMA SettledType == TypeOK => Settled \in Negotiation
  BY TypeParts DEF Settled, Negotiation

LEMMA RunningTask == \A kind : Running(kind) => HasTask /\ Head(tasks).kind = kind
  BY DEF Running, HasTask

(* The fields of the task that a handler reads.                                *)
LEMMA TaskFields ==
  ASSUME TypeOK, HasTask
  PROVE  /\ Head(tasks).kind = "joined" => /\ Head(tasks).role \in Roles \cup {"none"}
                                           /\ Head(tasks).msgs \in Seq(RawMessage)
         /\ Head(tasks).kind = "inbound" => Head(tasks).msg \in Message
         /\ Head(tasks).kind \in TimerKinds => Head(tasks).gen \in Nat
  BY TailType DEF Task, JoinedTask, InboundTask, SentTask, ObserverTask, ConnectionTask,
                  Timer, TimerKinds

LEMMA OnJoinCompleteType == TypeOK /\ OnJoinComplete => TypeOK'
  <1> SUFFICES ASSUME TypeOK, OnJoinComplete PROVE TypeOK'
    OBVIOUS
  <1>1. HasTask /\ Head(tasks).kind = "joined" /\ UNCHANGED socketVars
    BY RunningTask DEF OnJoinComplete
  <1>2. CASE Ignore
    BY <1>1, <1>2, IgnoreType
  <1>3. CASE Finish("SignalingError", joined, peer)
               /\ UNCHANGED <<joined, neg, timers, mediaVars>>
    BY <1>1, <1>3, FinishOnlyType, ReasonTypes
  <1>4. CASE joined' = Head(tasks).role /\ UNCHANGED <<timers, mediaVars>>
               /\ \/ neg' = neg /\ Finish("PeerConnectionError", joined', peer)
                  \/ neg' = neg /\ Finish("MediaError", joined', Initialize(peer))
                  \/ /\ \E queue \in QueuedOrders(Head(tasks).msgs) :
                          neg' = [neg EXCEPT !.queue = @ \o queue]
                     /\ peer' = Initialize(peer)
                     /\ state' = "connecting"
                     /\ net' = Append(net, ConnectRequest)
                     /\ Continue
    <2>1. joined' \in Roles \cup {"none"} /\ Initialize(peer) \in Peer
      BY <1>1, <1>4, TaskFields, TypeParts, InitializeType
    <2>2. CASE neg' = neg /\ (\/ Finish("PeerConnectionError", joined', peer)
                              \/ Finish("MediaError", joined', Initialize(peer)))
      <3>1. EndTyped
        BY <1>1, <2>1, <2>2, FinishType, TypeParts, ReasonTypes
      <3> QED
        BY <1>1, <1>4, <2>1, <2>2, <3>1, QuietType, TypeParts
    <2>3. CASE /\ \E queue \in QueuedOrders(Head(tasks).msgs) :
                    neg' = [neg EXCEPT !.queue = @ \o queue]
               /\ peer' = Initialize(peer)
               /\ state' = "connecting"
               /\ net' = Append(net, ConnectRequest)
               /\ Continue
      <3>1. PICK queue \in QueuedOrders(Head(tasks).msgs) :
              neg' = [neg EXCEPT !.queue = @ \o queue]
        BY <2>3
      <3>2. queue \in Seq(Message)
        BY <1>1, <3>1, TaskFields, QueuedOrdersType
      <3>3. neg.queue \o queue \in Seq(Message)
        BY <3>2, TypeParts, ConcatProperties DEF Negotiation
      <3>4. neg' \in Negotiation
        BY <3>1, <3>3, TypeParts DEF Negotiation
      <3>5. net' \in Seq(Request)
        BY <2>3, RequestType, NetType
      <3>6. EndTyped
        BY <1>1, <2>1, <2>3, <3>5, ContinueType DEF CallStates
      <3> QED
        BY <1>1, <1>4, <2>1, <3>4, <3>6, QuietType
    <2> QED
      BY <1>4, <2>2, <2>3
  <1> QED
    BY <1>2, <1>3, <1>4 DEF OnJoinComplete


(* A handler that only pumps the queue.                                        *)
LEMMA PumpOnlyType ==
  ASSUME TypeOK, HasTask, NEW n \in Negotiation, NEW p \in Peer,
         PumpSignalingMessages(n, p), UNCHANGED <<timers, socketVars, joined, mediaVars>>
  PROVE  TypeOK'
  <1>1. EndTyped /\ neg' \in Negotiation
    BY PumpType
  <1> QED
    BY <1>1, TypeParts, QuietType

(* A handler that ends the call and the action in flight.                      *)
LEMMA SettleType ==
  ASSUME TypeOK, HasTask, NEW reason \in TerminalReasons, NEW p \in Peer,
         neg' = Settled, Finish(reason, joined, p),
         UNCHANGED <<timers, socketVars, joined, mediaVars>>
  PROVE  TypeOK'
  <1>1. EndTyped /\ neg' \in Negotiation
    BY FinishType, SettledType
  <1> QED
    BY <1>1, TypeParts, QuietType

(* A handler that goes on.                                                     *)
LEMMA ContinueOnlyType ==
  ASSUME TypeOK, HasTask, Continue, neg' = neg,
         peer' \in Peer, net' \in Seq(Request), state' \in CallStates,
         UNCHANGED <<timers, socketVars, joined, mediaVars>>
  PROVE  TypeOK'
  <1>1. EndTyped
    BY ContinueType
  <1> QED
    BY <1>1, TypeParts, QuietType

LEMMA OnWebSocketOpenType == TypeOK /\ OnWebSocketOpen => TypeOK'
  <1> SUFFICES ASSUME TypeOK, OnWebSocketOpen PROVE TypeOK'
    OBVIOUS
  <1>1. HasTask /\ UNCHANGED socketVars
    BY RunningTask DEF OnWebSocketOpen
  <1>2. CASE Ignore
    BY <1>1, <1>2, IgnoreType
  <1>3. CASE state' = "registering" /\ net' = Append(net, RegisterRequest) /\ Continue
               /\ UNCHANGED <<timers, peer, joined, neg, mediaVars>>
    <2>1. net' \in Seq(Request) /\ state' \in CallStates /\ peer' \in Peer
      BY <1>3, RequestType, NetType, TypeParts DEF CallStates
    <2> QED
      BY <1>1, <1>3, <2>1, ContinueOnlyType
  <1> QED
    BY <1>2, <1>3 DEF OnWebSocketOpen

LEMMA StatsTimersType == \A n \in Nat : StatsTimers(n) \subseteq Timer
  BY DEF StatsTimers, Timer, TimerKinds

LEMMA OnRegisterCompleteType == TypeOK /\ OnRegisterComplete => TypeOK'
  <1> SUFFICES ASSUME TypeOK, OnRegisterComplete PROVE TypeOK'
    OBVIOUS
  <1>1. HasTask /\ UNCHANGED socketVars
    BY RunningTask DEF OnRegisterComplete
  <1>2. CASE Ignore
    BY <1>1, <1>2, IgnoreType
  <1>3. CASE Finish("SignalingError", joined, peer)
               /\ UNCHANGED <<neg, timers, joined, mediaVars>>
    BY <1>1, <1>3, FinishOnlyType, ReasonTypes
  <1>4. CASE /\ timers' = IF StatsRunning THEN timers ELSE timers \cup StatsTimers(1)
             /\ PumpSignalingMessages([neg EXCEPT !.ready = TRUE], peer)
             /\ UNCHANGED <<joined, mediaVars>>
    <2>1. [neg EXCEPT !.ready = TRUE] \in Negotiation
      BY TypeParts DEF Negotiation
    <2>2. EndTyped /\ neg' \in Negotiation
      BY <1>1, <1>4, <2>1, PumpType, TypeParts
    <2>3. timers' \subseteq Timer
      BY <1>4, StatsTimersType, TypeParts
    <2>4. MediaTyped /\ joined' \in Roles \cup {"none"}
      BY <1>4, TypeParts DEF MediaTyped, mediaVars
    <2> QED
      BY <1>1, <2>2, <2>3, <2>4, AssembleType
  <1> QED
    BY <1>2, <1>3, <1>4 DEF OnRegisterComplete

LEMMA OnInboundType == TypeOK /\ OnInboundSignalingMessage => TypeOK'
  <1> SUFFICES ASSUME TypeOK, OnInboundSignalingMessage PROVE TypeOK'
    OBVIOUS
  <1>1. HasTask /\ Head(tasks).kind = "inbound" /\ UNCHANGED socketVars
    BY RunningTask DEF OnInboundSignalingMessage
  <1>2. CASE Ignore
    BY <1>1, <1>2, IgnoreType
  <1>3. CASE /\ PumpSignalingMessages(
                  [neg EXCEPT !.queue = Append(@, Head(tasks).msg)], peer)
             /\ UNCHANGED <<timers, joined, mediaVars>>
    <2>1. Append(neg.queue, Head(tasks).msg) \in Seq(Message)
      BY <1>1, TaskFields, TypeParts, AppendProperties DEF Negotiation
    <2>2. [neg EXCEPT !.queue = Append(@, Head(tasks).msg)] \in Negotiation
      BY <2>1, TypeParts DEF Negotiation
    <2> QED
      BY <1>1, <1>3, <2>2, PumpOnlyType, TypeParts
  <1> QED
    BY <1>2, <1>3 DEF OnInboundSignalingMessage

LEMMA OnSignalingErrorType == TypeOK /\ OnSignalingError => TypeOK'
  BY RunningTask, FinishOnlyType, ReasonTypes DEF OnSignalingError

LEMMA OnSentType ==
  TypeOK /\ (OnDescriptionSent \/ OnCandidateSent \/ OnByeSent) => TypeOK'
  <1> SUFFICES ASSUME TypeOK, OnDescriptionSent \/ OnCandidateSent \/ OnByeSent
               PROVE  TypeOK'
    OBVIOUS
  <1>1. CASE OnDescriptionSent
    <2>1. HasTask /\ UNCHANGED <<timers, socketVars, joined, mediaVars>>
      BY <1>1, RunningTask DEF OnDescriptionSent
    <2>2. CASE PumpSignalingMessages(Settled, peer)
      BY <2>1, <2>2, PumpOnlyType, SettledType, TypeParts
    <2>3. CASE neg' = Settled /\ Finish("SignalingError", joined, peer)
      BY <2>1, <2>3, SettleType, ReasonTypes, TypeParts
    <2> QED
      BY <1>1, <2>2, <2>3 DEF OnDescriptionSent
  <1>2. CASE OnCandidateSent
    <2>1. HasTask /\ UNCHANGED socketVars
      BY <1>2, RunningTask DEF OnCandidateSent
    <2>2. CASE Ignore
      BY <2>1, <2>2, IgnoreType
    <2>3. CASE Finish("SignalingError", joined, peer)
                 /\ UNCHANGED <<timers, joined, neg, mediaVars>>
      BY <2>1, <2>3, FinishOnlyType, ReasonTypes
    <2> QED
      BY <1>2, <2>2, <2>3 DEF OnCandidateSent
  <1>3. CASE OnByeSent
    <2>1. HasTask
      BY <1>3, RunningTask DEF OnByeSent
    <2>2. EndTyped
      <3>1. /\ tasks' \in Seq(Task) /\ loop' \in Phases /\ net' \in Seq(Request)
            /\ peer' \in Peer /\ state' \in CallStates /\ exitCode' \in ExitCodes
        BY <1>3, <2>1, CompleteFinishType, ReasonTypes, TypeParts DEF OnByeSent
      <3>2. finished' \in BOOLEAN /\ startupGen' \in Nat /\ durationGen' \in Nat
        BY <1>3, TypeParts DEF OnByeSent
      <3> QED
        BY <3>1, <3>2 DEF EndTyped
    <2> QED
      BY <1>3, <2>2, QuietType, TypeParts DEF OnByeSent
  <1> QED
    BY <1>1, <1>2, <1>3


LEMMA OnObserverType ==
  TypeOK /\ (OnStepFailed \/ OnCreated \/ OnLocalDescriptionSet \/ OnRemoteDescriptionSet)
    => TypeOK'
  <1> SUFFICES ASSUME TypeOK, \/ OnStepFailed \/ OnCreated
                              \/ OnLocalDescriptionSet \/ OnRemoteDescriptionSet
               PROVE  TypeOK'
    OBVIOUS
  <1>1. HasTask
    BY RunningTask
    DEF OnStepFailed, OnCreated, OnLocalDescriptionSet, OnRemoteDescriptionSet, RunningLive
  <1>2. CASE OnStepFailed
    BY <1>1, <1>2, SettleType, ReasonTypes, TypeParts DEF OnStepFailed
  <1>3. CASE OnCreated
    <2>1. NextStep[Head(tasks).step] \in Steps
      BY <1>3 DEF OnCreated, NextStep, Steps
    <2>2. peer' \in Peer
      BY <1>3, <2>1, StartType, TypeParts DEF OnCreated
    <2> QED
      BY <1>1, <1>3, <2>2, ContinueOnlyType, TypeParts DEF OnCreated, clientVars
  <1>4. CASE OnLocalDescriptionSet
    <2>1. net' \in Seq(Request)
      BY <1>4, RequestType, NetType
      DEF OnLocalDescriptionSet, SendLocalDescription, Payloads
    <2> QED
      BY <1>1, <1>4, <2>1, ContinueOnlyType, TypeParts
      DEF OnLocalDescriptionSet, SendLocalDescription
  <1>5. CASE OnRemoteDescriptionSet
    <2> DEFINE flushed == FlushPendingRemoteCandidates(peer)
    <2>1. flushed \in Peer /\ UNCHANGED <<timers, socketVars, joined, mediaVars>>
      BY <1>5, FlushType, TypeParts DEF OnRemoteDescriptionSet
    <2>2. CASE /\ peer' = Start(flushed, NextStep["setRemoteOffer"])
               /\ Continue /\ UNCHANGED <<net, state, neg>>
      <3>1. NextStep["setRemoteOffer"] \in Steps
        BY DEF NextStep, Steps
      <3>2. peer' \in Peer
        BY <2>1, <2>2, <3>1, StartType
      <3> QED
        BY <1>1, <2>1, <2>2, <3>2, ContinueOnlyType, TypeParts
    <2>3. CASE PumpSignalingMessages(Settled, flushed)
      BY <1>1, <2>1, <2>3, PumpOnlyType, SettledType
    <2>4. CASE /\ neg' = Settled
               /\ \E k \in 0..(Len(peer.buffered) - 1) :
                    Finish("PeerConnectionError", joined, FlushRefused(peer, k))
      <3>1. PICK k \in 0..(Len(peer.buffered) - 1) :
              Finish("PeerConnectionError", joined, FlushRefused(peer, k))
        BY <2>4
      <3>2. FlushRefused(peer, k) \in Peer
        BY FlushRefusedType, TypeParts
      <3> QED
        BY <1>1, <2>1, <2>4, <3>1, <3>2, SettleType, ReasonTypes
    <2> QED
      BY <1>5, <2>2, <2>3, <2>4 DEF OnRemoteDescriptionSet
  <1> QED
    BY <1>2, <1>3, <1>4, <1>5

LEMMA DropDeadType == TypeOK /\ DropDead => TypeOK'
  BY RunningTask, IgnoreType DEF DropDead

LEMMA OnIceCandidateType == TypeOK /\ OnIceCandidate => TypeOK'
  <1> SUFFICES ASSUME TypeOK, OnIceCandidate PROVE TypeOK'
    OBVIOUS
  <1>1. HasTask /\ UNCHANGED socketVars
    BY RunningTask DEF OnIceCandidate, RunningLive
  <1>2. CASE Ignore
    BY <1>1, <1>2, IgnoreType
  <1>3. CASE /\ net' = Append(net, SendRequest(joined, "candidate"))
             /\ Continue
             /\ UNCHANGED <<timers, peer, state, joined, neg, mediaVars>>
    <2>1. net' \in Seq(Request)
      BY <1>3, RequestType, NetType DEF Payloads
    <2> QED
      BY <1>1, <1>3, <2>1, ContinueOnlyType, TypeParts
  <1> QED
    BY <1>2, <1>3 DEF OnIceCandidate

(* Marking the call established schedules one timer.                           *)
LEMMA MarkType ==
  ASSUME TypeOK, HasTask, MaybeMarkCallEstablished, peer' \in Peer,
         peerConnected' \in BOOLEAN, remoteMediaSeen' \in BOOLEAN,
         UNCHANGED <<socketVars, joined, neg>>
  PROVE  TypeOK'
  <1> DEFINE marks == ~callEstablished /\ peerConnected' /\ remoteMediaSeen'
  <1>1. timers' \subseteq Timer
    <2>1. [kind |-> "duration", gen |-> durationGen + 1] \in Timer
      BY TypeParts DEF Timer, TimerKinds
    <2>2. timers' = IF marks
                      THEN timers \cup {[kind |-> "duration", gen |-> durationGen + 1]}
                      ELSE timers
      BY DEF MaybeMarkCallEstablished
    <2> HIDE DEF marks
    <2> QED
      BY <2>1, <2>2, TypeParts
  <1>2. MediaTyped
    BY TypeParts, Zenon DEF MediaTyped, MaybeMarkCallEstablished
  <1>3. startupGen' \in Nat /\ durationGen' \in Nat
    BY TypeParts DEF MaybeMarkCallEstablished
  <1>4. state' \in CallStates
    BY TypeParts DEF MaybeMarkCallEstablished, CallStates
  <1>5. EndTyped
    BY <1>3, <1>4, TailType DEF MaybeMarkCallEstablished, EndTyped, TypeOK, ThreadTypeOK,
       ClientTypeOK
  <1> QED
    BY <1>1, <1>2, <1>5, AssembleType, TypeParts

LEMMA NotedType ==
  ASSUME TypeOK, NEW b \in BOOLEAN
  PROVE  [peer EXCEPT !.connected = b] \in Peer /\ [peer EXCEPT !.seen = b] \in Peer
  BY TypeParts DEF Peer

LEMMA OnConnectionChangeType == TypeOK /\ OnConnectionChange => TypeOK'
  <1> SUFFICES ASSUME TypeOK, OnConnectionChange PROVE TypeOK'
    OBVIOUS
  <1> DEFINE connected == Head(tasks).to = "connected"
             noted == [peer EXCEPT !.connected = connected]
  <1>1. HasTask /\ UNCHANGED <<socketVars, joined, neg>>
    BY RunningTask DEF OnConnectionChange, RunningLive
  <1>2. noted \in Peer
    BY NotedType
  <1>3. peerConnected' \in BOOLEAN /\ remoteMediaSeen' \in BOOLEAN
    BY TypeParts DEF OnConnectionChange
  <1>4. CASE Finish("PeerConnectionError", joined, noted)
               /\ UNCHANGED <<timers, callEstablished>>
    <2>1. EndTyped
      BY <1>1, <1>2, <1>4, FinishType, ReasonTypes
    <2>2. timers' \subseteq Timer /\ MediaTyped
      BY <1>3, <1>4, TypeParts DEF MediaTyped
    <2> QED
      BY <1>1, <2>1, <2>2, AssembleType, TypeParts
  <1>5. CASE MaybeMarkCallEstablished /\ peer' = noted
    BY <1>1, <1>2, <1>3, <1>5, MarkType
  <1>6. CASE peer' = noted /\ Continue /\ UNCHANGED <<timers, net, state, callEstablished>>
    <2>1. EndTyped
      BY <1>1, <1>2, <1>6, ContinueType, TypeParts
    <2>2. timers' \subseteq Timer /\ MediaTyped
      BY <1>3, <1>6, TypeParts DEF MediaTyped
    <2> QED
      BY <1>1, <2>1, <2>2, AssembleType, TypeParts
  <1> QED
    BY <1>4, <1>5, <1>6 DEF OnConnectionChange

LEMMA OnFrameType == TypeOK /\ OnFrame => TypeOK'
  <1> SUFFICES ASSUME TypeOK, OnFrame PROVE TypeOK'
    OBVIOUS
  <1>1. /\ HasTask /\ UNCHANGED <<socketVars, joined, neg>>
        /\ peer' = [peer EXCEPT !.seen = TRUE] /\ peerConnected' = peerConnected
    BY RunningTask DEF OnFrame, RunningLive
  <1>2. peer' \in Peer
    BY <1>1, NotedType
  <1>3. CASE Continue /\ UNCHANGED <<timers, net, state, remoteMediaSeen, callEstablished>>
    <2>1. mediaVars' = mediaVars
      BY <1>1, <1>3 DEF mediaVars
    <2> QED
      BY <1>1, <1>2, <1>3, <2>1, ContinueOnlyType, TypeParts
  <1>4. CASE remoteMediaSeen' = TRUE /\ MaybeMarkCallEstablished
    <2>1. peerConnected' \in BOOLEAN /\ remoteMediaSeen' \in BOOLEAN
      BY <1>1, <1>4, TypeParts
    <2> QED
      BY <1>1, <1>2, <1>4, <2>1, MarkType
  <1> QED
    BY <1>3, <1>4 DEF OnFrame

LEMMA OnTimerType == TypeOK /\ (OnStartupTimeout \/ OnCallDuration \/ OnStats) => TypeOK'
  <1> SUFFICES ASSUME TypeOK, OnStartupTimeout \/ OnCallDuration \/ OnStats PROVE TypeOK'
    OBVIOUS
  <1>1. HasTask
    BY RunningTask DEF OnStartupTimeout, OnCallDuration, OnStats
  <1>2. CASE OnStartupTimeout
    BY <1>1, <1>2, IgnoreType, FinishOnlyType, ReasonTypes DEF OnStartupTimeout
  <1>3. CASE OnCallDuration
    BY <1>1, <1>3, IgnoreType, FinishOnlyType, ReasonTypes DEF OnCallDuration
  <1>4. CASE OnStats
    <2>1. Head(tasks).gen + 1 \in Nat
      BY <1>1, <1>4, RunningTask, TaskFields DEF OnStats, TimerKinds
    <2>2. timers' \subseteq Timer
      BY <1>4, <2>1, StatsTimersType, TypeParts DEF OnStats
    <2>3. EndTyped
      BY <1>1, <1>4, ContinueType, TypeParts DEF OnStats, clientVars
    <2>4. MediaTyped
      BY <1>4, TypeParts DEF OnStats, MediaTyped, mediaVars
    <2> QED
      BY <1>4, <2>2, <2>3, <2>4, AssembleType, TypeParts DEF OnStats, clientVars
  <1> QED
    BY <1>2, <1>3, <1>4


(* -- the process and its surroundings ---------------------------------------- *)

LEMMA PostType ==
  ASSUME TypeOK, NEW task \in Task, PostTask(task) PROVE tasks' \in Seq(Task)
  BY TypeParts, AppendProperties DEF PostTask

LEMMA NetTailType ==
  ASSUME TypeOK, net # <<>>
  PROVE  Tail(net) \in Seq(Request) /\ Head(net) \in Request
  BY TypeParts, HeadTailProperties

(* A step of a component outside the controller keeps the rest typed.          *)
LEMMA OutsideType ==
  ASSUME TypeOK, ThreadTypeOK', ClientTypeOK', PeerTypeOK',
         UNCHANGED <<state, joined, neg, mediaVars, finished, exitCode, startupGen,
                     durationGen>>
  PROVE  TypeOK'
  BY DEF TypeOK, mediaVars

LEMMA NetworkType == TypeOK /\ Network => TypeOK'
  <1> SUFFICES ASSUME TypeOK, NetworkStep, UNCHANGED <<peer, controlVars>> PROVE TypeOK'
    BY DEF Network
  <1>1. PeerTypeOK'
    BY TypeParts DEF PeerTypeOK
  <1>2. net # <<>>
    BY DEF NetworkStep, JoinRoom, ConnectWebSocket, Register, SendToRoom,
           SendWebSocketMessage, CloseMarks, CloseStops, Serving
  <1>3. Head(net) \in Request /\ Tail(net) \in Seq(Request)
    BY <1>2, NetTailType
  <1>4. CASE JoinRoom
    <2>1. CASE /\ PostTask([kind |-> "joined", role |-> "none", msgs |-> <<>>])
               /\ membership' = "unknown" /\ UNCHANGED arrived
      <3>1. [kind |-> "joined", role |-> "none", msgs |-> <<>>] \in Task
        BY EmptySeq DEF Task, JoinedTask
      <3> QED
        BY <1>1, <1>3, <1>4, <2>1, <3>1, PostType, OutsideType
        DEF JoinRoom, TypeOK, ThreadTypeOK, ClientTypeOK, Memberships, controlVars
    <2>2. CASE /\ \E role \in Roles, raw \in JoinQueues :
                    /\ PostTask([kind |-> "joined", role |-> role, msgs |-> raw])
                    /\ arrived' = CandidateIds(raw)
               /\ membership' = "member"
      <3>1. PICK role \in Roles, raw \in JoinQueues :
              /\ PostTask([kind |-> "joined", role |-> role, msgs |-> raw])
              /\ arrived' = CandidateIds(raw)
        BY <2>2
      <3>2. raw \in Seq(RawMessage)
        BY ClientAssumption
      <3>3. [kind |-> "joined", role |-> role, msgs |-> raw] \in Task
        BY <3>2 DEF Task, JoinedTask
      <3>4. CandidateIds(raw) \subseteq Nat
        <4>1. \A l \in DOMAIN raw : raw[l] \in RawMessage
          BY <3>2, LenProperties, ElementOfSeq
        <4> QED
          BY <4>1 DEF CandidateIds, RawMessage
      <3> QED
        BY <1>1, <1>3, <1>4, <2>2, <3>1, <3>3, <3>4, PostType, OutsideType
        DEF JoinRoom, TypeOK, ThreadTypeOK, ClientTypeOK, Memberships, controlVars
    <2> QED
      BY <1>4, <2>1, <2>2 DEF JoinRoom
  <1>5. CASE ConnectWebSocket \/ CloseStops
    BY <1>1, <1>3, <1>5, OutsideType
    DEF ConnectWebSocket, CloseStops, threadVars, TypeOK, ThreadTypeOK, ClientTypeOK,
        Memberships, controlVars
  <1>6. CASE Register
    <2>1. PICK ok \in BOOLEAN : PostTask([kind |-> "registered", ok |-> ok])
      BY <1>6 DEF Register
    <2>2. [kind |-> "registered", ok |-> ok] \in Task
      BY DEF Task
    <2> QED
      BY <1>1, <1>3, <1>6, <2>1, <2>2, PostType, OutsideType
      DEF Register, socketVars, TypeOK, ThreadTypeOK, ClientTypeOK, controlVars
  <1>7. CASE SendToRoom \/ SendWebSocketMessage
    <2>1. PICK ok \in BOOLEAN :
            PostTask([kind |-> "sent", what |-> Head(net).what, ok |-> ok])
      BY <1>7 DEF SendToRoom, SendWebSocketMessage
    <2>2. Head(net).what \in Payloads
      <3>1. Head(net).op \in {"post", "send"}
        BY <1>7 DEF SendToRoom, SendWebSocketMessage, Serving
      <3> QED
        BY <1>3, <3>1 DEF Request
    <2>3. [kind |-> "sent", what |-> Head(net).what, ok |-> ok] \in Task
      BY <2>2 DEF Task, SentTask
    <2> QED
      BY <1>1, <1>3, <1>7, <2>1, <2>3, PostType, OutsideType
      DEF SendToRoom, SendWebSocketMessage, socketVars, TypeOK, ThreadTypeOK,
          ClientTypeOK, controlVars
  <1>8. CASE CloseMarks
    <2>1. [op |-> "stop"] \in Request
      BY DEF Request
    <2>2. [net EXCEPT ![1] = [op |-> "stop"]] \in Seq(Request)
      <3>1. net \in Seq(Request) /\ 1 \in 1..Len(net)
        BY <1>2, TypeParts, EmptySeq
      <3> QED
        BY <2>1, <3>1, ExceptSeq
    <2> QED
      BY <1>1, <1>8, <2>2, OutsideType
      DEF CloseMarks, threadVars, TypeOK, ThreadTypeOK, ClientTypeOK, controlVars
  <1> QED
    BY <1>4, <1>5, <1>6, <1>7, <1>8 DEF NetworkStep

LEMMA WebSocketType == TypeOK /\ WebSocket => TypeOK'
  <1> SUFFICES ASSUME TypeOK, WebSocketEvent, UNCHANGED <<peer, controlVars>> PROVE TypeOK'
    BY DEF WebSocket
  <1>1. PeerTypeOK'
    BY TypeParts DEF PeerTypeOK
  <1>2. [kind |-> "error"] \in Task /\ [kind |-> "opened"] \in Task
    BY DEF Task
  <1>3. CASE WebSocketOpens
    BY <1>1, <1>2, <1>3, PostType, OutsideType
    DEF WebSocketOpens, TypeOK, ThreadTypeOK, ClientTypeOK, controlVars
  <1>4. CASE WebSocketCloses
    <2>1. tasks' \in Seq(Task)
      BY <1>2, <1>4, PostType, TypeParts DEF WebSocketCloses
    <2> QED
      BY <1>1, <1>4, <2>1, OutsideType
      DEF WebSocketCloses, TypeOK, ThreadTypeOK, ClientTypeOK, controlVars
  <1>5. CASE WebSocketFails
    BY <1>1, <1>2, <1>5, PostType, OutsideType
    DEF WebSocketFails, TypeOK, ThreadTypeOK, ClientTypeOK, controlVars
  <1>6. CASE WebSocketMessage
    <2>1. PICK message \in [type : MessageTypes, id : 0..MaxCandidates] :
            /\ arrived' = arrived \cup {message.id} \/ arrived' = arrived
            /\ PostTask([kind |-> "inbound", msg |-> message])
      BY <1>6 DEF WebSocketMessage
    <2>2. message \in Message /\ message.id \in Nat
      BY ClientAssumption DEF Message
    <2>3. [kind |-> "inbound", msg |-> message] \in Task
      BY <2>2 DEF Task, InboundTask
    <2>4. tasks' \in Seq(Task)
      BY <2>1, <2>3, PostType
    <2>5. arrived' \subseteq Nat /\ heard' \in Nat
      <3>1. arrived \subseteq Nat /\ heard \in Nat
        BY DEF TypeOK, ClientTypeOK
      <3>2. heard' = heard + 1
        BY <1>6 DEF WebSocketMessage
      <3>3. arrived' \subseteq arrived \cup {message.id}
        BY <2>1
      <3> QED
        BY <2>2, <3>1, <3>2, <3>3
    <2> QED
      BY <1>1, <1>6, <2>4, <2>5, OutsideType
      DEF WebSocketMessage, TypeOK, ThreadTypeOK, ClientTypeOK, controlVars
  <1>7. CASE WebSocketBadMessage
    BY <1>1, <1>2, <1>7, PostType, OutsideType
    DEF WebSocketBadMessage, TypeOK, ThreadTypeOK, ClientTypeOK, controlVars
  <1> QED
    BY <1>3, <1>4, <1>5, <1>6, <1>7 DEF WebSocketEvent


LEMMA LibraryType == TypeOK /\ Library => TypeOK'
  <1> SUFFICES ASSUME TypeOK, LibraryEvent, UNCHANGED <<clientVars, controlVars>>
               PROVE  TypeOK'
    BY DEF Library
  <1>1. ClientTypeOK'
    BY DEF clientVars, socketVars, TypeOK, ClientTypeOK
  <1>2. peer \in Peer /\ peer.flag \in Nat
    BY TypeParts DEF Peer
  <1>3. CASE OperationCompletes
    <2>1. PICK step \in peer.pending, ok \in BOOLEAN :
            /\ PostTask([kind |-> "observer", step |-> step, ok |-> ok,
                         flag |-> peer.flag])
            /\ peer' = [peer EXCEPT
                 !.pending = @ \ {step},
                 !.gathering = @ \/ (ok /\ step \in {"setLocalOffer", "setLocalAnswer"}),
                 !.sink = @ \/ (ok /\ step \in {"setRemoteOffer", "setRemoteAnswer"})]
      BY <1>3 DEF OperationCompletes
    <2>2. step \in Steps
      BY <1>2 DEF Peer
    <2>3. [kind |-> "observer", step |-> step, ok |-> ok, flag |-> peer.flag] \in Task
      BY <1>2, <2>2 DEF Task, ObserverTask
    <2>4. tasks' \in Seq(Task)
      BY <2>1, <2>3, PostType
    <2>5. peer' \in Peer
      <3> DEFINE g == peer.gathering \/ (ok /\ step \in {"setLocalOffer", "setLocalAnswer"})
                 s == peer.sink \/ (ok /\ step \in {"setRemoteOffer", "setRemoteAnswer"})
                 rest == peer.pending \ {step}
      <3>1. g \in BOOLEAN /\ s \in BOOLEAN
        BY Zenon
      <3>2. rest \in SUBSET Steps
        BY <1>2 DEF Peer
      <3>3. peer' = [peer EXCEPT !.pending = rest, !.gathering = g, !.sink = s]
        BY <2>1, Zenon
      <3> HIDE DEF g, s, rest
      <3> QED
        BY <1>2, <3>1, <3>2, <3>3 DEF Peer
    <2> QED
      BY <1>1, <1>3, <2>4, <2>5, OutsideType, TypeParts
      DEF OperationCompletes, TypeOK, ThreadTypeOK, PeerTypeOK, controlVars
  <1>4. CASE CandidateGathered
    <2>1. [kind |-> "localCandidate", flag |-> peer.flag] \in Task
      BY <1>2 DEF Task
    <2>2. peer' \in Peer
      <3>1. peer' = [peer EXCEPT !.gathered = @ + 1]
        BY <1>4 DEF CandidateGathered
      <3>2. peer.gathered + 1 \in Nat
        BY <1>2 DEF Peer
      <3> QED
        BY <1>2, <3>1, <3>2 DEF Peer
    <2> QED
      BY <1>1, <1>4, <2>1, <2>2, PostType, OutsideType
      DEF CandidateGathered, TypeOK, ThreadTypeOK, PeerTypeOK, controlVars
  <1>5. CASE ConnectionChanges
    <2>1. PICK to \in {"connected", "disconnected", "failed"} :
            PostTask([kind |-> "connection", to |-> to, flag |-> peer.flag])
      BY <1>5 DEF ConnectionChanges
    <2>2. [kind |-> "connection", to |-> to, flag |-> peer.flag] \in Task
      BY <1>2 DEF Task, ConnectionTask
    <2> QED
      BY <1>1, <1>2, <1>5, <2>1, <2>2, PostType, OutsideType
      DEF ConnectionChanges, TypeOK, ThreadTypeOK, PeerTypeOK, controlVars
  <1>6. CASE OnFrameDelivered
    <2>1. [kind |-> "frame", flag |-> peer.flag] \in Task
      BY <1>2 DEF Task
    <2> QED
      BY <1>1, <1>2, <1>6, <2>1, PostType, OutsideType
      DEF OnFrameDelivered, TypeOK, ThreadTypeOK, PeerTypeOK, controlVars
  <1> QED
    BY <1>3, <1>4, <1>5, <1>6 DEF LibraryEvent

LEMMA AlarmType == ASSUME TypeOK, NEW kind, Alarm(kind) PROVE TypeOK'
  <1>1. PICK timer \in timers : timers' = timers \ {timer} /\ tasks' = Append(tasks, timer)
    BY DEF Alarm, TimerDue
  <1>2. timer \in Task
    BY TypeParts DEF Task
  <1>3. tasks' \in Seq(Task) /\ timers' \subseteq Timer
    BY <1>1, <1>2, TypeParts, AppendProperties
  <1>4. ClientTypeOK' /\ PeerTypeOK'
    BY DEF Alarm, clientVars, socketVars, TypeOK, ClientTypeOK, PeerTypeOK
  <1> QED
    BY <1>3, <1>4, OutsideType
    DEF Alarm, TimerDue, controlVars, TypeOK, ThreadTypeOK

LEMMA ProcessType == TypeOK /\ (StartCall \/ ReturnFromRun \/ Destroy) => TypeOK'
  <1> SUFFICES ASSUME TypeOK, StartCall \/ ReturnFromRun \/ Destroy PROVE TypeOK'
    OBVIOUS
  <1>1. CASE StartCall
    <2>1. timers' \subseteq Timer
      BY <1>1, TypeParts DEF StartCall, Timer, TimerKinds
    <2>2. net' \in Seq(Request)
      BY <1>1, RequestType, NetType DEF StartCall
    <2>3. EndTyped
      BY <1>1, <2>2, TypeParts DEF StartCall, EndTyped, Phases, CallStates, TypeOK
    <2>4. MediaTyped
      BY <1>1, TypeParts DEF StartCall, MediaTyped, mediaVars
    <2> QED
      BY <1>1, <2>1, <2>3, <2>4, AssembleType, TypeParts DEF StartCall
  <1>2. CASE ReturnFromRun
    <2>1. peer' \in Peer
      BY <1>2, CloseType, TypeParts DEF ReturnFromRun
    <2>2. ThreadTypeOK' /\ PeerTypeOK'
      BY <1>2, <2>1, TypeParts DEF ReturnFromRun, ThreadTypeOK, PeerTypeOK, Phases
    <2>3. ClientTypeOK'
      BY <1>2 DEF ReturnFromRun, TypeOK, ClientTypeOK
    <2> QED
      BY <1>2, <2>2, <2>3, OutsideType DEF ReturnFromRun
  <1>3. CASE Destroy
    <2>1. ThreadTypeOK' /\ PeerTypeOK'
      BY <1>3, TypeParts DEF Destroy, ThreadTypeOK, PeerTypeOK, Phases
    <2>2. ClientTypeOK'
      BY <1>3 DEF Destroy, TypeOK, ClientTypeOK
    <2> QED
      BY <1>3, <2>1, <2>2, OutsideType DEF Destroy
  <1> QED
    BY <1>1, <1>2, <1>3

(* -- the theorem ------------------------------------------------------------- *)

LEMMA InitType == Init => TypeOK
  <1> SUFFICES ASSUME Init PROVE TypeOK
    OBVIOUS
  <1>1. ThreadTypeOK /\ ClientTypeOK
    BY EmptySeq
    DEF Init, ThreadInit, ClientInit, ThreadTypeOK, ClientTypeOK, Phases, Memberships
  <1>2. PeerTypeOK
    BY EmptySeq DEF Init, PeerInit, PeerTypeOK, Peer
  <1>3. neg \in Negotiation
    BY EmptySeq DEF Init, Negotiation
  <1> QED
    BY <1>1, <1>2, <1>3 DEF Init, TypeOK, CallStates, ExitCodes

LEMMA StepType == TypeOK /\ [Next]_vars => TypeOK'
  <1> SUFFICES ASSUME TypeOK, [Next]_vars PROVE TypeOK'
    OBVIOUS
  <1>1. CASE Dispatch
    BY <1>1, OnJoinCompleteType, OnWebSocketOpenType, OnRegisterCompleteType,
       OnInboundType, OnSignalingErrorType, OnSentType, DropDeadType, OnObserverType,
       OnIceCandidateType, OnConnectionChangeType, OnFrameType, OnTimerType
    DEF Dispatch
  <1>2. CASE StartCall \/ ReturnFromRun \/ Destroy
    BY <1>2, ProcessType
  <1>3. CASE Network \/ WebSocket \/ Library
    BY <1>3, NetworkType, WebSocketType, LibraryType
  <1>4. CASE \E kind \in TimerKinds : Alarm(kind)
    BY <1>4, AlarmType
  <1>5. CASE Exited \/ UNCHANGED vars
    BY <1>5
    DEF Exited, vars, threadVars, clientVars, socketVars, mediaVars, TypeOK,
        ThreadTypeOK, ClientTypeOK, PeerTypeOK
  <1> QED
    BY <1>1, <1>2, <1>3, <1>4, <1>5 DEF Next

(* Every variable keeps its type, in every instance.                           *)
THEOREM TypeCorrect == Spec => []TypeOK
  BY InitType, StepType, PTL DEF Spec

-----------------------------------------------------------------------------

(* -- the inductive invariant -------------------------------------------------- *)

(* Before the join is answered nothing can establish the call.                 *)
JoinedFirst ==
  joined = "none" =>
    /\ peer.pending = {} /\ ~peer.sink
    /\ ~remoteMediaSeen /\ ~callEstablished
    /\ \A k \in DOMAIN tasks : tasks[k].kind \notin {"observer", "frame"}

(* The join is the first request, and its response is handled once.            *)
JoinOnce ==
  /\ loop = "starting" => net = <<>> /\ joined = "none"
  /\ \A k \in DOMAIN net : net[k].op = "join" =>
       /\ k = 1 /\ joined = "none"
       /\ \A l \in DOMAIN tasks : tasks[l].kind # "joined"
  /\ \A k \in DOMAIN tasks : tasks[k].kind = "joined" =>
       /\ joined = "none" /\ loop # "starting"
       /\ \A l \in DOMAIN tasks : tasks[l].kind = "joined" => k = l

(* One bye at most, on its way or answered, and then the loop waits for it.    *)
ByeOnce ==
  /\ \A k \in DOMAIN net : IsPayload(net[k], "bye") =>
       /\ finished /\ callEstablished /\ loop = "running"
       /\ \A l \in DOMAIN net : IsPayload(net[l], "bye") => k = l
       /\ \A l \in DOMAIN tasks : ~IsSent(tasks[l], "bye")
  /\ \A k \in DOMAIN tasks : IsSent(tasks[k], "bye") =>
       /\ finished /\ callEstablished /\ loop = "running"
       /\ \A l \in DOMAIN tasks : IsSent(tasks[l], "bye") => k = l

CodeKnown ==
  /\ ~finished => exitCode = RuntimeFailed
  /\ loop = "starting" => ~finished
  /\ loop \in {"quit", "returned", "destroyed"} => finished

HonestInv == TypeOK /\ JoinedFirst /\ JoinOnce /\ ByeOnce /\ CodeKnown /\ ExitHonest

(* -- sequences ---------------------------------------------------------------- *)

LEMMA TailElements ==
  ASSUME NEW S, NEW s \in Seq(S), s # <<>>
  PROVE  /\ 1 \in DOMAIN s /\ Head(s) = s[1]
         /\ \A k \in DOMAIN Tail(s) :
              k \in Nat \ {0} /\ k + 1 \in DOMAIN s /\ Tail(s)[k] = s[k + 1]
  <1>1. Len(s) \in Nat /\ DOMAIN s = 1..Len(s) /\ Len(s) # 0
    BY LenProperties, EmptySeq
  <1>2. /\ Tail(s) \in Seq(S) /\ Len(Tail(s)) = Len(s) - 1
        /\ \A k \in 1..Len(Tail(s)) : Tail(s)[k] = s[k + 1]
    BY HeadTailProperties
  <1>3. DOMAIN Tail(s) = 1..Len(Tail(s))
    BY <1>2, LenProperties
  <1>4. Head(s) = s[1]
    BY HeadTailProperties
  <1> QED
    BY <1>1, <1>2, <1>3, <1>4

LEMMA AppendElements ==
  ASSUME NEW S, NEW s \in Seq(S), NEW e \in S
  PROVE  \A k \in DOMAIN Append(s, e) :
           /\ k \in Nat \ {0}
           /\ \/ k \in DOMAIN s /\ Append(s, e)[k] = s[k]
              \/ k = Len(s) + 1 /\ k \notin DOMAIN s /\ Append(s, e)[k] = e
  <1>1. /\ Append(s, e) \in Seq(S) /\ Len(Append(s, e)) = Len(s) + 1
        /\ \A k \in 1..Len(s) : Append(s, e)[k] = s[k]
        /\ Append(s, e)[Len(s) + 1] = e
    BY AppendProperties
  <1>2. DOMAIN s = 1..Len(s) /\ Len(s) \in Nat
        /\ DOMAIN Append(s, e) = 1..Len(Append(s, e))
    BY <1>1, LenProperties
  <1> QED
    BY <1>1, <1>2

(* -- what a handler does to the call's end ------------------------------------ *)

(* The handler's task is gone; only a frame may have been posted.              *)
TasksRun ==
  \A k \in DOMAIN tasks' :
    /\ k \in Nat \ {0}
    /\ \/ tasks'[k].kind = "frame"
       \/ k + 1 \in DOMAIN tasks /\ tasks'[k] = tasks[k + 1]

(* Neither a join nor a bye was requested.                                     *)
NetKeeps ==
  \A k \in DOMAIN net' :
    \/ k \in DOMAIN net /\ net'[k] = net[k]
    \/ net'[k].op # "join" /\ ~IsPayload(net'[k], "bye")

Onward == UNCHANGED <<finished, exitCode, loop>> /\ TasksRun /\ NetKeeps

Ended(reason) ==
  /\ ~finished /\ finished'
  /\ exitCode' = ExitCodeForReason[reason] /\ loop' = "quit"
  /\ TasksRun /\ NetKeeps

Farewell ==
  /\ ~finished /\ finished'
  /\ UNCHANGED <<exitCode, loop>>
  /\ tasks' = Tail(tasks)
  /\ \E role : net' = Append(net, SendRequest(role, "bye"))

Bid ==
  /\ IsSent(Head(tasks), "bye")
  /\ finished' = finished
  /\ exitCode' = Success /\ loop' = "quit"
  /\ TasksRun /\ NetKeeps

(* A reason that the call, established or not, can end for.                    *)
Fits(reason) ==
  /\ reason \in TerminalReasons
  /\ reason \in {"LocalDurationReached", "RemoteByeAfterEstablished"} => callEstablished
  /\ reason \in {"StartupTimeout", "MediaError"} => ~callEstablished

Outcome ==
  \/ Onward /\ (callEstablished' = callEstablished \/ (~finished /\ callEstablished'))
  \/ callEstablished' = callEstablished /\ \E reason : Fits(reason) /\ Ended(reason)
  \/ callEstablished /\ callEstablished' /\ Farewell
  \/ callEstablished' = callEstablished /\ Bid

FirstKept ==
  joined' = "none" =>
    /\ peer'.pending = {} /\ ~peer'.sink
    /\ ~remoteMediaSeen' /\ ~callEstablished'
    /\ tasks' = Tail(tasks)

JoinedKept == joined' = joined \/ (Head(tasks).kind = "joined" /\ joined = "none")

FinalKept == finished => UNCHANGED <<joined, mediaVars, startupGen, durationGen>>

Handled ==
  /\ HasTask /\ loop \in {"running", "quit"}
  /\ Outcome /\ FirstKept /\ JoinedKept /\ FinalKept

(* -- the parts handlers share --------------------------------------------------*)

LEMMA TailRuns == ASSUME TypeOK, HasTask, tasks' = Tail(tasks) PROVE TasksRun
  BY TailElements, TypeParts DEF HasTask, TasksRun

LEMMA FrameRuns ==
  ASSUME TypeOK, HasTask, NEW f \in Nat,
         tasks' = Append(Tail(tasks), [kind |-> "frame", flag |-> f])
  PROVE  TasksRun
  <1> DEFINE frame == [kind |-> "frame", flag |-> f]
  <1>1. frame \in Task /\ frame.kind = "frame"
    BY DEF Task
  <1>2. Tail(tasks) \in Seq(Task)
    BY TailType
  <1> HIDE DEF frame
  <1>3. \A k \in DOMAIN tasks' :
          /\ k \in Nat \ {0}
          /\ \/ k \in DOMAIN Tail(tasks) /\ tasks'[k] = Tail(tasks)[k]
             \/ tasks'[k] = frame
    BY <1>1, <1>2, AppendElements DEF frame
  <1>4. \A k \in DOMAIN Tail(tasks) : k + 1 \in DOMAIN tasks /\ Tail(tasks)[k] = tasks[k + 1]
    BY TailElements, TypeParts DEF HasTask
  <1> QED
    BY <1>1, <1>3, <1>4 DEF TasksRun

LEMMA NetSame == ASSUME net' = net PROVE NetKeeps
  BY DEF NetKeeps

LEMMA NetAppend ==
  ASSUME TypeOK, NEW r \in Request, r.op # "join", ~IsPayload(r, "bye"),
         net' = Append(net, r)
  PROVE  NetKeeps
  BY AppendElements, TypeParts DEF NetKeeps

LEMMA CompleteFinishOutcome ==
  ASSUME TypeOK, HasTask, NEW reason \in TerminalReasons, NEW role, NEW p \in Peer,
         CompleteFinish(reason, role, p)
  PROVE  /\ TasksRun /\ NetKeeps
         /\ exitCode' = ExitCodeForReason[reason] /\ loop' = "quit"
         /\ peer'.pending = {} /\ ~peer'.sink
         /\ ~p.sink => tasks' = Tail(tasks)
  <1>1. TasksRun
    <2>1. p.flag + 1 \in Nat
      BY DEF Peer
    <2> QED
      BY <2>1, TailRuns, FrameRuns DEF CompleteFinish
  <1>2. NetKeeps
    <2>1. CloseRequest.op # "join" /\ ~IsPayload(CloseRequest, "bye")
      BY DEF CloseRequest, IsPayload
    <2> QED
      BY <2>1, NetSame, NetAppend, RequestType DEF CompleteFinish
  <1>3. peer'.pending = {} /\ ~peer'.sink
    <2>1. peer' = Close(p)
      BY DEF CompleteFinish
    <2> QED
      BY <2>1 DEF Close, Peer
  <1> QED
    BY <1>1, <1>2, <1>3 DEF CompleteFinish

LEMMA FinishOutcome ==
  ASSUME TypeOK, HasTask, NEW reason \in TerminalReasons, NEW role, NEW p \in Peer,
         Finish(reason, role, p)
  PROVE  /\ \/ finished /\ Onward
            \/ Ended(reason)
            \/ reason = "LocalDurationReached" /\ Farewell
         /\ finished => UNCHANGED <<startupGen, durationGen>>
         /\ p.pending = {} /\ ~p.sink =>
              peer'.pending = {} /\ ~peer'.sink /\ tasks' = Tail(tasks)
  <1>1. CASE finished /\ Continue /\ peer' = p /\ UNCHANGED <<net, state>>
    BY <1>1, TailRuns, NetSame DEF Continue, finishVars, Onward
  <1>2. CASE ~finished
    <2>1. finished' = TRUE
      BY <1>2 DEF Finish
    <2>2. CASE reason = "LocalDurationReached" /\ role # "none"
      BY <1>2, <2>1, <2>2 DEF Finish, Farewell
    <2>3. CASE ~(reason = "LocalDurationReached" /\ role # "none")
      <3>1. CompleteFinish(reason, role, p)
        BY <1>2, <2>3 DEF Finish
      <3> QED
        BY <1>2, <2>1, <3>1, CompleteFinishOutcome DEF Ended
    <2> QED
      BY <2>2, <2>3
  <1> QED
    BY <1>1, <1>2 DEF Finish

(* The four ways in which a handler that leaves join_response_ and the media   *)
(* flags alone can be Handled.                                                 *)
LEMMA KeepsHandled ==
  ASSUME HonestInv, HasTask, loop \in {"running", "quit"}, Outcome,
         UNCHANGED <<joined, remoteMediaSeen, callEstablished>>,
         finished => UNCHANGED <<peerConnected, startupGen, durationGen>>,
         joined = "none" => peer'.pending = {} /\ ~peer'.sink /\ tasks' = Tail(tasks)
  PROVE  Handled
  <1>1. FirstKept
    BY DEF FirstKept, HonestInv, JoinedFirst
  <1>2. JoinedKept
    BY DEF JoinedKept
  <1>3. FinalKept
    BY DEF FinalKept, mediaVars
  <1> QED
    BY <1>1, <1>2, <1>3 DEF Handled

LEMMA ContinueHandled ==
  ASSUME HonestInv, HasTask, loop \in {"running", "quit"}, Continue, NetKeeps,
         UNCHANGED <<joined, mediaVars>>,
         joined = "none" => peer'.pending = {} /\ ~peer'.sink
  PROVE  Handled
  <1>1. Outcome
    BY TailRuns DEF HonestInv, Continue, finishVars, Onward, Outcome, mediaVars
  <1> QED
    BY <1>1, KeepsHandled DEF Continue, finishVars, mediaVars

LEMMA IgnoreHandled ==
  ASSUME HonestInv, HasTask, loop \in {"running", "quit"}, Ignore
  PROVE  Handled
  BY ContinueHandled, NetSame DEF Ignore, HonestInv, JoinedFirst

LEMMA FinishHandled ==
  ASSUME HonestInv, HasTask, loop \in {"running", "quit"}, NEW reason, Fits(reason),
         NEW p \in Peer, p.pending = peer.pending, p.sink = peer.sink,
         Finish(reason, joined, p), UNCHANGED <<joined, mediaVars>>
  PROVE  Handled
  <1>1. TypeOK /\ reason \in TerminalReasons
    BY DEF HonestInv, Fits
  <1>2. Outcome
    BY <1>1, FinishOutcome DEF Outcome, Fits, mediaVars
  <1>3. joined = "none" => p.pending = {} /\ ~p.sink
    BY DEF HonestInv, JoinedFirst
  <1> QED
    BY <1>1, <1>2, <1>3, FinishOutcome, KeepsHandled DEF mediaVars

(* -- negotiation ------------------------------------------------------------- *)

(* Once join_response_ is there, a step of the negotiation goes on or ends.    *)
NegotiationOutcome ==
  \/ Onward
  \/ \E reason : Fits(reason) /\ Ended(reason)

FinishedGens == finished => UNCHANGED <<startupGen, durationGen>>

LEMMA FitsAlways ==
  /\ Fits("SignalingError") /\ Fits("PeerConnectionError")
  /\ Fits(IF callEstablished THEN "RemoteByeAfterEstablished"
                             ELSE "RemoteByeBeforeEstablished")
  BY DEF Fits, TerminalReasons

LEMMA FinishNegotiation ==
  ASSUME TypeOK, HasTask, NEW reason, Fits(reason), reason # "LocalDurationReached",
         NEW p \in Peer, Finish(reason, joined, p)
  PROVE  NegotiationOutcome /\ FinishedGens
  <1>1. reason \in TerminalReasons
    BY DEF Fits
  <1> QED
    BY <1>1, FinishOutcome DEF NegotiationOutcome, FinishedGens

LEMMA ContinueNegotiation ==
  ASSUME TypeOK, HasTask, Continue, UNCHANGED net
  PROVE  NegotiationOutcome /\ FinishedGens
  BY TailRuns, NetSame DEF Continue, finishVars, NegotiationOutcome, FinishedGens, Onward

LEMMA ApplyNegotiation ==
  ASSUME TypeOK, HasTask, NEW n, NEW p \in Peer, NEW step, ApplyDescription(n, p, step)
  PROVE  NegotiationOutcome /\ FinishedGens
  BY ContinueNegotiation, FinishNegotiation, FitsAlways
  DEF ApplyDescription, StartNegotiating

LEMMA PumpNextOutcome ==
  ASSUME TypeOK, HasTask, NEW n, NEW p \in Peer, PumpNext(n, p)
  PROVE  NegotiationOutcome /\ FinishedGens
  <1> DEFINE rest == [n EXCEPT !.queue = Tail(@)]
             bye == IF callEstablished THEN "RemoteByeAfterEstablished"
                                       ELSE "RemoteByeBeforeEstablished"
  <1>1. CASE Continue /\ UNCHANGED net
    BY <1>1, ContinueNegotiation
  <1>2. CASE Finish(bye, joined, p) \/ Finish("SignalingError", joined, p)
    BY <1>2, FinishNegotiation, FitsAlways
  <1>3. CASE \E step : ApplyDescription(rest, p, step)
    BY <1>3, ApplyNegotiation
  <1> QED
    BY <1>1, <1>2, <1>3 DEF PumpNext, StartNegotiating

LEMMA PumpOutcome ==
  ASSUME TypeOK, HasTask, NEW n \in Negotiation, NEW p \in Peer,
         PumpSignalingMessages(n, p)
  PROVE  /\ NegotiationOutcome /\ FinishedGens
         /\ joined = "none" => peer' = p /\ tasks' = Tail(tasks)
  <1>1. CASE neg' = n /\ peer' = p /\ UNCHANGED <<net, state>> /\ Continue
    BY <1>1, ContinueNegotiation DEF Continue
  <1>2. ASSUME joined # "none", NEW k \in 0..Len(n.queue),
               LET ids == [l \in 1..k |-> n.queue[l].id]
                   After(l) == [n EXCEPT !.queue = SubSeq(@, l, Len(@))]
                   added == AddRemoteCandidates(p, ids)
               IN  \/ PumpNext(After(k + 1), added)
                   \/ Finish("PeerConnectionError", joined, added)
        PROVE  NegotiationOutcome /\ FinishedGens
    <2> DEFINE ids == [l \in 1..k |-> n.queue[l].id]
               After(l) == [n EXCEPT !.queue = SubSeq(@, l, Len(@))]
               added == AddRemoteCandidates(p, ids)
    <2>1. n.queue \in Seq(Message) /\ Len(n.queue) \in Nat /\ k \in Nat
      BY LenProperties DEF Negotiation
    <2>2. \A l \in 1..k : n.queue[l].id \in Nat
      <3>1. \A l \in 1..k : n.queue[l] \in Message
        BY <2>1, ElementOfSeq
      <3> QED
        BY <3>1 DEF Message
    <2>3. ids \in Seq(Nat)
      <3>1. ids \in [1..k -> Nat]
        BY <2>2
      <3> QED
        BY <2>1, <3>1, SeqDef
    <2>4. added \in Peer
      BY <2>3, AddType
    <2>5. PumpNext(After(k + 1), added) \/ Finish("PeerConnectionError", joined, added)
      BY <1>2
    <2> HIDE DEF added, After
    <2> QED
      BY <2>4, <2>5, PumpNextOutcome, FinishNegotiation, FitsAlways
  <1> QED
    BY <1>1, <1>2 DEF PumpSignalingMessages

LEMMA PumpHandled ==
  ASSUME HonestInv, HasTask, loop \in {"running", "quit"},
         NEW n \in Negotiation, NEW p \in Peer, p.pending = peer.pending, p.sink = peer.sink,
         PumpSignalingMessages(n, p), UNCHANGED <<joined, mediaVars>>
  PROVE  Handled
  <1>1. TypeOK /\ (joined = "none" => p.pending = {} /\ ~p.sink)
    BY DEF HonestInv, JoinedFirst
  <1>2. /\ NegotiationOutcome /\ FinishedGens
        /\ joined = "none" => peer' = p /\ tasks' = Tail(tasks)
    BY <1>1, PumpOutcome
  <1>3. Outcome
    BY <1>2 DEF NegotiationOutcome, Outcome, mediaVars
  <1> QED
    BY <1>1, <1>2, <1>3, KeepsHandled DEF FinishedGens, mediaVars


(* -- the handlers ------------------------------------------------------------ *)

LEMMA Dispatched ==
  ASSUME NEW kind, Running(kind)
  PROVE  HasTask /\ loop \in {"running", "quit"} /\ Head(tasks).kind = kind
  BY DEF Running, HasTask

LEMMA HeadFacts ==
  ASSUME HonestInv, HasTask
  PROVE  /\ 1 \in DOMAIN tasks /\ Head(tasks) = tasks[1]
         /\ joined = "none" => Head(tasks).kind \notin {"observer", "frame"}
         /\ Head(tasks).kind = "joined" => joined = "none"
         /\ IsSent(Head(tasks), "bye") => finished /\ callEstablished /\ loop = "running"
  <1>1. 1 \in DOMAIN tasks /\ Head(tasks) = tasks[1]
    BY TailElements, TypeParts DEF HasTask, HonestInv
  <1> QED
    BY <1>1 DEF HonestInv, JoinedFirst, JoinOnce, ByeOnce

LEMMA OnJoinCompleteHandled == HonestInv /\ OnJoinComplete => Handled
  <1> SUFFICES ASSUME HonestInv, OnJoinComplete PROVE Handled
    OBVIOUS
  <1>1. HasTask /\ loop \in {"running", "quit"} /\ Head(tasks).kind = "joined"
    BY Dispatched DEF OnJoinComplete
  <1>2. TypeOK /\ peer \in Peer /\ Initialize(peer) \in Peer
    BY TypeParts, InitializeType DEF HonestInv
  <1>3. joined = "none" /\ ~callEstablished
    BY <1>1, HeadFacts DEF HonestInv, JoinedFirst
  <1>4. CASE Ignore
    BY <1>1, <1>4, IgnoreHandled
  <1>5. CASE Finish("SignalingError", joined, peer) /\ UNCHANGED <<joined, mediaVars>>
    BY <1>1, <1>2, <1>5, FinishHandled, FitsAlways
  <1>6. CASE /\ ~finished /\ Head(tasks).role # "none" /\ joined' = Head(tasks).role
             /\ UNCHANGED mediaVars
             /\ \/ Finish("PeerConnectionError", joined', peer)
                \/ Finish("MediaError", joined', Initialize(peer))
                \/ net' = Append(net, ConnectRequest) /\ Continue
    <2>1. Outcome
      <3>1. CASE Finish("PeerConnectionError", joined', peer)
        <4>1. Fits("PeerConnectionError") /\ "PeerConnectionError" \in TerminalReasons
          BY FitsAlways DEF TerminalReasons
        <4> QED
          BY <1>1, <1>2, <1>6, <3>1, <4>1, FinishOutcome DEF Outcome, mediaVars
      <3>2. CASE Finish("MediaError", joined', Initialize(peer))
        <4>1. Fits("MediaError") /\ "MediaError" \in TerminalReasons
          BY <1>3 DEF Fits, TerminalReasons
        <4> QED
          BY <1>1, <1>2, <1>6, <3>2, <4>1, FinishOutcome DEF Outcome, mediaVars
      <3>3. CASE net' = Append(net, ConnectRequest) /\ Continue
        <4>1. ConnectRequest.op # "join" /\ ~IsPayload(ConnectRequest, "bye")
          BY DEF ConnectRequest, IsPayload
        <4>2. NetKeeps
          BY <1>2, <3>3, <4>1, NetAppend, RequestType
        <4> QED
          BY <1>1, <1>2, <1>6, <3>3, <4>2, TailRuns
          DEF Continue, finishVars, Onward, Outcome, mediaVars
      <3> QED
        BY <1>6, <3>1, <3>2, <3>3
    <2>2. FirstKept /\ JoinedKept /\ FinalKept
      BY <1>1, <1>3, <1>6 DEF FirstKept, JoinedKept, FinalKept
    <2> QED
      BY <1>1, <2>1, <2>2 DEF Handled
  <1> QED
    BY <1>4, <1>5, <1>6 DEF OnJoinComplete

LEMMA OnWebSocketOpenHandled == HonestInv /\ OnWebSocketOpen => Handled
  <1> SUFFICES ASSUME HonestInv, OnWebSocketOpen PROVE Handled
    OBVIOUS
  <1>1. HasTask /\ loop \in {"running", "quit"}
    BY Dispatched DEF OnWebSocketOpen
  <1>2. CASE Ignore
    BY <1>1, <1>2, IgnoreHandled
  <1>3. CASE /\ joined # "none" /\ net' = Append(net, RegisterRequest) /\ Continue
             /\ UNCHANGED <<joined, mediaVars>>
    <2>1. RegisterRequest.op # "join" /\ ~IsPayload(RegisterRequest, "bye")
      BY DEF RegisterRequest, IsPayload
    <2>2. NetKeeps
      BY <1>3, <2>1, NetAppend, RequestType DEF HonestInv
    <2> QED
      BY <1>1, <1>3, <2>2, ContinueHandled
  <1> QED
    BY <1>2, <1>3 DEF OnWebSocketOpen

LEMMA OnRegisterCompleteHandled == HonestInv /\ OnRegisterComplete => Handled
  <1> SUFFICES ASSUME HonestInv, OnRegisterComplete PROVE Handled
    OBVIOUS
  <1>1. HasTask /\ loop \in {"running", "quit"} /\ peer \in Peer
    BY Dispatched, TypeParts DEF OnRegisterComplete, HonestInv
  <1>2. CASE Ignore
    BY <1>1, <1>2, IgnoreHandled
  <1>3. CASE Finish("SignalingError", joined, peer) /\ UNCHANGED <<joined, mediaVars>>
    BY <1>1, <1>3, FinishHandled, FitsAlways
  <1>4. CASE /\ PumpSignalingMessages([neg EXCEPT !.ready = TRUE], peer)
             /\ UNCHANGED <<joined, mediaVars>>
    <2>1. [neg EXCEPT !.ready = TRUE] \in Negotiation
      BY TypeParts DEF HonestInv, Negotiation
    <2> QED
      BY <1>1, <1>4, <2>1, PumpHandled
  <1> QED
    BY <1>2, <1>3, <1>4 DEF OnRegisterComplete

LEMMA OnInboundHandled == HonestInv /\ OnInboundSignalingMessage => Handled
  <1> SUFFICES ASSUME HonestInv, OnInboundSignalingMessage PROVE Handled
    OBVIOUS
  <1>1. /\ HasTask /\ loop \in {"running", "quit"} /\ TypeOK /\ peer \in Peer
        /\ Head(tasks).kind = "inbound"
    BY Dispatched, TypeParts DEF OnInboundSignalingMessage, HonestInv
  <1>2. CASE Ignore
    BY <1>1, <1>2, IgnoreHandled
  <1>3. CASE /\ PumpSignalingMessages([neg EXCEPT !.queue = Append(@, Head(tasks).msg)], peer)
             /\ UNCHANGED <<joined, mediaVars>>
    <2>1. Append(neg.queue, Head(tasks).msg) \in Seq(Message)
      BY <1>1, TaskFields, TypeParts, AppendProperties DEF Negotiation
    <2>2. [neg EXCEPT !.queue = Append(@, Head(tasks).msg)] \in Negotiation
      BY <1>1, <2>1, TypeParts DEF Negotiation
    <2> QED
      BY <1>1, <1>3, <2>2, PumpHandled
  <1> QED
    BY <1>2, <1>3 DEF OnInboundSignalingMessage

LEMMA OnSignalingErrorHandled == HonestInv /\ OnSignalingError => Handled
  <1> SUFFICES ASSUME HonestInv, OnSignalingError PROVE Handled
    OBVIOUS
  <1>1. HasTask /\ loop \in {"running", "quit"} /\ peer \in Peer
    BY Dispatched, TypeParts DEF OnSignalingError, HonestInv
  <1> QED
    BY <1>1, FinishHandled, FitsAlways DEF OnSignalingError

LEMMA OnSentHandled ==
  HonestInv /\ (OnDescriptionSent \/ OnCandidateSent \/ OnByeSent) => Handled
  <1> SUFFICES ASSUME HonestInv, OnDescriptionSent \/ OnCandidateSent \/ OnByeSent
               PROVE  Handled
    OBVIOUS
  <1>1. /\ HasTask /\ loop \in {"running", "quit"} /\ Head(tasks).kind = "sent"
        /\ TypeOK /\ peer \in Peer
    BY Dispatched, TypeParts DEF OnDescriptionSent, OnCandidateSent, OnByeSent, HonestInv
  <1>2. CASE OnDescriptionSent
    BY <1>1, <1>2, PumpHandled, SettledType, FinishHandled, FitsAlways
    DEF OnDescriptionSent
  <1>3. CASE OnCandidateSent
    BY <1>1, <1>3, IgnoreHandled, FinishHandled, FitsAlways DEF OnCandidateSent
  <1>4. CASE OnByeSent
    <2>1. IsSent(Head(tasks), "bye") /\ finished' = finished
      BY <1>1, <1>4 DEF OnByeSent, IsSent
    <2>2. /\ TasksRun /\ NetKeeps
          /\ exitCode' = ExitCodeForReason["LocalDurationReached"] /\ loop' = "quit"
      BY <1>1, <1>4, CompleteFinishOutcome, ReasonTypes DEF OnByeSent
    <2>3. ExitCodeForReason["LocalDurationReached"] = Success
      BY DEF ExitCodeForReason, TerminalReasons
    <2>4. UNCHANGED <<joined, mediaVars, startupGen, durationGen>>
      BY <1>4 DEF OnByeSent
    <2>5. Outcome
      BY <2>1, <2>2, <2>3, <2>4 DEF Bid, Outcome, mediaVars
    <2>6. joined # "none"
      BY <1>1, <2>1, HeadFacts DEF HonestInv, JoinedFirst
    <2> QED
      BY <1>1, <2>4, <2>5, <2>6, KeepsHandled DEF mediaVars
  <1> QED
    BY <1>2, <1>3, <1>4

LEMMA OnObserverHandled ==
  HonestInv /\ (OnStepFailed \/ OnCreated \/ OnLocalDescriptionSet \/ OnRemoteDescriptionSet)
    => Handled
  <1> SUFFICES ASSUME HonestInv, \/ OnStepFailed \/ OnCreated
                                 \/ OnLocalDescriptionSet \/ OnRemoteDescriptionSet
               PROVE  Handled
    OBVIOUS
  <1>1. /\ HasTask /\ loop \in {"running", "quit"} /\ Head(tasks).kind = "observer"
        /\ TypeOK /\ peer \in Peer
    BY Dispatched, TypeParts
    DEF OnStepFailed, OnCreated, OnLocalDescriptionSet, OnRemoteDescriptionSet, RunningLive,
        HonestInv
  <1>2. joined # "none"
    BY <1>1, HeadFacts
  <1>3. CASE OnStepFailed
    BY <1>1, <1>3, FinishHandled, FitsAlways DEF OnStepFailed
  <1>4. CASE OnCreated
    BY <1>1, <1>2, <1>4, ContinueHandled, NetSame DEF OnCreated, clientVars
  <1>5. CASE OnLocalDescriptionSet
    <2> DEFINE r == SendRequest(joined, "description")
    <2>1. r \in Request /\ r.op # "join" /\ ~IsPayload(r, "bye")
      BY RequestType DEF Payloads, SendRequest, IsPayload
    <2>2. net' = Append(net, r) /\ Continue /\ UNCHANGED <<joined, mediaVars>>
      BY <1>5 DEF OnLocalDescriptionSet, SendLocalDescription
    <2> HIDE DEF r
    <2>3. NetKeeps
      BY <1>1, <2>1, <2>2, NetAppend
    <2> QED
      BY <1>1, <1>2, <2>2, <2>3, ContinueHandled
  <1>6. CASE OnRemoteDescriptionSet
    <2> DEFINE flushed == FlushPendingRemoteCandidates(peer)
    <2>1. flushed \in Peer /\ UNCHANGED <<joined, mediaVars>>
      BY <1>1, <1>6, FlushType DEF OnRemoteDescriptionSet
    <2>2. flushed.pending = peer.pending /\ flushed.sink = peer.sink
      BY <1>1 DEF FlushPendingRemoteCandidates, Peer
    <2>3. CASE Continue /\ UNCHANGED net
      BY <1>1, <1>2, <2>1, <2>3, ContinueHandled, NetSame
    <2>4. CASE PumpSignalingMessages(Settled, flushed)
      <3> HIDE DEF flushed
      <3> QED
        BY <1>1, <2>1, <2>2, <2>4, PumpHandled, SettledType
    <2>5. CASE \E k \in 0..(Len(peer.buffered) - 1) :
                 Finish("PeerConnectionError", joined, FlushRefused(peer, k))
      <3>1. PICK k \in 0..(Len(peer.buffered) - 1) :
              Finish("PeerConnectionError", joined, FlushRefused(peer, k))
        BY <2>5
      <3>2. FlushRefused(peer, k) \in Peer
        BY <1>1, FlushRefusedType
      <3>3. /\ FlushRefused(peer, k).pending = peer.pending
            /\ FlushRefused(peer, k).sink = peer.sink
        BY <1>1 DEF FlushRefused, Peer
      <3> QED
        BY <1>1, <2>1, <3>1, <3>2, <3>3, FinishHandled, FitsAlways
    <2> QED
      BY <1>6, <2>3, <2>4, <2>5 DEF OnRemoteDescriptionSet
  <1> QED
    BY <1>3, <1>4, <1>5, <1>6


LEMMA OnIceCandidateHandled == HonestInv /\ (OnIceCandidate \/ DropDead) => Handled
  <1> SUFFICES ASSUME HonestInv, OnIceCandidate \/ DropDead PROVE Handled
    OBVIOUS
  <1>1. HasTask /\ loop \in {"running", "quit"} /\ TypeOK
    BY Dispatched DEF OnIceCandidate, DropDead, RunningLive, HonestInv
  <1>2. CASE Ignore
    BY <1>1, <1>2, IgnoreHandled
  <1>3. CASE /\ joined # "none" /\ net' = Append(net, SendRequest(joined, "candidate"))
             /\ Continue /\ UNCHANGED <<joined, mediaVars>>
    <2> DEFINE r == SendRequest(joined, "candidate")
    <2>1. r \in Request /\ r.op # "join" /\ ~IsPayload(r, "bye")
      BY RequestType DEF Payloads, SendRequest, IsPayload
    <2> HIDE DEF r
    <2>2. NetKeeps
      BY <1>1, <1>3, <2>1, NetAppend DEF r
    <2> QED
      BY <1>1, <1>3, <2>2, ContinueHandled
  <1> QED
    BY <1>2, <1>3 DEF OnIceCandidate, DropDead

(* Marking the call established, which only happens before the call has ended  *)
(* and after the join.                                                         *)
LEMMA MarkHandled ==
  ASSUME HonestInv, HasTask, loop \in {"running", "quit"}, ~finished,
         MaybeMarkCallEstablished, joined' = joined,
         joined = "none" => ~remoteMediaSeen' /\ peer'.pending = {} /\ ~peer'.sink
  PROVE  Handled
  <1>1. /\ tasks' = Tail(tasks) /\ UNCHANGED <<net, finished, exitCode, loop>>
        /\ callEstablished' = (callEstablished \/ (peerConnected' /\ remoteMediaSeen'))
    BY Zenon DEF MaybeMarkCallEstablished
  <1>2. Onward
    BY <1>1, TailRuns, NetSame DEF Onward, HonestInv
  <1>3. callEstablished \in BOOLEAN
    BY TypeParts DEF HonestInv
  <1>4. callEstablished' = callEstablished \/ callEstablished'
    BY <1>1, <1>3
  <1>5. Outcome
    BY <1>2, <1>4 DEF Outcome
  <1>6. FirstKept
    <2> SUFFICES ASSUME joined' = "none"
                 PROVE  /\ peer'.pending = {} /\ ~peer'.sink
                        /\ ~remoteMediaSeen' /\ ~callEstablished'
                        /\ tasks' = Tail(tasks)
      BY DEF FirstKept
    <2>1. ~callEstablished /\ ~remoteMediaSeen'
      BY DEF HonestInv, JoinedFirst
    <2>2. ~callEstablished'
      BY <1>1, <2>1
    <2> QED
      BY <1>1, <2>1, <2>2
  <1> QED
    BY <1>5, <1>6 DEF Handled, JoinedKept, FinalKept

LEMMA OnConnectionChangeHandled == HonestInv /\ OnConnectionChange => Handled
  <1> SUFFICES ASSUME HonestInv, OnConnectionChange PROVE Handled
    OBVIOUS
  <1> DEFINE connected == Head(tasks).to = "connected"
             noted == [peer EXCEPT !.connected = connected]
  <1>1. HasTask /\ loop \in {"running", "quit"} /\ TypeOK /\ peer \in Peer
    BY Dispatched, TypeParts DEF OnConnectionChange, RunningLive, HonestInv
  <1>2. noted \in Peer
    BY <1>1, NotedType
  <1>3. noted.pending = peer.pending /\ noted.sink = peer.sink
    BY <1>1 DEF Peer
  <1>4. /\ UNCHANGED <<joined, remoteMediaSeen>>
        /\ finished => peerConnected' = peerConnected
    BY DEF OnConnectionChange
  <1>5. joined = "none" =>
          /\ noted.pending = {} /\ ~noted.sink
          /\ ~remoteMediaSeen
    BY <1>3 DEF HonestInv, JoinedFirst
  <1> HIDE DEF noted
  <1>6. CASE Finish("PeerConnectionError", joined, noted) /\ UNCHANGED callEstablished
    <2>1. Fits("PeerConnectionError") /\ "PeerConnectionError" \in TerminalReasons
      BY FitsAlways DEF TerminalReasons
    <2>2. Outcome
      BY <1>1, <1>2, <1>6, <2>1, FinishOutcome DEF Outcome
    <2> QED
      BY <1>1, <1>2, <1>4, <1>5, <1>6, <2>1, <2>2, FinishOutcome, KeepsHandled
  <1>7. CASE MaybeMarkCallEstablished /\ ~finished /\ peer' = noted
    BY <1>1, <1>4, <1>5, <1>7, MarkHandled
  <1>8. CASE peer' = noted /\ Continue /\ UNCHANGED <<net, callEstablished>>
    <2>1. Outcome
      BY <1>1, <1>8, TailRuns, NetSame DEF Continue, finishVars, Onward, Outcome
    <2> QED
      BY <1>1, <1>4, <1>5, <1>8, <2>1, KeepsHandled DEF Continue, finishVars
  <1> QED
    BY <1>6, <1>7, <1>8 DEF OnConnectionChange, noted

LEMMA OnFrameHandled == HonestInv /\ OnFrame => Handled
  <1> SUFFICES ASSUME HonestInv, OnFrame PROVE Handled
    OBVIOUS
  <1>1. /\ HasTask /\ loop \in {"running", "quit"} /\ Head(tasks).kind = "frame" /\ TypeOK
        /\ UNCHANGED <<joined, peerConnected>>
    BY Dispatched DEF OnFrame, RunningLive, HonestInv
  <1>2. joined # "none"
    BY <1>1, HeadFacts
  <1>3. CASE Continue /\ UNCHANGED <<net, remoteMediaSeen, callEstablished>>
    BY <1>1, <1>2, <1>3, ContinueHandled, NetSame DEF mediaVars
  <1>4. CASE ~finished /\ MaybeMarkCallEstablished
    BY <1>1, <1>2, <1>4, MarkHandled
  <1> QED
    BY <1>3, <1>4 DEF OnFrame

LEMMA OnTimerHandled ==
  HonestInv /\ (OnStartupTimeout \/ OnCallDuration \/ OnStats) => Handled
  <1> SUFFICES ASSUME HonestInv, OnStartupTimeout \/ OnCallDuration \/ OnStats PROVE Handled
    OBVIOUS
  <1>1. HasTask /\ loop \in {"running", "quit"} /\ peer \in Peer
    BY Dispatched, TypeParts DEF OnStartupTimeout, OnCallDuration, OnStats, HonestInv
  <1>2. CASE Ignore
    BY <1>1, <1>2, IgnoreHandled
  <1>3. CASE /\ ~callEstablished /\ Finish("StartupTimeout", joined, peer)
             /\ UNCHANGED <<joined, mediaVars>>
    <2>1. Fits("StartupTimeout")
      BY <1>3 DEF Fits, TerminalReasons
    <2> QED
      BY <1>1, <1>3, <2>1, FinishHandled
  <1>4. CASE /\ callEstablished /\ Finish("LocalDurationReached", joined, peer)
             /\ UNCHANGED <<joined, mediaVars>>
    <2>1. Fits("LocalDurationReached")
      BY <1>4 DEF Fits, TerminalReasons
    <2> QED
      BY <1>1, <1>4, <2>1, FinishHandled
  <1>5. CASE Continue /\ UNCHANGED <<net, peer, joined, mediaVars>>
    BY <1>1, <1>5, ContinueHandled, NetSame DEF HonestInv, JoinedFirst
  <1> QED
    BY <1>2, <1>3, <1>4, <1>5 DEF OnStartupTimeout, OnCallDuration, OnStats, clientVars

LEMMA DispatchHandled == HonestInv /\ Dispatch => Handled
  BY OnJoinCompleteHandled, OnWebSocketOpenHandled, OnRegisterCompleteHandled,
     OnInboundHandled, OnSignalingErrorHandled, OnSentHandled, OnObserverHandled,
     OnIceCandidateHandled, OnConnectionChangeHandled, OnFrameHandled, OnTimerHandled
  DEF Dispatch

(* -- a handled task keeps the invariant -------------------------------------- *)

(* What the handled task leaves of the tasks and requests.                     *)
LEMMA HandledTasks ==
  ASSUME HonestInv, TypeOK', Handled
  PROVE  /\ TasksRun
         /\ \A k \in DOMAIN tasks' : tasks'[k].kind # "frame" =>
              k + 1 \in DOMAIN tasks /\ k + 1 # 1 /\ tasks'[k] = tasks[k + 1]
  <1>1. TasksRun
    BY TailRuns DEF Handled, Outcome, Onward, Ended, Farewell, Bid, HonestInv
  <1>2. \A k \in Nat \ {0} : k + 1 # 1
    OBVIOUS
  <1> QED
    BY <1>1, <1>2 DEF TasksRun

LEMMA HandledNet ==
  ASSUME HonestInv, Handled
  PROVE  \/ NetKeeps
         \/ /\ Farewell
            /\ \A k \in DOMAIN net' :
                 /\ net'[k].op # "join"
                      \/ (k \in DOMAIN net /\ net'[k] = net[k])
                 /\ IsPayload(net'[k], "bye") =>
                      (k \in DOMAIN net /\ net'[k] = net[k]) \/ k = Len(net) + 1
  <1>1. CASE Farewell
    <2>1. PICK role : net' = Append(net, SendRequest(role, "bye"))
      BY <1>1 DEF Farewell
    <2>2. SendRequest(role, "bye") \in Request /\ SendRequest(role, "bye").op # "join"
      BY RequestType DEF Payloads, SendRequest
    <2> HIDE DEF SendRequest
    <2> QED
      BY <1>1, <2>1, <2>2, AppendElements, TypeParts DEF HonestInv
  <1>2. CASE ~Farewell
    BY <1>2 DEF Handled, Outcome, Onward, Ended, Bid
  <1> QED
    BY <1>1, <1>2

LEMMA HandledJoinedFirst == ASSUME HonestInv, TypeOK', Handled PROVE JoinedFirst'
  <1> SUFFICES ASSUME joined' = "none"
               PROVE  /\ peer'.pending = {} /\ ~peer'.sink
                      /\ ~remoteMediaSeen' /\ ~callEstablished'
                      /\ \A k \in DOMAIN tasks' : tasks'[k].kind \notin {"observer", "frame"}
    BY DEF JoinedFirst
  <1>1. joined = "none"
    BY DEF Handled, JoinedKept
  <1>2. tasks' = Tail(tasks)
    BY DEF Handled, FirstKept
  <1>3. \A k \in DOMAIN Tail(tasks) : k + 1 \in DOMAIN tasks /\ Tail(tasks)[k] = tasks[k + 1]
    BY TailElements, TypeParts DEF HonestInv, Handled, HasTask
  <1>4. \A k \in DOMAIN tasks' : tasks'[k].kind \notin {"observer", "frame"}
    BY <1>1, <1>2, <1>3 DEF HonestInv, JoinedFirst
  <1> QED
    BY <1>4 DEF Handled, FirstKept

LEMMA HandledJoinOnce == ASSUME HonestInv, TypeOK', Handled PROVE JoinOnce'
  <1>1. loop' # "starting"
    BY DEF Handled, Outcome, Onward, Ended, Farewell, Bid
  <1>2. \A k \in DOMAIN net' : net'[k].op = "join" => k \in DOMAIN net /\ net'[k] = net[k]
    BY HandledNet DEF NetKeeps
  <1>3. \A k \in DOMAIN tasks' : tasks'[k].kind = "joined" =>
          k \in Nat /\ k + 1 \in DOMAIN tasks /\ k + 1 # 1 /\ tasks'[k] = tasks[k + 1]
    BY HandledTasks DEF TasksRun
  <1>4. 1 \in DOMAIN tasks /\ Head(tasks) = tasks[1]
    BY HeadFacts DEF Handled
  <1>5. CASE Head(tasks).kind = "joined"
    <2>1. \A k \in DOMAIN tasks' : tasks'[k].kind # "joined"
      BY <1>3, <1>4, <1>5 DEF HonestInv, JoinOnce
    <2>2. \A k \in DOMAIN net' : net'[k].op # "join"
      BY <1>2, <1>4, <1>5 DEF HonestInv, JoinOnce
    <2> QED
      BY <1>1, <2>1, <2>2 DEF JoinOnce
  <1>6. CASE Head(tasks).kind # "joined"
    <2>1. joined' = joined
      BY <1>6 DEF Handled, JoinedKept
    <2>2. \A k \in DOMAIN net' : net'[k].op = "join" =>
            /\ k = 1 /\ joined' = "none"
            /\ \A l \in DOMAIN tasks' : tasks'[l].kind # "joined"
      BY <1>2, <1>3, <2>1 DEF HonestInv, JoinOnce
    <2>3. \A k \in DOMAIN tasks' : tasks'[k].kind = "joined" =>
            /\ joined' = "none"
            /\ \A l \in DOMAIN tasks' : tasks'[l].kind = "joined" => k = l
      <3> SUFFICES ASSUME NEW k \in DOMAIN tasks', tasks'[k].kind = "joined"
                   PROVE  /\ joined' = "none"
                          /\ \A l \in DOMAIN tasks' : tasks'[l].kind = "joined" => k = l
        OBVIOUS
      <3>1. joined = "none"
        BY <1>3 DEF HonestInv, JoinOnce
      <3>2. ASSUME NEW l \in DOMAIN tasks', tasks'[l].kind = "joined" PROVE k = l
        <4>1. k + 1 = l + 1 /\ k \in Nat /\ l \in Nat
          BY <1>3, <3>2 DEF HonestInv, JoinOnce
        <4> QED
          BY <4>1
      <3> QED
        BY <2>1, <3>1, <3>2
    <2> QED
      BY <1>1, <2>2, <2>3 DEF JoinOnce
  <1> QED
    BY <1>5, <1>6

LEMMA HandledByeOnce == ASSUME HonestInv, TypeOK', Handled PROVE ByeOnce'
  <1>1. \A k \in DOMAIN tasks' : IsSent(tasks'[k], "bye") =>
          k \in Nat /\ k + 1 \in DOMAIN tasks /\ k + 1 # 1 /\ tasks'[k] = tasks[k + 1]
    BY HandledTasks DEF TasksRun, IsSent
  <1>2. NetKeeps =>
          \A k \in DOMAIN net' : IsPayload(net'[k], "bye") =>
            k \in DOMAIN net /\ net'[k] = net[k]
    BY DEF NetKeeps
  <1>3. ~finished =>
          /\ \A k \in DOMAIN net : ~IsPayload(net[k], "bye")
          /\ \A k \in DOMAIN tasks : ~IsSent(tasks[k], "bye")
    BY DEF HonestInv, ByeOnce
  <1>4. ASSUME NetKeeps,
               \/ UNCHANGED <<finished, loop>> /\ (callEstablished => callEstablished')
               \/ ~finished
               \/ IsSent(Head(tasks), "bye")
        PROVE  ByeOnce'
    <2>1. CASE UNCHANGED <<finished, loop>> /\ (callEstablished => callEstablished')
      <3>1. ASSUME NEW k \in DOMAIN net', IsPayload(net'[k], "bye")
            PROVE  /\ finished' /\ callEstablished' /\ loop' = "running"
                   /\ \A l \in DOMAIN net' : IsPayload(net'[l], "bye") => k = l
                   /\ \A l \in DOMAIN tasks' : ~IsSent(tasks'[l], "bye")
        BY <1>1, <1>2, <1>4, <2>1, <3>1 DEF HonestInv, ByeOnce
      <3>2. ASSUME NEW k \in DOMAIN tasks', IsSent(tasks'[k], "bye")
            PROVE  /\ finished' /\ callEstablished' /\ loop' = "running"
                   /\ \A l \in DOMAIN tasks' : IsSent(tasks'[l], "bye") => k = l
        <4>1. /\ finished' /\ callEstablished' /\ loop' = "running"
          BY <1>1, <2>1, <3>2 DEF HonestInv, ByeOnce
        <4>2. ASSUME NEW l \in DOMAIN tasks', IsSent(tasks'[l], "bye") PROVE k = l
          <5>1. k + 1 = l + 1 /\ k \in Nat /\ l \in Nat
            BY <1>1, <3>2, <4>2 DEF HonestInv, ByeOnce
          <5> QED
            BY <5>1
        <4> QED
          BY <4>1, <4>2
      <3> QED
        BY <3>1, <3>2 DEF ByeOnce
    <2>2. CASE ~finished
      BY <1>1, <1>2, <1>3, <1>4, <2>2 DEF ByeOnce
    <2>3. CASE IsSent(Head(tasks), "bye")
      <3>1. 1 \in DOMAIN tasks /\ IsSent(tasks[1], "bye")
        BY <2>3, HeadFacts DEF Handled
      <3>2. \A k \in DOMAIN net : ~IsPayload(net[k], "bye")
        BY <3>1 DEF HonestInv, ByeOnce
      <3>3. \A k \in DOMAIN tasks : IsSent(tasks[k], "bye") => k = 1
        BY <3>1 DEF HonestInv, ByeOnce
      <3> QED
        BY <1>1, <1>2, <1>4, <3>2, <3>3 DEF ByeOnce
    <2> QED
      BY <1>4, <2>1, <2>2, <2>3
  <1>5. CASE callEstablished' /\ Farewell
    <2>1. \A k \in DOMAIN net' : IsPayload(net'[k], "bye") =>
            (k \in DOMAIN net /\ net'[k] = net[k]) \/ k = Len(net) + 1
      BY <1>2, <1>5, HandledNet
    <2>2. \A k, l \in DOMAIN net' :
            IsPayload(net'[k], "bye") /\ IsPayload(net'[l], "bye") => k = l
      BY <1>3, <1>5, <2>1 DEF Farewell
    <2>3. \A k \in DOMAIN tasks' : ~IsSent(tasks'[k], "bye")
      BY <1>1, <1>3, <1>5 DEF Farewell
    <2>4. finished' /\ loop' = "running"
      BY <1>5 DEF Farewell, Handled, HonestInv, CodeKnown
    <2> QED
      BY <1>5, <2>2, <2>3, <2>4 DEF ByeOnce
  <1> QED
    BY <1>4, <1>5 DEF Handled, Outcome, Onward, Ended, Bid

LEMMA HandledCode == ASSUME HonestInv, TypeOK', Handled PROVE CodeKnown' /\ ExitHonest'
  <1>0. loop' # "starting"
    BY DEF Handled, Outcome, Onward, Ended, Farewell, Bid
  <1>1. CASE Onward /\ (callEstablished' = callEstablished \/ (~finished /\ callEstablished'))
    BY <1>0, <1>1 DEF Onward, HonestInv, CodeKnown, ExitHonest, RuntimeFailed, TimedOut,
                MediaFailed, Success
  <1>2. CASE callEstablished' = callEstablished /\ \E reason : Fits(reason) /\ Ended(reason)
    BY <1>0, <1>2 DEF Fits, Ended, CodeKnown, ExitHonest, TerminalReasons, ExitCodeForReason,
                RuntimeFailed, TimedOut, MediaFailed, Success, SignalingFailed,
                PeerConnectionFailed
  <1>3. CASE callEstablished /\ callEstablished' /\ Farewell
    BY <1>0, <1>3 DEF Farewell, HonestInv, CodeKnown, ExitHonest, RuntimeFailed, TimedOut,
                MediaFailed, Success
  <1>4. CASE callEstablished' = callEstablished /\ Bid
    <2>1. finished /\ callEstablished
      BY <1>4, HeadFacts DEF Bid, Handled, HonestInv, ByeOnce
    <2> QED
      BY <1>0, <1>4, <2>1 DEF Bid, CodeKnown, ExitHonest, RuntimeFailed, TimedOut,
                        MediaFailed, Success
  <1> QED
    BY <1>1, <1>2, <1>3, <1>4 DEF Handled, Outcome

LEMMA DispatchHonest == HonestInv /\ Dispatch => HonestInv'
  <1> SUFFICES ASSUME HonestInv, Dispatch PROVE HonestInv'
    OBVIOUS
  <1>1. Handled
    BY DispatchHandled
  <1>2. TypeOK'
    BY StepType DEF Next, HonestInv
  <1> QED
    BY <1>1, <1>2, HandledJoinedFirst, HandledJoinOnce, HandledByeOnce, HandledCode
    DEF HonestInv


(* -- the other steps keep the invariant --------------------------------------- *)

LEMMA PostedElements ==
  ASSUME TypeOK, NEW task \in Task, tasks' = tasks \/ tasks' = Append(tasks, task)
  PROVE  \A k \in DOMAIN tasks' :
           \/ k \in DOMAIN tasks /\ tasks'[k] = tasks[k]
           \/ k = Len(tasks) + 1 /\ tasks'[k] = task
  BY AppendElements, TypeParts

(* An event reported by the websocket, the library or a timer.                 *)
LEMMA EventHonest ==
  ASSUME HonestInv, TypeOK', NEW task \in Task, tasks' = tasks \/ tasks' = Append(tasks, task),
         task.kind \notin {"joined", "sent"},
         task.kind \in {"observer", "frame"} => joined # "none",
         UNCHANGED <<net, joined, mediaVars, finished, exitCode, loop>>,
         joined = "none" => peer'.pending = {} /\ ~peer'.sink
  PROVE  HonestInv'
  <1>1. \A k \in DOMAIN tasks' :
          \/ k \in DOMAIN tasks /\ tasks'[k] = tasks[k]
          \/ tasks'[k] = task
    BY PostedElements DEF HonestInv
  <1>2. JoinedFirst'
    BY <1>1 DEF HonestInv, JoinedFirst, mediaVars
  <1>3. JoinOnce'
    BY <1>1 DEF HonestInv, JoinOnce
  <1>4. ByeOnce'
    BY <1>1 DEF HonestInv, ByeOnce, IsSent, mediaVars
  <1>5. CodeKnown' /\ ExitHonest'
    BY DEF HonestInv, CodeKnown, ExitHonest, mediaVars
  <1> QED
    BY <1>2, <1>3, <1>4, <1>5 DEF HonestInv

(* The network thread has served its next request and reported the outcome.    *)
LEMMA ServedHonest ==
  ASSUME HonestInv, TypeOK', net # <<>>, net' = Tail(net),
         NEW task \in Task, tasks' = tasks \/ tasks' = Append(tasks, task),
         task.kind = "joined" => Head(net).op = "join",
         IsSent(task, "bye") => IsPayload(Head(net), "bye"),
         task.kind \notin {"observer", "frame"},
         UNCHANGED <<peer, joined, mediaVars, finished, exitCode, loop>>
  PROVE  HonestInv'
  <1>1. \A k \in DOMAIN tasks' :
          \/ k \in DOMAIN tasks /\ tasks'[k] = tasks[k]
          \/ k = Len(tasks) + 1 /\ tasks'[k] = task
    BY PostedElements DEF HonestInv
  <1>2. /\ 1 \in DOMAIN net /\ Head(net) = net[1]
        /\ \A k \in DOMAIN net' :
             k \in Nat \ {0} /\ k + 1 \in DOMAIN net /\ net'[k] = net[k + 1]
    BY TailElements, TypeParts DEF HonestInv
  <1>3. JoinedFirst'
    BY <1>1 DEF HonestInv, JoinedFirst, mediaVars
  <1>4. JoinOnce'
    <2>1. loop # "starting"
      BY DEF HonestInv, JoinOnce
    <2>2. \A k \in DOMAIN net' : net'[k].op # "join"
      <3>1. ASSUME NEW k \in DOMAIN net', net'[k].op = "join" PROVE FALSE
        <4>1. k + 1 = 1 /\ k \in Nat \ {0}
          BY <1>2, <3>1 DEF HonestInv, JoinOnce
        <4> QED
          BY <4>1
      <3> QED
        BY <3>1
    <2>3. CASE Head(net).op = "join"
      <3>1. joined = "none" /\ \A k \in DOMAIN tasks : tasks[k].kind # "joined"
        BY <1>2, <2>3 DEF HonestInv, JoinOnce
      <3> QED
        BY <1>1, <2>1, <2>2, <3>1 DEF JoinOnce
    <2>4. CASE Head(net).op # "join"
      BY <1>1, <2>1, <2>2, <2>4 DEF HonestInv, JoinOnce
    <2> QED
      BY <2>3, <2>4
  <1>5. ByeOnce'
    <2>1. CASE IsPayload(Head(net), "bye")
      <3>1. /\ finished /\ callEstablished /\ loop = "running"
            /\ \A k \in DOMAIN net : IsPayload(net[k], "bye") => k = 1
            /\ \A k \in DOMAIN tasks : ~IsSent(tasks[k], "bye")
        BY <1>2, <2>1 DEF HonestInv, ByeOnce
      <3>2. \A k \in DOMAIN net' : ~IsPayload(net'[k], "bye")
        <4>1. ASSUME NEW k \in DOMAIN net', IsPayload(net'[k], "bye") PROVE FALSE
          <5>1. k + 1 = 1 /\ k \in Nat \ {0}
            BY <1>2, <3>1, <4>1
          <5> QED
            BY <5>1
        <4> QED
          BY <4>1
      <3> QED
        BY <1>1, <3>1, <3>2 DEF ByeOnce, mediaVars
    <2>2. CASE ~IsPayload(Head(net), "bye")
      <3>1. ASSUME NEW k \in DOMAIN net', IsPayload(net'[k], "bye")
            PROVE  /\ finished /\ callEstablished /\ loop = "running"
                   /\ \A l \in DOMAIN tasks' : ~IsSent(tasks'[l], "bye")
        BY <1>1, <1>2, <2>2, <3>1 DEF HonestInv, ByeOnce
      <3>2. ASSUME NEW k \in DOMAIN net', IsPayload(net'[k], "bye"),
                   NEW l \in DOMAIN net', IsPayload(net'[l], "bye")
            PROVE  k = l
        <4>1. k + 1 = l + 1 /\ k \in Nat /\ l \in Nat
          BY <1>2, <3>2 DEF HonestInv, ByeOnce
        <4> QED
          BY <4>1
      <3>3. ASSUME NEW k \in DOMAIN tasks', IsSent(tasks'[k], "bye")
            PROVE  /\ finished /\ callEstablished /\ loop = "running"
                   /\ \A l \in DOMAIN tasks' : IsSent(tasks'[l], "bye") => k = l
        BY <1>1, <2>2, <3>3 DEF HonestInv, ByeOnce
      <3> QED
        BY <3>1, <3>2, <3>3 DEF ByeOnce, mediaVars
    <2> QED
      BY <2>1, <2>2
  <1>6. CodeKnown' /\ ExitHonest'
    BY DEF HonestInv, CodeKnown, ExitHonest, mediaVars
  <1> QED
    BY <1>3, <1>4, <1>5, <1>6 DEF HonestInv

LEMMA NetworkHonest == HonestInv /\ Network => HonestInv'
  <1> SUFFICES ASSUME HonestInv, NetworkStep, UNCHANGED <<peer, controlVars>>
               PROVE  HonestInv'
    BY DEF Network
  <1>1. TypeOK /\ TypeOK'
    BY NetworkType DEF HonestInv, Network
  <1>2. /\ net # <<>>
        /\ UNCHANGED <<peer, joined, mediaVars, finished, exitCode, loop>>
    BY DEF NetworkStep, JoinRoom, ConnectWebSocket, Register, SendToRoom,
           SendWebSocketMessage, CloseMarks, CloseStops, Serving, threadVars, controlVars
  <1>3. CASE JoinRoom
    <2>1. Head(net).op = "join" /\ net' = Tail(net)
      BY <1>3 DEF JoinRoom, Serving
    <2>2. PICK role \in Roles \cup {"none"}, raw \in Seq(RawMessage) :
            PostTask([kind |-> "joined", role |-> role, msgs |-> raw])
      BY <1>3, EmptySeq, ClientAssumption DEF JoinRoom
    <2> DEFINE task == [kind |-> "joined", role |-> role, msgs |-> raw]
    <2>3. task \in Task /\ task.kind = "joined"
      BY DEF Task, JoinedTask
    <2>4. tasks' = tasks \/ tasks' = Append(tasks, task)
      BY <2>2 DEF PostTask
    <2> HIDE DEF task
    <2> QED
      BY <1>1, <1>2, <2>1, <2>3, <2>4, ServedHonest DEF IsSent
  <1>4. CASE ConnectWebSocket \/ CloseStops
    <2> DEFINE task == [kind |-> "error"]
    <2>1. task \in Task /\ task.kind = "error"
      BY DEF Task
    <2>2. net' = Tail(net) /\ tasks' = tasks
      BY <1>4 DEF ConnectWebSocket, CloseStops, threadVars
    <2> HIDE DEF task
    <2> QED
      BY <1>1, <1>2, <2>1, <2>2, ServedHonest DEF IsSent
  <1>5. CASE Register
    <2>1. PICK ok \in BOOLEAN : PostTask([kind |-> "registered", ok |-> ok])
      BY <1>5 DEF Register
    <2> DEFINE task == [kind |-> "registered", ok |-> ok]
    <2>2. task \in Task /\ task.kind = "registered"
      BY DEF Task
    <2>3. net' = Tail(net) /\ (tasks' = tasks \/ tasks' = Append(tasks, task))
      BY <1>5, <2>1 DEF Register, PostTask
    <2> HIDE DEF task
    <2> QED
      BY <1>1, <1>2, <2>2, <2>3, ServedHonest DEF IsSent
  <1>6. CASE SendToRoom \/ SendWebSocketMessage
    <2>1. PICK ok \in BOOLEAN :
            PostTask([kind |-> "sent", what |-> Head(net).what, ok |-> ok])
      BY <1>6 DEF SendToRoom, SendWebSocketMessage
    <2> DEFINE task == [kind |-> "sent", what |-> Head(net).what, ok |-> ok]
    <2>2. Head(net).op \in {"post", "send"} /\ Head(net) \in Request
      BY <1>1, <1>2, <1>6, NetTailType DEF SendToRoom, SendWebSocketMessage, Serving
    <2>3. task \in Task
      BY <2>2 DEF Request, Task, SentTask
    <2>4. net' = Tail(net) /\ (tasks' = tasks \/ tasks' = Append(tasks, task))
      BY <1>6, <2>1 DEF SendToRoom, SendWebSocketMessage, PostTask
    <2>5. task.kind = "sent" /\ task.what = Head(net).what
      OBVIOUS
    <2>6. IsSent(task, "bye") => IsPayload(Head(net), "bye")
      BY <2>2, <2>5 DEF IsSent, IsPayload
    <2> HIDE DEF task
    <2> QED
      BY <1>1, <1>2, <2>3, <2>4, <2>5, <2>6, ServedHonest
  <1>7. CASE CloseMarks
    <2>1. /\ net' = [net EXCEPT ![1] = [op |-> "stop"]] /\ tasks' = tasks
          /\ Head(net).op = "close"
      BY <1>7 DEF CloseMarks, Serving, threadVars
    <2>2. \A k \in DOMAIN net' :
            \/ k \in DOMAIN net /\ net'[k] = net[k]
            \/ net'[k].op = "stop"
      BY <1>1, <2>1, TypeParts
    <2>3. loop # "starting"
      BY <1>2 DEF HonestInv, JoinOnce
    <2>4. JoinedFirst' /\ JoinOnce' /\ CodeKnown' /\ ExitHonest'
      BY <1>2, <2>1, <2>2, <2>3
      DEF HonestInv, JoinedFirst, JoinOnce, CodeKnown, ExitHonest, mediaVars
    <2>5. ByeOnce'
      BY <1>2, <2>1, <2>2 DEF HonestInv, ByeOnce, IsPayload, mediaVars
    <2> QED
      BY <1>1, <2>4, <2>5 DEF HonestInv
  <1> QED
    BY <1>3, <1>4, <1>5, <1>6, <1>7 DEF NetworkStep


LEMMA WebSocketHonest == HonestInv /\ WebSocket => HonestInv'
  <1> SUFFICES ASSUME HonestInv, WebSocket PROVE HonestInv'
    OBVIOUS
  <1>1. TypeOK /\ TypeOK'
    BY WebSocketType DEF HonestInv
  <1>2. UNCHANGED <<peer, net, joined, mediaVars, finished, exitCode, loop>>
    BY DEF WebSocket, WebSocketEvent, WebSocketOpens, WebSocketCloses, WebSocketFails,
           WebSocketMessage, WebSocketBadMessage, controlVars
  <1>3. PICK task \in Task :
          /\ task.kind \in {"opened", "error", "inbound"}
          /\ tasks' = tasks \/ tasks' = Append(tasks, task)
    <2>1. CASE WebSocketMessage
      <3>1. PICK message \in [type : MessageTypes, id : 0..MaxCandidates] :
              PostTask([kind |-> "inbound", msg |-> message])
        BY <2>1 DEF WebSocketMessage
      <3>2. [kind |-> "inbound", msg |-> message] \in Task
        BY ClientAssumption DEF Task, InboundTask, Message
      <3> QED
        BY <3>1, <3>2 DEF PostTask
    <2>2. CASE WebSocketOpens
      BY <2>2 DEF WebSocketOpens, PostTask, Task
    <2>3. CASE WebSocketCloses \/ WebSocketFails \/ WebSocketBadMessage
      <3>1. tasks' = tasks \/ tasks' = Append(tasks, [kind |-> "error"])
        BY <2>3 DEF WebSocketCloses, WebSocketFails, WebSocketBadMessage, PostTask
      <3> QED
        BY <3>1 DEF Task
    <2> QED
      BY <2>1, <2>2, <2>3 DEF WebSocket, WebSocketEvent
  <1> QED
    BY <1>1, <1>2, <1>3, EventHonest DEF HonestInv, JoinedFirst

LEMMA LibraryHonest == HonestInv /\ Library => HonestInv'
  <1> SUFFICES ASSUME HonestInv, LibraryEvent, UNCHANGED <<clientVars, controlVars>>
               PROVE  HonestInv'
    BY DEF Library
  <1>1. TypeOK /\ TypeOK'
    BY LibraryType DEF HonestInv, Library
  <1>2. UNCHANGED <<net, joined, mediaVars, finished, exitCode, loop>>
    BY DEF LibraryEvent, OperationCompletes, CandidateGathered, ConnectionChanges,
           OnFrameDelivered, clientVars, controlVars
  <1>3. peer \in Peer /\ peer.flag \in Nat
    BY <1>1, TypeParts DEF Peer
  <1>4. CASE OperationCompletes
    <2>1. PICK step \in peer.pending, ok \in BOOLEAN :
            PostTask([kind |-> "observer", step |-> step, ok |-> ok, flag |-> peer.flag])
      BY <1>4 DEF OperationCompletes
    <2> DEFINE task == [kind |-> "observer", step |-> step, ok |-> ok, flag |-> peer.flag]
    <2>2. task \in Task /\ task.kind = "observer"
      BY <1>3 DEF Peer, Task, ObserverTask
    <2>3. tasks' = tasks \/ tasks' = Append(tasks, task)
      BY <2>1 DEF PostTask
    <2>4. joined # "none"
      BY DEF HonestInv, JoinedFirst
    <2> HIDE DEF task
    <2> QED
      BY <1>1, <1>2, <2>2, <2>3, <2>4, EventHonest
  <1>5. CASE CandidateGathered
    <2> DEFINE task == [kind |-> "localCandidate", flag |-> peer.flag]
    <2>1. task \in Task /\ task.kind = "localCandidate"
      BY <1>3 DEF Task
    <2>2. tasks' = tasks \/ tasks' = Append(tasks, task)
      BY <1>5 DEF CandidateGathered, PostTask
    <2>3. peer'.pending = peer.pending /\ peer'.sink = peer.sink
      BY <1>3, <1>5 DEF CandidateGathered, Peer
    <2> HIDE DEF task
    <2> QED
      BY <1>1, <1>2, <2>1, <2>2, <2>3, EventHonest DEF HonestInv, JoinedFirst
  <1>6. CASE ConnectionChanges
    <2>1. PICK to \in {"connected", "disconnected", "failed"} :
            PostTask([kind |-> "connection", to |-> to, flag |-> peer.flag])
      BY <1>6 DEF ConnectionChanges
    <2> DEFINE task == [kind |-> "connection", to |-> to, flag |-> peer.flag]
    <2>2. task \in Task /\ task.kind = "connection"
      BY <1>3 DEF Task, ConnectionTask
    <2>3. (tasks' = tasks \/ tasks' = Append(tasks, task)) /\ peer' = peer
      BY <1>6, <2>1 DEF ConnectionChanges, PostTask
    <2> HIDE DEF task
    <2> QED
      BY <1>1, <1>2, <2>2, <2>3, EventHonest DEF HonestInv, JoinedFirst
  <1>7. CASE OnFrameDelivered
    <2> DEFINE task == [kind |-> "frame", flag |-> peer.flag]
    <2>1. task \in Task /\ task.kind = "frame"
      BY <1>3 DEF Task
    <2>2. /\ tasks' = tasks \/ tasks' = Append(tasks, task)
          /\ peer' = peer /\ peer.sink
      BY <1>7 DEF OnFrameDelivered, PostTask
    <2>3. joined # "none"
      BY <2>2 DEF HonestInv, JoinedFirst
    <2> HIDE DEF task
    <2> QED
      BY <1>1, <1>2, <2>1, <2>2, <2>3, EventHonest
  <1> QED
    BY <1>4, <1>5, <1>6, <1>7 DEF LibraryEvent

LEMMA AlarmHonest == ASSUME HonestInv, NEW kind, Alarm(kind) PROVE HonestInv'
  <1>1. TypeOK /\ TypeOK'
    BY AlarmType DEF HonestInv
  <1>2. PICK timer \in timers : tasks' = Append(tasks, timer)
    BY DEF Alarm, TimerDue
  <1>3. timer \in Task /\ timer.kind \in TimerKinds
    BY <1>1, TypeParts DEF Task, Timer
  <1>4. timer.kind \notin {"joined", "sent", "observer", "frame"}
    BY <1>3 DEF TimerKinds
  <1>5. UNCHANGED <<net, peer, joined, mediaVars, finished, exitCode, loop>>
    BY DEF Alarm, TimerDue, clientVars, controlVars
  <1> QED
    BY <1>1, <1>2, <1>3, <1>4, <1>5, EventHonest DEF HonestInv, JoinedFirst

LEMMA ProcessHonest == HonestInv /\ (StartCall \/ ReturnFromRun \/ Destroy) => HonestInv'
  <1> SUFFICES ASSUME HonestInv, StartCall \/ ReturnFromRun \/ Destroy PROVE HonestInv'
    OBVIOUS
  <1>1. TypeOK'
    BY ProcessType DEF HonestInv
  <1>2. CASE StartCall
    <2>1. /\ loop = "starting" /\ loop' = "running" /\ net' = Append(net, JoinRequest)
          /\ UNCHANGED <<tasks, peer, joined, mediaVars, finished, exitCode>>
      BY <1>2 DEF StartCall
    <2>2. /\ net = <<>> /\ joined = "none"
          /\ \A k \in DOMAIN tasks : tasks[k].kind # "joined" /\ ~IsSent(tasks[k], "bye")
      BY <2>1 DEF HonestInv, JoinOnce, ByeOnce
    <2>3. \A k \in DOMAIN net' : k = 1 /\ ~IsPayload(net'[k], "bye")
      <3>1. net' = <<JoinRequest>>
        BY <2>1, <2>2
      <3> QED
        BY <3>1 DEF JoinRequest, IsPayload
    <2>4. JoinedFirst' /\ CodeKnown' /\ ExitHonest'
      BY <2>1 DEF HonestInv, JoinedFirst, CodeKnown, ExitHonest, mediaVars
    <2>5. JoinOnce' /\ ByeOnce'
      BY <2>1, <2>2, <2>3 DEF JoinOnce, ByeOnce
    <2> QED
      BY <1>1, <2>4, <2>5 DEF HonestInv
  <1>3. CASE ReturnFromRun \/ Destroy
    <2>1. /\ loop \in {"quit", "returned"} /\ loop' \in {"returned", "destroyed"}
          /\ UNCHANGED <<tasks, net, joined, mediaVars, finished, exitCode>>
          /\ peer' = peer \/ peer' = Close(peer)
      BY <1>3 DEF ReturnFromRun, Destroy
    <2>2. joined = "none" => peer'.pending = {} /\ ~peer'.sink
      <3>1. peer' = Close(peer) => peer'.pending = {} /\ ~peer'.sink
        BY TypeParts DEF HonestInv, Close, Peer
      <3> QED
        BY <2>1, <3>1 DEF HonestInv, JoinedFirst
    <2>3. JoinedFirst' /\ JoinOnce'
      BY <2>1, <2>2 DEF HonestInv, JoinedFirst, JoinOnce, mediaVars
    <2>4. ByeOnce'
      BY <2>1 DEF HonestInv, ByeOnce
    <2>5. CodeKnown' /\ ExitHonest'
      BY <2>1 DEF HonestInv, CodeKnown, ExitHonest, mediaVars
    <2> QED
      BY <1>1, <2>3, <2>4, <2>5 DEF HonestInv
  <1> QED
    BY <1>2, <1>3

(* -- the theorems ------------------------------------------------------------- *)

LEMMA InitHonest == Init => HonestInv
  <1> SUFFICES ASSUME Init PROVE HonestInv
    OBVIOUS
  <1>1. TypeOK /\ DOMAIN tasks = {} /\ DOMAIN net = {}
    BY InitType DEF Init, ThreadInit, ClientInit
  <1>2. JoinedFirst /\ JoinOnce
    BY <1>1 DEF Init, ThreadInit, ClientInit, PeerInit, JoinedFirst, JoinOnce
  <1>3. ByeOnce /\ CodeKnown /\ ExitHonest
    BY <1>1 DEF Init, ThreadInit, ByeOnce, CodeKnown, ExitHonest, RuntimeFailed, Success,
                TimedOut, MediaFailed
  <1> QED
    BY <1>1, <1>2, <1>3 DEF HonestInv

LEMMA StepHonest == HonestInv /\ [Next]_vars => HonestInv'
  <1> SUFFICES ASSUME HonestInv, [Next]_vars PROVE HonestInv'
    OBVIOUS
  <1>1. CASE Dispatch
    BY <1>1, DispatchHonest
  <1>2. CASE Network \/ WebSocket \/ Library
    BY <1>2, NetworkHonest, WebSocketHonest, LibraryHonest
  <1>3. CASE \E kind \in TimerKinds : Alarm(kind)
    BY <1>3, AlarmHonest
  <1>4. CASE StartCall \/ ReturnFromRun \/ Destroy
    BY <1>4, ProcessHonest
  <1>5. CASE Exited \/ UNCHANGED vars
    <2>1. UNCHANGED vars
      BY <1>5 DEF Exited
    <2>2. TypeOK'
      BY <2>1, StepType DEF HonestInv
    <2> QED
      BY <2>1, <2>2
      DEF vars, threadVars, clientVars, mediaVars, HonestInv, JoinedFirst, JoinOnce,
          ByeOnce, CodeKnown, ExitHonest
  <1> QED
    BY <1>1, <1>2, <1>3, <1>4, <1>5 DEF Next

(* The exit code tells the truth about the call, in every instance: whatever   *)
(* the queues hold when the call ends, 0 means it was established.             *)
THEOREM CodeHonest == Spec => []ExitHonest
  <1>1. HonestInv => ExitHonest
    BY DEF HonestInv
  <1> QED
    BY <1>1, InitHonest, StepHonest, PTL DEF Spec


(* The steps that are not a task of the controller leave the call's end alone. *)
LEMMA OtherSteps ==
  ASSUME HonestInv, [Next]_vars, ~Dispatch
  PROVE  /\ UNCHANGED <<joined, mediaVars, finished, exitCode, durationGen>>
         /\ startupGen' = startupGen \/ ~finished
         /\ (loop' \in {"quit", "returned", "destroyed"})
              = (loop \in {"quit", "returned", "destroyed"})
  <1>1. CASE Network \/ WebSocket \/ Library \/ \E kind \in TimerKinds : Alarm(kind)
    <2>1. UNCHANGED controlVars
      BY <1>1 DEF Network, WebSocket, Library, Alarm
    <2>2. UNCHANGED loop
      BY <1>1
      DEF Network, NetworkStep, JoinRoom, ConnectWebSocket, Register, SendToRoom,
          SendWebSocketMessage, CloseMarks, CloseStops, WebSocket, WebSocketEvent,
          WebSocketOpens, WebSocketCloses, WebSocketFails, WebSocketMessage,
          WebSocketBadMessage, Library, LibraryEvent, OperationCompletes,
          CandidateGathered, ConnectionChanges, OnFrameDelivered, Alarm, TimerDue,
          threadVars
    <2> QED
      BY <2>1, <2>2 DEF controlVars
  <1>2. CASE StartCall
    BY <1>2 DEF StartCall, HonestInv, CodeKnown
  <1>3. CASE ReturnFromRun \/ Destroy
    BY <1>3 DEF ReturnFromRun, Destroy
  <1>4. CASE Exited \/ UNCHANGED vars
    BY <1>4 DEF Exited, vars, threadVars
  <1> QED
    BY <1>1, <1>2, <1>3, <1>4 DEF Next

LEMMA FinalStep ==
  ASSUME HonestInv, [Next]_vars, finished
  PROVE  /\ finished'
         /\ UNCHANGED <<joined, mediaVars, startupGen, durationGen>>
         /\ exitCode' = exitCode \/ (loop = "running" /\ exitCode' = Success)
  <1>1. CASE Dispatch
    <2>1. Handled
      BY <1>1, DispatchHandled
    <2>2. Onward \/ Bid
      BY <2>1 DEF Handled, Outcome, Ended, Farewell
    <2>3. CASE Onward
      BY <2>1, <2>3 DEF Onward, Handled, FinalKept
    <2>4. CASE Bid
      BY <2>1, <2>4, HeadFacts DEF Bid, Handled, FinalKept
    <2> QED
      BY <2>2, <2>3, <2>4
  <1>2. CASE ~Dispatch
    BY <1>2, OtherSteps
  <1> QED
    BY <1>1, <1>2

(* The first reason wins, in every instance: of the tasks that are drained     *)
(* after finished_ is set none changes what the call was or how it ended.      *)
THEOREM FirstReasonWins == Spec => FinishedIsFinal
  <1>1. ASSUME HonestInv, [Next]_vars
        PROVE  [finished =>
                  /\ finished'
                  /\ UNCHANGED <<joined, mediaVars, startupGen, durationGen>>
                  /\ exitCode' = exitCode \/ (loop = "running" /\ exitCode' = Success)]_vars
    BY <1>1, FinalStep
  <1> QED
    BY <1>1, InitHonest, StepHonest, PTL DEF Spec, FinishedIsFinal

(* -- the refinement ----------------------------------------------------------- *)

IsOver == loop \in {"quit", "returned", "destroyed"}

LEMMA PhaseValues ==
  /\ IsOver => Phase = "over"
  /\ ~IsOver /\ finished => Phase = "farewell"
  /\ ~IsOver /\ ~finished /\ callEstablished => Phase = "established"
  /\ ~IsOver /\ ~finished /\ ~callEstablished => Phase = "setup"
  BY DEF Phase, IsOver

LEMMA PhaseValuesNext ==
  /\ IsOver' => Phase' = "over"
  /\ ~IsOver' /\ finished' => Phase' = "farewell"
  /\ ~IsOver' /\ ~finished' /\ callEstablished' => Phase' = "established"
  /\ ~IsOver' /\ ~finished' /\ ~callEstablished' => Phase' = "setup"
  BY DEF Phase, IsOver

(* Both modules have the exit codes from SignalingTypes.                       *)
LEMMA SameCodes ==
  /\ Lifecycle!Success = Success /\ Lifecycle!MediaFailed = MediaFailed
  /\ Lifecycle!SignalingFailed = SignalingFailed
  /\ Lifecycle!PeerConnectionFailed = PeerConnectionFailed
  /\ Lifecycle!TimedOut = TimedOut /\ Lifecycle!RuntimeFailed = RuntimeFailed
  BY DEF Lifecycle!Success, Success, Lifecycle!MediaFailed, MediaFailed,
         Lifecycle!SignalingFailed, SignalingFailed,
         Lifecycle!PeerConnectionFailed, PeerConnectionFailed,
         Lifecycle!TimedOut, TimedOut, Lifecycle!RuntimeFailed, RuntimeFailed

LEMMA PhaseInit == Init => Lifecycle!LifecycleInit
  <1> SUFFICES ASSUME Init PROVE Lifecycle!LifecycleInit
    OBVIOUS
  <1>1. ~IsOver /\ ~finished /\ ~callEstablished /\ exitCode = RuntimeFailed
    BY DEF Init, ThreadInit, IsOver
  <1> QED
    BY <1>1, PhaseValues, SameCodes DEF Lifecycle!LifecycleInit

LEMMA HandledPhase ==
  ASSUME HonestInv, Handled
  PROVE  [Lifecycle!LifecycleNext]_(Lifecycle!lifecycleVars)
  <1> USE PhaseValues, PhaseValuesNext
  <1>1. ~finished => loop = "running" /\ ~IsOver
    BY DEF Handled, HonestInv, CodeKnown, IsOver
  <1>2. CASE Onward /\ (callEstablished' = callEstablished \/ (~finished /\ callEstablished'))
    <2>1. finished' = finished /\ exitCode' = exitCode /\ IsOver' = IsOver
      BY <1>2 DEF Onward, IsOver
    <2>2. CASE callEstablished' = callEstablished
      BY <2>1, <2>2 DEF Lifecycle!lifecycleVars
    <2>3. CASE ~finished /\ callEstablished' /\ ~callEstablished
      BY <1>1, <2>1, <2>3 DEF Lifecycle!LifecycleNext, Lifecycle!Establish
    <2> QED
      BY <1>2, <2>2, <2>3 DEF HonestInv, TypeOK
  <1>3. ASSUME NEW reason, Fits(reason), Ended(reason)
        PROVE  Lifecycle!LifecycleNext
    <2>1. ~IsOver /\ IsOver' /\ ~finished
      BY <1>1, <1>3 DEF Ended, IsOver
    <2>2. CASE callEstablished
      <3>1. exitCode' \in {Success, SignalingFailed, PeerConnectionFailed}
        BY <1>3, <2>2 DEF Ended, Fits, TerminalReasons, ExitCodeForReason
      <3> QED
        BY <2>1, <2>2, <3>1, SameCodes DEF Lifecycle!LifecycleNext, Lifecycle!LoseCall
    <2>3. CASE ~callEstablished
      <3>1. exitCode' \in {MediaFailed, SignalingFailed, PeerConnectionFailed, TimedOut}
        BY <1>3, <2>3 DEF Ended, Fits, TerminalReasons, ExitCodeForReason
      <3> QED
        BY <2>1, <2>3, <3>1, SameCodes DEF Lifecycle!LifecycleNext, Lifecycle!FailSetup
    <2> QED
      BY <2>2, <2>3
  <1>4. CASE callEstablished /\ callEstablished' /\ Farewell
    <2>1. ~finished /\ finished' /\ ~IsOver /\ ~IsOver' /\ exitCode' = exitCode
      BY <1>1, <1>4 DEF Farewell, IsOver
    <2> QED
      BY <1>4, <2>1 DEF Lifecycle!LifecycleNext, Lifecycle!SayGoodbye
  <1>5. CASE Bid
    <2>1. finished /\ loop = "running" /\ exitCode' = Success /\ ~IsOver /\ IsOver'
      BY <1>5, HeadFacts DEF Bid, Handled, IsOver
    <2> QED
      BY <2>1, SameCodes DEF Lifecycle!LifecycleNext, Lifecycle!EndFarewell
  <1> QED
    BY <1>2, <1>3, <1>4, <1>5 DEF Handled, Outcome

LEMMA StepPhase ==
  ASSUME HonestInv, [Next]_vars
  PROVE  [Lifecycle!LifecycleNext]_(Lifecycle!lifecycleVars)
  <1>1. CASE Dispatch
    BY <1>1, DispatchHandled, HandledPhase
  <1>2. CASE ~Dispatch
    <2>1. /\ UNCHANGED <<finished, callEstablished, exitCode>>
          /\ IsOver' = IsOver
      BY <1>2, OtherSteps DEF IsOver, mediaVars
    <2> QED
      BY <2>1, PhaseValues, PhaseValuesNext DEF Lifecycle!lifecycleVars
  <1> QED
    BY <1>1, <1>2

(* The controller implements the abstract life of a call, in every instance.   *)
THEOREM LifecycleImplemented == Spec => ImplementsLifecycle
  BY PhaseInit, StepPhase, InitHonest, StepHonest, PTL
  DEF Spec, ImplementsLifecycle, Lifecycle!LifecycleSpec

=============================================================================
