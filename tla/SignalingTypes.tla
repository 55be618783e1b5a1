---------------------------- MODULE SignalingTypes ----------------------------
(* The data shared by the components of the AppRTC call: signaling messages,   *)
(* the order in which a join response's messages are handled, the reasons a    *)
(* call ends for, and the process exit code of each.                           *)
EXTENDS Naturals, Sequences

MessageTypes == {"offer", "answer", "candidate", "bye", "unknown"}

(* An element of the join response's "messages" array may also be text that    *)
(* ParseSignalingMessage rejects.                                              *)
RawTypes == MessageTypes \cup {"garbled"}

(* Payloads are abstract.  A candidate carries a number that says which of the *)
(* received candidates it is; every other message carries 0.                   *)
Message == [type : MessageTypes, id : Nat]
RawMessage == [type : RawTypes, id : Nat]

(* Faulty variant: a bye comes first.                                          *)
ByeFirstPriority ==
  [t \in MessageTypes |->
     CASE t = "bye" -> 0
       [] t \in {"offer", "answer"} -> 1
       [] t = "candidate" -> 2
       [] OTHER -> 3]

QueuedMessagePriority ==
  [t \in MessageTypes |->
     CASE t \in {"offer", "answer"} -> 0
       [] t = "candidate" -> 1
       [] t = "bye" -> 2
       [] OTHER -> 3]

Parsable(raw) == {k \in DOMAIN raw : raw[k].type \in MessageTypes}

(* k precedes l in a stable sort by priority.                                  *)
QueuedBefore(raw, k, l) ==
  LET kp == QueuedMessagePriority[raw[k].type]
      lp == QueuedMessagePriority[raw[l].type]
  IN  kp < lp \/ (kp = lp /\ k < l)

(* Faulty variant: messages are handled as received, parsable or not.          *)
QueuedAsReceived(raw) == {raw}

(* The sequences of n messages that list the parsable part of raw in order.    *)
OrdersOfLength(raw, n) ==
  {[k \in 1..n |-> raw[p[k]]] :
     p \in {q \in [1..n -> Parsable(raw)] :
              /\ \A k \in Parsable(raw) : \E l \in 1..n : q[l] = k
              /\ \A k, l \in 1..n : k < l => QueuedBefore(raw, q[k], q[l])}}

(* The one sequence in this set is the parsable part of raw, stably sorted.    *)
QueuedOrders(raw) == UNION {OrdersOfLength(raw, n) : n \in 0..Len(raw)}

TerminalReasons ==
  {"LocalDurationReached", "RemoteByeAfterEstablished",
   "RemoteByeBeforeEstablished", "StartupTimeout", "SignalingError",
   "PeerConnectionError", "MediaError"}

Success == 0
MediaFailed == 4
SignalingFailed == 5
PeerConnectionFailed == 6
TimedOut == 7
RuntimeFailed == 8
ExitCodes == {Success, MediaFailed, SignalingFailed, PeerConnectionFailed,
              TimedOut, RuntimeFailed}

ExitCodeForReason ==
  [reason \in TerminalReasons |->
     CASE reason \in {"LocalDurationReached", "RemoteByeAfterEstablished"} -> Success
       [] reason \in {"RemoteByeBeforeEstablished", "SignalingError"} -> SignalingFailed
       [] reason = "StartupTimeout" -> TimedOut
       [] reason = "PeerConnectionError" -> PeerConnectionFailed
       [] reason = "MediaError" -> MediaFailed]
=============================================================================
