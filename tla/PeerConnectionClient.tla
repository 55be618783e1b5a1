------------------------ MODULE PeerConnectionClient ------------------------
(* PeerConnectionClient: the wrapper around a webrtc::PeerConnection.  Its     *)
(* methods run on the signaling thread as part of a controller handler, so     *)
(* they are functions from a peer record to a peer record here.  The library's *)
(* own activity (operations completing, candidates gathered, state changes,    *)
(* decoded frames) is a set of actions that post tasks to that thread.         *)
EXTENDS SignalingThread

CONSTANT MaxLocalCandidates  \* bound: ICE candidates gathered

ASSUME PeerAssumption == MaxLocalCandidates \in Nat

VARIABLE peer

(* connection: connection_ is null, live, or released by Close.  flag: number  *)
(* of task_safety_ resets; a task is live while the flag it carries is the     *)
(* current one.  connected, seen, described: connected_, remote_media_seen_,   *)
(* remote_description_set_.  buffered: pending_remote_candidates_.  applied:   *)
(* ids given to AddIceCandidate, in order.  pending: operations the library    *)
(* has not completed.  gathering, gathered: the library reports ICE candidates *)
(* and how many it has.  sink: the remote frame sink is attached to a track.   *)
Peer == [connection : {"none", "open", "closed"}, flag : Nat,
         connected : BOOLEAN, seen : BOOLEAN, described : BOOLEAN,
         buffered : Seq(Nat), applied : Seq(Nat), pending : SUBSET Steps,
         gathering : BOOLEAN, gathered : Nat, sink : BOOLEAN]

PeerInit ==
  peer = [connection |-> "none", flag |-> 0,
          connected |-> FALSE, seen |-> FALSE, described |-> FALSE,
          buffered |-> <<>>, applied |-> <<>>, pending |-> {},
          gathering |-> FALSE, gathered |-> 0, sink |-> FALSE]

PeerTypeOK == peer \in Peer

(* -- methods ---------------------------------------------------------------- *)

Initialize(p) ==
  [p EXCEPT !.connection = "open", !.connected = FALSE, !.seen = FALSE,
            !.described = FALSE, !.buffered = <<>>]

Start(p, step) == [p EXCEPT !.pending = @ \cup {step}]

(* What each step continues with when it succeeds; the others end a chain.     *)
NextStep ==
  [s \in {"createOffer", "setRemoteOffer", "createAnswer"} |->
     CASE s = "createOffer" -> "setLocalOffer"
       [] s = "setRemoteOffer" -> "createAnswer"
       [] s = "createAnswer" -> "setLocalAnswer"]

AddRemoteCandidates(p, ids) ==
  IF p.described
    THEN [p EXCEPT !.applied = @ \o ids]
    ELSE [p EXCEPT !.buffered = @ \o ids]

(* Faulty variants: the buffered candidates are dropped; they are kept.        *)
FlushDropping(p) == [p EXCEPT !.described = TRUE, !.buffered = <<>>]
FlushKeeping(p) == [p EXCEPT !.described = TRUE, !.applied = @ \o p.buffered]

(* The remote description is set and the buffered candidates are applied.      *)
FlushPendingRemoteCandidates(p) ==
  [p EXCEPT !.described = TRUE, !.applied = @ \o p.buffered, !.buffered = <<>>]

(* The library refuses the candidate after the first k: the buffer stays.      *)
FlushRefused(p, k) ==
  [p EXCEPT !.described = TRUE, !.applied = @ \o SubSeq(p.buffered, 1, k)]

(* Faulty variant: the safety flag is not reset.                               *)
CloseKeepingFlag(p) ==
  [p EXCEPT !.connection = IF @ = "open" THEN "closed" ELSE @,
            !.buffered = <<>>, !.described = FALSE, !.connected = FALSE,
            !.seen = FALSE, !.sink = FALSE,
            !.pending = {}, !.gathering = FALSE]

(* The safety flag is replaced first, then the connection is released.         *)
Close(p) ==
  [p EXCEPT !.flag = @ + 1,
            !.connection = IF @ = "open" THEN "closed" ELSE @,
            !.buffered = <<>>, !.described = FALSE, !.connected = FALSE,
            !.seen = FALSE, !.sink = FALSE,
            !.pending = {}, !.gathering = FALSE]

(* -- the library (external) -------------------------------------------------- *)

(* An operation completes: its observer posts the outcome.  Setting the local  *)
(* description starts gathering; setting the remote one adds the track, whose  *)
(* handler attaches the sink.                                                  *)
OperationCompletes ==
  /\ \E step \in peer.pending, ok \in BOOLEAN :
       /\ PostTask([kind |-> "observer", step |-> step, ok |-> ok,
                    flag |-> peer.flag])
       /\ peer' = [peer EXCEPT
            !.pending = @ \ {step},
            !.gathering = @ \/ (ok /\ step \in {"setLocalOffer", "setLocalAnswer"}),
            !.sink = @ \/ (ok /\ step \in {"setRemoteOffer", "setRemoteAnswer"})]
  /\ UNCHANGED <<timers, loop>>

CandidateGathered ==
  /\ peer.gathering
  /\ peer.gathered < MaxLocalCandidates
  /\ peer' = [peer EXCEPT !.gathered = @ + 1]
  /\ PostTask([kind |-> "localCandidate", flag |-> peer.flag])
  /\ UNCHANGED <<timers, loop>>

(* Both descriptions are set: the transport changes state, and may flap.       *)
(* Bound: one state change queued at a time.                                   *)
ConnectionChanges ==
  /\ peer.gathering /\ peer.sink
  /\ \A k \in DOMAIN tasks : tasks[k].kind # "connection"
  /\ \E to \in {"connected", "disconnected", "failed"} :
       PostTask([kind |-> "connection", to |-> to, flag |-> peer.flag])
  /\ UNCHANGED <<timers, loop, peer>>

(* The decoder's thread delivers a frame.  Bound: one frame queued at a time.  *)
OnFrameDelivered ==
  /\ peer.sink
  /\ \A k \in DOMAIN tasks : tasks[k].kind # "frame"
  /\ PostTask([kind |-> "frame", flag |-> peer.flag])
  /\ UNCHANGED <<timers, loop, peer>>

LibraryEvent ==
  /\ HasRoom
  /\ \/ OperationCompletes
     \/ CandidateGathered
     \/ ConnectionChanges
     \/ OnFrameDelivered

(* The task's safety flag has not been reset since it was posted.              *)
Live(task) == task.flag = peer.flag
=============================================================================
