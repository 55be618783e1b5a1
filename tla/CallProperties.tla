---------------------------- MODULE CallProperties ----------------------------
(* What must hold of the call.                                                 *)
EXTENDS CallController, FiniteSets

Count(s, P(_)) == Cardinality({k \in DOMAIN s : P(s[k])})
One(b) == IF b THEN 1 ELSE 0

IsPayload(request, what) == request.op \in {"post", "send"} /\ request.what = what
IsSent(task, what) == task.kind = "sent" /\ task.what = what

(* What will one day clear signaling_action_in_flight_.                        *)
Continuations ==
  Cardinality(peer.pending)
    + Count(tasks, LAMBDA t : t.kind = "observer" /\ Live(t))
    + Count(net, LAMBDA r : IsPayload(r, "description"))
    + Count(tasks, LAMBDA t : IsSent(t, "description"))

(* Until the loop is told to quit, an action in flight has exactly one         *)
(* continuation somewhere (an operation of the library, its queued outcome, a  *)
(* description being sent, that send's outcome), and without one there is      *)
(* none: the flag is never left set for ever (a wedged call) and two offers or *)
(* answers are never negotiated at once.                                       *)
OneContinuation == loop = "running" => Continuations = One(neg.busy)

(* A signaling message is never left waiting: when registration is done and no *)
(* action is in flight, the queue is empty and an initiator has begun its      *)
(* offer (every path that clears the flag pumps the queue again).              *)
NoStall ==
  ~finished /\ neg.ready /\ ~neg.busy =>
    neg.queue = <<>> /\ (joined = "initiator" => neg.offered)

(* The numbers of the candidates among the messages, each at its place.        *)
CandidatesOf(messages) ==
  [k \in {j \in DOMAIN messages : IsCandidate(messages[j])} |-> messages[k].id]

InboundMessages == [k \in {j \in DOMAIN tasks : tasks[j].kind = "inbound"} |-> tasks[k].msg]

JoinMessages ==
  LET answers == {k \in DOMAIN tasks : tasks[k].kind = "joined"}
  IN  IF answers = {} THEN <<>> ELSE tasks[CHOOSE k \in answers : TRUE].msgs

(* The way of a remote candidate, backwards: applied, buffered, waiting in the *)
(* message queue, in the queued join response, in tasks of the websocket.      *)
Way ==
  <<peer.applied, peer.buffered, CandidatesOf(neg.queue), CandidatesOf(JoinMessages),
    CandidatesOf(InboundMessages)>>

(* Every remote candidate received, from the join response or the websocket,   *)
(* is given to the connection exactly once and in the order of arrival, whether*)
(* it was buffered before the remote description or not: the ones on the way   *)
(* are all of them, each before the ones behind it.                            *)
CandidatesInOrder ==
  ~finished =>
    /\ UNION {{Way[i][k] : k \in DOMAIN Way[i]} : i \in 1..5} = arrived
    /\ \A i, j \in 1..5 : \A k \in DOMAIN Way[i], l \in DOMAIN Way[j] :
         i < j \/ (i = j /\ k < l) => Way[i][k] < Way[j][l]

(* What must have left the queue before a message of each type is handled.      *)
Earlier ==
  [t \in MessageTypes |->
     CASE t = "candidate" -> {"offer", "answer"}
       [] t = "bye" -> {"offer", "answer", "candidate"}
       [] t = "unknown" -> {"offer", "answer", "candidate", "bye"}
       [] OTHER -> {}]

(* A bye or an unknown message, which ends the call, is never handled while    *)
(* something else its sender left in the room still waits, nor a candidate     *)
(* before the description, whatever the order of the join response, however    *)
(* long the messages wait for actions in flight and whatever the websocket     *)
(* appends: all but the last heard messages of the queue are from the room.    *)
RoomMessagesInOrder ==
  \A k, l \in 1..(Len(neg.queue) - heard) :
    k < l => neg.queue[l].type \notin Earlier[neg.queue[k].type]

(* Nothing calls through a released connection_: whenever a live observer task *)
(* is queued, or the controller can still negotiate, the connection is there.  *)
ConnectionLive ==
  (\/ \E k \in DOMAIN tasks : tasks[k].kind = "observer" /\ Live(tasks[k])
   \/ peer.pending # {}
   \/ neg.ready /\ ~finished)
  => peer.connection = "open"

IsArmed(timer) ==
  \/ timer \in timers
  \/ \E k \in DOMAIN tasks : tasks[k] = timer

(* While the loop runs something bounded always ends the call: before it is    *)
(* established the current startup timer, then the current duration timer, and *)
(* once finished_ is set exactly one bye whose completion quits.               *)
AlwaysEnding ==
  loop = "running" =>
    /\ ~finished /\ ~callEstablished =>
         IsArmed([kind |-> "startup", gen |-> startupGen])
    /\ ~finished /\ callEstablished =>
         IsArmed([kind |-> "duration", gen |-> durationGen])
    /\ One(finished) = Count(net, LAMBDA r : IsPayload(r, "bye"))
                         + Count(tasks, LAMBDA t : IsSent(t, "bye"))

(* Over one call at most one registration is sent, however often the websocket *)
(* reconnects: the error its closing posts reaches the controller before the   *)
(* next opening does.                                                          *)
RegistersOnce ==
  LET FirstError == {k \in DOMAIN tasks : tasks[k].kind = "error"}
      Fresh == {k \in DOMAIN tasks : /\ tasks[k].kind = "opened"
                                     /\ \A l \in FirstError : k < l}
  IN  ~finished =>
        Cardinality(Fresh) + Count(net, LAMBDA r : r.op = "register")
          + Count(tasks, LAMBDA t : t.kind = "registered") + One(neg.ready) <= 1

(* Leaving the room is the last thing asked of the network thread: no task     *)
(* drained after Quit posts a request behind it.                               *)
LeavesLast ==
  \A k \in DOMAIN net : net[k].op \in {"close", "stop"} => k = Len(net)

(* No ICE candidate follows the bye; only the description of a negotiation     *)
(* that was under way, and leaving the room, may.                              *)
NoCandidateAfterBye ==
  \A k, l \in DOMAIN net :
    k < l /\ IsPayload(net[k], "bye") => ~IsPayload(net[l], "candidate")

(* When the process is done the websocket is stopped for good, the connection  *)
(* closed, and the room server has been asked to delete a client that the      *)
(* controller knew had joined (unless the join response did not say whom),     *)
(* whatever the order of connecting, reconnecting and closing.  What the server*)
(* makes of the request is not looked at.                                      *)
CleanShutdown ==
  loop = "destroyed" =>
    /\ socket \in {"idle", "stopped"} /\ ~websocketOpen /\ closing
    /\ joined # "none" => membership \in Released
    /\ peer.connection # "open"

(* The exit code is true: 0 only for an established call, the timeout and      *)
(* media codes only for one that was not, and a call that has ended never      *)
(* reports the initial code.                                                   *)
ExitHonest ==
  /\ exitCode = Success => callEstablished
  /\ exitCode \in {TimedOut, MediaFailed} => ~callEstablished
  /\ loop \in {"quit", "returned", "destroyed"} => exitCode # RuntimeFailed

(* Once finished_ is set no late task (a queued callback, a frame that caught  *)
(* the new safety flag) changes what the call was, and the first reason wins:  *)
(* the exit code can only become the success of a call saying goodbye.         *)
FinishedIsFinal ==
  [][finished =>
       /\ finished'
       /\ UNCHANGED <<joined, mediaVars, startupGen, durationGen>>
       /\ exitCode' = exitCode \/ (loop = "running" /\ exitCode' = Success)]_vars

Phase ==
  CASE loop \in {"quit", "returned", "destroyed"} -> "over"
    [] loop \notin {"quit", "returned", "destroyed"} /\ finished -> "farewell"
    [] loop \notin {"quit", "returned", "destroyed"} /\ ~finished /\ callEstablished
         -> "established"
    [] OTHER -> "setup"

Lifecycle == INSTANCE CallLifecycle WITH phase <- Phase, code <- exitCode

(* The controller implements the abstract life of a call.                      *)
ImplementsLifecycle == Lifecycle!LifecycleSpec

(* The process always exits: whatever the room server, the websocket and the   *)
(* peer do or fail to do, Run returns and every thread is joined.              *)
Exits == <>(loop = "destroyed")
=============================================================================
