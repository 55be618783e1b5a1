--------------------------- MODULE SignalingThread ---------------------------
(* The thread that runs the call: a webrtc::Thread with a FIFO of tasks and    *)
(* delayed tasks.  Every callback of the other components reaches the call     *)
(* controller as a task of this queue.                                         *)
EXTENDS SignalingTypes

CONSTANT MaxTasks  \* bound: no outside event while this many tasks are queued

ASSUME ThreadAssumption == MaxTasks \in Nat

VARIABLES
  tasks,   \* the queue, oldest first
  timers,  \* delayed tasks not yet due
  loop     \* where the process is: see Phases

threadVars == <<tasks, timers, loop>>

(* "starting": the controller is built, Run has not been called.  "running":   *)
(* in ProcessMessages.  "quit": Quit was called, ProcessMessages drains the    *)
(* queue.  "returned": Run has returned, the controller is being destroyed.    *)
(* "destroyed": the network thread is joined and the websocket stopped.        *)
Phases == {"starting", "running", "quit", "returned", "destroyed"}

Roles == {"initiator", "responder"}
Payloads == {"description", "candidate", "bye"}

(* The asynchronous operations of a peer connection.                           *)
Steps == {"createOffer", "setLocalOffer", "setRemoteOffer",
          "createAnswer", "setLocalAnswer", "setRemoteAnswer"}

TimerKinds == {"startup", "duration", "stats"}
Timer == [kind : TimerKinds, gen : Nat]

JoinedTask == [kind : {"joined"}, role : Roles \cup {"none"}, msgs : Seq(RawMessage)]
InboundTask == [kind : {"inbound"}, msg : Message]
SentTask == [kind : {"sent"}, what : Payloads, ok : BOOLEAN]
ObserverTask == [kind : {"observer"}, step : Steps, ok : BOOLEAN, flag : Nat]
ConnectionTask == [kind : {"connection"}, to : {"connected", "disconnected", "failed"},
                   flag : Nat]
Task ==
  JoinedTask \cup InboundTask \cup SentTask \cup ObserverTask \cup ConnectionTask
    \cup Timer
    \cup [kind : {"opened", "error"}]
    \cup [kind : {"registered"}, ok : BOOLEAN]
    \cup [kind : {"localCandidate", "frame"}, flag : Nat]

(* Quit makes the thread refuse new tasks.                                     *)
PostTask(task) ==
  tasks' = IF loop \in {"starting", "running"} THEN Append(tasks, task) ELSE tasks

(* An event from outside the process may post a task now.                      *)
HasRoom == Len(tasks) < MaxTasks

(* A delayed task that is due is moved to the queue, before Quit or while the  *)
(* queue is being drained.                                                     *)
TimerDue(kind) ==
  /\ loop \in {"running", "quit"}
  /\ \E timer \in timers :
       /\ timer.kind = kind
       /\ timers' = timers \ {timer}
       /\ tasks' = Append(tasks, timer)
  /\ UNCHANGED loop

(* The thread is about to run a task of this kind.                             *)
Running(kind) ==
  /\ loop \in {"running", "quit"}
  /\ tasks # <<>>
  /\ Head(tasks).kind = kind

ThreadInit ==
  /\ tasks = <<>>
  /\ timers = {}
  /\ loop = "starting"

ThreadTypeOK ==
  /\ tasks \in Seq(Task)
  /\ timers \subseteq Timer
  /\ loop \in Phases
=============================================================================
