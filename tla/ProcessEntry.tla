----------------------------- MODULE ProcessEntry -----------------------------
(* RunAppRtcCall: what it initialises, the call controller it builds, runs and *)
(* destroys, and what it cleans up, with the two threads of the signaling      *)
(* client that are still running then: the network thread, which drains its    *)
(* queue before it ends, and the thread of the websocket.  The call itself is  *)
(* the controller's (CallController); here it posts tasks until it quits.      *)
EXTENDS Naturals, Sequences, SignalingTypes

CONSTANT MaxQueue  \* bound: tasks of the network thread that wait

VARIABLES
  main,      \* where the main thread is: see MainPhases
  code,      \* what RunAppRtcCall returns
  live,      \* what is initialised: libraries, the wrapped thread, peer_client_
  cleanups,  \* the absl::Cleanup objects, the last one first to run
  ran,       \* whether a controller ran
  joined,    \* the join request: "no", "replied", or "yes", seen by the controller
  members,   \* the members of the signaling client that are constructed
  queue,     \* the network thread's tasks
  network,   \* where the network thread is: see NetworkPhases
  socket,    \* where the websocket's thread is: see SocketPhases
  event,     \* the event whose callback it runs
  copied,    \* the callback it copies
  stopping,  \* websocket_.stop() waits for that thread
  holder,    \* the thread that holds mutex_
  isOpen,    \* websocket_open_
  closing    \* closing_

mainVars == <<main, code, live, cleanups, ran, joined>>
networkVars == <<queue, network>>
socketVars == <<socket, event, copied>>
flagVars == <<isOpen, closing>>
processVars == <<mainVars, members, networkVars, socketVars, stopping, holder, flagVars>>

(* "destroying" to "members": the controller is destroyed, peer_client_ first; *)
(* "joining" waits for the network thread, "stopping" for the websocket's.     *)
MainPhases == {"validating", "curl", "net", "ssl", "branch", "wrapping", "building",
               "running", "destroying", "closing", "members", "joining", "stopping",
               "cleaning", "exited"}

NetworkTasks == {"join", "connect", "send", "request", "close"}

(* "connectStop", "closeStop": waiting in websocket_.stop().                   *)
NetworkPhases == {"none", "idle", "join", "connect", "connectStop", "send", "request",
                  "close", "closeStop", "delete"}

(* "notifying": in NotifyError.  "copying": a callback is copied under mutex_. *)
SocketPhases == {"none", "listening", "handling", "notifying", "copying", "posting"}

SocketEvents == {"open", "close", "error", "message", "garbage", "last"}

(* The members that are destroyed before a thread is joined, in that order.    *)
Destroyed == <<"on_error", "on_signaling_message", "on_websocket_open", "mutex">>

ClientMembers == {"on_error", "on_signaling_message", "on_websocket_open",
                  "mutex", "network_thread", "websocket"}

InvalidArgument == 2
InitializationFailed == 3

ProcessInit ==
  /\ main = "validating"
  /\ code = RuntimeFailed
  /\ live = {}
  /\ cleanups = <<>>
  /\ ran = FALSE
  /\ joined = "no"
  /\ members = {}
  /\ queue = <<>>
  /\ network = "none"
  /\ socket = "none"
  /\ event = "open"
  /\ copied = "on_error"
  /\ stopping = FALSE
  /\ holder = "none"
  /\ isOpen = FALSE
  /\ closing = FALSE

(* -- RunAppRtcCall --------------------------------------------------------------*)

MainOnly == <<members, networkVars, socketVars, stopping, holder, flagVars>>

(* Faulty variant: the customary exit code of a failure, which is none of ours.*)
ValidateWithOne ==
  /\ main = "validating"
  /\ \/ main' = "exited" /\ code' = 1
     \/ main' = "curl" /\ UNCHANGED code
  /\ UNCHANGED <<live, cleanups, ran, joined, MainOnly>>

(* Before anything is initialised.  LogSeverityFromConfig refuses nothing that *)
(* ValidateConfig lets through.                                                *)
Validate ==
  /\ main = "validating"
  /\ \/ main' = "exited" /\ code' = InvalidArgument
     \/ main' = "curl" /\ UNCHANGED code
  /\ UNCHANGED <<live, cleanups, ran, joined, MainOnly>>

InitCurl ==
  /\ main = "curl"
  /\ live' = live \cup {"curl"}
  /\ cleanups' = Append(cleanups, "curl")
  /\ main' = "net"
  /\ UNCHANGED <<code, ran, joined, MainOnly>>

InitNetSystem ==
  /\ main = "net"
  /\ live' = live \cup {"net"}
  /\ cleanups' = Append(cleanups, "net")
  /\ main' = "ssl"
  /\ UNCHANGED <<code, ran, joined, MainOnly>>

InitializeSSL ==
  /\ main = "ssl"
  /\ \/ /\ live' = live \cup {"ssl"}
        /\ cleanups' = Append(cleanups, "ssl")
        /\ main' = "branch"
        /\ UNCHANGED code
     \/ /\ main' = "cleaning"
        /\ code' = InitializationFailed
        /\ UNCHANGED <<live, cleanups>>
  /\ UNCHANGED <<ran, joined, MainOnly>>

(* With --validate_inputs_only the source is the whole program (PeerMedia).    *)
Branch ==
  /\ main = "branch"
  /\ \/ main' = "cleaning" /\ code' \in {Success, MediaFailed}
     \/ main' = "wrapping" /\ UNCHANGED code
  /\ UNCHANGED <<live, cleanups, ran, joined, MainOnly>>

(* Faulty variant: the thread stays wrapped.                                   *)
WrapForGood ==
  /\ main = "wrapping"
  /\ live' = live \cup {"thread"}
  /\ main' = "building"
  /\ UNCHANGED <<code, cleanups, ran, joined, MainOnly>>

(* main has no webrtc::Thread of its own, so there is one to wrap.             *)
WrapCurrentThread ==
  /\ main = "wrapping"
  /\ \/ /\ live' = live \cup {"thread"}
        /\ cleanups' = Append(cleanups, "thread")
        /\ main' = "building"
        /\ UNCHANGED code
     \/ /\ main' = "cleaning"
        /\ code' = InitializationFailed
        /\ UNCHANGED <<live, cleanups>>
  /\ UNCHANGED <<ran, joined, MainOnly>>

(* The controller's constructor, and the Start of its Run.                     *)
BuildController ==
  /\ main = "building"
  /\ main' = "running"
  /\ ran' = TRUE
  /\ live' = live \cup {"peer_client"}
  /\ members' = ClientMembers
  /\ network' = "idle"
  /\ queue' = <<"join">>
  /\ UNCHANGED <<code, cleanups, joined, socketVars, stopping, holder, flagVars>>

(* When the peer connection or its media fail the controller quits at once.    *)
OnJoinComplete ==
  /\ main = "running"
  /\ joined = "replied"
  /\ joined' = "yes"
  /\ \/ /\ queue' = Append(queue, "connect")
        /\ UNCHANGED <<main, code>>
     \/ /\ queue' = Append(queue, "close")
        /\ code' \in {PeerConnectionFailed, MediaFailed}
        /\ main' = "destroying"
  /\ UNCHANGED <<live, cleanups, ran, members, network, socketVars, stopping,
                 holder, flagVars>>

(* A registration or message over the websocket, or a request.                 *)
PostTask ==
  /\ main = "running"
  /\ joined = "yes"
  /\ Len(queue) < MaxQueue
  /\ \E task \in {"send", "request"} : queue' = Append(queue, task)
  /\ UNCHANGED <<mainVars, members, network, socketVars, stopping, holder, flagVars>>

(* CompleteFinish and the return from Run: the network thread may have all of  *)
(* this still to do.                                                           *)
Quit ==
  /\ main = "running"
  /\ code' \in {SignalingFailed, TimedOut}
       \cup (IF joined = "yes" THEN {Success, PeerConnectionFailed} ELSE {})
  /\ queue' = IF joined = "yes" THEN Append(queue, "close") ELSE queue
  /\ main' = "destroying"
  /\ UNCHANGED <<live, cleanups, ran, joined, members, network, socketVars,
                 stopping, holder, flagVars>>

DestroyPeerClient ==
  /\ main = "destroying"
  /\ live' = live \ {"peer_client"}
  /\ main' = "closing"
  /\ UNCHANGED <<code, cleanups, ran, joined, MainOnly>>

(* The destructor of the signaling client: its body, then its members, the     *)
(* last declared first, with mutex_ not held.                                  *)
DestructorBody ==
  /\ main = "closing"
  /\ holder = "none"
  /\ closing' = TRUE
  /\ main' = "members"
  /\ UNCHANGED <<code, live, cleanups, ran, joined, members, networkVars,
                 socketVars, stopping, holder, isOpen>>

DestroyMember ==
  /\ main = "members"
  /\ \E k \in 1..Len(Destroyed) :
       /\ Destroyed[k] \in members
       /\ \A j \in 1..k - 1 : Destroyed[j] \notin members
       /\ members' = members \ {Destroyed[k]}
       /\ main' = IF k = Len(Destroyed) THEN "joining" ELSE "members"
  /\ UNCHANGED <<code, live, cleanups, ran, joined, networkVars, socketVars,
                 stopping, holder, flagVars>>

(* Faulty variant: the network thread ends when it can, unwaited for.          *)
DetachNetwork ==
  /\ main = "joining"
  /\ members' = members \ {"network_thread"}
  /\ stopping' = TRUE
  /\ main' = "stopping"
  /\ UNCHANGED <<code, live, cleanups, ran, joined, networkVars, socketVars,
                 holder, flagVars>>

(* ~Thread quits the network thread, which empties its queue first, and joins  *)
(* it; ~WebSocket, next, stops the websocket and joins its thread.             *)
JoinNetwork ==
  /\ main = "joining"
  /\ network = "idle" /\ queue = <<>>
  /\ network' = "none"
  /\ members' = members \ {"network_thread"}
  /\ stopping' = TRUE
  /\ main' = "stopping"
  /\ UNCHANGED <<code, live, cleanups, ran, joined, queue, socketVars,
                 holder, flagVars>>

DestroyWebSocket ==
  /\ main = "stopping"
  /\ socket = "none"
  /\ members' = members \ {"websocket"}
  /\ stopping' = FALSE
  /\ main' = "cleaning"
  /\ UNCHANGED <<code, live, cleanups, ran, joined, networkVars, socketVars,
                 holder, flagVars>>

(* The absl::Cleanup objects, and the return.                                  *)
CleanUp ==
  /\ main = "cleaning"
  /\ IF cleanups = <<>>
       THEN main' = "exited" /\ UNCHANGED <<live, cleanups>>
       ELSE /\ live' = live \ {cleanups[Len(cleanups)]}
            /\ cleanups' = SubSeq(cleanups, 1, Len(cleanups) - 1)
            /\ UNCHANGED main
  /\ UNCHANGED <<code, ran, joined, MainOnly>>

(* -- the network thread ---------------------------------------------------------*)

NetworkOnly == <<main, code, live, cleanups, ran, members>>

TakeTask ==
  /\ network = "idle"
  /\ queue # <<>>
  /\ network' = Head(queue)
  /\ queue' = Tail(queue)
  /\ UNCHANGED <<NetworkOnly, joined, socketVars, stopping, holder, flagVars>>

(* libcurl returns, in 30 seconds at the latest; a room that was not joined    *)
(* leaves joined as it is.                                                     *)
RequestEnds ==
  /\ network \in {"join", "request"}
  /\ joined' \in IF network = "join" THEN {"no", "replied"} ELSE {joined}
  /\ network' = "idle"
  /\ UNCHANGED <<NetworkOnly, queue, socketVars, stopping, holder, flagVars>>

(* ConnectWebSocketAsync, up to websocket_.stop().                             *)
BeginConnect ==
  /\ network = "connect"
  /\ holder = "none"
  /\ closing' = FALSE
  /\ isOpen' = FALSE
  /\ stopping' = TRUE
  /\ network' = "connectStop"
  /\ UNCHANGED <<NetworkOnly, joined, queue, socketVars, holder>>

StartWebSocket ==
  /\ network = "connectStop"
  /\ socket = "none"
  /\ stopping' = FALSE
  /\ socket' = "listening"
  /\ network' = "idle"
  /\ UNCHANGED <<NetworkOnly, joined, queue, event, copied, holder, flagVars>>

(* RegisterAsync, SendWebSocketMessageAsync.                                   *)
Send ==
  /\ network = "send"
  /\ holder = "none"
  /\ network' = "idle"
  /\ UNCHANGED <<NetworkOnly, joined, queue, socketVars, stopping, holder, flagVars>>

(* Faulty variant: the websocket is stopped with the mutex held.               *)
BeginCloseHolding ==
  /\ network = "close"
  /\ holder = "none"
  /\ holder' = "network"
  /\ closing' = TRUE
  /\ isOpen' = FALSE
  /\ stopping' = TRUE
  /\ network' = "closeStop"
  /\ UNCHANGED <<NetworkOnly, joined, queue, socketVars>>

(* CloseAsync, up to websocket_.stop().                                        *)
BeginClose ==
  /\ network = "close"
  /\ holder = "none"
  /\ closing' = TRUE
  /\ isOpen' = FALSE
  /\ stopping' = TRUE
  /\ network' = "closeStop"
  /\ UNCHANGED <<NetworkOnly, joined, queue, socketVars, holder>>

(* A join response without a wss_post_url names nothing to delete.             *)
WebSocketStopped ==
  /\ network = "closeStop"
  /\ socket = "none"
  /\ stopping' = FALSE
  /\ network' \in {"delete", "idle"}
  /\ UNCHANGED <<NetworkOnly, joined, queue, socketVars, holder, flagVars>>

DeleteEnds ==
  /\ network = "delete"
  /\ network' = "idle"
  /\ UNCHANGED <<NetworkOnly, joined, queue, socketVars, stopping, holder, flagVars>>

(* -- the websocket's thread -----------------------------------------------------*)

SocketOnly == <<mainVars, members, networkVars, stopping>>

(* The connection opens, closes and fails as it likes: ix::WebSocket reconnects.*)
SocketEvent ==
  /\ socket = "listening"
  /\ ~stopping
  /\ event' \in SocketEvents \ {"last"}
  /\ socket' = IF event' = "garbage" THEN "notifying" ELSE "handling"
  /\ UNCHANGED <<SocketOnly, copied, holder, flagVars>>

(* stop() closes a connection that is open, with a last event.                 *)
SocketStops ==
  /\ socket = "listening"
  /\ stopping
  /\ \/ socket' = "none" /\ UNCHANGED event
     \/ socket' = "handling" /\ event' = "last"
  /\ UNCHANGED <<SocketOnly, copied, holder, flagVars>>

AfterEvent == IF event = "last" THEN "none" ELSE "listening"

OnOpen ==
  /\ event = "open"
  /\ isOpen' = TRUE
  /\ copied' = "on_websocket_open"
  /\ socket' = "copying"
  /\ holder' = "socket"

OnMessage ==
  /\ event = "message"
  /\ copied' = "on_signaling_message"
  /\ socket' = "copying"
  /\ holder' = "socket"
  /\ UNCHANGED isOpen

OnClose ==
  /\ event \in {"close", "last"}
  /\ isOpen' = FALSE
  /\ socket' = IF closing THEN AfterEvent ELSE "notifying"
  /\ UNCHANGED <<copied, holder>>

OnError ==
  /\ event = "error"
  /\ isOpen' = FALSE
  /\ socket' = "notifying"
  /\ UNCHANGED <<copied, holder>>

HandleEvent ==
  /\ socket = "handling"
  /\ holder = "none"
  /\ OnOpen \/ OnMessage \/ OnClose \/ OnError
  /\ UNCHANGED <<SocketOnly, event, closing>>

NotifyError ==
  /\ socket = "notifying"
  /\ holder = "none"
  /\ copied' = "on_error"
  /\ socket' = "copying"
  /\ holder' = "socket"
  /\ UNCHANGED <<SocketOnly, event, flagVars>>

CallbackCopied ==
  /\ socket = "copying"
  /\ socket' = "posting"
  /\ holder' = "none"
  /\ UNCHANGED <<SocketOnly, event, copied, flagVars>>

(* PostToCallbackThread.                                                       *)
CallbackPosted ==
  /\ socket = "posting"
  /\ socket' = AfterEvent
  /\ UNCHANGED <<SocketOnly, event, copied, holder, flagVars>>

(* -- the whole ------------------------------------------------------------------*)

Teardown ==
  \/ Validate \/ InitCurl \/ InitNetSystem \/ InitializeSSL \/ Branch
  \/ WrapCurrentThread \/ BuildController
  \/ DestroyPeerClient \/ DestroyMember \/ JoinNetwork \/ DestroyWebSocket \/ CleanUp

NetworkSteps ==
  TakeTask \/ RequestEnds \/ StartWebSocket \/ WebSocketStopped \/ DeleteEnds

NetworkLocks == BeginConnect \/ Send \/ BeginClose

SocketSteps ==
  SocketStops \/ HandleEvent \/ NotifyError \/ CallbackCopied \/ CallbackPosted

ProcessNext ==
  \/ Teardown \/ DestructorBody
  \/ OnJoinComplete \/ PostTask \/ Quit
  \/ NetworkSteps \/ NetworkLocks
  \/ SocketSteps \/ SocketEvent

ProcessSpec == ProcessInit /\ [][ProcessNext]_processVars

(* The threads run and requests end.  A waiter gets an absl::Mutex in the end, *)
(* however often the others take it.  Nothing is assumed of the call, nor of   *)
(* the websocket's peer.                                                       *)
FairProcessSpec ==
  /\ ProcessSpec
  /\ WF_processVars(Teardown)
  /\ SF_processVars(DestructorBody)
  /\ WF_processVars(NetworkSteps)
  /\ SF_processVars(NetworkLocks)
  /\ WF_processVars(SocketSteps)

-----------------------------------------------------------------------------

ProcessTypeOK ==
  /\ main \in MainPhases
  /\ code \in ExitCodes \cup {InvalidArgument, InitializationFailed}
  /\ live \subseteq {"curl", "net", "ssl", "thread", "peer_client"}
  /\ cleanups \in Seq({"curl", "net", "ssl", "thread"})
  /\ ran \in BOOLEAN
  /\ joined \in {"no", "replied", "yes"}
  /\ members \subseteq ClientMembers
  /\ queue \in Seq(NetworkTasks)
  /\ network \in NetworkPhases
  /\ socket \in SocketPhases
  /\ event \in SocketEvents
  /\ copied \in ClientMembers
  /\ stopping \in BOOLEAN
  /\ holder \in {"none", "main", "network", "socket"}
  /\ isOpen \in BOOLEAN
  /\ closing \in BOOLEAN

(* Requests and the websocket go on after Run has returned, and both post to   *)
(* the wrapped thread: none of the libraries, that thread, or the two members   *)
(* that are joined is gone while something that runs still uses it.            *)
LiveWhileUsed ==
  /\ network \in {"join", "request", "delete"} => "curl" \in live
  /\ socket # "none" => "net" \in live
  /\ network # "none" \/ socket # "none" => "thread" \in live
  /\ "peer_client" \in live => {"ssl", "thread"} \subseteq live
  /\ network # "none" => {"network_thread", "websocket"} \subseteq members

(* Whatever failed on the way, what was initialised has been cleaned up when   *)
(* the process exits, no thread is left, and the exit code says how far it got. *)
ExitReports ==
  main = "exited" =>
    /\ live = {} /\ members = {} /\ network = "none" /\ socket = "none"
    /\ code # RuntimeFailed
    /\ code \in {InvalidArgument, InitializationFailed} => ~ran
    /\ code \in {SignalingFailed, PeerConnectionFailed, TimedOut} => ran
    /\ ran /\ code \in {Success, MediaFailed, PeerConnectionFailed} => joined = "yes"

(* Once Run returns the process exits: the destructors wait for the network    *)
(* thread, which waits for the websocket's thread, which waits for the mutex.  *)
ProcessEnds == main = "destroying" ~> main = "exited"

(* The signaling client's members that are declared ABSL_GUARDED_BY(mutex_) are *)
(* not destroyed under a callback that reads them with the mutex held.         *)
GuardedMembers == socket = "copying" => {copied, "mutex"} \subseteq members

=============================================================================
