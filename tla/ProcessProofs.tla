----------------------------- MODULE ProcessProofs -----------------------------
(* The safety of the process's teardown, however many tasks the network thread  *)
(* still has: an inductive invariant in five parts.                             *)
EXTENDS ProcessEntry, SequenceTheorems, TLAPS

(* The libraries that are initialised are those with a cleanup, and how many    *)
(* there are goes with how far the main thread is.                              *)
Early == {"validating", "curl", "net", "ssl", "branch", "wrapping", "building"}
Whole == {"running", "destroying", "closing", "members", "joining"}

Pushed == <<"curl", "net", "ssl", "thread">>

StageInv ==
  /\ \A k \in 1..Len(cleanups) : cleanups[k] = Pushed[k]
  /\ \/ Len(cleanups) = 0 /\ live = {} /\ main \in {"validating", "curl", "cleaning", "exited"}
     \/ Len(cleanups) = 1 /\ live = {"curl"} /\ main \in {"net", "cleaning"}
     \/ Len(cleanups) = 2 /\ live = {"curl", "net"} /\ main \in {"ssl", "cleaning"}
     \/ /\ Len(cleanups) = 3 /\ live = {"curl", "net", "ssl"}
        /\ main \in {"branch", "wrapping", "cleaning"}
     \/ /\ Len(cleanups) = 4
        /\ live = {"curl", "net", "ssl", "thread"}
                  \cup (IF main \in {"running", "destroying"} THEN {"peer_client"} ELSE {})
        /\ main \in Whole \cup {"building", "stopping", "cleaning"}

(* The two threads exist only while the controller does.                        *)
ThreadInv ==
  /\ network # "none" <=> main \in Whole
  /\ socket # "none" => main \in Whole \cup {"stopping"}
  /\ main \in {"running", "destroying", "closing"} => members = ClientMembers
  /\ main = "members" =>
       /\ {"network_thread", "websocket", "mutex"} \subseteq members
       /\ members \subseteq ClientMembers
  /\ main = "joining" => members = {"network_thread", "websocket"}
  /\ main = "stopping" => members = {"websocket"}
  /\ main \notin Whole \cup {"stopping"} => members = {}

(* There is one join request, and no answer before it has been made.            *)
JoinInv ==
  /\ \A k \in 1..Len(queue) : queue[k] = "join" => k = 1 /\ network = "idle" /\ joined = "no"
  /\ network = "join" \/ main \in Early => joined = "no"

(* The exit code is set on the way out, once.                                   *)
CodeInv ==
  /\ main \in Early => ~ran /\ code = RuntimeFailed
  /\ main \in Whole \cup {"stopping"} => ran
  /\ main \in {"cleaning", "exited"} /\ ~ran =>
       code \in {InvalidArgument, InitializationFailed, Success, MediaFailed}
  /\ main \notin Early /\ main # "running" /\ ran =>
       /\ code \in {Success, MediaFailed, SignalingFailed, PeerConnectionFailed, TimedOut}
       /\ code \in {Success, MediaFailed, PeerConnectionFailed} => joined = "yes"

LEMMA PushedIs ==
  Pushed[1] = "curl" /\ Pushed[2] = "net" /\ Pushed[3] = "ssl" /\ Pushed[4] = "thread"
  BY DEF Pushed

(* Constructing a library adds its cleanup, the last one.                       *)
LEMMA CleanupAdded ==
  ASSUME NEW x \in {"curl", "net", "ssl", "thread"},
         cleanups \in Seq({"curl", "net", "ssl", "thread"}),
         \A k \in 1..Len(cleanups) : cleanups[k] = Pushed[k],
         x = Pushed[Len(cleanups) + 1]
  PROVE  /\ Append(cleanups, x) \in Seq({"curl", "net", "ssl", "thread"})
         /\ Len(Append(cleanups, x)) = Len(cleanups) + 1
         /\ \A k \in 1..Len(Append(cleanups, x)) : Append(cleanups, x)[k] = Pushed[k]
  OBVIOUS

(* A cleanup that has run is the last one, and is gone.                         *)
LEMMA CleanupTaken ==
  ASSUME cleanups \in Seq({"curl", "net", "ssl", "thread"}), cleanups # <<>>,
         \A k \in 1..Len(cleanups) : cleanups[k] = Pushed[k],
         NEW rest, rest = SubSeq(cleanups, 1, Len(cleanups) - 1)
  PROVE  /\ rest \in Seq({"curl", "net", "ssl", "thread"})
         /\ Len(rest) = Len(cleanups) - 1 /\ Len(cleanups) \in Nat \ {0}
         /\ \A k \in 1..Len(rest) : rest[k] = Pushed[k]
<1>1. Len(cleanups) \in Nat \ {0}
  OBVIOUS
<1>2. /\ SubSeq(cleanups, 1, Len(cleanups) - 1) \in Seq({"curl", "net", "ssl", "thread"})
      /\ Len(SubSeq(cleanups, 1, Len(cleanups) - 1)) = Len(cleanups) - 1
      /\ \A k \in 1..Len(cleanups) - 1 :
           SubSeq(cleanups, 1, Len(cleanups) - 1)[k] = cleanups[k]
  <2>1. 1 \in Int /\ Len(cleanups) - 1 \in Int
    BY <1>1
  <2>2. \A k \in 1..Len(cleanups) - 1 : cleanups[k] \in {"curl", "net", "ssl", "thread"}
    OBVIOUS
  <2> DEFINE n == Len(cleanups) - 1
             taken == SubSeq(cleanups, 1, n)
  <2>3. /\ taken \in Seq({"curl", "net", "ssl", "thread"})
        /\ Len(taken) = IF 1 <= n THEN n - 1 + 1 ELSE 0
        /\ \A i \in 1..n - 1 + 1 : taken[i] = cleanups[1 + i - 1]
    <3> HIDE DEF n
    <3>1. QED
      BY <2>1, <2>2, SubSeqProperties DEF n
  <2>4. n \in Nat /\ n - 1 + 1 = n
    BY <1>1
  <2>5. QED
    BY <2>3, <2>4
<1>3. QED
  BY <1>1, <1>2

(* Members go one by one, the mutex last.                                       *)
LEMMA OneMemberGoes ==
  ASSUME DestroyMember
  PROVE  \/ /\ main' = "members"
            /\ members' \in {members \ {"on_error"}, members \ {"on_signaling_message"},
                             members \ {"on_websocket_open"}}
         \/ /\ main' = "joining"
            /\ members' = members \ {"mutex"}
            /\ {"on_error", "on_signaling_message", "on_websocket_open"} \cap members = {}
<1>1. Len(Destroyed) = 4 /\ Destroyed[1] = "on_error" /\ Destroyed[2] = "on_signaling_message"
      /\ Destroyed[3] = "on_websocket_open" /\ Destroyed[4] = "mutex"
  BY DEF Destroyed
<1>2. PICK k \in 1..4 : /\ \A j \in 1..k - 1 : Destroyed[j] \notin members
                        /\ members' = members \ {Destroyed[k]}
                        /\ main' = IF k = 4 THEN "joining" ELSE "members"
  BY <1>1 DEF DestroyMember
<1>3. CASE k = 4
  <2>1. 1 \in 1..k - 1 /\ 2 \in 1..k - 1 /\ 3 \in 1..k - 1
    BY <1>3
  <2>2. QED
    BY <1>1, <1>2, <1>3, <2>1
<1>4. CASE k \in {1, 2, 3}
  BY <1>1, <1>2, <1>4
<1>5. QED
  BY <1>3, <1>4

(* The exit codes by name.                                                      *)
LEMMA CodesKnown ==
  {Success, MediaFailed, SignalingFailed, PeerConnectionFailed, TimedOut, RuntimeFailed}
    \subseteq ExitCodes
  BY DEF ExitCodes

LEMMA CodesDiffer ==
  /\ InvalidArgument \notin {Success, MediaFailed, SignalingFailed, PeerConnectionFailed, TimedOut, RuntimeFailed}
  /\ InitializationFailed \notin {Success, MediaFailed, SignalingFailed, PeerConnectionFailed, TimedOut, RuntimeFailed}
  /\ RuntimeFailed \notin {Success, MediaFailed, SignalingFailed, PeerConnectionFailed, TimedOut}
  /\ {SignalingFailed, TimedOut} \cap {Success, MediaFailed, PeerConnectionFailed} = {}
  /\ {Success, MediaFailed} \cap {SignalingFailed, PeerConnectionFailed, TimedOut} = {}
  BY DEF InvalidArgument, InitializationFailed, Success, MediaFailed, SignalingFailed,
         PeerConnectionFailed, TimedOut, RuntimeFailed

(* Every variable has its type.                                                 *)
LEMMA ProcessTypeStep ==
  ASSUME ProcessTypeOK, [ProcessNext]_processVars
  PROVE  ProcessTypeOK'
<1> USE DEF ProcessTypeOK, MainPhases, NetworkTasks, NetworkPhases, SocketPhases, SocketEvents, ClientMembers, MainOnly, NetworkOnly, SocketOnly, mainVars, networkVars, socketVars, flagVars
<1>1. CASE Validate
  BY <1>1 DEF Validate
<1>2. CASE InitCurl
  BY <1>2 DEF InitCurl
<1>3. CASE InitNetSystem
  BY <1>3 DEF InitNetSystem
<1>4. CASE InitializeSSL
  <2>1. main' \in MainPhases
    BY <1>4, CodesKnown DEF InitializeSSL
  <2>2. code' \in ExitCodes \cup {InvalidArgument, InitializationFailed}
    BY <1>4, CodesKnown DEF InitializeSSL
  <2>3. live' \subseteq {"curl", "net", "ssl", "thread", "peer_client"}
    BY <1>4, CodesKnown DEF InitializeSSL
  <2>4. cleanups' \in Seq({"curl", "net", "ssl", "thread"})
    BY <1>4, CodesKnown DEF InitializeSSL
  <2>5. members' \subseteq ClientMembers
    BY <1>4, CodesKnown DEF InitializeSSL
  <2>6. queue' \in Seq(NetworkTasks)
    BY <1>4, CodesKnown DEF InitializeSSL
  <2>7. network' \in NetworkPhases
    BY <1>4, CodesKnown DEF InitializeSSL
  <2>8. socket' \in SocketPhases /\ event' \in SocketEvents /\ copied' \in ClientMembers
    BY <1>4, CodesKnown DEF InitializeSSL
  <2>9. ran' \in BOOLEAN /\ joined' \in {"no", "replied", "yes"}
    BY <1>4, CodesKnown DEF InitializeSSL
  <2>10. stopping' \in BOOLEAN /\ isOpen' \in BOOLEAN /\ closing' \in BOOLEAN /\ holder' \in {"none", "main", "network", "socket"}
    BY <1>4, CodesKnown DEF InitializeSSL
  <2> QED
    BY <2>1, <2>2, <2>3, <2>4, <2>5, <2>6, <2>7, <2>8, <2>9, <2>10
<1>5. CASE Branch
  <2>1. main' \in MainPhases
    BY <1>5, CodesKnown DEF Branch
  <2>2. code' \in ExitCodes \cup {InvalidArgument, InitializationFailed}
    BY <1>5, CodesKnown DEF Branch
  <2>3. live' \subseteq {"curl", "net", "ssl", "thread", "peer_client"}
    BY <1>5, CodesKnown DEF Branch
  <2>4. cleanups' \in Seq({"curl", "net", "ssl", "thread"})
    BY <1>5, CodesKnown DEF Branch
  <2>5. members' \subseteq ClientMembers
    BY <1>5, CodesKnown DEF Branch
  <2>6. queue' \in Seq(NetworkTasks)
    BY <1>5, CodesKnown DEF Branch
  <2>7. network' \in NetworkPhases
    BY <1>5, CodesKnown DEF Branch
  <2>8. socket' \in SocketPhases /\ event' \in SocketEvents /\ copied' \in ClientMembers
    BY <1>5, CodesKnown DEF Branch
  <2>9. ran' \in BOOLEAN /\ joined' \in {"no", "replied", "yes"}
    BY <1>5, CodesKnown DEF Branch
  <2>10. stopping' \in BOOLEAN /\ isOpen' \in BOOLEAN /\ closing' \in BOOLEAN /\ holder' \in {"none", "main", "network", "socket"}
    BY <1>5, CodesKnown DEF Branch
  <2> QED
    BY <2>1, <2>2, <2>3, <2>4, <2>5, <2>6, <2>7, <2>8, <2>9, <2>10
<1>6. CASE WrapCurrentThread
  <2>1. main' \in MainPhases
    BY <1>6, CodesKnown DEF WrapCurrentThread
  <2>2. code' \in ExitCodes \cup {InvalidArgument, InitializationFailed}
    BY <1>6, CodesKnown DEF WrapCurrentThread
  <2>3. live' \subseteq {"curl", "net", "ssl", "thread", "peer_client"}
    BY <1>6, CodesKnown DEF WrapCurrentThread
  <2>4. cleanups' \in Seq({"curl", "net", "ssl", "thread"})
    BY <1>6, CodesKnown DEF WrapCurrentThread
  <2>5. members' \subseteq ClientMembers
    BY <1>6, CodesKnown DEF WrapCurrentThread
  <2>6. queue' \in Seq(NetworkTasks)
    BY <1>6, CodesKnown DEF WrapCurrentThread
  <2>7. network' \in NetworkPhases
    BY <1>6, CodesKnown DEF WrapCurrentThread
  <2>8. socket' \in SocketPhases /\ event' \in SocketEvents /\ copied' \in ClientMembers
    BY <1>6, CodesKnown DEF WrapCurrentThread
  <2>9. ran' \in BOOLEAN /\ joined' \in {"no", "replied", "yes"}
    BY <1>6, CodesKnown DEF WrapCurrentThread
  <2>10. stopping' \in BOOLEAN /\ isOpen' \in BOOLEAN /\ closing' \in BOOLEAN /\ holder' \in {"none", "main", "network", "socket"}
    BY <1>6, CodesKnown DEF WrapCurrentThread
  <2> QED
    BY <2>1, <2>2, <2>3, <2>4, <2>5, <2>6, <2>7, <2>8, <2>9, <2>10
<1>7. CASE BuildController
  <2>1. main' \in MainPhases
    BY <1>7 DEF BuildController
  <2>2. code' \in ExitCodes \cup {InvalidArgument, InitializationFailed}
    BY <1>7 DEF BuildController
  <2>3. live' \subseteq {"curl", "net", "ssl", "thread", "peer_client"}
    BY <1>7 DEF BuildController
  <2>4. cleanups' \in Seq({"curl", "net", "ssl", "thread"})
    BY <1>7 DEF BuildController
  <2>5. members' \subseteq ClientMembers
    BY <1>7 DEF BuildController
  <2>6. queue' \in Seq(NetworkTasks)
    BY <1>7 DEF BuildController
  <2>7. network' \in NetworkPhases
    BY <1>7 DEF BuildController
  <2>8. socket' \in SocketPhases /\ event' \in SocketEvents /\ copied' \in ClientMembers
    BY <1>7 DEF BuildController
  <2>9. ran' \in BOOLEAN /\ joined' \in {"no", "replied", "yes"}
    BY <1>7 DEF BuildController
  <2>10. stopping' \in BOOLEAN /\ isOpen' \in BOOLEAN /\ closing' \in BOOLEAN /\ holder' \in {"none", "main", "network", "socket"}
    BY <1>7 DEF BuildController
  <2> QED
    BY <2>1, <2>2, <2>3, <2>4, <2>5, <2>6, <2>7, <2>8, <2>9, <2>10
<1>8. CASE DestroyPeerClient
  BY <1>8 DEF DestroyPeerClient
<1>9. CASE DestroyMember
  <2>1. main' \in MainPhases
    BY <1>9, OneMemberGoes DEF DestroyMember
  <2>2. code' \in ExitCodes \cup {InvalidArgument, InitializationFailed}
    BY <1>9, OneMemberGoes DEF DestroyMember
  <2>3. live' \subseteq {"curl", "net", "ssl", "thread", "peer_client"}
    BY <1>9, OneMemberGoes DEF DestroyMember
  <2>4. cleanups' \in Seq({"curl", "net", "ssl", "thread"})
    BY <1>9, OneMemberGoes DEF DestroyMember
  <2>5. members' \subseteq ClientMembers
    BY <1>9, OneMemberGoes DEF DestroyMember
  <2>6. queue' \in Seq(NetworkTasks)
    BY <1>9, OneMemberGoes DEF DestroyMember
  <2>7. network' \in NetworkPhases
    BY <1>9, OneMemberGoes DEF DestroyMember
  <2>8. socket' \in SocketPhases /\ event' \in SocketEvents /\ copied' \in ClientMembers
    BY <1>9, OneMemberGoes DEF DestroyMember
  <2>9. ran' \in BOOLEAN /\ joined' \in {"no", "replied", "yes"}
    BY <1>9, OneMemberGoes DEF DestroyMember
  <2>10. stopping' \in BOOLEAN /\ isOpen' \in BOOLEAN /\ closing' \in BOOLEAN /\ holder' \in {"none", "main", "network", "socket"}
    BY <1>9, OneMemberGoes DEF DestroyMember
  <2> QED
    BY <2>1, <2>2, <2>3, <2>4, <2>5, <2>6, <2>7, <2>8, <2>9, <2>10
<1>10. CASE JoinNetwork
  BY <1>10 DEF JoinNetwork
<1>11. CASE DestroyWebSocket
  <2>1. main' \in MainPhases
    BY <1>11 DEF DestroyWebSocket
  <2>2. code' \in ExitCodes \cup {InvalidArgument, InitializationFailed}
    BY <1>11 DEF DestroyWebSocket
  <2>3. live' \subseteq {"curl", "net", "ssl", "thread", "peer_client"}
    BY <1>11 DEF DestroyWebSocket
  <2>4. cleanups' \in Seq({"curl", "net", "ssl", "thread"})
    BY <1>11 DEF DestroyWebSocket
  <2>5. members' \subseteq ClientMembers
    BY <1>11 DEF DestroyWebSocket
  <2>6. queue' \in Seq(NetworkTasks)
    BY <1>11 DEF DestroyWebSocket
  <2>7. network' \in NetworkPhases
    BY <1>11 DEF DestroyWebSocket
  <2>8. socket' \in SocketPhases /\ event' \in SocketEvents /\ copied' \in ClientMembers
    BY <1>11 DEF DestroyWebSocket
  <2>9. ran' \in BOOLEAN /\ joined' \in {"no", "replied", "yes"}
    BY <1>11 DEF DestroyWebSocket
  <2>10. stopping' \in BOOLEAN /\ isOpen' \in BOOLEAN /\ closing' \in BOOLEAN /\ holder' \in {"none", "main", "network", "socket"}
    BY <1>11 DEF DestroyWebSocket
  <2> QED
    BY <2>1, <2>2, <2>3, <2>4, <2>5, <2>6, <2>7, <2>8, <2>9, <2>10
<1>12. CASE CleanUp
  <2>1. main' \in MainPhases
    BY <1>12 DEF CleanUp
  <2>2. code' \in ExitCodes \cup {InvalidArgument, InitializationFailed}
    BY <1>12 DEF CleanUp
  <2>3. live' \subseteq {"curl", "net", "ssl", "thread", "peer_client"}
    BY <1>12 DEF CleanUp
  <2>4. cleanups' \in Seq({"curl", "net", "ssl", "thread"})
    BY <1>12 DEF CleanUp
  <2>5. members' \subseteq ClientMembers
    BY <1>12 DEF CleanUp
  <2>6. queue' \in Seq(NetworkTasks)
    BY <1>12 DEF CleanUp
  <2>7. network' \in NetworkPhases
    BY <1>12 DEF CleanUp
  <2>8. socket' \in SocketPhases /\ event' \in SocketEvents /\ copied' \in ClientMembers
    BY <1>12 DEF CleanUp
  <2>9. ran' \in BOOLEAN /\ joined' \in {"no", "replied", "yes"}
    BY <1>12 DEF CleanUp
  <2>10. stopping' \in BOOLEAN /\ isOpen' \in BOOLEAN /\ closing' \in BOOLEAN /\ holder' \in {"none", "main", "network", "socket"}
    BY <1>12 DEF CleanUp
  <2> QED
    BY <2>1, <2>2, <2>3, <2>4, <2>5, <2>6, <2>7, <2>8, <2>9, <2>10
<1>13. CASE DestructorBody
  BY <1>13 DEF DestructorBody
<1>14. CASE OnJoinComplete
  <2>1. main' \in MainPhases
    BY <1>14, CodesKnown DEF OnJoinComplete
  <2>2. code' \in ExitCodes \cup {InvalidArgument, InitializationFailed}
    BY <1>14, CodesKnown DEF OnJoinComplete
  <2>3. live' \subseteq {"curl", "net", "ssl", "thread", "peer_client"}
    BY <1>14, CodesKnown DEF OnJoinComplete
  <2>4. cleanups' \in Seq({"curl", "net", "ssl", "thread"})
    BY <1>14, CodesKnown DEF OnJoinComplete
  <2>5. members' \subseteq ClientMembers
    BY <1>14, CodesKnown DEF OnJoinComplete
  <2>6. queue' \in Seq(NetworkTasks)
    BY <1>14, CodesKnown DEF OnJoinComplete
  <2>7. network' \in NetworkPhases
    BY <1>14, CodesKnown DEF OnJoinComplete
  <2>8. socket' \in SocketPhases /\ event' \in SocketEvents /\ copied' \in ClientMembers
    BY <1>14, CodesKnown DEF OnJoinComplete
  <2>9. ran' \in BOOLEAN /\ joined' \in {"no", "replied", "yes"}
    BY <1>14, CodesKnown DEF OnJoinComplete
  <2>10. stopping' \in BOOLEAN /\ isOpen' \in BOOLEAN /\ closing' \in BOOLEAN /\ holder' \in {"none", "main", "network", "socket"}
    BY <1>14, CodesKnown DEF OnJoinComplete
  <2> QED
    BY <2>1, <2>2, <2>3, <2>4, <2>5, <2>6, <2>7, <2>8, <2>9, <2>10
<1>15. CASE PostTask
  BY <1>15 DEF PostTask
<1>16. CASE Quit
  <2>1. main' \in MainPhases
    BY <1>16, CodesKnown DEF Quit
  <2>2. code' \in ExitCodes \cup {InvalidArgument, InitializationFailed}
    BY <1>16, CodesKnown DEF Quit
  <2>3. live' \subseteq {"curl", "net", "ssl", "thread", "peer_client"}
    BY <1>16, CodesKnown DEF Quit
  <2>4. cleanups' \in Seq({"curl", "net", "ssl", "thread"})
    BY <1>16, CodesKnown DEF Quit
  <2>5. members' \subseteq ClientMembers
    BY <1>16, CodesKnown DEF Quit
  <2>6. queue' \in Seq(NetworkTasks)
    BY <1>16, CodesKnown DEF Quit
  <2>7. network' \in NetworkPhases
    BY <1>16, CodesKnown DEF Quit
  <2>8. socket' \in SocketPhases /\ event' \in SocketEvents /\ copied' \in ClientMembers
    BY <1>16, CodesKnown DEF Quit
  <2>9. ran' \in BOOLEAN /\ joined' \in {"no", "replied", "yes"}
    BY <1>16, CodesKnown DEF Quit
  <2>10. stopping' \in BOOLEAN /\ isOpen' \in BOOLEAN /\ closing' \in BOOLEAN /\ holder' \in {"none", "main", "network", "socket"}
    BY <1>16, CodesKnown DEF Quit
  <2> QED
    BY <2>1, <2>2, <2>3, <2>4, <2>5, <2>6, <2>7, <2>8, <2>9, <2>10
<1>17. CASE TakeTask
  BY <1>17 DEF TakeTask
<1>18. CASE RequestEnds
  BY <1>18 DEF RequestEnds
<1>19. CASE StartWebSocket
  <2>1. main' \in MainPhases
    BY <1>19 DEF StartWebSocket
  <2>2. code' \in ExitCodes \cup {InvalidArgument, InitializationFailed}
    BY <1>19 DEF StartWebSocket
  <2>3. live' \subseteq {"curl", "net", "ssl", "thread", "peer_client"}
    BY <1>19 DEF StartWebSocket
  <2>4. cleanups' \in Seq({"curl", "net", "ssl", "thread"})
    BY <1>19 DEF StartWebSocket
  <2>5. members' \subseteq ClientMembers
    BY <1>19 DEF StartWebSocket
  <2>6. queue' \in Seq(NetworkTasks)
    BY <1>19 DEF StartWebSocket
  <2>7. network' \in NetworkPhases
    BY <1>19 DEF StartWebSocket
  <2>8. socket' \in SocketPhases /\ event' \in SocketEvents /\ copied' \in ClientMembers
    BY <1>19 DEF StartWebSocket
  <2>9. ran' \in BOOLEAN /\ joined' \in {"no", "replied", "yes"}
    BY <1>19 DEF StartWebSocket
  <2>10. stopping' \in BOOLEAN /\ isOpen' \in BOOLEAN /\ closing' \in BOOLEAN /\ holder' \in {"none", "main", "network", "socket"}
    BY <1>19 DEF StartWebSocket
  <2> QED
    BY <2>1, <2>2, <2>3, <2>4, <2>5, <2>6, <2>7, <2>8, <2>9, <2>10
<1>20. CASE WebSocketStopped
  <2>1. main' \in MainPhases
    BY <1>20 DEF WebSocketStopped
  <2>2. code' \in ExitCodes \cup {InvalidArgument, InitializationFailed}
    BY <1>20 DEF WebSocketStopped
  <2>3. live' \subseteq {"curl", "net", "ssl", "thread", "peer_client"}
    BY <1>20 DEF WebSocketStopped
  <2>4. cleanups' \in Seq({"curl", "net", "ssl", "thread"})
    BY <1>20 DEF WebSocketStopped
  <2>5. members' \subseteq ClientMembers
    BY <1>20 DEF WebSocketStopped
  <2>6. queue' \in Seq(NetworkTasks)
    BY <1>20 DEF WebSocketStopped
  <2>7. network' \in NetworkPhases
    BY <1>20 DEF WebSocketStopped
  <2>8. socket' \in SocketPhases /\ event' \in SocketEvents /\ copied' \in ClientMembers
    BY <1>20 DEF WebSocketStopped
  <2>9. ran' \in BOOLEAN /\ joined' \in {"no", "replied", "yes"}
    BY <1>20 DEF WebSocketStopped
  <2>10. stopping' \in BOOLEAN /\ isOpen' \in BOOLEAN /\ closing' \in BOOLEAN /\ holder' \in {"none", "main", "network", "socket"}
    BY <1>20 DEF WebSocketStopped
  <2> QED
    BY <2>1, <2>2, <2>3, <2>4, <2>5, <2>6, <2>7, <2>8, <2>9, <2>10
<1>21. CASE DeleteEnds
  BY <1>21 DEF DeleteEnds
<1>22. CASE BeginConnect
  <2>1. main' \in MainPhases
    BY <1>22 DEF BeginConnect
  <2>2. code' \in ExitCodes \cup {InvalidArgument, InitializationFailed}
    BY <1>22 DEF BeginConnect
  <2>3. live' \subseteq {"curl", "net", "ssl", "thread", "peer_client"}
    BY <1>22 DEF BeginConnect
  <2>4. cleanups' \in Seq({"curl", "net", "ssl", "thread"})
    BY <1>22 DEF BeginConnect
  <2>5. members' \subseteq ClientMembers
    BY <1>22 DEF BeginConnect
  <2>6. queue' \in Seq(NetworkTasks)
    BY <1>22 DEF BeginConnect
  <2>7. network' \in NetworkPhases
    BY <1>22 DEF BeginConnect
  <2>8. socket' \in SocketPhases /\ event' \in SocketEvents /\ copied' \in ClientMembers
    BY <1>22 DEF BeginConnect
  <2>9. ran' \in BOOLEAN /\ joined' \in {"no", "replied", "yes"}
    BY <1>22 DEF BeginConnect
  <2>10. stopping' \in BOOLEAN /\ isOpen' \in BOOLEAN /\ closing' \in BOOLEAN /\ holder' \in {"none", "main", "network", "socket"}
    BY <1>22 DEF BeginConnect
  <2> QED
    BY <2>1, <2>2, <2>3, <2>4, <2>5, <2>6, <2>7, <2>8, <2>9, <2>10
<1>23. CASE Send
  BY <1>23 DEF Send
<1>24. CASE BeginClose
  <2>1. main' \in MainPhases
    BY <1>24 DEF BeginClose
  <2>2. code' \in ExitCodes \cup {InvalidArgument, InitializationFailed}
    BY <1>24 DEF BeginClose
  <2>3. live' \subseteq {"curl", "net", "ssl", "thread", "peer_client"}
    BY <1>24 DEF BeginClose
  <2>4. cleanups' \in Seq({"curl", "net", "ssl", "thread"})
    BY <1>24 DEF BeginClose
  <2>5. members' \subseteq ClientMembers
    BY <1>24 DEF BeginClose
  <2>6. queue' \in Seq(NetworkTasks)
    BY <1>24 DEF BeginClose
  <2>7. network' \in NetworkPhases
    BY <1>24 DEF BeginClose
  <2>8. socket' \in SocketPhases /\ event' \in SocketEvents /\ copied' \in ClientMembers
    BY <1>24 DEF BeginClose
  <2>9. ran' \in BOOLEAN /\ joined' \in {"no", "replied", "yes"}
    BY <1>24 DEF BeginClose
  <2>10. stopping' \in BOOLEAN /\ isOpen' \in BOOLEAN /\ closing' \in BOOLEAN /\ holder' \in {"none", "main", "network", "socket"}
    BY <1>24 DEF BeginClose
  <2> QED
    BY <2>1, <2>2, <2>3, <2>4, <2>5, <2>6, <2>7, <2>8, <2>9, <2>10
<1>25. CASE SocketStops
  BY <1>25 DEF SocketStops
<1>26. CASE HandleEvent
  <2>1. main' \in MainPhases
    BY <1>26 DEF HandleEvent, OnOpen, OnMessage, OnClose, OnError, AfterEvent
  <2>2. code' \in ExitCodes \cup {InvalidArgument, InitializationFailed}
    BY <1>26 DEF HandleEvent, OnOpen, OnMessage, OnClose, OnError, AfterEvent
  <2>3. live' \subseteq {"curl", "net", "ssl", "thread", "peer_client"}
    BY <1>26 DEF HandleEvent, OnOpen, OnMessage, OnClose, OnError, AfterEvent
  <2>4. cleanups' \in Seq({"curl", "net", "ssl", "thread"})
    BY <1>26 DEF HandleEvent, OnOpen, OnMessage, OnClose, OnError, AfterEvent
  <2>5. members' \subseteq ClientMembers
    BY <1>26 DEF HandleEvent, OnOpen, OnMessage, OnClose, OnError, AfterEvent
  <2>6. queue' \in Seq(NetworkTasks)
    BY <1>26 DEF HandleEvent, OnOpen, OnMessage, OnClose, OnError, AfterEvent
  <2>7. network' \in NetworkPhases
    BY <1>26 DEF HandleEvent, OnOpen, OnMessage, OnClose, OnError, AfterEvent
  <2>8. socket' \in SocketPhases /\ event' \in SocketEvents /\ copied' \in ClientMembers
    BY <1>26 DEF HandleEvent, OnOpen, OnMessage, OnClose, OnError, AfterEvent
  <2>9. ran' \in BOOLEAN /\ joined' \in {"no", "replied", "yes"}
    BY <1>26 DEF HandleEvent, OnOpen, OnMessage, OnClose, OnError, AfterEvent
  <2>10. stopping' \in BOOLEAN /\ isOpen' \in BOOLEAN /\ closing' \in BOOLEAN /\ holder' \in {"none", "main", "network", "socket"}
    BY <1>26 DEF HandleEvent, OnOpen, OnMessage, OnClose, OnError, AfterEvent
  <2> QED
    BY <2>1, <2>2, <2>3, <2>4, <2>5, <2>6, <2>7, <2>8, <2>9, <2>10
<1>27. CASE NotifyError
  BY <1>27 DEF NotifyError
<1>28. CASE CallbackCopied
  BY <1>28 DEF CallbackCopied
<1>29. CASE CallbackPosted
  BY <1>29 DEF CallbackPosted, AfterEvent
<1>30. CASE SocketEvent
  BY <1>30 DEF SocketEvent
<1>31. CASE UNCHANGED processVars
  BY <1>31 DEF processVars
<1> QED
  BY <1>1, <1>2, <1>3, <1>4, <1>5, <1>6, <1>7, <1>8, <1>9, <1>10, <1>11,
     <1>12, <1>13, <1>14, <1>15, <1>16, <1>17, <1>18, <1>19, <1>20, <1>21,
     <1>22, <1>23, <1>24, <1>25, <1>26, <1>27, <1>28, <1>29, <1>30, <1>31
  DEF ProcessNext, Teardown, NetworkSteps, NetworkLocks, SocketSteps

(* What is initialised, and in which order it goes.                             *)
LEMMA StageStep ==
  ASSUME ProcessTypeOK, StageInv, [ProcessNext]_processVars
  PROVE  StageInv'
<1> USE DEF StageInv, Whole, ProcessTypeOK, MainOnly, NetworkOnly, SocketOnly, mainVars, networkVars, socketVars, flagVars
<1>1. CASE Validate
  BY <1>1 DEF Validate
<1>2. CASE InitCurl
  <2> USE <1>2 DEF InitCurl
  <2>1. CASE main' = "net"
    <3>1. Len(cleanups) = 0 /\ cleanups' = Append(cleanups, "curl")
      BY <2>1
    <3>2. "curl" = Pushed[Len(cleanups) + 1]
      BY <3>1, PushedIs
    <3>3. "curl" \in {"curl", "net", "ssl", "thread"}
      OBVIOUS
    <3>4. Len(cleanups') = Len(cleanups) + 1 /\ \A k \in 1..Len(cleanups') : cleanups'[k] = Pushed[k]
      BY ONLY <3>1, <3>2, <3>3, CleanupAdded, ProcessTypeOK, StageInv DEF ProcessTypeOK, StageInv
    <3>5. Len(cleanups') = 1
      BY <3>1, <3>4
    <3>6. live = {} /\ live' = live \cup {"curl"}
      BY <2>1, <3>1
    <3>7. QED
      BY <2>1, <3>4, <3>5, <3>6
  <2>2. CASE main' # "net"
    <3>1. main' = "cleaning" /\ cleanups' = cleanups /\ live' = live
      BY <2>2
    <3>2. QED
      BY <3>1
  <2>3. QED
    BY <2>1, <2>2
<1>3. CASE InitNetSystem
  <2> USE <1>3 DEF InitNetSystem
  <2>1. CASE main' = "ssl"
    <3>1. Len(cleanups) = 1 /\ cleanups' = Append(cleanups, "net")
      BY <2>1
    <3>2. "net" = Pushed[Len(cleanups) + 1]
      BY <3>1, PushedIs
    <3>3. "net" \in {"curl", "net", "ssl", "thread"}
      OBVIOUS
    <3>4. Len(cleanups') = Len(cleanups) + 1 /\ \A k \in 1..Len(cleanups') : cleanups'[k] = Pushed[k]
      BY ONLY <3>1, <3>2, <3>3, CleanupAdded, ProcessTypeOK, StageInv DEF ProcessTypeOK, StageInv
    <3>5. Len(cleanups') = 2
      BY <3>1, <3>4
    <3>6. live = {"curl"} /\ live' = live \cup {"net"}
      BY <2>1, <3>1
    <3>7. QED
      BY <2>1, <3>4, <3>5, <3>6
  <2>2. CASE main' # "ssl"
    <3>1. main' = "cleaning" /\ cleanups' = cleanups /\ live' = live
      BY <2>2
    <3>2. QED
      BY <3>1
  <2>3. QED
    BY <2>1, <2>2
<1>4. CASE InitializeSSL
  <2> USE <1>4 DEF InitializeSSL
  <2>1. CASE main' = "branch"
    <3>1. Len(cleanups) = 2 /\ cleanups' = Append(cleanups, "ssl")
      BY <2>1
    <3>2. "ssl" = Pushed[Len(cleanups) + 1]
      BY <3>1, PushedIs
    <3>3. "ssl" \in {"curl", "net", "ssl", "thread"}
      OBVIOUS
    <3>4. Len(cleanups') = Len(cleanups) + 1 /\ \A k \in 1..Len(cleanups') : cleanups'[k] = Pushed[k]
      BY ONLY <3>1, <3>2, <3>3, CleanupAdded, ProcessTypeOK, StageInv DEF ProcessTypeOK, StageInv
    <3>5. Len(cleanups') = 3
      BY <3>1, <3>4
    <3>6. live = {"curl", "net"} /\ live' = live \cup {"ssl"}
      BY <2>1, <3>1
    <3>7. QED
      BY <2>1, <3>4, <3>5, <3>6
  <2>2. CASE main' # "branch"
    <3>1. main' = "cleaning" /\ cleanups' = cleanups /\ live' = live
      BY <2>2
    <3>2. QED
      BY <3>1
  <2>3. QED
    BY <2>1, <2>2
<1>5. CASE Branch
  BY <1>5 DEF Branch
<1>6. CASE WrapCurrentThread
  <2> USE <1>6 DEF WrapCurrentThread
  <2>1. CASE main' = "building"
    <3>1. Len(cleanups) = 3 /\ cleanups' = Append(cleanups, "thread")
      BY <2>1
    <3>2. "thread" = Pushed[Len(cleanups) + 1]
      BY <3>1, PushedIs
    <3>3. "thread" \in {"curl", "net", "ssl", "thread"}
      OBVIOUS
    <3>4. Len(cleanups') = Len(cleanups) + 1 /\ \A k \in 1..Len(cleanups') : cleanups'[k] = Pushed[k]
      BY ONLY <3>1, <3>2, <3>3, CleanupAdded, ProcessTypeOK, StageInv DEF ProcessTypeOK, StageInv
    <3>5. Len(cleanups') = 4
      BY <3>1, <3>4
    <3>6. live = {"curl", "net", "ssl"} /\ live' = live \cup {"thread"}
      BY <2>1, <3>1
    <3>7. QED
      BY <2>1, <3>4, <3>5, <3>6
  <2>2. CASE main' # "building"
    <3>1. main' = "cleaning" /\ cleanups' = cleanups /\ live' = live
      BY <2>2
    <3>2. QED
      BY <3>1
  <2>3. QED
    BY <2>1, <2>2
<1>7. CASE BuildController
  BY <1>7 DEF BuildController
<1>8. CASE DestroyPeerClient
  BY <1>8 DEF DestroyPeerClient
<1>9. CASE DestroyMember
  BY <1>9 DEF DestroyMember
<1>10. CASE JoinNetwork
  BY <1>10 DEF JoinNetwork
<1>11. CASE DestroyWebSocket
  BY <1>11 DEF DestroyWebSocket
<1>12. CASE CleanUp
  <2>1. CASE cleanups = <<>>
    <3>1. Len(cleanups) = 0 /\ main = "cleaning"
      BY <1>12, <2>1 DEF CleanUp
    <3>2. main' = "exited" /\ cleanups' = cleanups /\ live' = live
      BY <1>12, <2>1 DEF CleanUp
    <3>3. live = {}
      BY <3>1
    <3>4. QED
      BY <3>1, <3>2, <3>3
  <2>2. CASE cleanups # <<>>
    <3>1. /\ Len(cleanups') = Len(cleanups) - 1 /\ Len(cleanups) \in Nat \ {0}
          /\ \A k \in 1..Len(cleanups') : cleanups'[k] = Pushed[k]
      BY <1>12, <2>2, CleanupTaken DEF CleanUp
    <3>2. cleanups[Len(cleanups)] = Pushed[Len(cleanups)]
      BY <3>1
    <3>3. main = "cleaning" /\ main' = "cleaning" /\ live' = live \ {cleanups[Len(cleanups)]}
      BY <1>12, <2>2 DEF CleanUp
    <3>4. Len(cleanups) \in 1..4
      BY <3>1
    <3>5. CASE Len(cleanups) = 1
      BY <3>1, <3>2, <3>3, <3>5, PushedIs
    <3>6. CASE Len(cleanups) = 2
      BY <3>1, <3>2, <3>3, <3>6, PushedIs
    <3>7. CASE Len(cleanups) = 3
      BY <3>1, <3>2, <3>3, <3>7, PushedIs
    <3>8. CASE Len(cleanups) = 4
      BY <3>1, <3>2, <3>3, <3>8, PushedIs
    <3>9. QED
      BY <3>4, <3>5, <3>6, <3>7, <3>8
  <2>3. QED
    BY <2>1, <2>2
<1>13. CASE DestructorBody
  BY <1>13 DEF DestructorBody
<1>14. CASE OnJoinComplete
  BY <1>14 DEF OnJoinComplete
<1>15. CASE PostTask
  BY <1>15 DEF PostTask
<1>16. CASE Quit
  BY <1>16 DEF Quit
<1>17. CASE TakeTask
  BY <1>17 DEF TakeTask
<1>18. CASE RequestEnds
  BY <1>18 DEF RequestEnds
<1>19. CASE StartWebSocket
  BY <1>19 DEF StartWebSocket
<1>20. CASE WebSocketStopped
  BY <1>20 DEF WebSocketStopped
<1>21. CASE DeleteEnds
  BY <1>21 DEF DeleteEnds
<1>22. CASE BeginConnect
  BY <1>22 DEF BeginConnect
<1>23. CASE Send
  BY <1>23 DEF Send
<1>24. CASE BeginClose
  BY <1>24 DEF BeginClose
<1>25. CASE SocketStops
  BY <1>25 DEF SocketStops
<1>26. CASE HandleEvent
  BY <1>26 DEF HandleEvent, OnOpen, OnMessage, OnClose, OnError, AfterEvent
<1>27. CASE NotifyError
  BY <1>27 DEF NotifyError
<1>28. CASE CallbackCopied
  BY <1>28 DEF CallbackCopied
<1>29. CASE CallbackPosted
  BY <1>29 DEF CallbackPosted, AfterEvent
<1>30. CASE SocketEvent
  BY <1>30 DEF SocketEvent
<1>31. CASE UNCHANGED processVars
  BY <1>31 DEF processVars
<1> QED
  BY <1>1, <1>2, <1>3, <1>4, <1>5, <1>6, <1>7, <1>8, <1>9, <1>10, <1>11,
     <1>12, <1>13, <1>14, <1>15, <1>16, <1>17, <1>18, <1>19, <1>20, <1>21,
     <1>22, <1>23, <1>24, <1>25, <1>26, <1>27, <1>28, <1>29, <1>30, <1>31
  DEF ProcessNext, Teardown, NetworkSteps, NetworkLocks, SocketSteps

(* Which members and threads are left.                                          *)
LEMMA ThreadStep ==
  ASSUME ProcessTypeOK, ThreadInv, [ProcessNext]_processVars
  PROVE  ThreadInv'
<1> USE DEF ThreadInv, Whole, ProcessTypeOK, ClientMembers, MainPhases, NetworkTasks, NetworkPhases, SocketPhases, SocketEvents, ClientMembers, MainOnly, NetworkOnly, SocketOnly, mainVars, networkVars, socketVars, flagVars
<1>1. CASE Validate
  BY <1>1 DEF Validate
<1>2. CASE InitCurl
  BY <1>2 DEF InitCurl
<1>3. CASE InitNetSystem
  BY <1>3 DEF InitNetSystem
<1>4. CASE InitializeSSL
  BY <1>4 DEF InitializeSSL
<1>5. CASE Branch
  BY <1>5 DEF Branch
<1>6. CASE WrapCurrentThread
  BY <1>6 DEF WrapCurrentThread
<1>7. CASE BuildController
  BY <1>7 DEF BuildController
<1>8. CASE DestroyPeerClient
  BY <1>8 DEF DestroyPeerClient
<1>9. CASE DestroyMember
  <2>1. main = "members" /\ UNCHANGED <<network, socket>>
    BY <1>9 DEF DestroyMember
  <2>2. QED
    BY <2>1, <1>9, OneMemberGoes
<1>10. CASE JoinNetwork
  BY <1>10 DEF JoinNetwork
<1>11. CASE DestroyWebSocket
  BY <1>11 DEF DestroyWebSocket
<1>12. CASE CleanUp
  BY <1>12 DEF CleanUp
<1>13. CASE DestructorBody
  BY <1>13 DEF DestructorBody
<1>14. CASE OnJoinComplete
  BY <1>14 DEF OnJoinComplete
<1>15. CASE PostTask
  BY <1>15 DEF PostTask
<1>16. CASE Quit
  BY <1>16 DEF Quit
<1>17. CASE TakeTask
  BY <1>17 DEF TakeTask
<1>18. CASE RequestEnds
  BY <1>18 DEF RequestEnds
<1>19. CASE StartWebSocket
  BY <1>19 DEF StartWebSocket
<1>20. CASE WebSocketStopped
  BY <1>20 DEF WebSocketStopped
<1>21. CASE DeleteEnds
  BY <1>21 DEF DeleteEnds
<1>22. CASE BeginConnect
  BY <1>22 DEF BeginConnect
<1>23. CASE Send
  BY <1>23 DEF Send
<1>24. CASE BeginClose
  BY <1>24 DEF BeginClose
<1>25. CASE SocketStops
  BY <1>25 DEF SocketStops
<1>26. CASE HandleEvent
  BY <1>26 DEF HandleEvent, OnOpen, OnMessage, OnClose, OnError, AfterEvent
<1>27. CASE NotifyError
  BY <1>27 DEF NotifyError
<1>28. CASE CallbackCopied
  BY <1>28 DEF CallbackCopied
<1>29. CASE CallbackPosted
  BY <1>29 DEF CallbackPosted, AfterEvent
<1>30. CASE SocketEvent
  BY <1>30 DEF SocketEvent
<1>31. CASE UNCHANGED processVars
  BY <1>31 DEF processVars
<1> QED
  BY <1>1, <1>2, <1>3, <1>4, <1>5, <1>6, <1>7, <1>8, <1>9, <1>10, <1>11,
     <1>12, <1>13, <1>14, <1>15, <1>16, <1>17, <1>18, <1>19, <1>20, <1>21,
     <1>22, <1>23, <1>24, <1>25, <1>26, <1>27, <1>28, <1>29, <1>30, <1>31
  DEF ProcessNext, Teardown, NetworkSteps, NetworkLocks, SocketSteps

(* One join request.                                                            *)
LEMMA JoinStep ==
  ASSUME ProcessTypeOK, ThreadInv, JoinInv, [ProcessNext]_processVars
  PROVE  JoinInv'
<1> USE DEF JoinInv, ProcessTypeOK, ThreadInv, Early, Whole, MainPhases, NetworkTasks, NetworkPhases, SocketPhases, SocketEvents, ClientMembers, MainOnly, NetworkOnly, SocketOnly, mainVars, networkVars, socketVars, flagVars
<1>1. CASE Validate
  BY <1>1 DEF Validate
<1>2. CASE InitCurl
  BY <1>2 DEF InitCurl
<1>3. CASE InitNetSystem
  BY <1>3 DEF InitNetSystem
<1>4. CASE InitializeSSL
  BY <1>4 DEF InitializeSSL
<1>5. CASE Branch
  BY <1>5 DEF Branch
<1>6. CASE WrapCurrentThread
  BY <1>6 DEF WrapCurrentThread
<1>7. CASE BuildController
  <2>1. Len(<<"join">>) = 1
    OBVIOUS
  <2>2. queue' = <<"join">> /\ network' = "idle" /\ main = "building" /\ UNCHANGED joined
    BY <1>7 DEF BuildController
  <2>3. QED
    BY <2>1, <2>2
<1>8. CASE DestroyPeerClient
  BY <1>8 DEF DestroyPeerClient
<1>9. CASE DestroyMember
  BY <1>9 DEF DestroyMember
<1>10. CASE JoinNetwork
  BY <1>10 DEF JoinNetwork
<1>11. CASE DestroyWebSocket
  BY <1>11 DEF DestroyWebSocket
<1>12. CASE CleanUp
  BY <1>12 DEF CleanUp
<1>13. CASE DestructorBody
  BY <1>13 DEF DestructorBody
<1>14. CASE OnJoinComplete
  BY <1>14 DEF OnJoinComplete
<1>15. CASE PostTask
  BY <1>15 DEF PostTask
<1>16. CASE Quit
  BY <1>16 DEF Quit
<1>17. CASE TakeTask
  BY <1>17 DEF TakeTask
<1>18. CASE RequestEnds
  BY <1>18 DEF RequestEnds
<1>19. CASE StartWebSocket
  BY <1>19 DEF StartWebSocket
<1>20. CASE WebSocketStopped
  BY <1>20 DEF WebSocketStopped
<1>21. CASE DeleteEnds
  BY <1>21 DEF DeleteEnds
<1>22. CASE BeginConnect
  BY <1>22 DEF BeginConnect
<1>23. CASE Send
  BY <1>23 DEF Send
<1>24. CASE BeginClose
  BY <1>24 DEF BeginClose
<1>25. CASE SocketStops
  BY <1>25 DEF SocketStops
<1>26. CASE HandleEvent
  BY <1>26 DEF HandleEvent, OnOpen, OnMessage, OnClose, OnError, AfterEvent
<1>27. CASE NotifyError
  BY <1>27 DEF NotifyError
<1>28. CASE CallbackCopied
  BY <1>28 DEF CallbackCopied
<1>29. CASE CallbackPosted
  BY <1>29 DEF CallbackPosted, AfterEvent
<1>30. CASE SocketEvent
  BY <1>30 DEF SocketEvent
<1>31. CASE UNCHANGED processVars
  BY <1>31 DEF processVars
<1> QED
  BY <1>1, <1>2, <1>3, <1>4, <1>5, <1>6, <1>7, <1>8, <1>9, <1>10, <1>11,
     <1>12, <1>13, <1>14, <1>15, <1>16, <1>17, <1>18, <1>19, <1>20, <1>21,
     <1>22, <1>23, <1>24, <1>25, <1>26, <1>27, <1>28, <1>29, <1>30, <1>31
  DEF ProcessNext, Teardown, NetworkSteps, NetworkLocks, SocketSteps

(* The exit code.                                                               *)
LEMMA CodeStep ==
  ASSUME ProcessTypeOK, JoinInv, CodeInv, [ProcessNext]_processVars
  PROVE  CodeInv'
<1> USE DEF CodeInv, JoinInv, Early, Whole, ProcessTypeOK, MainPhases, NetworkTasks, NetworkPhases, SocketPhases, SocketEvents, ClientMembers, MainOnly, NetworkOnly, SocketOnly, mainVars, networkVars, socketVars, flagVars
<1>1. CASE Validate
  BY <1>1, CodesDiffer DEF Validate
<1>2. CASE InitCurl
  BY <1>2, CodesDiffer DEF InitCurl
<1>3. CASE InitNetSystem
  BY <1>3, CodesDiffer DEF InitNetSystem
<1>4. CASE InitializeSSL
  BY <1>4, CodesDiffer DEF InitializeSSL
<1>5. CASE Branch
  BY <1>5, CodesDiffer DEF Branch
<1>6. CASE WrapCurrentThread
  BY <1>6, CodesDiffer DEF WrapCurrentThread
<1>7. CASE BuildController
  BY <1>7, CodesDiffer DEF BuildController
<1>8. CASE DestroyPeerClient
  BY <1>8, CodesDiffer DEF DestroyPeerClient
<1>9. CASE DestroyMember
  BY <1>9, CodesDiffer DEF DestroyMember, Destroyed
<1>10. CASE JoinNetwork
  BY <1>10, CodesDiffer DEF JoinNetwork
<1>11. CASE DestroyWebSocket
  BY <1>11, CodesDiffer DEF DestroyWebSocket
<1>12. CASE CleanUp
  BY <1>12, CodesDiffer DEF CleanUp
<1>13. CASE DestructorBody
  BY <1>13, CodesDiffer DEF DestructorBody
<1>14. CASE OnJoinComplete
  BY <1>14, CodesDiffer DEF OnJoinComplete
<1>15. CASE PostTask
  BY <1>15, CodesDiffer DEF PostTask
<1>16. CASE Quit
  BY <1>16, CodesDiffer DEF Quit
<1>17. CASE TakeTask
  BY <1>17, CodesDiffer DEF TakeTask
<1>18. CASE RequestEnds
  BY <1>18, CodesDiffer DEF RequestEnds
<1>19. CASE StartWebSocket
  BY <1>19, CodesDiffer DEF StartWebSocket
<1>20. CASE WebSocketStopped
  BY <1>20, CodesDiffer DEF WebSocketStopped
<1>21. CASE DeleteEnds
  BY <1>21, CodesDiffer DEF DeleteEnds
<1>22. CASE BeginConnect
  BY <1>22, CodesDiffer DEF BeginConnect
<1>23. CASE Send
  BY <1>23, CodesDiffer DEF Send
<1>24. CASE BeginClose
  BY <1>24, CodesDiffer DEF BeginClose
<1>25. CASE SocketStops
  BY <1>25, CodesDiffer DEF SocketStops
<1>26. CASE HandleEvent
  BY <1>26, CodesDiffer DEF HandleEvent, OnOpen, OnMessage, OnClose, OnError, AfterEvent
<1>27. CASE NotifyError
  BY <1>27, CodesDiffer DEF NotifyError
<1>28. CASE CallbackCopied
  BY <1>28, CodesDiffer DEF CallbackCopied
<1>29. CASE CallbackPosted
  BY <1>29, CodesDiffer DEF CallbackPosted, AfterEvent
<1>30. CASE SocketEvent
  BY <1>30, CodesDiffer DEF SocketEvent
<1>31. CASE UNCHANGED processVars
  BY <1>31 DEF processVars
<1> QED
  BY <1>1, <1>2, <1>3, <1>4, <1>5, <1>6, <1>7, <1>8, <1>9, <1>10, <1>11,
     <1>12, <1>13, <1>14, <1>15, <1>16, <1>17, <1>18, <1>19, <1>20, <1>21,
     <1>22, <1>23, <1>24, <1>25, <1>26, <1>27, <1>28, <1>29, <1>30, <1>31
  DEF ProcessNext, Teardown, NetworkSteps, NetworkLocks, SocketSteps


ProcessInv ==
  /\ ProcessTypeOK
  /\ StageInv /\ ThreadInv /\ JoinInv /\ CodeInv

(* The invariant holds in every reachable state.                                *)
LEMMA ProcessInductive == ProcessSpec => []ProcessInv
<1>1. ProcessInit => ProcessInv
  <2> SUFFICES ASSUME ProcessInit PROVE ProcessInv
    OBVIOUS
  <2> USE DEF ProcessInit
  <2>1. main \in MainPhases /\ network \in NetworkPhases /\ socket \in SocketPhases
        /\ event \in SocketEvents /\ copied \in ClientMembers
    BY DEF MainPhases, NetworkPhases, SocketPhases, SocketEvents, ClientMembers
  <2>2. code \in ExitCodes
    BY CodesKnown
  <2>3. cleanups \in Seq({"curl", "net", "ssl", "thread"}) /\ queue \in Seq(NetworkTasks)
    OBVIOUS
  <2>4. ProcessTypeOK
    BY <2>1, <2>2, <2>3 DEF ProcessTypeOK
  <2>5. StageInv
    <3>1. Len(cleanups) = 0
      OBVIOUS
    <3>2. QED
      BY <3>1 DEF StageInv
  <2>6. ThreadInv
    BY DEF ThreadInv, Whole
  <2>7. JoinInv
    BY DEF JoinInv
  <2>8. CodeInv
    BY DEF CodeInv, Early, Whole
  <2>9. QED
    BY <2>4, <2>5, <2>6, <2>7, <2>8 DEF ProcessInv
<1>2. ProcessInv /\ [ProcessNext]_processVars => ProcessInv'
  BY ProcessTypeStep, StageStep, ThreadStep, JoinStep, CodeStep DEF ProcessInv
<1>3. QED
  BY <1>1, <1>2, PTL DEF ProcessSpec

(* For any backlog of the network thread, each variable has its type; the exit  *)
(* codes are the documented ones.                                               *)
THEOREM ProcessTyped == ProcessSpec => []ProcessTypeOK
<1>1. ProcessInv => ProcessTypeOK
  BY DEF ProcessInv
<1>2. QED
  BY <1>1, ProcessInductive, PTL

(* Nothing that a thread or the peer connection uses is torn down before it.    *)
THEOREM NothingGoesInUse == ProcessSpec => []LiveWhileUsed
<1>1. ProcessInv => LiveWhileUsed
  BY DEF ProcessInv, StageInv, ThreadInv, Whole, ClientMembers, LiveWhileUsed
<1>2. QED
  BY <1>1, ProcessInductive, PTL

(* Every way out of the program cleans up, and reports how far it got.          *)
THEOREM ExitAlwaysReports == ProcessSpec => []ExitReports
<1>1. ProcessInv => ExitReports
  <2> SUFFICES ASSUME ProcessInv, main = "exited"
               PROVE  ExitReports
    BY DEF ExitReports
  <2>1. live = {}
    BY DEF ProcessInv, StageInv, Whole
  <2>2. members = {} /\ network = "none" /\ socket = "none"
    BY DEF ProcessInv, ThreadInv, Whole
  <2>3. CASE ran
    <3>1. /\ code \in {Success, MediaFailed, SignalingFailed, PeerConnectionFailed, TimedOut}
          /\ code \in {Success, MediaFailed, PeerConnectionFailed} => joined = "yes"
      BY <2>3 DEF ProcessInv, CodeInv, Early
    <3>2. QED
      BY <2>1, <2>2, <2>3, <3>1, CodesDiffer DEF ExitReports
  <2>4. CASE ~ran
    <3>1. code \in {InvalidArgument, InitializationFailed, Success, MediaFailed}
      BY <2>4 DEF ProcessInv, CodeInv
    <3>2. QED
      BY <2>1, <2>2, <2>4, <3>1, CodesDiffer DEF ExitReports
  <2>5. QED
    BY <2>3, <2>4
<1>2. QED
  BY <1>1, ProcessInductive, PTL

=============================================================================
