------------------------------ MODULE CallTimers ------------------------------
(* The clock of a call, in seconds: the startup timeout, the duration timer    *)
(* and the network thread, which serves one request at a time and gives each   *)
(* HTTP request at most Http seconds.  The controller's handlers take no time. *)
EXTENDS Naturals

CONSTANTS
  Timeout,    \* --timeout_seconds
  Duration,   \* --call_duration_seconds
  Http,       \* the limit of one HTTP request
  MaxWaiting  \* bound: requests waiting when the call sends another

ASSUME ValidateConfig ==
  /\ Timeout \in Nat \ {0} /\ Duration \in Nat \ {0}
  /\ Duration < Timeout

ASSUME NetworkAssumption == Http \in Nat \ {0} /\ MaxWaiting \in Nat \ {0}

VARIABLES
  now,
  phase,    \* "setup", "established", "farewell", "leaving", "exited"
  due,      \* when the live timer of "setup" and "established" fires
  joined,   \* join_response_ is there
  late,     \* the description of a negotiation under way was sent after the bye
  waiting,  \* requests posted to the network thread and not completed
  ahead,    \* the bye and the requests before it
  limit     \* when the request being served is given up

timerVars == <<now, phase, due, joined, late, waiting, ahead, limit>>

InCall == phase \in {"setup", "established"}

(* Run: the startup timeout is armed and the join request posted.              *)
TimersInit ==
  /\ now = 0
  /\ phase = "setup"
  /\ due = Timeout
  /\ joined = FALSE
  /\ late = FALSE
  /\ waiting = 1
  /\ ahead = 0
  /\ limit = Http

(* The network thread's queue gets n more requests.                            *)
Post(n) ==
  /\ waiting' = waiting + n
  /\ limit' = IF waiting = 0 THEN now + Http ELSE limit

(* CompleteFinish: a client that has joined posts one more, to leave the room. *)
Leave(known) ==
  /\ phase' = "leaving"
  /\ Post(IF known THEN 1 ELSE 0)

(* Faulty variant: finished_ is not consulted.                                 *)
SendMessageLate ==
  /\ joined /\ (InCall \/ phase = "farewell")
  /\ waiting < MaxWaiting
  /\ Post(1)
  /\ UNCHANGED <<now, phase, due, joined, late, ahead>>

(* A description, or a candidate, which is no longer sent once finished_ is    *)
(* set.                                                                        *)
SendMessage ==
  /\ joined /\ InCall
  /\ waiting < MaxWaiting
  /\ Post(1)
  /\ UNCHANGED <<now, phase, due, joined, late, ahead>>

(* SendLocalDescription does not look at finished_.                            *)
SendLateDescription ==
  /\ phase = "farewell" /\ ~late
  /\ late' = TRUE
  /\ Post(1)
  /\ UNCHANGED <<now, phase, due, joined, ahead>>

(* The join request is the first and, until its response is handled, the only  *)
(* one.  Its failure ends the call; after the call has ended it is ignored.    *)
JoinEnds ==
  /\ ~joined /\ waiting = 1
  /\ waiting' = 0
  /\ \/ phase = "setup" /\ joined' = TRUE /\ phase' = phase
     \/ phase' = "leaving" /\ joined' = joined
  /\ UNCHANGED <<now, due, late, ahead, limit>>

RequestEnds ==
  /\ joined /\ waiting > 0
  /\ phase # "farewell"
  /\ waiting' = waiting - 1
  /\ limit' = now + Http
  /\ UNCHANGED <<now, phase, due, joined, late, ahead>>

(* While saying goodbye; the bye's completion ends the call.                   *)
RequestEndsInFarewell ==
  /\ phase = "farewell" /\ waiting > 0
  /\ ahead' = ahead - 1
  /\ limit' = now + Http
  /\ IF ahead = 1
       THEN phase' = "leaving" /\ waiting' = waiting
       ELSE phase' = phase /\ waiting' = waiting - 1
  /\ UNCHANGED <<now, due, joined, late>>

(* MaybeMarkCallEstablished: the startup timeout is cancelled, whatever time   *)
(* it has left, and the duration timer armed.                                  *)
Establish ==
  /\ phase = "setup" /\ joined
  /\ phase' = "established"
  /\ due' = now + Duration
  /\ UNCHANGED <<now, joined, late, waiting, ahead, limit>>

OnStartupTimeout ==
  /\ phase = "setup" /\ now = due
  /\ Leave(joined)
  /\ UNCHANGED <<now, due, joined, late, ahead>>

OnCallDuration ==
  /\ phase = "established" /\ now = due
  /\ phase' = "farewell"
  /\ Post(1)
  /\ ahead' = waiting + 1
  /\ UNCHANGED <<now, due, joined, late>>

(* A remote bye or an error ends the call.                                     *)
Fail ==
  /\ InCall /\ joined
  /\ Leave(joined)
  /\ UNCHANGED <<now, due, joined, late, ahead>>

(* Run returns; the network thread is joined when its queue is drained.        *)
Exit ==
  /\ phase = "leaving" /\ waiting = 0
  /\ phase' = "exited"
  /\ UNCHANGED <<now, due, joined, late, waiting, ahead, limit>>

(* Nothing that is due waits for the clock.                                    *)
Tick ==
  /\ phase # "exited"
  /\ InCall => now < due
  /\ waiting > 0 => now < limit
  /\ phase = "leaving" => waiting > 0
  /\ now' = now + 1
  /\ UNCHANGED <<phase, due, joined, late, waiting, ahead, limit>>

Exited == phase = "exited" /\ UNCHANGED timerVars

TimersNext ==
  \/ SendMessage \/ SendLateDescription
  \/ JoinEnds \/ RequestEnds \/ RequestEndsInFarewell
  \/ Establish \/ OnStartupTimeout \/ OnCallDuration \/ Fail
  \/ Exit \/ Tick \/ Exited

TimersSpec == TimersInit /\ [][TimersNext]_timerVars

TimersTypeOK ==
  /\ now \in Nat /\ due \in Nat /\ limit \in Nat
  /\ waiting \in Nat /\ ahead \in Nat
  /\ phase \in {"setup", "established", "farewell", "leaving", "exited"}
  /\ {joined, late} \subseteq BOOLEAN

(* From whatever moment the call is established, the process is done within    *)
(* the timeout, the duration and the limit of each request it can have left to *)
(* serve: those waiting, the bye, one late description, leaving the room.      *)
EndsInTime ==
  phase # "exited" => now <= Timeout + Duration + Http * (MaxWaiting + 3)

(* main.cc says of --timeout_seconds: "Overall timeout in seconds."            *)
OverallTimeout == InCall => now <= Timeout
=============================================================================
