---------------------------- MODULE CallLifecycle ----------------------------
(* What the call promises whoever started the process: it is established at    *)
(* most once, it ends once, and the exit code tells how: 0 only for a call     *)
(* that was established, the timeout and media codes only for one that was not.*)
EXTENDS SignalingTypes

VARIABLES
  phase,  \* "setup", "established", "farewell" (saying goodbye), "over"
  code    \* the exit code

lifecycleVars == <<phase, code>>

LifecycleInit ==
  /\ phase = "setup"
  /\ code = RuntimeFailed

Establish ==
  /\ phase = "setup"
  /\ phase' = "established"
  /\ UNCHANGED code

FailSetup ==
  /\ phase = "setup"
  /\ phase' = "over"
  /\ code' \in {MediaFailed, SignalingFailed, PeerConnectionFailed, TimedOut}

(* The other side hangs up, or signaling or the connection breaks.             *)
LoseCall ==
  /\ phase = "established"
  /\ phase' = "over"
  /\ code' \in {Success, SignalingFailed, PeerConnectionFailed}

SayGoodbye ==
  /\ phase = "established"
  /\ phase' = "farewell"
  /\ UNCHANGED code

EndFarewell ==
  /\ phase = "farewell"
  /\ phase' = "over"
  /\ code' = Success

LifecycleNext ==
  Establish \/ FailSetup \/ LoseCall \/ SayGoodbye \/ EndFarewell

LifecycleSpec == LifecycleInit /\ [][LifecycleNext]_lifecycleVars
=============================================================================
