--------------------------- MODULE CallTimersProofs ---------------------------
(* A proof that the process ends in time, for every configuration.             *)
EXTENDS CallTimers, TLAPS

(* The time n requests may take.                                               *)
Span(n) == Http * n

Latest == Timeout + Duration + Span(MaxWaiting + 3)

(* While the call lasts its timer is ahead of the clock.                       *)
TimerAhead ==
  InCall => /\ now <= due
            /\ due <= Timeout + Duration
            /\ phase = "setup" => due <= Timeout

RequestLimited ==
  waiting > 0 => now <= limit /\ limit <= now + Http

(* The requests left, in the different parts of the call.                      *)
RequestsLeft ==
  /\ InCall => waiting <= MaxWaiting
  /\ ~joined => waiting <= 1 /\ phase \notin {"established", "farewell"}
  /\ phase = "farewell" => 1 <= ahead /\ ahead <= waiting
  /\ phase = "exited" => waiting = 0

(* What is left to serve, with what may still be posted, ends before Latest.   *)
BudgetLeft ==
  /\ phase = "farewell" =>
       limit + Span(IF late THEN waiting ELSE waiting + 1) <= Latest
  /\ phase = "leaving" =>
       IF waiting = 0 THEN now <= Latest ELSE limit + Span(waiting - 1) <= Latest

TimersInv ==
  TimersTypeOK /\ TimerAhead /\ RequestLimited /\ RequestsLeft /\ BudgetLeft

LEMMA SpanType == \A n \in Nat : Span(n) \in Nat
BY NetworkAssumption DEF Span

LEMMA SpanStep == \A n \in Nat : Span(n + 1) = Span(n) + Http
BY NetworkAssumption DEF Span

LEMMA SpanZero == Span(0) = 0
BY NetworkAssumption DEF Span

LEMMA SpanGrows == \A m, n \in Nat : m <= n => Span(m) <= Span(n)
<1> TAKE m, n \in Nat
<1> HAVE m <= n
<1>1. Span(n) = Span(m) + Http * (n - m)
  BY NetworkAssumption DEF Span
<1>2. Http * (n - m) \in Nat
  BY NetworkAssumption
<1> QED
  BY <1>1, <1>2, SpanType

LEMMA TimersInitial == TimersInit => TimersInv
<1> SUFFICES ASSUME TimersInit PROVE TimersInv
  OBVIOUS
<1> USE DEF TimersInit
<1>1. TimersTypeOK
  BY ValidateConfig, NetworkAssumption DEF TimersTypeOK
<1>2. TimerAhead /\ RequestLimited /\ RequestsLeft /\ BudgetLeft
  BY ValidateConfig, NetworkAssumption
     DEF TimerAhead, RequestLimited, RequestsLeft, BudgetLeft, InCall
<1> QED
  BY <1>1, <1>2 DEF TimersInv

(* How many more requests fit when the call ends at or before Timeout +        *)
(* Duration: those waiting and n more.                                         *)
LEMMA BudgetAtEnd ==
  ASSUME TimersInv, InCall, NEW n \in Nat, n <= 3
  PROVE  /\ now + Span(waiting + n) <= Latest
         /\ now <= Timeout + Duration
<1> USE DEF TimersInv
<1>1. now <= Timeout + Duration /\ waiting + n <= MaxWaiting + 3
  BY ValidateConfig, NetworkAssumption DEF TimerAhead, RequestsLeft, TimersTypeOK
<1>2. waiting + n \in Nat /\ MaxWaiting + 3 \in Nat
  BY NetworkAssumption DEF TimersTypeOK
<1>3. Span(waiting + n) <= Span(MaxWaiting + 3)
  BY <1>1, <1>2, SpanGrows
<1> HIDE DEF Span
<1> QED
  BY <1>1, <1>2, <1>3, SpanType, ValidateConfig DEF Latest, TimersTypeOK

LEMMA PostLimits ==
  ASSUME TimersTypeOK, RequestLimited, NEW n \in Nat, Post(n), now' = now
  PROVE  /\ waiting' = waiting + n /\ limit' \in Nat
         /\ now <= limit' /\ limit' <= now + Http
BY NetworkAssumption DEF TimersTypeOK, RequestLimited, Post

LEMMA LeaveStep ==
  ASSUME TimersInv, InCall, Leave(joined), UNCHANGED <<now, due, joined, late, ahead>>
  PROVE  TimersInv'
<1> DEFINE n == IF joined THEN 1 ELSE 0
<1> USE DEF TimersInv
<1>1. phase' = "leaving" /\ Post(n)
  BY DEF Leave
<1>2. /\ waiting' = waiting + n /\ limit' \in Nat
      /\ now <= limit' /\ limit' <= now + Http
  BY <1>1, PostLimits
<1>3. TimersTypeOK'
  BY <1>1, <1>2 DEF TimersTypeOK
<1>4. TimerAhead' /\ RequestLimited' /\ RequestsLeft'
  BY <1>1, <1>2, <1>3, NetworkAssumption
     DEF TimerAhead, RequestLimited, RequestsLeft, InCall, TimersTypeOK
<1>5. now + Span(waiting + n) <= Latest /\ now + Span(waiting) <= Latest
  <2>1. now + Span(waiting + 1) <= Latest /\ now + Span(waiting + 0) <= Latest
    BY BudgetAtEnd
  <2>2. waiting + 0 = waiting
    BY DEF TimersTypeOK
  <2> QED
    BY <2>1, <2>2
<1>6. BudgetLeft'
  <2>1. CASE waiting' = 0
    <3>1. Span(waiting + n) \in Nat /\ Latest \in Nat
      BY <1>2, <2>1, SpanType, ValidateConfig, NetworkAssumption DEF Latest, TimersTypeOK
    <3> QED
      BY <1>1, <1>5, <2>1, <3>1 DEF BudgetLeft, TimersTypeOK
  <2>2. CASE waiting' # 0
    <3>1. waiting' - 1 \in Nat /\ (waiting' - 1) + 1 = waiting + n
      BY <1>2, <1>3, <2>2 DEF TimersTypeOK
    <3>2. Span(waiting + n) = Span(waiting' - 1) + Http
      BY <3>1, SpanStep
    <3>3. Span(waiting' - 1) \in Nat /\ Latest \in Nat
      BY <3>1, SpanType, ValidateConfig, NetworkAssumption DEF Latest
    <3>4. limit' + Span(waiting' - 1) <= Latest
      BY <1>2, <1>5, <3>2, <3>3, NetworkAssumption DEF TimersTypeOK
    <3> QED
      BY <1>1, <2>2, <3>4 DEF BudgetLeft
  <2> QED
    BY <2>1, <2>2
<1> QED
  BY <1>3, <1>4, <1>6

LEMMA SendMessageStep == TimersInv /\ SendMessage => TimersInv'
<1> SUFFICES ASSUME TimersInv, SendMessage PROVE TimersInv'
  OBVIOUS
<1> USE DEF TimersInv
<1>1. Post(1) /\ now' = now /\ 1 \in Nat
  BY DEF SendMessage
<1>2. /\ waiting' = waiting + 1 /\ limit' \in Nat
      /\ now <= limit' /\ limit' <= now + Http
  BY <1>1, PostLimits
<1>3. TimersTypeOK'
  BY <1>2 DEF TimersTypeOK, SendMessage
<1>4. TimerAhead' /\ RequestLimited' /\ RequestsLeft' /\ BudgetLeft'
  BY <1>2, NetworkAssumption
     DEF TimerAhead, RequestLimited, RequestsLeft, BudgetLeft, InCall, TimersTypeOK,
         SendMessage
<1> QED
  BY <1>3, <1>4

LEMMA SendLateDescriptionStep == TimersInv /\ SendLateDescription => TimersInv'
<1> SUFFICES ASSUME TimersInv, SendLateDescription PROVE TimersInv'
  OBVIOUS
<1> USE DEF TimersInv
<1>1. Post(1) /\ now' = now /\ 1 \in Nat
  BY DEF SendLateDescription
<1>2. /\ waiting' = waiting + 1 /\ limit' \in Nat
      /\ now <= limit' /\ limit' <= now + Http
  BY <1>1, PostLimits
<1>3. TimersTypeOK'
  BY <1>2 DEF TimersTypeOK, SendLateDescription
<1>4. TimerAhead' /\ RequestLimited' /\ RequestsLeft'
  BY <1>2, NetworkAssumption
     DEF TimerAhead, RequestLimited, RequestsLeft, InCall, TimersTypeOK,
         SendLateDescription
<1>5. limit' = limit
  BY DEF SendLateDescription, Post, RequestsLeft, TimersTypeOK
<1>6. BudgetLeft'
  BY <1>2, <1>5 DEF BudgetLeft, SendLateDescription, TimersTypeOK
<1> QED
  BY <1>3, <1>4, <1>6

LEMMA JoinEndsStep == TimersInv /\ JoinEnds => TimersInv'
<1> SUFFICES ASSUME TimersInv, JoinEnds PROVE TimersInv'
  OBVIOUS
<1> USE DEF TimersInv, JoinEnds
<1>1. TimersTypeOK'
  BY DEF TimersTypeOK
<1>2. TimerAhead' /\ RequestLimited' /\ RequestsLeft'
  BY NetworkAssumption
     DEF TimerAhead, RequestLimited, RequestsLeft, InCall, TimersTypeOK
<1>3. phase' = "leaving" => now <= Latest
  <2>1. Latest \in Nat /\ Span(0) = 0
    BY SpanZero, SpanType, ValidateConfig, NetworkAssumption DEF Latest
  <2>2. CASE InCall
    <3>1. now <= Timeout + Duration
      BY <2>2, BudgetAtEnd
    <3>2. Span(MaxWaiting + 3) \in Nat
      BY SpanType, NetworkAssumption
    <3> QED
      BY <3>1, <3>2, ValidateConfig DEF Latest, TimersTypeOK
  <2>3. CASE phase = "leaving"
    <3>1. limit + Span(0) <= Latest
      BY <2>3 DEF BudgetLeft
    <3> QED
      BY <2>1, <3>1 DEF RequestLimited, TimersTypeOK
  <2>4. CASE phase = "exited"
    BY <2>4 DEF RequestsLeft
  <2> QED
    BY <2>2, <2>3, <2>4 DEF InCall, RequestsLeft, TimersTypeOK
<1>4. BudgetLeft'
  BY <1>3 DEF BudgetLeft, RequestsLeft
<1> QED
  BY <1>1, <1>2, <1>4

LEMMA RequestEndsStep == TimersInv /\ RequestEnds => TimersInv'
<1> SUFFICES ASSUME TimersInv, RequestEnds PROVE TimersInv'
  OBVIOUS
<1> USE DEF TimersInv, RequestEnds
<1>1. TimersTypeOK'
  BY NetworkAssumption DEF TimersTypeOK
<1>2. TimerAhead' /\ RequestLimited' /\ RequestsLeft'
  BY NetworkAssumption
     DEF TimerAhead, RequestLimited, RequestsLeft, InCall, TimersTypeOK
<1>3. BudgetLeft'
  <2> SUFFICES ASSUME phase = "leaving"
      PROVE IF waiting' = 0 THEN now <= Latest ELSE limit' + Span(waiting' - 1) <= Latest
    BY DEF BudgetLeft
  <2>1. limit + Span(waiting - 1) <= Latest /\ now <= limit
    BY DEF BudgetLeft, RequestLimited, TimersTypeOK
  <2>2. Latest \in Nat /\ Span(waiting - 1) \in Nat
    BY SpanType, ValidateConfig, NetworkAssumption DEF Latest, TimersTypeOK
  <2>3. CASE waiting' = 0
    BY <2>1, <2>2, <2>3 DEF TimersTypeOK
  <2>4. CASE waiting' # 0
    <3>1. waiting' - 1 \in Nat /\ (waiting' - 1) + 1 = waiting - 1
      BY <2>4 DEF TimersTypeOK
    <3>2. Span(waiting - 1) = Span(waiting' - 1) + Http
      BY <3>1, SpanStep
    <3>3. Span(waiting' - 1) \in Nat
      BY <3>1, SpanType
    <3> QED
      BY <2>1, <2>2, <2>4, <3>2, <3>3, NetworkAssumption DEF TimersTypeOK
  <2> QED
    BY <2>3, <2>4
<1> QED
  BY <1>1, <1>2, <1>3

(* The bye's completion ends the call; leaving the room takes its place.       *)
LEMMA RequestEndsInFarewellStep == TimersInv /\ RequestEndsInFarewell => TimersInv'
<1> SUFFICES ASSUME TimersInv, RequestEndsInFarewell PROVE TimersInv'
  OBVIOUS
<1> USE DEF TimersInv, RequestEndsInFarewell
<1>1. TimersTypeOK'
  BY NetworkAssumption DEF TimersTypeOK, RequestsLeft
<1>2. TimerAhead' /\ RequestLimited' /\ RequestsLeft'
  BY NetworkAssumption
     DEF TimerAhead, RequestLimited, RequestsLeft, InCall, TimersTypeOK
<1>3. now <= limit /\ limit' = now + Http
  BY DEF RequestLimited
<1>4. /\ limit + Span(IF late THEN waiting ELSE waiting + 1) <= Latest
      /\ waiting \in Nat /\ waiting > 0 /\ waiting - 1 \in Nat
  BY DEF BudgetLeft, TimersTypeOK
<1>5. /\ Latest \in Nat /\ Span(waiting - 1) \in Nat /\ Span(waiting) \in Nat
      /\ Span(waiting + 1) \in Nat
  BY <1>4, SpanType, ValidateConfig, NetworkAssumption DEF Latest
<1>6. Span(waiting) = Span(waiting - 1) + Http /\ Span(waiting + 1) = Span(waiting) + Http
  <2>1. (waiting - 1) + 1 = waiting
    BY <1>4
  <2> QED
    BY <1>4, <2>1, SpanStep
<1>7. BudgetLeft'
  <2>1. CASE ahead = 1
    <3>1. limit' + Span(waiting - 1) <= Latest
      BY <1>3, <1>4, <1>5, <1>6, NetworkAssumption DEF TimersTypeOK
    <3> QED
      BY <2>1, <3>1, <1>4 DEF BudgetLeft
  <2>2. CASE ahead # 1
    <3>1. waiting' = waiting - 1 /\ (waiting - 1) + 1 = waiting /\ phase' = "farewell"
      BY <2>2, <1>4
    <3>2. limit' + Span(IF late THEN waiting - 1 ELSE waiting) <= Latest
      BY <1>3, <1>4, <1>5, <1>6, NetworkAssumption DEF TimersTypeOK
    <3> QED
      BY <3>1, <3>2 DEF BudgetLeft
  <2> QED
    BY <2>1, <2>2
<1> QED
  BY <1>1, <1>2, <1>7

LEMMA EstablishStep == TimersInv /\ Establish => TimersInv'
<1> SUFFICES ASSUME TimersInv, Establish PROVE TimersInv'
  OBVIOUS
<1> USE DEF TimersInv, Establish
<1>1. TimersTypeOK'
  BY ValidateConfig DEF TimersTypeOK
<1>2. TimerAhead' /\ RequestLimited' /\ RequestsLeft' /\ BudgetLeft'
  BY ValidateConfig
     DEF TimerAhead, RequestLimited, RequestsLeft, BudgetLeft, InCall, TimersTypeOK
<1> QED
  BY <1>1, <1>2

LEMMA OnCallDurationStep == TimersInv /\ OnCallDuration => TimersInv'
<1> SUFFICES ASSUME TimersInv, OnCallDuration PROVE TimersInv'
  OBVIOUS
<1> USE DEF TimersInv
<1>1. Post(1) /\ now' = now /\ 1 \in Nat
  BY DEF OnCallDuration
<1>2. /\ waiting' = waiting + 1 /\ limit' \in Nat
      /\ now <= limit' /\ limit' <= now + Http
  BY <1>1, PostLimits
<1>3. TimersTypeOK'
  BY <1>2 DEF TimersTypeOK, OnCallDuration
<1>4. TimerAhead' /\ RequestLimited' /\ RequestsLeft'
  BY <1>2, NetworkAssumption
     DEF TimerAhead, RequestLimited, RequestsLeft, InCall, TimersTypeOK, OnCallDuration
<1>5. now + Span(waiting + 3) <= Latest
  BY BudgetAtEnd DEF OnCallDuration, InCall
<1>6. Span(waiting + 3) = Span(waiting + 2) + Http /\ Span(waiting + 2) = Span(waiting + 1) + Http
  <2>1. /\ waiting + 2 \in Nat /\ (waiting + 2) + 1 = waiting + 3
        /\ waiting + 1 \in Nat /\ (waiting + 1) + 1 = waiting + 2
    BY DEF TimersTypeOK
  <2> QED
    BY <2>1, SpanStep
<1>7. /\ Latest \in Nat /\ Span(waiting + 1) \in Nat /\ Span(waiting + 2) \in Nat
      /\ (waiting + 1) + 1 = waiting + 2
  BY SpanType, ValidateConfig, NetworkAssumption DEF Latest, TimersTypeOK
<1>8. BudgetLeft'
  <2>1. /\ limit' + Span(waiting + 2) <= Latest
        /\ limit' + Span(waiting + 1) <= Latest
    BY <1>2, <1>5, <1>6, <1>7, NetworkAssumption DEF TimersTypeOK
  <2> QED
    BY <1>2, <1>7, <2>1 DEF BudgetLeft, OnCallDuration
<1> QED
  BY <1>3, <1>4, <1>8

LEMMA TickStep == TimersInv /\ Tick => TimersInv'
<1> SUFFICES ASSUME TimersInv, Tick PROVE TimersInv'
  OBVIOUS
<1> USE DEF TimersInv, Tick
<1>1. TimersTypeOK'
  BY DEF TimersTypeOK
<1>2. TimerAhead' /\ RequestLimited' /\ RequestsLeft' /\ BudgetLeft'
  BY NetworkAssumption, ValidateConfig
     DEF TimerAhead, RequestLimited, RequestsLeft, BudgetLeft, InCall, TimersTypeOK, Latest
<1> QED
  BY <1>1, <1>2

LEMMA StillStep ==
  TimersInv /\ (Exit \/ UNCHANGED timerVars) => TimersInv'
<1> SUFFICES ASSUME TimersInv, Exit \/ UNCHANGED timerVars PROVE TimersInv'
  OBVIOUS
<1>1. CASE Exit
  BY <1>1 DEF TimersInv, Exit, TimersTypeOK, TimerAhead, RequestLimited, RequestsLeft,
              BudgetLeft, InCall
<1>2. CASE UNCHANGED timerVars
  BY <1>2 DEF timerVars, TimersInv, TimersTypeOK, TimerAhead, RequestLimited,
              RequestsLeft, BudgetLeft, InCall
<1> QED
  BY <1>1, <1>2

LEMMA TimersInductive == TimersInv /\ [TimersNext]_timerVars => TimersInv'
<1> SUFFICES ASSUME TimersInv, [TimersNext]_timerVars PROVE TimersInv'
  OBVIOUS
<1>1. CASE OnStartupTimeout
  BY <1>1, LeaveStep DEF OnStartupTimeout, InCall
<1>2. CASE Fail
  BY <1>2, LeaveStep DEF Fail
<1>3. CASE Exited
  BY <1>3, StillStep DEF Exited
<1> QED
  BY <1>1, <1>2, <1>3, SendMessageStep, SendLateDescriptionStep, JoinEndsStep,
     RequestEndsStep, RequestEndsInFarewellStep, EstablishStep, OnCallDurationStep,
     TickStep, StillStep DEF TimersNext

LEMMA TimersInvEndsInTime == TimersInv => EndsInTime
<1> SUFFICES ASSUME TimersInv, phase # "exited" PROVE now <= Latest
  BY DEF EndsInTime, Latest, Span
<1> USE DEF TimersInv
<1>1. Latest \in Nat /\ (\A n \in Nat : Span(n) \in Nat)
  BY SpanType, ValidateConfig, NetworkAssumption DEF Latest
<1>2. CASE InCall
  <2>1. now <= Timeout + Duration
    BY <1>2, BudgetAtEnd
  <2>2. Span(MaxWaiting + 3) \in Nat
    BY SpanType, NetworkAssumption
  <2> QED
    BY <2>1, <2>2, ValidateConfig DEF Latest, TimersTypeOK
<1>3. CASE phase = "farewell"
  <2>1. waiting > 0 /\ now <= limit
    BY <1>3 DEF RequestsLeft, RequestLimited, TimersTypeOK
  <2>2. Span(IF late THEN waiting ELSE waiting + 1) \in Nat
    BY <1>1 DEF TimersTypeOK
  <2> QED
    BY <1>1, <1>3, <2>1, <2>2 DEF BudgetLeft, TimersTypeOK
<1>4. CASE phase = "leaving" /\ waiting > 0
  <2>1. now <= limit /\ Span(waiting - 1) \in Nat
    BY <1>1, <1>4 DEF RequestLimited, TimersTypeOK
  <2> QED
    BY <1>1, <1>4, <2>1 DEF BudgetLeft, TimersTypeOK
<1>5. CASE phase = "leaving" /\ waiting = 0
  BY <1>5 DEF BudgetLeft
<1> QED
  BY <1>2, <1>3, <1>4, <1>5 DEF InCall, TimersTypeOK

(* Whatever the configuration, from whatever moment the call is established,   *)
(* the process has ended by Timeout + Duration and the time its last requests  *)
(* to the room server take.                                                    *)
THEOREM AlwaysInTime == TimersSpec => []EndsInTime
<1>1. TimersSpec => []TimersInv
  BY TimersInitial, TimersInductive, PTL DEF TimersSpec
<1> QED
  BY <1>1, TimersInvEndsInTime, PTL

=============================================================================
