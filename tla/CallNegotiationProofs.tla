------------------------ MODULE CallNegotiationProofs ------------------------
(* What is under way is accounted for: one continuation of an action in flight, *)
(* one timer or bye that ends the call, one registration, every remote          *)
(* candidate received, in its order, and the messages of the room in the order  *)
(* of their types; for every value of the constants.                            *)
EXTENDS CallClosingProofs, FiniteSetTheorems

(* -- counting ----------------------------------------------------------------- *)

(* Where s has an element of S, and how often.                                 *)
Places(s, S) == {k \in DOMAIN s : s[k] \in S}
Hits(s, S) == Cardinality(Places(s, S))

LEMMA IndexSetFinite ==
  ASSUME NEW n \in Nat, NEW K \in SUBSET (1..n)
  PROVE  IsFiniteSet(K) /\ Cardinality(K) \in Nat
  <1>1. IsFiniteSet(1..n)
    BY FS_Interval
  <1>2. IsFiniteSet(K)
    BY <1>1, FS_Subset
  <1> QED
    BY <1>2, FS_CardinalityType

(* One more index, or one index less.                                          *)
LEMMA CountGrown ==
  ASSUME NEW n \in Nat, NEW K \in SUBSET (1..n)
  PROVE  Cardinality(K \cup {n + 1}) = Cardinality(K) + 1
  BY IndexSetFinite, FS_AddElement

LEMMA CountShifted ==
  ASSUME NEW n \in Nat, NEW K \in SUBSET (1..n), n # 0,
         NEW L, L = {k \in 1..(n - 1) : k + 1 \in K}
  PROVE  Cardinality(K) = Cardinality(L) + One(1 \in K)
  <1> DEFINE f == [k \in L |-> k + 1]
  <1>1. IsFiniteSet(K) /\ Cardinality(K) \in Nat
    BY IndexSetFinite
  <1>2. n - 1 \in Nat /\ L \in SUBSET (1..(n - 1))
    OBVIOUS
  <1>3. IsFiniteSet(L) /\ Cardinality(L) \in Nat
    BY <1>2, IndexSetFinite
  <1>4. f \in Bijection(L, K \ {1})
    <2>1. f \in [L -> K \ {1}]
      <3>1. \A k \in L : k + 1 \in K \ {1}
        OBVIOUS
      <3> QED
        BY <3>1
    <2>2. \A k, l \in L : f[k] = f[l] => k = l
      OBVIOUS
    <2>3. \A j \in K \ {1} : \E k \in L : f[k] = j
      <3> SUFFICES ASSUME NEW j \in K \ {1} PROVE \E k \in L : f[k] = j
        OBVIOUS
      <3>1. j - 1 \in 1..(n - 1) /\ (j - 1) + 1 = j
        OBVIOUS
      <3>2. j - 1 \in L
        BY <3>1
      <3>3. f[j - 1] = j
        BY <3>1, <3>2
      <3> QED
        BY <3>2, <3>3
    <2> HIDE DEF f
    <2> QED
      BY <2>1, <2>2, <2>3 DEF Bijection, Injection, Surjection, IsInjective
  <1>5. Cardinality(K \ {1}) = Cardinality(L)
    BY <1>3, <1>4, FS_Bijection DEF ExistsBijection
  <1>6. Cardinality(K \ {1}) = IF 1 \in K THEN Cardinality(K) - 1 ELSE Cardinality(K)
    BY <1>1, FS_RemoveElement
  <1>7. CASE 1 \in K
    BY <1>1, <1>3, <1>5, <1>6, <1>7 DEF One
  <1>8. CASE 1 \notin K
    BY <1>1, <1>3, <1>5, <1>6, <1>8 DEF One
  <1> QED
    BY <1>7, <1>8

LEMMA StepsFinite ==
  ASSUME NEW K \in SUBSET Steps PROVE IsFiniteSet(K) /\ Cardinality(K) \in Nat
  <1>1. IsFiniteSet(Steps)
    <2> DEFINE offers == {"createOffer"} \cup {"setLocalOffer"} \cup {"setRemoteOffer"}
               answers == {"createAnswer"} \cup {"setLocalAnswer"} \cup {"setRemoteAnswer"}
    <2>1. IsFiniteSet(offers) /\ IsFiniteSet(answers)
      <3>1. \A S, x : IsFiniteSet(S) => IsFiniteSet(S \cup {x})
        BY FS_AddElement
      <3> QED
        BY <3>1, FS_Singleton
    <2>2. IsFiniteSet(offers \cup answers)
      <3> HIDE DEF offers, answers
      <3> QED
        BY <2>1, FS_Union
    <2>3. Steps = offers \cup answers
      BY DEF Steps
    <2> QED
      BY <2>2, <2>3
  <1>2. IsFiniteSet(K)
    BY <1>1, FS_Subset
  <1> QED
    BY <1>2, FS_CardinalityType

LEMMA HitsType ==
  ASSUME NEW T, NEW s \in Seq(T), NEW S
  PROVE  Hits(s, S) \in Nat /\ Len(s) \in Nat /\ Places(s, S) \in SUBSET (1..Len(s))
  <1>1. Len(s) \in Nat /\ DOMAIN s = 1..Len(s)
    BY LenProperties
  <1> QED
    BY <1>1, IndexSetFinite DEF Hits, Places

LEMMA AppendHits ==
  ASSUME NEW T, NEW s \in Seq(T), NEW e \in T, NEW S
  PROVE  Hits(Append(s, e), S) = Hits(s, S) + One(e \in S)
  <1>1. /\ Append(s, e) \in Seq(T) /\ Len(Append(s, e)) = Len(s) + 1
        /\ \A k \in 1..Len(s) : Append(s, e)[k] = s[k]
        /\ Append(s, e)[Len(s) + 1] = e
    BY AppendProperties
  <1>2. /\ Len(s) \in Nat /\ DOMAIN s = 1..Len(s)
        /\ DOMAIN Append(s, e) = 1..(Len(s) + 1)
    BY <1>1, LenProperties
  <1>3. Places(Append(s, e), S) =
          IF e \in S THEN Places(s, S) \cup {Len(s) + 1} ELSE Places(s, S)
    BY <1>1, <1>2 DEF Places
  <1>4. /\ Len(s) \in Nat /\ Places(s, S) \in SUBSET (1..Len(s))
        /\ Cardinality(Places(s, S)) \in Nat
    BY HitsType DEF Hits
  <1>5. CASE e \in S
    BY <1>3, <1>4, <1>5, CountGrown DEF Hits, One
  <1>6. CASE e \notin S
    BY <1>3, <1>4, <1>6 DEF Hits, One
  <1> QED
    BY <1>5, <1>6

LEMMA TailHits ==
  ASSUME NEW T, NEW s \in Seq(T), s # <<>>, NEW S
  PROVE  Hits(s, S) = Hits(Tail(s), S) + One(Head(s) \in S)
  <1>1. /\ Tail(s) \in Seq(T) /\ Len(Tail(s)) = Len(s) - 1 /\ Head(s) = s[1]
        /\ \A k \in 1..Len(Tail(s)) : Tail(s)[k] = s[k + 1]
    BY HeadTailProperties
  <1>2. /\ Len(s) \in Nat /\ Len(s) # 0 /\ DOMAIN s = 1..Len(s)
        /\ DOMAIN Tail(s) = 1..(Len(s) - 1)
    BY <1>1, LenProperties, EmptySeq
  <1>3. Places(Tail(s), S) = {k \in 1..(Len(s) - 1) : k + 1 \in Places(s, S)}
    BY <1>1, <1>2 DEF Places
  <1>4. 1 \in Places(s, S) <=> Head(s) \in S
    BY <1>1, <1>2 DEF Places
  <1>5. Cardinality(Places(s, S)) = Cardinality(Places(Tail(s), S)) + One(1 \in Places(s, S))
    BY <1>2, <1>3, HitsType, CountShifted
  <1> QED
    BY <1>4, <1>5 DEF Hits, One

(* -- the inductive invariant -------------------------------------------------- *)

LiveOutcomes == {t \in Task : t.kind = "observer" /\ t.flag = peer.flag}
SentDescriptions == {t \in Task : IsSent(t, "description")}
Descriptions == {r \in Request : IsPayload(r, "description")}

(* The continuations of the action in flight, counted place by place.          *)
Underway ==
  Cardinality(peer.pending) + Hits(tasks, LiveOutcomes) + Hits(net, Descriptions)
    + Hits(tasks, SentDescriptions)

InFlight == loop \in {"starting", "running"} => Underway = One(neg.busy)

(* The timer that bounds the call is on its way.                               *)
Armed ==
  loop = "running" /\ ~finished =>
    /\ ~callEstablished => IsArmed([kind |-> "startup", gen |-> startupGen])
    /\ callEstablished => IsArmed([kind |-> "duration", gen |-> durationGen])

Byes == {r \in Request : IsPayload(r, "bye")}
SentByes == {t \in Task : IsSent(t, "bye")}

(* The bye, on its way or answered.                                            *)
ByeWaits ==
  loop \in {"starting", "running"} =>
    Hits(net, Byes) + Hits(tasks, SentByes) = One(finished)

Registering == {r \in Request : r.op = "register"}
Registered == {t \in Task : t.kind = "registered"}

Errors == {k \in DOMAIN tasks : tasks[k].kind = "error"}
Fresh == {k \in DOMAIN tasks : tasks[k].kind = "opened" /\ \A l \in Errors : k < l}

Registrations ==
  Cardinality(Fresh) + Hits(net, Registering) + Hits(tasks, Registered) + One(neg.ready)

(* A websocket that is not open, and whose error is not queued, has not opened *)
(* before; it starts to connect once, after the join.                          *)
RegisteredOnce ==
  ~finished =>
    /\ ~closing
    /\ Registrations <= 1
    /\ socket = "idle" \/ (socket = "connecting" /\ Errors = {}) => Registrations = 0
    /\ joined = "none" => socket = "idle"
    /\ \A k \in DOMAIN net : net[k].op = "connect" =>
         socket = "idle" /\ \A l \in DOMAIN net : net[l].op = "connect" => k = l

FlowInv == ClosingInv /\ InFlight /\ Armed /\ ByeWaits /\ RegisteredOnce

(* -- what a handler that leaves the loop running does -------------------------- *)

(* The action in flight goes on without the task that is run.                  *)
Spared == neg.busy /\ Head(tasks) \notin LiveOutcomes \cup SentDescriptions

(* What becomes of the action in flight; sent: a description is sent.          *)
Turn(sent) ==
  \/ (neg'.busy <=> Spared) /\ peer'.pending = peer.pending /\ ~sent
  \/ /\ ~Spared /\ neg'.busy /\ ~sent
     /\ \E step \in Steps : peer'.pending = peer.pending \cup {step}
  \/ ~Spared /\ neg'.busy /\ peer'.pending = peer.pending /\ sent

(* A request that a task of this kind makes; the bye goes with finished_.      *)
Asked(r, kind) ==
  /\ r \in Request
  /\ r.op = "connect" => kind = "joined" /\ ~finished
  /\ r.op = "register" => kind = "opened"
  /\ IsPayload(r, "bye") <=> ~finished /\ finished'

Steered ==
  \/ net' = net /\ (finished <=> finished') /\ Turn(FALSE)
  \/ \E r : /\ net' = Append(net, r) /\ Asked(r, Head(tasks).kind)
           /\ Turn(IsPayload(r, "description"))

(* The timer that bounds the call is not the task, or another one is set.      *)
Timed ==
  finished' \/
    \/ callEstablished' /\ [kind |-> "duration", gen |-> durationGen'] \in timers'
    \/ /\ UNCHANGED <<callEstablished, startupGen, durationGen>>
       /\ timers \subseteq timers'
       /\ Head(tasks) = [kind |-> "startup", gen |-> startupGen] => callEstablished
       /\ Head(tasks) = [kind |-> "duration", gen |-> durationGen] => ~callEstablished

Ran ==
  /\ loop = "running" /\ tasks' = Tail(tasks)
  /\ finished => finished'
  /\ Head(tasks).kind = "error" => finished'
  /\ ~finished' /\ neg'.ready => neg.ready \/ Head(tasks).kind = "registered"
  /\ Steered /\ Timed

(* A handler runs, after which the loop still does.                            *)
Runs == ClosingInv /\ InTask /\ loop' = "running"

(* -- the parts handlers share -------------------------------------------------- *)

LEMMA FinishRuns ==
  ASSUME NEW reason, NEW role, NEW p, Finish(reason, role, p), loop' = "running"
  PROVE  /\ tasks' = Tail(tasks) /\ peer' = p /\ finished' /\ loop = "running"
         /\ \/ finished /\ net' = net
            \/ /\ ~finished /\ reason = "LocalDurationReached"
               /\ net' = Append(net, SendRequest(role, "bye"))
  <1>1. CASE finished /\ Continue /\ peer' = p /\ UNCHANGED <<net, state>>
    BY <1>1 DEF Continue, finishVars
  <1>2. CASE ~finished
    <2>1. finished' = TRUE
      BY <1>2 DEF Finish
    <2>2. CASE reason = "LocalDurationReached" /\ role # "none"
      BY <1>2, <2>1, <2>2 DEF Finish
    <2>3. CASE ~(reason = "LocalDurationReached" /\ role # "none")
      BY <1>2, <2>3 DEF Finish, CompleteFinish
    <2> QED
      BY <2>2, <2>3
  <1> QED
    BY <1>1, <1>2 DEF Finish

LEMMA ByeAsked ==
  ASSUME NEW role, ~finished, finished', NEW kind
  PROVE  /\ Asked(SendRequest(role, "bye"), kind)
         /\ ~IsPayload(SendRequest(role, "bye"), "description")
  BY RequestType DEF Asked, SendRequest, IsPayload, Payloads

(* The handler at most ends the call.                                          *)
LEMMA FinishRan ==
  ASSUME Runs, NEW reason, NEW p, p.pending = peer.pending, Finish(reason, joined, p),
         neg'.busy <=> Spared
  PROVE  Ran
  <1>1. /\ tasks' = Tail(tasks) /\ peer' = p /\ finished' /\ loop = "running"
        /\ \/ finished /\ net' = net
           \/ ~finished /\ net' = Append(net, SendRequest(joined, "bye"))
    BY FinishRuns DEF Runs
  <1>2. Turn(FALSE)
    BY <1>1 DEF Turn
  <1>3. CASE finished /\ net' = net
    BY <1>1, <1>2, <1>3 DEF Ran, Steered, Timed
  <1>4. CASE ~finished /\ net' = Append(net, SendRequest(joined, "bye"))
    <2> DEFINE r == SendRequest(joined, "bye")
    <2>1. Asked(r, Head(tasks).kind) /\ ~IsPayload(r, "description")
      BY <1>1, <1>4, ByeAsked
    <2>2. net' = Append(net, r)
      BY <1>4
    <2> HIDE DEF r
    <2>3. Turn(IsPayload(r, "description"))
      BY <1>1, <2>1 DEF Turn
    <2> QED
      BY <1>1, <2>1, <2>2, <2>3 DEF Ran, Steered, Timed
  <1> QED
    BY <1>1, <1>3, <1>4

(* The handler goes on without a request.                                      *)
LEMMA ContinueRan ==
  ASSUME Runs, Continue, net' = net, timers \subseteq timers',
         UNCHANGED callEstablished, Turn(FALSE), Head(tasks).kind # "error",
         Head(tasks) = [kind |-> "startup", gen |-> startupGen] => callEstablished \/ finished,
         Head(tasks) = [kind |-> "duration", gen |-> durationGen] => ~callEstablished \/ finished,
         neg'.ready => neg.ready \/ Head(tasks).kind = "registered"
  PROVE  Ran
  <1>1. tasks' = Tail(tasks) /\ UNCHANGED <<finished, startupGen, durationGen, loop>>
    BY DEF Continue, finishVars
  <1> QED
    BY <1>1 DEF Runs, Ran, Steered, Timed

(* The handler goes on with a request.                                         *)
LEMMA AskRan ==
  ASSUME Runs, Continue, NEW r, net' = Append(net, r), Asked(r, Head(tasks).kind),
         timers \subseteq timers', UNCHANGED callEstablished,
         Turn(IsPayload(r, "description")), neg'.ready <=> neg.ready,
         Head(tasks).kind \notin {"error", "startup", "duration"}
  PROVE  Ran
  <1>1. /\ tasks' = Tail(tasks) /\ UNCHANGED <<finished, startupGen, durationGen, loop>>
        /\ Head(tasks) # [kind |-> "startup", gen |-> startupGen]
        /\ Head(tasks) # [kind |-> "duration", gen |-> durationGen]
    BY DEF Continue, finishVars
  <1> QED
    BY <1>1 DEF Runs, Ran, Steered, Timed

(* -- negotiation ------------------------------------------------------------- *)

(* The negotiation n goes on, idle or with a new operation.                    *)
Pumped(n) ==
  /\ Continue /\ net' = net /\ (neg'.ready <=> n.ready)
  /\ \/ (neg'.busy <=> n.busy) /\ peer'.pending = peer.pending
     \/ /\ ~n.busy /\ neg'.busy
        /\ \E step \in Steps : peer'.pending = peer.pending \cup {step}

LEMMA FinishQuits ==
  ASSUME NEW reason, NEW role, NEW p, Finish(reason, role, p), ~finished,
         reason # "LocalDurationReached"
  PROVE  loop' # "running"
  BY FinishRuns

LEMMA StartPumped ==
  ASSUME NEW n \in Negotiation, ~n.busy, NEW m \in Negotiation, m.ready = n.ready,
         NEW p \in Peer, p.pending = peer.pending, NEW step \in Steps,
         StartNegotiating(m, p, step)
  PROVE  Pumped(n)
  <1>1. /\ neg' = [m EXCEPT !.busy = TRUE] /\ peer' = Start(p, step) /\ net' = net
        /\ Continue
    BY DEF StartNegotiating
  <1>2. neg'.busy /\ (neg'.ready <=> n.ready)
    BY <1>1 DEF Negotiation
  <1>3. peer'.pending = peer.pending \cup {step}
    BY <1>1 DEF Start, Peer
  <1> QED
    BY <1>1, <1>2, <1>3 DEF Pumped

LEMMA NextPumped ==
  ASSUME ~finished, loop' = "running", NEW n \in Negotiation, ~n.busy,
         NEW p \in Peer, p.pending = peer.pending, PumpNext(n, p)
  PROVE  Pumped(n)
  <1> DEFINE rest == [n EXCEPT !.queue = Tail(@)]
             first == [n EXCEPT !.offered = TRUE]
  <1>1. CASE StartNegotiating(first, p, "createOffer")
    <2>1. first \in Negotiation /\ first.ready = n.ready
      BY DEF Negotiation
    <2> QED
      BY <1>1, <2>1, StartPumped DEF Steps
  <1>2. CASE neg' = n /\ peer' = p /\ UNCHANGED net /\ Continue
    BY <1>2 DEF Pumped
  <1>3. CASE \E reason : reason # "LocalDurationReached" /\ Finish(reason, joined, p)
    BY <1>3, FinishQuits
  <1>4. CASE /\ n.queue # <<>>
             /\ \E step \in {"setRemoteAnswer", "setRemoteOffer"} :
                  ApplyDescription(rest, p, step)
    <2>1. rest \in Negotiation /\ rest.ready = n.ready
      BY <1>4, RestType DEF Negotiation
    <2> HIDE DEF rest
    <2>2. PICK step \in Steps : StartNegotiating(rest, p, step)
      BY <1>4, FinishQuits DEF ApplyDescription, Steps
    <2> QED
      BY <2>1, <2>2, StartPumped
  <1>5. CASE n.queue # <<>> /\ Finish(IF callEstablished THEN "RemoteByeAfterEstablished"
                                        ELSE "RemoteByeBeforeEstablished", joined, p)
    BY <1>5, FinishQuits
  <1> QED
    BY <1>1, <1>2, <1>3, <1>4, <1>5 DEF PumpNext

LEMMA PumpPumped ==
  ASSUME loop' = "running", NEW n \in Negotiation, NEW p \in Peer,
         p.pending = peer.pending, PumpSignalingMessages(n, p)
  PROVE  Pumped(n)
  <1>1. CASE neg' = n /\ peer' = p /\ UNCHANGED <<net, state>> /\ Continue
    BY <1>1 DEF Pumped
  <1>2. ASSUME ~finished, ~n.busy, NEW k \in 0..Len(n.queue),
               LET ids == [l \in 1..k |-> n.queue[l].id]
                   After(l) == [n EXCEPT !.queue = SubSeq(@, l, Len(@))]
                   added == AddRemoteCandidates(p, ids)
               IN  \/ PumpNext(After(k + 1), added)
                   \/ Finish("PeerConnectionError", joined, added)
        PROVE  Pumped(n)
    <2> DEFINE ids == [l \in 1..k |-> n.queue[l].id]
               m == [n EXCEPT !.queue = SubSeq(@, k + 1, Len(@))]
               added == AddRemoteCandidates(p, ids)
    <2>1. k + 1 \in Nat \ {0} /\ n.queue \in Seq(Message)
      BY LenProperties DEF Negotiation
    <2>2. ids \in Seq(Nat)
      <3>1. \A l \in 1..k : n.queue[l] \in Message
        BY <2>1, ElementOfSeq, LenProperties
      <3>2. ids \in [1..k -> Nat]
        BY <3>1 DEF Message
      <3> QED
        BY <2>1, <3>2, SeqDef
    <2>3. added \in Peer /\ added.pending = p.pending
      <3> HIDE DEF ids
      <3> QED
        BY <2>2, AddType DEF AddRemoteCandidates, Peer
    <2>4. m \in Negotiation
      BY <2>1, AfterType
    <2>5. m.busy = n.busy /\ m.ready = n.ready
      BY DEF Negotiation
    <2>6. PumpNext(m, added) \/ Finish("PeerConnectionError", joined, added)
      BY <1>2
    <2> HIDE DEF m, added
    <2>7. PumpNext(m, added)
      BY <1>2, <2>6, FinishQuits
    <2>8. Pumped(m)
      BY <1>2, <2>3, <2>4, <2>5, <2>7, NextPumped
    <2> QED
      BY <2>5, <2>8 DEF Pumped
  <1> QED
    BY <1>1, <1>2 DEF PumpSignalingMessages

(* A handler that pumps the queue of n.                                        *)
LEMMA PumpRan ==
  ASSUME Runs, NEW n \in Negotiation, NEW p \in Peer, p.pending = peer.pending,
         PumpSignalingMessages(n, p), n.busy <=> Spared,
         n.ready => neg.ready \/ Head(tasks).kind = "registered",
         timers \subseteq timers', UNCHANGED callEstablished,
         Head(tasks).kind \notin {"error", "startup", "duration"}
  PROVE  Ran
  <1>1. Pumped(n)
    BY PumpPumped DEF Runs
  <1>2. Turn(FALSE)
    BY <1>1 DEF Pumped, Turn
  <1>3. /\ Head(tasks) # [kind |-> "startup", gen |-> startupGen]
        /\ Head(tasks) # [kind |-> "duration", gen |-> durationGen]
    OBVIOUS
  <1> QED
    BY <1>1, <1>2, <1>3, ContinueRan DEF Pumped

(* -- the handlers ------------------------------------------------------------ *)

LEMMA RunsFacts ==
  ASSUME Runs
  PROVE  /\ TypeOK /\ Usable(peer) /\ peer \in Peer /\ neg \in Negotiation
         /\ tasks \in Seq(Task) /\ tasks # <<>> /\ Head(tasks) \in Task
         /\ Settled \in Negotiation /\ ~Settled.busy /\ Settled.ready = neg.ready
  <1>1. TypeOK /\ Usable(peer) /\ peer \in Peer /\ neg \in Negotiation
    BY InTaskFacts DEF Runs
  <1>2. tasks \in Seq(Task) /\ tasks # <<>> /\ Head(tasks) \in Task
    BY <1>1, TypeParts, TailType DEF Runs, InTask, HasTask
  <1>3. Settled \in Negotiation /\ ~Settled.busy /\ Settled.ready = neg.ready
    BY <1>1, SettledType DEF Settled, Negotiation
  <1> QED
    BY <1>1, <1>2, <1>3

LEMMA SparedFacts ==
  ASSUME Runs
  PROVE  /\ Head(tasks).kind \notin {"observer", "sent"} => (Spared <=> neg.busy)
         /\ Head(tasks).kind = "observer" => (Spared <=> neg.busy /\ ~Live(Head(tasks)))
         /\ Head(tasks).kind = "sent" =>
              (Spared <=> neg.busy /\ Head(tasks).what # "description")
  BY RunsFacts DEF Spared, LiveOutcomes, SentDescriptions, IsSent, Live

(* An action whose outcome is at the front of the queue is in flight.          *)
LEMMA HeadBusy ==
  ASSUME Runs, InFlight, Head(tasks) \in LiveOutcomes \cup SentDescriptions,
         loop = "running"
  PROVE  neg.busy
  <1>1. Underway = One(neg.busy)
    BY DEF InFlight
  <1>2. /\ Hits(tasks, LiveOutcomes) = Hits(Tail(tasks), LiveOutcomes)
             + One(Head(tasks) \in LiveOutcomes)
        /\ Hits(tasks, SentDescriptions) = Hits(Tail(tasks), SentDescriptions)
             + One(Head(tasks) \in SentDescriptions)
    BY RunsFacts, TailHits
  <1>3. /\ Hits(Tail(tasks), LiveOutcomes) \in Nat
        /\ Hits(Tail(tasks), SentDescriptions) \in Nat
        /\ Hits(net, Descriptions) \in Nat
    BY RunsFacts, HitsType, TypeParts, HeadTailProperties
  <1>4. Cardinality(peer.pending) \in Nat
    BY RunsFacts, StepsFinite DEF Peer
  <1>5. One(Head(tasks) \in LiveOutcomes) + One(Head(tasks) \in SentDescriptions) >= 1
    BY DEF One
  <1>6. Underway # 0
    BY <1>2, <1>3, <1>4, <1>5 DEF Underway, One
  <1> QED
    BY <1>1, <1>6 DEF One

LEMMA IgnoreRan ==
  ASSUME Runs, Ignore, Spared <=> neg.busy, Head(tasks).kind # "error",
         Head(tasks) = [kind |-> "startup", gen |-> startupGen] => callEstablished \/ finished,
         Head(tasks) = [kind |-> "duration", gen |-> durationGen] => ~callEstablished \/ finished
  PROVE  Ran
  <1>1. Continue /\ UNCHANGED <<net, timers, peer, neg, callEstablished>>
    BY DEF Ignore, mediaVars
  <1>2. Turn(FALSE)
    BY <1>1 DEF Turn
  <1> QED
    BY <1>1, <1>2, ContinueRan

LEMMA OnJoinCompleteRan == Runs /\ OnJoinComplete => Ran
  <1> SUFFICES ASSUME Runs, OnJoinComplete PROVE Ran
    OBVIOUS
  <1>1. Head(tasks).kind = "joined"
    BY DispatchedTask DEF OnJoinComplete
  <1>2. (Spared <=> neg.busy) /\ peer \in Peer /\ neg \in Negotiation
    BY <1>1, SparedFacts, RunsFacts
  <1>3. CASE Ignore
    BY <1>1, <1>2, <1>3, IgnoreRan
  <1>4. CASE Finish("SignalingError", joined, peer) /\ neg' = neg
    BY <1>2, <1>4, FinishRan
  <1>5. CASE /\ ~finished
             /\ \/ Finish("PeerConnectionError", joined', peer)
                \/ Finish("MediaError", joined', Initialize(peer))
    BY <1>5, FinishQuits DEF Runs
  <1>6. CASE /\ ~finished /\ \E queue : neg' = [neg EXCEPT !.queue = @ \o queue]
             /\ peer' = Initialize(peer) /\ net' = Append(net, ConnectRequest) /\ Continue
             /\ UNCHANGED <<timers, mediaVars>>
    <2>1. neg'.busy = neg.busy /\ neg'.ready = neg.ready
      BY <1>2, <1>6 DEF Negotiation
    <2>2. peer'.pending = peer.pending
      BY <1>2, <1>6 DEF Initialize, Peer
    <2>3. Asked(ConnectRequest, "joined") /\ ~IsPayload(ConnectRequest, "description")
      BY <1>6, RequestType DEF Asked, ConnectRequest, IsPayload, Continue, finishVars
    <2>4. Turn(IsPayload(ConnectRequest, "description"))
      BY <1>2, <2>1, <2>2, <2>3 DEF Turn
    <2> QED
      BY <1>1, <1>6, <2>1, <2>3, <2>4, AskRan DEF mediaVars
  <1> QED
    BY <1>3, <1>4, <1>5, <1>6 DEF OnJoinComplete

LEMMA OnWebSocketOpenRan == Runs /\ OnWebSocketOpen => Ran
  <1> SUFFICES ASSUME Runs, OnWebSocketOpen PROVE Ran
    OBVIOUS
  <1>1. Head(tasks).kind = "opened"
    BY DispatchedTask DEF OnWebSocketOpen
  <1>2. Spared <=> neg.busy
    BY <1>1, SparedFacts
  <1>3. CASE Ignore
    BY <1>1, <1>2, <1>3, IgnoreRan
  <1>4. CASE /\ ~finished /\ net' = Append(net, RegisterRequest) /\ Continue
             /\ UNCHANGED <<timers, peer, neg, mediaVars>>
    <2>1. Asked(RegisterRequest, "opened") /\ ~IsPayload(RegisterRequest, "description")
      BY <1>4, RequestType DEF Asked, RegisterRequest, IsPayload, Continue, finishVars
    <2>2. Turn(IsPayload(RegisterRequest, "description"))
      BY <1>2, <1>4, <2>1 DEF Turn
    <2> QED
      BY <1>1, <1>4, <2>1, <2>2, AskRan DEF mediaVars
  <1> QED
    BY <1>3, <1>4 DEF OnWebSocketOpen

LEMMA OnRegisterCompleteRan == Runs /\ OnRegisterComplete => Ran
  <1> SUFFICES ASSUME Runs, OnRegisterComplete PROVE Ran
    OBVIOUS
  <1>1. Head(tasks).kind = "registered"
    BY DispatchedTask DEF OnRegisterComplete
  <1>2. (Spared <=> neg.busy) /\ peer \in Peer /\ neg \in Negotiation
    BY <1>1, SparedFacts, RunsFacts
  <1>3. CASE Ignore
    BY <1>1, <1>2, <1>3, IgnoreRan
  <1>4. CASE Finish("SignalingError", joined, peer) /\ neg' = neg
    BY <1>2, <1>4, FinishRan
  <1>5. CASE /\ timers \subseteq timers'
             /\ PumpSignalingMessages([neg EXCEPT !.ready = TRUE], peer)
             /\ UNCHANGED mediaVars
    <2> DEFINE n == [neg EXCEPT !.ready = TRUE]
    <2>1. n \in Negotiation /\ n.busy = neg.busy
      BY <1>2 DEF Negotiation
    <2>2. PumpSignalingMessages(n, peer)
      BY <1>5
    <2> HIDE DEF n
    <2> QED
      BY <1>1, <1>2, <1>5, <2>1, <2>2, PumpRan DEF mediaVars
  <1> QED
    BY <1>3, <1>4, <1>5 DEF OnRegisterComplete

LEMMA OnInboundRan == Runs /\ OnInboundSignalingMessage => Ran
  <1> SUFFICES ASSUME Runs, OnInboundSignalingMessage PROVE Ran
    OBVIOUS
  <1>1. Head(tasks).kind = "inbound"
    BY DispatchedTask DEF OnInboundSignalingMessage
  <1>2. (Spared <=> neg.busy) /\ peer \in Peer /\ neg \in Negotiation
    BY <1>1, SparedFacts, RunsFacts
  <1>3. CASE Ignore
    BY <1>1, <1>2, <1>3, IgnoreRan
  <1>4. CASE /\ PumpSignalingMessages([neg EXCEPT !.queue = Append(@, Head(tasks).msg)], peer)
             /\ UNCHANGED <<timers, mediaVars>>
    <2> DEFINE n == [neg EXCEPT !.queue = Append(@, Head(tasks).msg)]
    <2>1. Append(neg.queue, Head(tasks).msg) \in Seq(Message)
      BY <1>1, <1>2, RunsFacts, TaskFields, AppendProperties DEF Runs, InTask, Negotiation
    <2>2. n \in Negotiation /\ n.busy = neg.busy /\ n.ready = neg.ready
      BY <1>2, <2>1 DEF Negotiation
    <2>3. PumpSignalingMessages(n, peer)
      BY <1>4
    <2> HIDE DEF n
    <2> QED
      BY <1>1, <1>2, <1>4, <2>2, <2>3, PumpRan DEF mediaVars
  <1> QED
    BY <1>3, <1>4 DEF OnInboundSignalingMessage

LEMMA OnSignalingErrorRan == Runs /\ OnSignalingError => Ran
  <1> SUFFICES ASSUME Runs, OnSignalingError PROVE Ran
    OBVIOUS
  <1>1. Head(tasks).kind = "error"
    BY DispatchedTask DEF OnSignalingError
  <1>2. Spared <=> neg.busy
    BY <1>1, SparedFacts
  <1> QED
    BY <1>2, FinishRan DEF OnSignalingError

LEMMA OnSentRan ==
  Runs /\ (OnDescriptionSent \/ OnCandidateSent \/ OnByeSent) => Ran
  <1> SUFFICES ASSUME Runs, OnDescriptionSent \/ OnCandidateSent \/ OnByeSent PROVE Ran
    OBVIOUS
  <1>1. Head(tasks).kind = "sent"
    BY DispatchedTask DEF OnDescriptionSent, OnCandidateSent, OnByeSent
  <1>2. /\ Settled \in Negotiation /\ ~Settled.busy /\ Settled.ready = neg.ready
        /\ peer \in Peer
        /\ Spared <=> neg.busy /\ Head(tasks).what # "description"
    BY <1>1, RunsFacts, SparedFacts
  <1>3. CASE OnDescriptionSent
    <2>1. ~Spared /\ UNCHANGED <<timers, mediaVars>>
      BY <1>2, <1>3 DEF OnDescriptionSent
    <2>2. CASE PumpSignalingMessages(Settled, peer)
      <3> QED
        BY <1>1, <1>2, <2>1, <2>2, PumpRan DEF mediaVars
    <2>3. CASE neg' = Settled /\ Finish("SignalingError", joined, peer)
      BY <1>2, <2>1, <2>3, FinishRan
    <2> QED
      BY <1>3, <2>2, <2>3 DEF OnDescriptionSent
  <1>4. CASE OnCandidateSent
    <2>1. Spared <=> neg.busy
      BY <1>2, <1>4 DEF OnCandidateSent
    <2>2. CASE Ignore
      BY <1>1, <2>1, <2>2, IgnoreRan
    <2>3. CASE neg' = neg /\ Finish("SignalingError", joined, peer)
      BY <2>1, <2>3, FinishRan
    <2> QED
      BY <1>4, <2>2, <2>3 DEF OnCandidateSent
  <1>5. CASE OnByeSent
    BY <1>5 DEF Runs, OnByeSent, CompleteFinish
  <1> QED
    BY <1>3, <1>4, <1>5

(* A flushed peer client starts what the given one had started.                *)
LEMMA FlushPending ==
  ASSUME Runs
  PROVE  LET flushed == FlushPendingRemoteCandidates(peer)
         IN  /\ flushed \in Peer /\ flushed.pending = peer.pending
             /\ \A k : FlushRefused(peer, k).pending = peer.pending
  <1>1. peer \in Peer
    BY RunsFacts
  <1>2. FlushPendingRemoteCandidates(peer) \in Peer
    BY <1>1, FlushType
  <1> QED
    BY <1>1, <1>2 DEF FlushPendingRemoteCandidates, FlushRefused, Peer

LEMMA StartPending ==
  ASSUME NEW p \in Peer, NEW step
  PROVE  Start(p, step).pending = p.pending \cup {step}
  BY DEF Start, Peer

LEMMA OnObserverRan ==
  Runs /\ InFlight
    /\ (OnStepFailed \/ OnCreated \/ OnLocalDescriptionSet \/ OnRemoteDescriptionSet)
    => Ran
  <1> SUFFICES ASSUME Runs, InFlight, \/ OnStepFailed \/ OnCreated
                                      \/ OnLocalDescriptionSet \/ OnRemoteDescriptionSet
               PROVE  Ran
    OBVIOUS
  <1>1. Head(tasks).kind = "observer" /\ Live(Head(tasks)) /\ loop = "running"
    BY DispatchedTask, LiveOutcome
    DEF Runs, RunningLive, OnStepFailed, OnCreated, OnLocalDescriptionSet,
        OnRemoteDescriptionSet
  <1>2. /\ Settled \in Negotiation /\ ~Settled.busy /\ Settled.ready = neg.ready
        /\ peer \in Peer /\ ~Spared
    BY <1>1, RunsFacts, SparedFacts
  <1>3. neg.busy
    BY <1>1, RunsFacts, HeadBusy DEF LiveOutcomes, Live
  <1>4. CASE OnStepFailed
    BY <1>2, <1>4, FinishRan DEF OnStepFailed
  <1>5. CASE OnCreated
    <2>1. NextStep[Head(tasks).step] \in Steps
      BY <1>5 DEF OnCreated, NextStep, Steps
    <2>2. /\ peer' = Start(peer, NextStep[Head(tasks).step]) /\ Continue
          /\ UNCHANGED <<timers, net, neg, callEstablished>>
      BY <1>5 DEF OnCreated, clientVars, mediaVars
    <2>3. peer'.pending = peer.pending \cup {NextStep[Head(tasks).step]}
      BY <1>2, <2>2, StartPending
    <2>4. Turn(FALSE)
      BY <1>2, <1>3, <2>1, <2>2, <2>3 DEF Turn
    <2> QED
      BY <1>1, <2>2, <2>4, ContinueRan
  <1>6. CASE OnLocalDescriptionSet
    <2> DEFINE r == SendRequest(joined, "description")
    <2>1. r \in Request /\ IsPayload(r, "description") /\ ~IsPayload(r, "bye")
          /\ r.op \notin {"connect", "register"}
      BY RequestType DEF SendRequest, Payloads, IsPayload
    <2>2. /\ net' = Append(net, r) /\ Continue
          /\ UNCHANGED <<timers, neg, peer, callEstablished>>
      BY <1>6 DEF OnLocalDescriptionSet, SendLocalDescription, mediaVars
    <2> HIDE DEF r
    <2>3. Asked(r, Head(tasks).kind)
      BY <2>1, <2>2 DEF Asked, Continue, finishVars
    <2>4. Turn(IsPayload(r, "description"))
      BY <1>2, <1>3, <2>1, <2>2 DEF Turn
    <2> QED
      BY <1>1, <2>2, <2>3, <2>4, AskRan
  <1>7. CASE OnRemoteDescriptionSet
    <2> DEFINE flushed == FlushPendingRemoteCandidates(peer)
    <2>1. /\ flushed \in Peer /\ flushed.pending = peer.pending
          /\ \A k : FlushRefused(peer, k).pending = peer.pending
          /\ UNCHANGED <<timers, callEstablished>>
      BY <1>7, FlushPending DEF OnRemoteDescriptionSet, mediaVars
    <2> HIDE DEF flushed
    <2>2. CASE /\ peer' = Start(flushed, NextStep["setRemoteOffer"]) /\ Continue
               /\ UNCHANGED <<net, neg>>
      <3>1. NextStep["setRemoteOffer"] \in Steps
        BY DEF NextStep, Steps
      <3>2. peer'.pending = peer.pending \cup {NextStep["setRemoteOffer"]}
        BY <2>1, <2>2, StartPending
      <3>3. Turn(FALSE)
        BY <1>2, <1>3, <2>2, <3>1, <3>2 DEF Turn
      <3> QED
        BY <1>1, <2>1, <2>2, <3>3, ContinueRan
    <2>3. CASE PumpSignalingMessages(Settled, flushed)
      BY <1>1, <1>2, <2>1, <2>3, PumpRan
    <2>4. CASE /\ neg' = Settled
               /\ \E k \in 0..(Len(peer.buffered) - 1) :
                    Finish("PeerConnectionError", joined, FlushRefused(peer, k))
      <3>1. PICK p : /\ p.pending = peer.pending
                     /\ Finish("PeerConnectionError", joined, p)
        BY <2>1, <2>4
      <3> QED
        BY <1>2, <2>4, <3>1, FinishRan
    <2> QED
      BY <1>7, <2>2, <2>3, <2>4 DEF OnRemoteDescriptionSet, flushed
  <1> QED
    BY <1>4, <1>5, <1>6, <1>7

LEMMA OnIceCandidateRan == Runs /\ (OnIceCandidate \/ DropDead) => Ran
  <1> SUFFICES ASSUME Runs, OnIceCandidate \/ DropDead PROVE Ran
    OBVIOUS
  <1>1. /\ Head(tasks).kind \in {"observer", "localCandidate", "connection", "frame"}
        /\ Head(tasks).kind = "observer" => ~Live(Head(tasks))
    BY DispatchedTask DEF OnIceCandidate, DropDead, RunningLive
  <1>2. Spared <=> neg.busy
    BY <1>1, SparedFacts
  <1>3. CASE Ignore
    BY <1>1, <1>2, <1>3, IgnoreRan
  <1>4. CASE /\ net' = Append(net, SendRequest(joined, "candidate"))
             /\ Continue /\ UNCHANGED <<timers, peer, neg, mediaVars>>
    <2> DEFINE r == SendRequest(joined, "candidate")
    <2>1. r \in Request /\ ~IsPayload(r, "description") /\ ~IsPayload(r, "bye")
          /\ r.op \notin {"connect", "register"}
      BY RequestType DEF SendRequest, Payloads, IsPayload
    <2>2. /\ net' = Append(net, r) /\ Continue
          /\ UNCHANGED <<timers, neg, peer, callEstablished>>
      BY <1>4 DEF mediaVars
    <2> HIDE DEF r
    <2>3. Asked(r, Head(tasks).kind)
      BY <2>1, <2>2 DEF Asked, Continue, finishVars
    <2>4. Turn(IsPayload(r, "description"))
      BY <1>2, <2>1, <2>2 DEF Turn
    <2> QED
      BY <1>1, <2>2, <2>3, <2>4, AskRan
  <1> QED
    BY <1>3, <1>4 DEF OnIceCandidate, DropDead

(* What was reported is noted, and may establish the call.                     *)
LEMMA MarkRan ==
  ASSUME Runs, Head(tasks).kind \in {"connection", "frame"}, neg' = neg,
         peer'.pending = peer.pending,
         \/ MaybeMarkCallEstablished
         \/ Continue /\ UNCHANGED <<timers, net, callEstablished>>
  PROVE  Ran
  <1>1. Spared <=> neg.busy
    BY SparedFacts
  <1>2. Turn(FALSE)
    BY <1>1 DEF Turn
  <1>3. CASE Continue /\ UNCHANGED <<timers, net, callEstablished>>
    BY <1>2, <1>3, ContinueRan
  <1>4. CASE MaybeMarkCallEstablished
    <2>1. /\ tasks' = Tail(tasks) /\ UNCHANGED <<net, finished, loop>>
      BY <1>4 DEF MaybeMarkCallEstablished
    <2>2. Timed
      <3>1. CASE ~callEstablished /\ peerConnected' /\ remoteMediaSeen'
        BY <1>4, <3>1 DEF MaybeMarkCallEstablished, Timed
      <3>2. CASE ~(~callEstablished /\ peerConnected' /\ remoteMediaSeen')
        <4>1. UNCHANGED <<startupGen, durationGen, timers>>
              /\ (callEstablished' <=> callEstablished)
          BY <1>4, <3>2 DEF MaybeMarkCallEstablished
        <4>2. callEstablished' = callEstablished
          BY <1>4, <3>2, RunsFacts DEF MaybeMarkCallEstablished, TypeOK
        <4>3. /\ Head(tasks) # [kind |-> "startup", gen |-> startupGen]
              /\ Head(tasks) # [kind |-> "duration", gen |-> durationGen]
          OBVIOUS
        <4> QED
          BY <4>1, <4>2, <4>3 DEF Timed
      <3> QED
        BY <3>1, <3>2
    <2> QED
      BY <1>2, <2>1, <2>2 DEF Runs, Ran, Steered
  <1> QED
    BY <1>3, <1>4

LEMMA OnConnectionChangeRan == Runs /\ OnConnectionChange => Ran
  <1> SUFFICES ASSUME Runs, OnConnectionChange PROVE Ran
    OBVIOUS
  <1> DEFINE noted == [peer EXCEPT !.connected = Head(tasks).to = "connected"]
  <1>1. Head(tasks).kind = "connection" /\ neg' = neg
    BY DispatchedTask DEF OnConnectionChange, RunningLive
  <1>2. noted.pending = peer.pending /\ (Spared <=> neg.busy)
    BY <1>1, RunsFacts, SparedFacts DEF Peer
  <1>3. \/ Finish("PeerConnectionError", joined, noted)
        \/ /\ peer' = noted
           /\ \/ MaybeMarkCallEstablished
              \/ Continue /\ UNCHANGED <<timers, net, callEstablished>>
    BY DEF OnConnectionChange
  <1> HIDE DEF noted
  <1> QED
    BY <1>1, <1>2, <1>3, FinishRan, MarkRan

LEMMA OnFrameRan == Runs /\ OnFrame => Ran
  <1> SUFFICES ASSUME Runs, OnFrame PROVE Ran
    OBVIOUS
  <1>1. Head(tasks).kind = "frame" /\ neg' = neg
    BY DispatchedTask DEF OnFrame, RunningLive
  <1>2. peer'.pending = peer.pending
    BY RunsFacts DEF OnFrame, Peer
  <1> QED
    BY <1>1, <1>2, MarkRan DEF OnFrame

LEMMA OnTimerRan == Runs /\ (OnStartupTimeout \/ OnCallDuration \/ OnStats) => Ran
  <1> SUFFICES ASSUME Runs, OnStartupTimeout \/ OnCallDuration \/ OnStats PROVE Ran
    OBVIOUS
  <1>1. Head(tasks).kind \in TimerKinds
    BY DispatchedTask DEF OnStartupTimeout, OnCallDuration, OnStats, TimerKinds
  <1>2. Spared <=> neg.busy
    BY <1>1, SparedFacts DEF TimerKinds
  <1>3. CASE /\ \E reason : Finish(reason, joined, peer)
             /\ neg' = neg
    BY <1>2, <1>3, FinishRan
  <1>4. CASE OnStartupTimeout /\ Ignore
    <2>1. Head(tasks).kind = "startup"
      BY <1>4, DispatchedTask DEF OnStartupTimeout
    <2>2. CASE callEstablished \/ finished
      BY <1>2, <1>4, <2>1, <2>2, IgnoreRan
    <2>3. CASE Head(tasks).gen # startupGen
      BY <1>2, <1>4, <2>1, <2>3, IgnoreRan
    <2>4. CASE ~finished /\ \E reason : reason # "LocalDurationReached"
                                          /\ Finish(reason, joined, peer)
      BY <2>4, FinishQuits DEF Runs
    <2> QED
      BY <1>4, <2>2, <2>3, <2>4 DEF OnStartupTimeout
  <1>5. CASE OnCallDuration /\ Ignore
    <2>1. Head(tasks).kind = "duration"
      BY <1>5, DispatchedTask DEF OnCallDuration
    <2>2. CASE ~callEstablished \/ finished
      BY <1>2, <1>5, <2>1, <2>2, IgnoreRan
    <2>3. CASE Head(tasks).gen # durationGen
      BY <1>2, <1>5, <2>1, <2>3, IgnoreRan
    <2>4. CASE (\E reason : Finish(reason, joined, peer)) /\ neg' = neg
      BY <1>2, <2>4, FinishRan
    <2> QED
      BY <1>5, <2>2, <2>3, <2>4 DEF OnCallDuration, Ignore
  <1>6. CASE OnStats
    <2>1. /\ Head(tasks).kind = "stats" /\ Continue /\ timers \subseteq timers'
          /\ UNCHANGED <<net, peer, neg, callEstablished>>
      BY <1>6, DispatchedTask DEF OnStats, clientVars, mediaVars
    <2>2. Turn(FALSE)
      BY <1>2, <2>1 DEF Turn
    <2> QED
      BY <2>1, <2>2, ContinueRan
  <1> QED
    BY <1>3, <1>4, <1>5, <1>6 DEF OnStartupTimeout, OnCallDuration

LEMMA DispatchRan == Runs /\ InFlight /\ Dispatch => Ran
  BY OnJoinCompleteRan, OnWebSocketOpenRan, OnRegisterCompleteRan, OnInboundRan,
     OnSignalingErrorRan, OnSentRan, OnObserverRan, OnIceCandidateRan,
     OnConnectionChangeRan, OnFrameRan, OnTimerRan
  DEF Dispatch

(* -- a handler keeps the invariant -------------------------------------------- *)

(* A call that is over is past every obligation.                               *)
LEMMA OverFlow == ASSUME ClosingInv', loop' \notin {"starting", "running"} PROVE FlowInv'
  <1>1. finished'
    BY DEF ClosingInv, HonestInv, TypeOK, ThreadTypeOK, Phases, CodeKnown
  <1> QED
    BY <1>1 DEF FlowInv, InFlight, Armed, ByeWaits, RegisteredOnce

(* What is left of the queue, and what was asked.                              *)
LEMMA RanHits ==
  ASSUME Runs, Ran
  PROVE  /\ \A S : /\ Hits(tasks, S) \in Nat /\ Hits(tasks', S) \in Nat
                   /\ Hits(tasks, S) = Hits(tasks', S) + One(Head(tasks) \in S)
         /\ \A S : Hits(net, S) \in Nat
         /\ \A r, S : r \in Request /\ net' = Append(net, r) =>
              Hits(net', S) = Hits(net, S) + One(r \in S)
         /\ net \in Seq(Request) /\ tasks' = Tail(tasks)
  <1>1. /\ tasks \in Seq(Task) /\ tasks # <<>> /\ tasks' = Tail(tasks)
        /\ Tail(tasks) \in Seq(Task) /\ net \in Seq(Request)
    BY RunsFacts, TypeParts, HeadTailProperties DEF Ran
  <1>2. ASSUME NEW S
        PROVE  /\ Hits(tasks, S) \in Nat /\ Hits(tasks', S) \in Nat /\ Hits(net, S) \in Nat
               /\ Hits(tasks, S) = Hits(tasks', S) + One(Head(tasks) \in S)
    BY <1>1, HitsType, TailHits
  <1>3. ASSUME NEW r \in Request, NEW S, net' = Append(net, r)
        PROVE  Hits(net', S) = Hits(net, S) + One(r \in S)
    BY <1>1, <1>3, AppendHits
  <1> QED
    BY <1>1, <1>2, <1>3

LEMMA RanInFlight ==
  ASSUME Runs, Ran, InFlight, Moved PROVE InFlight'
  <1> DEFINE a == Cardinality(peer.pending)
             b == Hits(tasks', LiveOutcomes)
             c == Hits(net, Descriptions)
             d == Hits(tasks', SentDescriptions)
             h == One(Head(tasks) \in LiveOutcomes)
             i == One(Head(tasks) \in SentDescriptions)
  <1>1. a \in Nat /\ b \in Nat /\ c \in Nat /\ d \in Nat /\ h \in {0, 1} /\ i \in {0, 1}
    BY RanHits, RunsFacts, StepsFinite DEF Peer, One
  <1>2. One(neg.busy) = a + (b + h) + c + (d + i)
    BY RanHits DEF InFlight, Underway, Ran
  <1>3. peer'.flag = peer.flag
    BY DEF Runs, Moved, Moves, Works, Closes
  <1>4. LiveOutcomes' = LiveOutcomes
    BY <1>3 DEF LiveOutcomes
  <1>5. Underway' = Cardinality(peer'.pending) + b + Hits(net', Descriptions) + d
    BY <1>4 DEF Underway, Descriptions, SentDescriptions
  <1>6. Spared <=> neg.busy /\ h = 0 /\ i = 0
    BY DEF Spared, One
  <1>7. ~Spared => a = 0 /\ b = 0 /\ c = 0 /\ d = 0
    <2> HIDE DEF a, b, c, d, h, i
    <2> QED
      BY <1>1, <1>2, <1>6 DEF One
  <1>8. PICK sent \in BOOLEAN : /\ Turn(sent)
                                /\ Hits(net', Descriptions) = c + One(sent)
    <2>1. CASE net' = net /\ Turn(FALSE)
      <3>1. Hits(net', Descriptions) = c
        BY <2>1
      <3>2. c = c + One(FALSE)
        BY <1>1 DEF One
      <3> QED
        BY <2>1, <3>1, <3>2
    <2>2. ASSUME NEW r, net' = Append(net, r), r \in Request,
                 Turn(IsPayload(r, "description"))
          PROVE  \E sent \in BOOLEAN : /\ Turn(sent)
                                       /\ Hits(net', Descriptions) = c + One(sent)
      <3>1. Hits(net', Descriptions) = c + One(r \in Descriptions)
        BY <2>2, RanHits
      <3>2. CASE IsPayload(r, "description")
        <4>1. r \in Descriptions /\ Turn(TRUE)
          BY <2>2, <3>2 DEF Descriptions, Turn
        <4> QED
          BY <3>1, <4>1 DEF One
      <3>3. CASE ~IsPayload(r, "description")
        <4>1. r \notin Descriptions /\ Turn(FALSE)
          BY <2>2, <3>3 DEF Descriptions, Turn
        <4> QED
          BY <3>1, <4>1 DEF One
      <3> QED
        BY <3>2, <3>3
    <2> QED
      BY <2>1, <2>2 DEF Ran, Steered, Asked
  <1>9. Underway' = One(neg'.busy)
    <2>1. CASE (neg'.busy <=> Spared) /\ peer'.pending = peer.pending /\ ~sent
      <3>1. Underway' = a + b + c + d
        BY <1>1, <1>5, <1>8, <2>1 DEF One
      <3> HIDE DEF a, b, c, d, h, i
      <3>2. CASE Spared
        BY <1>1, <1>2, <1>6, <2>1, <3>1, <3>2 DEF One
      <3>3. CASE ~Spared
        BY <1>1, <1>7, <2>1, <3>1, <3>3 DEF One
      <3> QED
        BY <3>2, <3>3
    <2>2. CASE /\ ~Spared /\ neg'.busy /\ ~sent
               /\ \E step \in Steps : peer'.pending = peer.pending \cup {step}
      <3>1. PICK step \in Steps : peer'.pending = peer.pending \cup {step}
        BY <2>2
      <3>2. peer.pending = {}
        <4>1. IsFiniteSet(peer.pending) /\ Cardinality(peer.pending) = 0
          BY <1>7, <2>2, RunsFacts, StepsFinite DEF Peer
        <4> QED
          BY <4>1, FS_EmptySet
      <3>3. Cardinality(peer'.pending) = 1
        <4>1. peer'.pending = {step}
          BY <3>1, <3>2
        <4> QED
          BY <4>1, FS_Singleton
      <3>4. Underway' = 1
        BY <1>1, <1>5, <1>7, <1>8, <2>2, <3>3 DEF One
      <3> QED
        BY <2>2, <3>4 DEF One
    <2>3. CASE ~Spared /\ neg'.busy /\ peer'.pending = peer.pending /\ sent
      <3>1. Underway' = 1
        BY <1>1, <1>5, <1>7, <1>8, <2>3 DEF One
      <3> QED
        BY <2>3, <3>1 DEF One
    <2> QED
      BY <1>8, <2>1, <2>2, <2>3 DEF Turn
  <1> QED
    BY <1>9 DEF InFlight

LEMMA RanArmed == ASSUME Runs, Ran, Armed PROVE Armed'
  <1> SUFFICES ASSUME ~finished'
               PROVE  /\ ~callEstablished' =>
                           IsArmed([kind |-> "startup", gen |-> startupGen])'
                      /\ callEstablished' =>
                           IsArmed([kind |-> "duration", gen |-> durationGen])'
    BY DEF Armed
  <1>1. loop = "running" /\ ~finished
    BY DEF Ran
  <1>2. CASE callEstablished' /\ [kind |-> "duration", gen |-> durationGen'] \in timers'
    BY <1>2 DEF IsArmed
  <1>3. CASE /\ UNCHANGED <<callEstablished, startupGen, durationGen>>
             /\ timers \subseteq timers'
             /\ Head(tasks) = [kind |-> "startup", gen |-> startupGen] => callEstablished
             /\ Head(tasks) = [kind |-> "duration", gen |-> durationGen] => ~callEstablished
    <2>1. ASSUME NEW timer, timer # Head(tasks), IsArmed(timer)
          PROVE  timer \in timers' \/ \E k \in DOMAIN tasks' : tasks'[k] = timer
      <3>1. CASE timer \in timers
        BY <1>3, <3>1
      <3>2. ASSUME NEW k \in DOMAIN tasks, tasks[k] = timer
            PROVE  \E l \in DOMAIN tasks' : tasks'[l] = timer
        <4>1. /\ tasks' = Tail(tasks) /\ Len(tasks) \in Nat /\ DOMAIN tasks = 1..Len(tasks)
              /\ Head(tasks) = tasks[1] /\ DOMAIN Tail(tasks) = 1..(Len(tasks) - 1)
              /\ \A l \in 1..(Len(tasks) - 1) : Tail(tasks)[l] = tasks[l + 1]
          BY RunsFacts, HeadTailProperties, LenProperties DEF Ran
        <4>2. k # 1
          BY <2>1, <3>2, <4>1
        <4>3. k - 1 \in 1..(Len(tasks) - 1) /\ (k - 1) + 1 = k
          BY <4>1, <4>2
        <4> QED
          BY <3>2, <4>1, <4>3
      <3> QED
        BY <2>1, <3>1, <3>2 DEF IsArmed
    <2>2. CASE ~callEstablished
      BY <1>1, <1>3, <2>1, <2>2 DEF Armed, IsArmed
    <2>3. CASE callEstablished
      BY <1>1, <1>3, <2>1, <2>3 DEF Armed, IsArmed
    <2> QED
      BY <2>2, <2>3
  <1> QED
    BY <1>2, <1>3 DEF Ran, Timed

(* The bye's completion is handled by OnByeSent, and it quits.                 *)
LEMMA ByeQuits ==
  ASSUME Dispatch, Head(tasks).kind = "sent", Head(tasks).what = "bye"
  PROVE  loop' = "quit"
  <1>1. \A kind : Running(kind) => kind = "sent"
    BY DEF Running
  <1>2. OnByeSent
    BY <1>1
    DEF Dispatch, OnJoinComplete, OnWebSocketOpen, OnRegisterComplete,
        OnInboundSignalingMessage, OnSignalingError, OnDescriptionSent, OnCandidateSent,
        DropDead, OnStepFailed, OnCreated, OnLocalDescriptionSet, OnRemoteDescriptionSet,
        OnIceCandidate, OnConnectionChange, OnFrame, OnStartupTimeout, OnCallDuration,
        OnStats, RunningLive
  <1> QED
    BY <1>2 DEF OnByeSent, CompleteFinish

LEMMA RanByes == ASSUME Runs, Ran, ByeWaits, Dispatch PROVE ByeWaits'
  <1>1. Head(tasks) \notin SentByes
    BY ByeQuits DEF Runs, SentByes, IsSent
  <1>2. /\ Hits(net, Byes) + Hits(tasks, SentByes) = One(finished)
        /\ Hits(tasks', SentByes) = Hits(tasks, SentByes)
        /\ Hits(net, Byes) \in Nat /\ Hits(tasks, SentByes) \in Nat
    BY <1>1, RanHits DEF ByeWaits, Ran, One
  <1>3. Hits(net', Byes) + Hits(tasks', SentByes) = One(finished')
    <2>1. CASE net' = net /\ (finished <=> finished')
      BY <1>2, <2>1 DEF One
    <2>2. ASSUME NEW r, net' = Append(net, r), Asked(r, Head(tasks).kind)
          PROVE  Hits(net', Byes) + Hits(tasks', SentByes) = One(finished')
      <3>1. Hits(net', Byes) = Hits(net, Byes) + One(r \in Byes)
        BY <2>2, RanHits DEF Asked
      <3>2. r \in Byes <=> ~finished /\ finished'
        BY <2>2 DEF Asked, Byes
      <3>3. One(finished') = One(finished) + One(r \in Byes)
        BY <3>2 DEF Ran, One
      <3> QED
        BY <1>2, <3>1, <3>3 DEF One
    <2> QED
      BY <2>1, <2>2 DEF Ran, Steered
  <1> QED
    BY <1>3 DEF ByeWaits, Byes, SentByes

(* The openings not yet handled, after the first task.                         *)
LEMMA FreshFinite ==
  ASSUME TypeOK
  PROVE  /\ Len(tasks) \in Nat /\ DOMAIN tasks = 1..Len(tasks)
         /\ Errors \in SUBSET (1..Len(tasks)) /\ Fresh \in SUBSET (1..Len(tasks))
         /\ Cardinality(Fresh) \in Nat
  <1>1. Len(tasks) \in Nat /\ DOMAIN tasks = 1..Len(tasks)
    BY TypeParts, LenProperties
  <1>2. Errors \in SUBSET (1..Len(tasks)) /\ Fresh \in SUBSET (1..Len(tasks))
    BY <1>1 DEF Errors, Fresh
  <1> QED
    BY <1>1, <1>2, IndexSetFinite

LEMMA FreshShifted ==
  ASSUME Runs, Ran, Head(tasks).kind # "error"
  PROVE  /\ Cardinality(Fresh) = Cardinality(Fresh') + One(Head(tasks).kind = "opened")
         /\ Cardinality(Fresh) \in Nat /\ Cardinality(Fresh') \in Nat
         /\ Errors' = {} => Errors = {}
  <1> DEFINE n == Len(tasks)
  <1>1. /\ n \in Nat /\ n # 0 /\ DOMAIN tasks = 1..n /\ tasks' = Tail(tasks)
        /\ Head(tasks) = tasks[1] /\ DOMAIN Tail(tasks) = 1..(n - 1)
        /\ \A l \in 1..(n - 1) : Tail(tasks)[l] = tasks[l + 1]
    BY RunsFacts, HeadTailProperties, LenProperties, EmptySeq DEF Ran
  <1>2. Errors \in SUBSET (1..n) /\ Fresh \in SUBSET (1..n) /\ Cardinality(Fresh) \in Nat
    BY RunsFacts, FreshFinite
  <1>3. 1 \notin Errors
    BY <1>1 DEF Errors
  <1> HIDE DEF n
  <1>4. \A k \in 1..(n - 1) : k \in Errors' <=> k + 1 \in Errors
    BY <1>1 DEF Errors
  <1>5. Errors' \in SUBSET (1..(n - 1)) /\ Fresh' \in SUBSET (1..(n - 1))
    BY <1>1 DEF Errors, Fresh
  <1>6. ASSUME NEW l \in Errors PROVE l - 1 \in Errors' /\ l \in 1..n /\ l # 1
    <2>1. l \in 1..n /\ l # 1
      BY <1>2, <1>3
    <2>2. l - 1 \in 1..(n - 1) /\ (l - 1) + 1 = l
      BY <1>1, <2>1
    <2> QED
      BY <1>4, <2>1, <2>2
  <1>7. \A k \in 1..(n - 1) : k \in Fresh' <=> k + 1 \in Fresh
    <2> SUFFICES ASSUME NEW k \in 1..(n - 1) PROVE k \in Fresh' <=> k + 1 \in Fresh
      OBVIOUS
    <2>1. /\ k \in DOMAIN tasks' /\ k + 1 \in DOMAIN tasks
          /\ tasks'[k] = tasks[k + 1]
      BY <1>1
    <2>2. (\A l \in Errors' : k < l) <=> \A l \in Errors : k + 1 < l
      <3>1. ASSUME \A l \in Errors' : k < l, NEW l \in Errors PROVE k + 1 < l
        <4>1. k < l - 1 /\ l \in 1..n
          BY <1>6, <3>1
        <4> QED
          BY <1>1, <4>1
      <3>2. ASSUME \A l \in Errors : k + 1 < l, NEW l \in Errors' PROVE k < l
        <4>1. l \in 1..(n - 1)
          BY <1>5
        <4>2. k + 1 < l + 1
          BY <1>4, <3>2, <4>1
        <4> QED
          BY <1>1, <4>1, <4>2
      <3> QED
        BY <3>1, <3>2
    <2> QED
      BY <2>1, <2>2 DEF Fresh
  <1>8. Fresh' = {k \in 1..(n - 1) : k + 1 \in Fresh}
    BY <1>5, <1>7
  <1>9. Cardinality(Fresh) = Cardinality(Fresh') + One(1 \in Fresh)
    BY <1>1, <1>2, <1>8, CountShifted
  <1>10. 1 \in Fresh <=> Head(tasks).kind = "opened"
    <2>1. \A l \in Errors : 1 < l
      BY <1>1, <1>6
    <2> QED
      BY <1>1, <2>1 DEF Fresh
  <1>11. Cardinality(Fresh') \in Nat
    <2>1. n - 1 \in Nat
      BY <1>1
    <2> QED
      BY <1>5, <2>1, IndexSetFinite
  <1> QED
    BY <1>2, <1>6, <1>9, <1>10, <1>11 DEF One

LEMMA RanRegistered ==
  ASSUME Runs, Ran, RegisteredOnce, Moved, Handled PROVE RegisteredOnce'
  <1> SUFFICES ASSUME ~finished' PROVE RegisteredOnce'
    BY DEF RegisteredOnce
  <1>1. ~finished /\ Head(tasks).kind # "error"
    BY DEF Ran
  <1>2. /\ Cardinality(Fresh) = Cardinality(Fresh') + One(Head(tasks).kind = "opened")
        /\ Cardinality(Fresh) \in Nat /\ Cardinality(Fresh') \in Nat
        /\ Errors' = {} => Errors = {}
    BY <1>1, FreshShifted
  <1>3. /\ Hits(tasks, Registered) = Hits(tasks', Registered)
             + One(Head(tasks).kind = "registered")
        /\ Hits(tasks, Registered) \in Nat /\ Hits(tasks', Registered) \in Nat
        /\ Hits(net, Registering) \in Nat
    <2>1. Head(tasks) \in Registered <=> Head(tasks).kind = "registered"
      BY RunsFacts DEF Registered
    <2> QED
      BY <2>1, RanHits DEF One
  <1>4. /\ Hits(net', Registering) \in Nat
        /\ Hits(net', Registering) <= Hits(net, Registering) + One(Head(tasks).kind = "opened")
    <2>1. CASE net' = net
      BY <1>3, <2>1 DEF One
    <2>2. ASSUME NEW r, net' = Append(net, r), Asked(r, Head(tasks).kind)
          PROVE  /\ Hits(net', Registering) \in Nat
                 /\ Hits(net', Registering)
                      <= Hits(net, Registering) + One(Head(tasks).kind = "opened")
      <3>1. Hits(net', Registering) = Hits(net, Registering) + One(r \in Registering)
        BY <2>2, RanHits DEF Asked
      <3>2. r \in Registering => Head(tasks).kind = "opened"
        BY <2>2 DEF Asked, Registering
      <3> QED
        BY <1>3, <3>1, <3>2 DEF One
    <2> QED
      BY <2>1, <2>2 DEF Ran, Steered
  <1>5. One(neg'.ready) <= One(neg.ready) + One(Head(tasks).kind = "registered")
    BY DEF Ran, One
  <1>6. Registrations' \in Nat /\ Registrations' <= Registrations
    <2>1. Registrations' = Cardinality(Fresh') + Hits(net', Registering)
                             + Hits(tasks', Registered) + One(neg'.ready)
      BY DEF Registrations, Registering, Registered
    <2>2. Registrations = Cardinality(Fresh) + Hits(net, Registering)
                             + Hits(tasks, Registered) + One(neg.ready)
      BY DEF Registrations
    <2>3. One(neg.ready) \in Nat /\ One(neg'.ready) \in Nat
      BY DEF One
    <2>4. CASE Head(tasks).kind = "opened"
      BY <1>2, <1>3, <1>4, <1>5, <2>1, <2>2, <2>3, <2>4 DEF One
    <2>5. CASE Head(tasks).kind = "registered"
      BY <1>2, <1>3, <1>4, <1>5, <2>1, <2>2, <2>3, <2>5 DEF One
    <2>6. CASE Head(tasks).kind \notin {"opened", "registered"}
      BY <1>2, <1>3, <1>4, <1>5, <2>1, <2>2, <2>3, <2>6 DEF One
    <2> QED
      BY <2>4, <2>5, <2>6
  <1>7. UNCHANGED <<socket, closing>> /\ (joined' = "none" => joined = "none")
    BY MovedLoop DEF Moved, socketVars, Handled, JoinedKept
  <1>8. Registrations \in Nat
    BY <1>2, <1>3 DEF Registrations, One
  <1>9. ASSUME NEW k \in DOMAIN net', net'[k].op = "connect"
        PROVE  socket' = "idle" /\ \A l \in DOMAIN net' : net'[l].op = "connect" => k = l
    <2>1. CASE net' = net
      BY <1>1, <1>7, <1>9, <2>1 DEF RegisteredOnce
    <2>2. ASSUME NEW r, net' = Append(net, r), Asked(r, Head(tasks).kind)
          PROVE  socket' = "idle" /\ \A l \in DOMAIN net' : net'[l].op = "connect" => k = l
      <3>1. /\ Len(net) \in Nat /\ DOMAIN net = 1..Len(net)
            /\ DOMAIN net' = 1..(Len(net) + 1)
            /\ \A l \in 1..Len(net) : net'[l] = net[l]
            /\ net'[Len(net) + 1] = r
        BY <2>2, RunsFacts, AppendedNet DEF Asked
      <3>2. CASE r.op # "connect"
        BY <1>1, <1>7, <1>9, <3>1, <3>2 DEF RegisteredOnce
      <3>3. CASE r.op = "connect"
        <4>1. joined = "none"
          BY <2>2, <3>3, HeadFacts DEF Asked, Runs, InTask, ClosingInv
        <4>2. \A l \in DOMAIN net : net[l].op = "join"
          BY <4>1 DEF Runs, ClosingInv, NothingAsked
        <4>3. socket = "idle"
          BY <1>1, <4>1 DEF RegisteredOnce
        <4> QED
          BY <1>7, <1>9, <3>1, <4>2, <4>3
      <3> QED
        BY <3>2, <3>3
    <2> QED
      BY <2>1, <2>2 DEF Ran, Steered
  <1> HIDE DEF Registrations, Errors
  <1> QED
    BY <1>1, <1>2, <1>6, <1>7, <1>8, <1>9 DEF RegisteredOnce

LEMMA DispatchFlow == FlowInv /\ Dispatch => FlowInv'
  <1> SUFFICES ASSUME FlowInv, Dispatch PROVE FlowInv'
    OBVIOUS
  <1>1. ClosingInv' /\ Handled /\ Moved
    BY DispatchClosing, DispatchHandled, DispatchMoved DEF FlowInv, ClosingInv
  <1>2. loop' \in {"running", "quit"}
    BY <1>1, MovedLoop DEF FlowInv
  <1>3. CASE loop' = "quit"
    BY <1>1, <1>3, OverFlow
  <1>4. CASE loop' = "running"
    <2>1. Runs
      BY <1>1, <1>4 DEF Runs, FlowInv, InTask, Handled
    <2>2. Ran
      BY <2>1, DispatchRan DEF FlowInv
    <2> QED
      BY <1>1, <2>1, <2>2, RanInFlight, RanArmed, RanByes, RanRegistered DEF FlowInv
  <1> QED
    BY <1>2, <1>3, <1>4

(* -- the other steps keep the invariant --------------------------------------- *)

(* Between the start and the end of the call a task is posted.                 *)
Posts(task) ==
  /\ loop \in {"starting", "running"}
  /\ task \in Task
  /\ tasks' = Append(tasks, task)

LEMMA PostedHits ==
  ASSUME TypeOK, NEW task, Posts(task)
  PROVE  \A S : /\ Hits(tasks, S) \in Nat
                /\ Hits(tasks', S) = Hits(tasks, S) + One(task \in S)
  BY TypeParts, HitsType, AppendHits DEF Posts

LEMMA ServedHits ==
  ASSUME TypeOK, net # <<>>, net' = Tail(net)
  PROVE  \A S : /\ Hits(net, S) \in Nat /\ Hits(net', S) \in Nat
                /\ Hits(net, S) = Hits(net', S) + One(Head(net) \in S)
  <1>1. net \in Seq(Request) /\ Tail(net) \in Seq(Request)
    BY TypeParts, HeadTailProperties
  <1> QED
    BY <1>1, HitsType, TailHits

LEMMA PostedFresh ==
  ASSUME TypeOK, NEW task, Posts(task)
  PROVE  /\ Cardinality(Fresh) \in Nat
         /\ Cardinality(Fresh') =
              Cardinality(Fresh) + One(task.kind = "opened" /\ Errors = {})
         /\ Errors' = {} <=> Errors = {} /\ task.kind # "error"
  <1> DEFINE n == Len(tasks)
  <1>1. /\ n \in Nat /\ DOMAIN tasks = 1..n /\ DOMAIN tasks' = 1..(n + 1)
        /\ \A k \in 1..n : tasks'[k] = tasks[k]
        /\ tasks'[n + 1] = task
    BY TypeParts, AppendProperties, LenProperties DEF Posts
  <1>2. Errors \in SUBSET (1..n) /\ Fresh \in SUBSET (1..n) /\ Cardinality(Fresh) \in Nat
    BY FreshFinite
  <1> HIDE DEF n
  <1>3. Errors' = IF task.kind = "error" THEN Errors \cup {n + 1} ELSE Errors
    BY <1>1 DEF Errors
  <1>4. n + 1 \notin 1..n /\ \A k \in 1..n : k < n + 1 /\ ~(n + 1 < k)
    BY <1>1
  <1>5. \A k \in 1..n : k \in Fresh' <=> k \in Fresh
    BY <1>1, <1>3, <1>4 DEF Fresh
  <1>6. n + 1 \in Fresh' <=> task.kind = "opened" /\ Errors = {}
    <2>1. CASE task.kind = "opened"
      <3>1. Errors' = Errors
        BY <1>3, <2>1
      <3>2. (\A l \in Errors : n + 1 < l) <=> Errors = {}
        BY <1>2, <1>4
      <3> QED
        BY <1>1, <2>1, <3>1, <3>2 DEF Fresh
    <2>2. CASE task.kind # "opened"
      BY <1>1, <2>2 DEF Fresh
    <2> QED
      BY <2>1, <2>2
  <1>7. Fresh' \in SUBSET (1..(n + 1))
    BY <1>1 DEF Fresh
  <1>8. Errors' = {} <=> Errors = {} /\ task.kind # "error"
    <2>1. Errors \cup {n + 1} # {}
      OBVIOUS
    <2> QED
      BY <1>3, <2>1
  <1>9. Fresh' = IF task.kind = "opened" /\ Errors = {} THEN Fresh \cup {n + 1} ELSE Fresh
    <2>1. \A k \in 1..(n + 1) : k \in 1..n \/ k = n + 1
      BY <1>1
    <2>2. \A k \in Fresh' : k \in 1..n \/ k = n + 1
      BY <1>7, <2>1
    <2>3. \A k : k \in Fresh' <=>
            k \in Fresh \/ (k = n + 1 /\ task.kind = "opened" /\ Errors = {})
      BY <1>2, <1>5, <1>6, <2>2
    <2> HIDE DEF Fresh, Errors
    <2>4. CASE task.kind = "opened" /\ Errors = {}
      BY <2>3, <2>4
    <2>5. CASE ~(task.kind = "opened" /\ Errors = {})
      BY <2>3, <2>5
    <2> QED
      BY <2>4, <2>5
  <1>10. Cardinality(Fresh \cup {n + 1}) = Cardinality(Fresh) + 1
    BY <1>1, <1>2, CountGrown
  <1>11. Cardinality(Fresh') = Cardinality(Fresh) + One(task.kind = "opened" /\ Errors = {})
    <2>1. CASE task.kind = "opened" /\ Errors = {}
      BY <1>9, <1>10, <2>1 DEF One
    <2>2. CASE ~(task.kind = "opened" /\ Errors = {})
      <3>1. Fresh' = Fresh /\ One(task.kind = "opened" /\ Errors = {}) = 0
        BY <1>9, <2>2 DEF One
      <3> QED
        BY <1>2, <3>1
    <2> QED
      BY <2>1, <2>2
  <1> QED
    BY <1>2, <1>8, <1>11

(* A step that is no handler and leaves the negotiation and the timers' tasks. *)
Aside ==
  /\ UNCHANGED <<neg, joined, callEstablished, finished, startupGen, durationGen, loop>>
  /\ peer'.flag = peer.flag

LEMMA PostedArmed ==
  ASSUME TypeOK, Armed, Aside, NEW task, tasks' = tasks \/ Posts(task),
         \A timer \in timers : timer \in timers' \/ (timer = task /\ Posts(task))
  PROVE  Armed'
  <1>1. ASSUME NEW timer, IsArmed(timer)
        PROVE  timer \in timers' \/ \E k \in DOMAIN tasks' : tasks'[k] = timer
    <2>1. CASE tasks' = tasks /\ timer \in timers'
      BY <2>1
    <2>2. CASE tasks' = tasks /\ timer \notin timers
      BY <1>1, <2>2 DEF IsArmed
    <2>3. CASE Posts(task)
      <3>1. /\ Len(tasks) \in Nat
            /\ DOMAIN tasks = 1..Len(tasks) /\ DOMAIN tasks' = 1..(Len(tasks) + 1)
            /\ \A k \in 1..Len(tasks) : tasks'[k] = tasks[k]
            /\ tasks'[Len(tasks) + 1] = task
        BY <2>3, TypeParts, AppendProperties, LenProperties DEF Posts
      <3>2. Len(tasks) + 1 \in DOMAIN tasks'
        BY <3>1
      <3>3. \A k \in DOMAIN tasks : k \in DOMAIN tasks' /\ tasks'[k] = tasks[k]
        BY <3>1
      <3> QED
        BY <1>1, <3>1, <3>2, <3>3 DEF IsArmed
    <2>4. CASE tasks' = tasks /\ timer \in timers /\ timer \notin timers'
      BY <2>3, <2>4
    <2> QED
      BY <2>1, <2>2, <2>3, <2>4
  <1> QED
    BY <1>1 DEF Aside, Armed, IsArmed

LEMMA AsideFacts ==
  ASSUME Aside
  PROVE  /\ LiveOutcomes' = LiveOutcomes /\ SentDescriptions' = SentDescriptions
         /\ Descriptions' = Descriptions /\ Byes' = Byes /\ SentByes' = SentByes
         /\ Registering' = Registering /\ Registered' = Registered
  BY DEF Aside, LiveOutcomes, SentDescriptions, Descriptions, Byes, SentByes, Registering,
         Registered

(* An event reported by the websocket, the library or a timer.                 *)
LEMMA EventFlow ==
  ASSUME FlowInv, ClosingInv', Aside, loop \in {"starting", "running"},
         NEW task, tasks' = tasks \/ Posts(task), net' = net,
         task.kind \notin {"sent", "registered"},
         \A timer \in timers : timer \in timers' \/ (timer = task /\ Posts(task)),
         Cardinality(peer.pending) =
           Cardinality(peer'.pending) + One(Posts(task) /\ task.kind = "observer"),
         Cardinality(peer'.pending) \in Nat,
         task.kind = "observer" => task.flag = peer.flag,
         RegisteredOnce'
  PROVE  FlowInv'
  <1>1. TypeOK
    BY DEF FlowInv, ClosingInv, HonestInv
  <1>2. Armed'
    BY <1>1, PostedArmed DEF FlowInv
  <1>3. task \notin SentDescriptions \cup SentByes
    BY DEF SentDescriptions, SentByes, IsSent
  <1>4. CASE tasks' = tasks /\ ~Posts(task)
    <2>1. InFlight'
      <3>1. Underway' = Underway
        BY <1>4, AsideFacts DEF Underway, One
      <3> QED
        BY <3>1 DEF FlowInv, InFlight, Aside
    <2>2. ByeWaits'
      BY <1>4, AsideFacts DEF FlowInv, ByeWaits, Aside
    <2> QED
      BY <1>2, <2>1, <2>2 DEF FlowInv
  <1>5. CASE Posts(task)
    <2>1. /\ Hits(tasks', SentDescriptions) = Hits(tasks, SentDescriptions)
          /\ Hits(tasks', SentByes) = Hits(tasks, SentByes)
      BY <1>1, <1>3, <1>5, PostedHits DEF One
    <2>2. /\ Hits(tasks', LiveOutcomes) = Hits(tasks, LiveOutcomes)
               + One(task.kind = "observer")
          /\ Hits(tasks, LiveOutcomes) \in Nat
      <3>1. task \in LiveOutcomes <=> task.kind = "observer"
        BY <1>5 DEF LiveOutcomes, Posts
      <3> QED
        BY <1>1, <1>5, <3>1, PostedHits DEF One
    <2>3. Cardinality(peer.pending) = Cardinality(peer'.pending) + One(task.kind = "observer")
      BY <1>5 DEF One
    <2>4. Underway' = Underway
      <3>1. /\ Underway' = Cardinality(peer'.pending) + Hits(tasks', LiveOutcomes)
                 + Hits(net, Descriptions) + Hits(tasks', SentDescriptions)
            /\ Underway = Cardinality(peer.pending) + Hits(tasks, LiveOutcomes)
                 + Hits(net, Descriptions) + Hits(tasks, SentDescriptions)
        BY AsideFacts DEF Underway
      <3>2. Hits(net, Descriptions) \in Nat /\ Hits(tasks, SentDescriptions) \in Nat
        BY <1>1, TypeParts, HitsType
      <3> QED
        BY <2>1, <2>2, <2>3, <3>1, <3>2 DEF One
    <2>5. InFlight'
      BY <2>4 DEF FlowInv, InFlight, Aside
    <2>6. ByeWaits'
      BY <2>1, AsideFacts DEF FlowInv, ByeWaits, Aside
    <2> QED
      BY <1>2, <2>5, <2>6 DEF FlowInv
  <1> QED
    BY <1>4, <1>5

(* A task that says nothing of the websocket.                                  *)
LEMMA QuietRegistered ==
  ASSUME FlowInv, Aside, NEW task, tasks' = tasks \/ Posts(task), net' = net,
         task.kind \notin {"opened", "error", "registered"}, UNCHANGED <<socket, closing>>
  PROVE  RegisteredOnce'
  <1>1. TypeOK
    BY DEF FlowInv, ClosingInv, HonestInv
  <1>2. Registrations' = Registrations /\ (Errors' = {} <=> Errors = {})
    <2>1. CASE tasks' = tasks
      <3>1. Errors' = Errors /\ Fresh' = Fresh
        BY <2>1 DEF Errors, Fresh
      <3> QED
        BY <2>1, <3>1, AsideFacts DEF Registrations, Aside
    <2>2. CASE Posts(task)
      <3>1. Hits(tasks', Registered) = Hits(tasks, Registered)
        BY <1>1, <2>2, PostedHits DEF Registered, One
      <3>2. Cardinality(Fresh') = Cardinality(Fresh) /\ (Errors' = {} <=> Errors = {})
        BY <1>1, <2>2, PostedFresh DEF One
      <3> QED
        BY <3>1, <3>2, AsideFacts DEF Registrations, Aside
    <2> QED
      BY <2>1, <2>2
  <1> HIDE DEF Registrations, Errors
  <1> QED
    BY <1>2 DEF FlowInv, RegisteredOnce, Aside

LEMMA WebSocketFlow == FlowInv /\ WebSocket => FlowInv'
  <1> SUFFICES ASSUME FlowInv, WebSocket PROVE FlowInv'
    OBVIOUS
  <1>1. ClosingInv' /\ TypeOK
    BY WebSocketClosing DEF FlowInv, ClosingInv, HonestInv
  <1>2. Aside /\ net' = net /\ UNCHANGED <<timers, peer, closing>>
    BY DEF WebSocket, WebSocketEvent, WebSocketOpens, WebSocketCloses, WebSocketFails,
           WebSocketMessage, WebSocketBadMessage, controlVars, mediaVars, Aside
  <1>3. CASE loop \notin {"starting", "running"}
    BY <1>1, <1>2, <1>3, OverFlow DEF Aside
  <1>4. CASE loop \in {"starting", "running"}
    <2>1. Cardinality(peer'.pending) \in Nat
      BY <1>1, <1>2, TypeParts, StepsFinite DEF Peer
    <2>2. ASSUME NEW task, tasks' = tasks \/ Posts(task),
                 task.kind \in {"opened", "error", "inbound"}, RegisteredOnce'
          PROVE  FlowInv'
      <3>1. Cardinality(peer.pending) =
              Cardinality(peer'.pending) + One(Posts(task) /\ task.kind = "observer")
        BY <1>2, <2>1, <2>2 DEF One
      <3> QED
        BY <1>1, <1>2, <1>4, <2>1, <2>2, <3>1, EventFlow
    <2>3. CASE WebSocketMessage
      <3>1. PICK message \in [type : MessageTypes, id : 0..MaxCandidates] :
              PostTask([kind |-> "inbound", msg |-> message])
        BY <2>3 DEF WebSocketMessage
      <3> DEFINE task == [kind |-> "inbound", msg |-> message]
      <3>2. task \in Task /\ task.kind = "inbound"
        BY ClientAssumption DEF Task, InboundTask, Message
      <3>3. Posts(task)
        BY <1>4, <3>1, <3>2 DEF PostTask, Posts
      <3> HIDE DEF task
      <3>4. RegisteredOnce'
        BY <1>2, <2>3, <3>2, <3>3, QuietRegistered DEF WebSocketMessage
      <3> QED
        BY <2>2, <3>2, <3>3, <3>4
    <2>4. CASE WebSocketOpens
      <3> DEFINE task == [kind |-> "opened"]
      <3>1. task \in Task /\ task.kind = "opened"
        BY DEF Task
      <3>2. Posts(task)
        BY <1>4, <2>4, <3>1 DEF WebSocketOpens, PostTask, Posts
      <3> HIDE DEF task
      <3>3. /\ Hits(tasks', Registered) = Hits(tasks, Registered)
            /\ Hits(tasks, Registered) \in Nat /\ Hits(net, Registering) \in Nat
        BY <1>1, <3>1, <3>2, PostedHits, TypeParts, HitsType DEF Registered, One
      <3>4. /\ Cardinality(Fresh) \in Nat
            /\ Cardinality(Fresh') = Cardinality(Fresh) + One(Errors = {})
            /\ Errors' = {} <=> Errors = {}
        BY <1>1, <3>1, <3>2, PostedFresh DEF One
      <3>5. socket = "connecting" /\ socket' = "open"
        BY <2>4 DEF WebSocketOpens
      <3>6. ~finished => Registrations' <= 1
        <4>1. Registrations' = Cardinality(Fresh') + Hits(net, Registering)
                                 + Hits(tasks, Registered) + One(neg.ready)
          BY <1>2, <3>3, AsideFacts DEF Registrations, Aside
        <4>2. Registrations = Cardinality(Fresh) + Hits(net, Registering)
                                 + Hits(tasks, Registered) + One(neg.ready)
          BY DEF Registrations
        <4>3. ~finished => /\ Registrations <= 1
                           /\ Errors = {} => Registrations = 0
          BY <3>5 DEF FlowInv, RegisteredOnce
        <4>4. Registrations' = Registrations + One(Errors = {})
          BY <3>3, <3>4, <4>1, <4>2 DEF One
        <4> QED
          BY <4>2, <4>3, <4>4, <3>3, <3>4 DEF One
      <3>7. RegisteredOnce'
        <4> HIDE DEF Registrations, Errors
        <4> QED
          BY <1>2, <3>5, <3>6 DEF FlowInv, RegisteredOnce, Aside
      <3> QED
        BY <2>2, <3>1, <3>2, <3>7
    <2>5. CASE WebSocketCloses \/ WebSocketFails \/ WebSocketBadMessage
      <3> DEFINE task == [kind |-> "error"]
      <3>1. task \in Task /\ task.kind = "error"
        BY DEF Task
      <3>2. (tasks' = tasks /\ closing) \/ Posts(task)
        BY <1>4, <2>5, <3>1
        DEF WebSocketCloses, WebSocketFails, WebSocketBadMessage, PostTask, Posts
      <3>3. socket \in {"connecting", "open"} /\ socket' \in {"connecting", "open"}
            /\ (socket' = "open" => socket = "open")
        BY <2>5 DEF WebSocketCloses, WebSocketFails, WebSocketBadMessage
      <3> HIDE DEF task
      <3>4. ASSUME ~finished PROVE RegisteredOnce'
        <4>1. Posts(task)
          BY <3>2, <3>4 DEF FlowInv, RegisteredOnce
        <4>2. Hits(tasks', Registered) = Hits(tasks, Registered)
          BY <1>1, <3>1, <4>1, PostedHits DEF Registered, One
        <4>3. Cardinality(Fresh') = Cardinality(Fresh) /\ Errors' # {}
          BY <1>1, <3>1, <4>1, PostedFresh DEF One
        <4>4. Registrations' = Registrations
          BY <1>2, <4>2, <4>3, AsideFacts DEF Registrations, Aside
        <4> HIDE DEF Registrations, Errors
        <4> QED
          BY <1>2, <3>3, <3>4, <4>3, <4>4 DEF FlowInv, RegisteredOnce, Aside
      <3>5. RegisteredOnce'
        BY <1>2, <3>4 DEF RegisteredOnce, Aside
      <3> QED
        BY <2>2, <3>1, <3>2, <3>5
    <2> QED
      BY <2>3, <2>4, <2>5 DEF WebSocket, WebSocketEvent
  <1> QED
    BY <1>3, <1>4

(* An operation that was under way once is counted once.                       *)
LEMMA PendingLess ==
  ASSUME NEW K \in SUBSET Steps, NEW step \in K
  PROVE  /\ Cardinality(K \ {step}) \in Nat
         /\ Cardinality(K) = Cardinality(K \ {step}) + 1
  <1>1. IsFiniteSet(K) /\ Cardinality(K) \in Nat /\ Cardinality(K \ {step}) \in Nat
    BY StepsFinite
  <1>2. Cardinality(K \ {step}) = Cardinality(K) - 1
    BY <1>1, FS_RemoveElement
  <1> QED
    BY <1>1, <1>2

LEMMA LibraryFlow == FlowInv /\ Library => FlowInv'
  <1> SUFFICES ASSUME FlowInv, LibraryEvent, Library, UNCHANGED <<clientVars, controlVars>>
               PROVE  FlowInv'
    BY DEF Library
  <1>1. ClosingInv' /\ TypeOK /\ peer \in Peer /\ peer.flag \in Nat
    BY LibraryClosing, TypeParts DEF FlowInv, ClosingInv, HonestInv, Peer
  <1>2. Aside /\ net' = net /\ UNCHANGED <<timers, socket, closing>>
    <2>1. /\ net' = net /\ UNCHANGED <<timers, socket, closing, loop>>
          /\ UNCHANGED <<neg, joined, callEstablished, finished, startupGen, durationGen>>
      BY DEF LibraryEvent, OperationCompletes, CandidateGathered, ConnectionChanges,
             OnFrameDelivered, clientVars, socketVars, controlVars, mediaVars
    <2>2. peer'.flag = peer.flag
      BY <1>1 DEF LibraryEvent, OperationCompletes, CandidateGathered, ConnectionChanges,
                  OnFrameDelivered, Peer
    <2> QED
      BY <2>1, <2>2 DEF Aside
  <1>3. CASE loop \notin {"starting", "running"}
    BY <1>1, <1>2, <1>3, OverFlow DEF Aside
  <1>4. CASE loop \in {"starting", "running"}
    <2>1. ASSUME NEW task, Posts(task), task.flag = peer.flag,
                 task.kind \in {"observer", "localCandidate", "connection", "frame"},
                 Cardinality(peer'.pending) \in Nat,
                 Cardinality(peer.pending) =
                   Cardinality(peer'.pending) + One(task.kind = "observer")
          PROVE  FlowInv'
      <3>1. RegisteredOnce'
        BY <1>2, <2>1, QuietRegistered
      <3>2. One(Posts(task) /\ task.kind = "observer") = One(task.kind = "observer")
        BY <2>1 DEF One
      <3> QED
        BY <1>1, <1>2, <1>4, <2>1, <3>1, <3>2, EventFlow
    <2>2. CASE OperationCompletes
      <3>1. PICK step \in peer.pending, ok \in BOOLEAN :
              /\ PostTask([kind |-> "observer", step |-> step, ok |-> ok,
                           flag |-> peer.flag])
              /\ peer'.pending = peer.pending \ {step}
        BY <1>1, <2>2 DEF OperationCompletes, Peer
      <3> DEFINE task == [kind |-> "observer", step |-> step, ok |-> ok, flag |-> peer.flag]
      <3>2. task \in Task /\ task.kind = "observer" /\ task.flag = peer.flag
        BY <1>1 DEF Peer, Task, ObserverTask
      <3>3. Posts(task)
        BY <1>4, <3>1, <3>2 DEF PostTask, Posts
      <3> HIDE DEF task
      <3>4. /\ Cardinality(peer'.pending) \in Nat
            /\ Cardinality(peer.pending) = Cardinality(peer'.pending) + 1
        BY <1>1, <3>1, PendingLess DEF Peer
      <3> QED
        BY <2>1, <3>2, <3>3, <3>4 DEF One
    <2>3. ASSUME NEW task \in Task, PostTask(task), task.flag = peer.flag,
                 task.kind \in {"localCandidate", "connection", "frame"},
                 peer'.pending = peer.pending
          PROVE  FlowInv'
      <3>1. Posts(task)
        BY <1>4, <2>3 DEF PostTask, Posts
      <3>2. Cardinality(peer.pending) \in Nat
        BY <1>1, StepsFinite DEF Peer
      <3>3. Cardinality(peer.pending) = Cardinality(peer'.pending) + One(task.kind = "observer")
        BY <2>3, <3>2 DEF One
      <3> QED
        BY <2>1, <2>3, <3>1, <3>2, <3>3
    <2>4. CASE CandidateGathered
      <3>1. [kind |-> "localCandidate", flag |-> peer.flag] \in Task
        BY <1>1 DEF Task
      <3>2. peer'.pending = peer.pending
        BY <1>1, <2>4 DEF CandidateGathered, Peer
      <3> QED
        BY <2>3, <2>4, <3>1, <3>2 DEF CandidateGathered
    <2>5. CASE ConnectionChanges
      <3>1. PICK to \in {"connected", "disconnected", "failed"} :
              PostTask([kind |-> "connection", to |-> to, flag |-> peer.flag])
        BY <2>5 DEF ConnectionChanges
      <3>2. [kind |-> "connection", to |-> to, flag |-> peer.flag] \in Task
        BY <1>1 DEF Task, ConnectionTask
      <3> QED
        BY <2>3, <2>5, <3>1, <3>2 DEF ConnectionChanges
    <2>6. CASE OnFrameDelivered
      <3>1. [kind |-> "frame", flag |-> peer.flag] \in Task
        BY <1>1 DEF Task
      <3> QED
        BY <2>3, <2>6, <3>1 DEF OnFrameDelivered
    <2> QED
      BY <2>2, <2>4, <2>5, <2>6 DEF LibraryEvent
  <1> QED
    BY <1>3, <1>4

LEMMA AlarmFlow == ASSUME FlowInv, NEW kind, Alarm(kind) PROVE FlowInv'
  <1>1. ClosingInv' /\ TypeOK
    BY AlarmClosing DEF FlowInv, ClosingInv, HonestInv
  <1>2. /\ Aside /\ net' = net /\ UNCHANGED <<socket, closing, peer>>
        /\ loop \in {"running", "quit"}
    BY DEF Alarm, TimerDue, controlVars, mediaVars, clientVars, socketVars, Aside
  <1>3. PICK timer \in timers : /\ tasks' = Append(tasks, timer)
                                /\ timers' = timers \ {timer}
    BY DEF Alarm, TimerDue
  <1>4. timer \in Task /\ timer.kind \in TimerKinds
    BY <1>1, <1>3, TypeParts DEF Task, Timer
  <1>5. CASE loop = "quit"
    BY <1>1, <1>2, <1>5, OverFlow DEF Aside
  <1>6. CASE loop = "running"
    <2>1. Posts(timer)
      BY <1>3, <1>4, <1>6 DEF Posts
    <2>2. /\ timer.kind \notin {"sent", "registered", "opened", "error", "observer"}
          /\ Cardinality(peer.pending) \in Nat
      BY <1>1, <1>4, TypeParts, StepsFinite DEF TimerKinds, Peer
    <2>3. RegisteredOnce'
      BY <1>2, <2>1, <2>2, QuietRegistered
    <2>4. Cardinality(peer.pending) =
            Cardinality(peer'.pending) + One(Posts(timer) /\ timer.kind = "observer")
      BY <1>2, <2>2 DEF One
    <2>5. \A t \in timers : t \in timers' \/ (t = timer /\ Posts(timer))
      BY <1>3, <2>1
    <2> QED
      BY <1>1, <1>2, <1>6, <2>1, <2>2, <2>3, <2>4, <2>5, EventFlow
  <1> QED
    BY <1>2, <1>5, <1>6

(* A request served moves what it stands for to its outcome.                   *)
LEMMA ServedFlow ==
  ASSUME FlowInv, ClosingInv', Aside, net # <<>>, net' = Tail(net),
         NEW task, Posts(task), UNCHANGED <<timers, peer, socket, closing>>,
         task.kind \in {"joined", "sent", "registered"},
         Head(net) \in Descriptions <=> task \in SentDescriptions,
         Head(net) \in Byes <=> task \in SentByes,
         Head(net) \in Registering <=> task \in Registered
  PROVE  FlowInv'
  <1>1. TypeOK
    BY DEF FlowInv, ClosingInv, HonestInv
  <1>2. Armed'
    BY <1>1, PostedArmed DEF FlowInv
  <1>3. InFlight'
    <2>1. /\ Hits(tasks', LiveOutcomes) = Hits(tasks, LiveOutcomes)
          /\ Hits(tasks, LiveOutcomes) \in Nat
      BY <1>1, PostedHits DEF LiveOutcomes, One
    <2>2. /\ Hits(net, Descriptions) = Hits(net', Descriptions)
               + One(task \in SentDescriptions)
          /\ Hits(net, Descriptions) \in Nat /\ Hits(net', Descriptions) \in Nat
      BY <1>1, ServedHits DEF One
    <2>3. /\ Hits(tasks', SentDescriptions) = Hits(tasks, SentDescriptions)
               + One(task \in SentDescriptions)
          /\ Hits(tasks, SentDescriptions) \in Nat
      BY <1>1, PostedHits
    <2>4. Cardinality(peer.pending) \in Nat
      BY <1>1, TypeParts, StepsFinite DEF Peer
    <2>5. /\ Underway = Cardinality(peer.pending) + Hits(tasks, LiveOutcomes)
               + Hits(net, Descriptions) + Hits(tasks, SentDescriptions)
          /\ Underway' = Cardinality(peer.pending) + Hits(tasks', LiveOutcomes)
               + Hits(net', Descriptions) + Hits(tasks', SentDescriptions)
      BY AsideFacts DEF Underway
    <2>6. Underway' = Underway
      BY <2>1, <2>2, <2>3, <2>4, <2>5 DEF One
    <2> QED
      BY <2>6 DEF FlowInv, InFlight, Aside
  <1>4. ByeWaits'
    <2>1. /\ Hits(net, Byes) = Hits(net', Byes) + One(task \in SentByes)
          /\ Hits(net, Byes) \in Nat /\ Hits(net', Byes) \in Nat
          /\ Hits(tasks', SentByes) = Hits(tasks, SentByes) + One(task \in SentByes)
          /\ Hits(tasks, SentByes) \in Nat
      <3>1. One(Head(net) \in Byes) = One(task \in SentByes)
        BY DEF One
      <3> QED
        BY <1>1, <3>1, ServedHits, PostedHits
    <2>2. Hits(net', Byes) + Hits(tasks', SentByes) = Hits(net, Byes) + Hits(tasks, SentByes)
      BY <2>1 DEF One
    <2> QED
      BY <2>2, AsideFacts DEF FlowInv, ByeWaits, Aside
  <1>5. RegisteredOnce'
    <2>1. Registrations' = Registrations /\ (Errors' = {} <=> Errors = {})
      <3>1. /\ Hits(net, Registering) = Hits(net', Registering) + One(task \in Registered)
            /\ Hits(net, Registering) \in Nat /\ Hits(net', Registering) \in Nat
            /\ Hits(tasks', Registered) = Hits(tasks, Registered) + One(task \in Registered)
            /\ Hits(tasks, Registered) \in Nat
        <4>1. One(Head(net) \in Registering) = One(task \in Registered)
          BY DEF One
        <4> QED
          BY <1>1, <4>1, ServedHits, PostedHits
      <3>2. /\ Cardinality(Fresh') = Cardinality(Fresh) /\ (Errors' = {} <=> Errors = {})
            /\ Cardinality(Fresh) \in Nat
        BY <1>1, PostedFresh DEF One
      <3>3. /\ Registrations' = Cardinality(Fresh') + Hits(net', Registering)
                                 + Hits(tasks', Registered) + One(neg.ready)
            /\ Registrations = Cardinality(Fresh) + Hits(net, Registering)
                                 + Hits(tasks, Registered) + One(neg.ready)
        BY AsideFacts DEF Registrations, Aside
      <3> QED
        BY <3>1, <3>2, <3>3 DEF One
    <2>2. \A k \in DOMAIN net' : k + 1 \in DOMAIN net /\ net'[k] = net[k + 1]
          /\ k \in Nat
      BY <1>1, ServedElements
    <2>3. ASSUME ~finished, NEW k \in DOMAIN net', net'[k].op = "connect"
          PROVE  /\ socket = "idle"
                 /\ \A l \in DOMAIN net' : net'[l].op = "connect" => k = l
      <3>1. socket = "idle"
        BY <2>2, <2>3 DEF FlowInv, RegisteredOnce
      <3>2. ASSUME NEW l \in DOMAIN net', net'[l].op = "connect" PROVE k = l
        <4>1. k + 1 = l + 1 /\ k \in Nat /\ l \in Nat
          BY <2>2, <2>3, <3>2 DEF FlowInv, RegisteredOnce
        <4> QED
          BY <4>1
      <3> QED
        BY <3>1, <3>2
    <2> HIDE DEF Registrations, Errors
    <2> QED
      BY <2>1, <2>3 DEF FlowInv, RegisteredOnce, Aside
  <1> QED
    BY <1>2, <1>3, <1>4, <1>5 DEF FlowInv

(* The websocket starts to connect: it was idle, and has not opened before.    *)
LEMMA ConnectFlow ==
  ASSUME FlowInv, ClosingInv', Aside, loop \in {"starting", "running"}, ConnectWebSocket,
         peer' = peer
  PROVE  FlowInv'
  <1>1. TypeOK
    BY DEF FlowInv, ClosingInv, HonestInv
  <1>2. /\ net # <<>> /\ net' = Tail(net) /\ Head(net).op = "connect"
        /\ socket' = "connecting" /\ ~closing'
        /\ UNCHANGED <<tasks, timers>>
    BY DEF ConnectWebSocket, Serving, threadVars
  <1>3. \A S : /\ Hits(net, S) \in Nat /\ Hits(net', S) \in Nat
               /\ Hits(net, S) = Hits(net', S) + One(Head(net) \in S)
    BY <1>1, <1>2, ServedHits
  <1>4. Head(net) \notin Descriptions \cup Byes \cup Registering
    BY <1>2 DEF Descriptions, Byes, Registering, IsPayload
  <1>5. /\ Hits(net', Descriptions) = Hits(net, Descriptions)
        /\ Hits(net', Byes) = Hits(net, Byes)
        /\ Hits(net', Registering) = Hits(net, Registering)
    BY <1>3, <1>4 DEF One
  <1>6. Armed'
    <2>1. [kind |-> "error"] \in Task
      BY DEF Task
    <2> QED
      BY <1>1, <1>2, PostedArmed DEF FlowInv
  <1>7. InFlight'
    BY <1>2, <1>5, AsideFacts DEF FlowInv, InFlight, Underway, Aside
  <1>8. ByeWaits'
    BY <1>2, <1>5, AsideFacts DEF FlowInv, ByeWaits, Aside
  <1>9. ASSUME ~finished PROVE RegisteredOnce'
    <2>1. /\ 1 \in DOMAIN net /\ net[1].op = "connect"
          /\ \A k \in DOMAIN net' : k + 1 \in DOMAIN net /\ net'[k] = net[k + 1] /\ k \in Nat \ {0}
      BY <1>1, <1>2, ServedElements
    <2>2. socket = "idle" /\ \A k \in DOMAIN net : net[k].op = "connect" => k = 1
      BY <1>9, <2>1 DEF FlowInv, RegisteredOnce
    <2>3. \A k \in DOMAIN net' : net'[k].op # "connect"
      BY <2>1, <2>2
    <2>4. joined # "none"
      BY <2>1 DEF FlowInv, ClosingInv, NothingAsked
    <2>5. Registrations = 0
      BY <1>9, <2>2 DEF FlowInv, RegisteredOnce
    <2>6. Registrations' = Registrations
      <3>1. Fresh' = Fresh
        BY <1>2 DEF Fresh, Errors
      <3> QED
        BY <1>2, <1>5, <3>1, AsideFacts DEF Registrations, Aside
    <2> HIDE DEF Registrations, Errors
    <2> QED
      BY <1>2, <2>3, <2>4, <2>5, <2>6 DEF RegisteredOnce, Aside
  <1>10. RegisteredOnce'
    BY <1>9 DEF RegisteredOnce, Aside
  <1> QED
    BY <1>6, <1>7, <1>8, <1>10 DEF FlowInv

LEMMA NetworkFlow == FlowInv /\ Network => FlowInv'
  <1> SUFFICES ASSUME FlowInv, Network, NetworkStep, UNCHANGED <<peer, controlVars>>
               PROVE  FlowInv'
    BY DEF Network
  <1>1. ClosingInv' /\ TypeOK
    BY NetworkClosing DEF FlowInv, ClosingInv, HonestInv
  <1>2. Aside /\ UNCHANGED timers /\ net # <<>>
    BY DEF NetworkStep, JoinRoom, ConnectWebSocket, Register, SendToRoom,
           SendWebSocketMessage, CloseMarks, CloseStops, Serving, threadVars, controlVars,
           mediaVars, Aside
  <1>3. CASE loop \notin {"starting", "running"}
    BY <1>1, <1>2, <1>3, OverFlow DEF Aside
  <1>4. CASE loop \in {"starting", "running"}
    <2>1. ~CloseMarks /\ ~CloseStops
      <3>1. 1 \in DOMAIN net /\ Head(net) = net[1]
        BY <1>1, <1>2, ServedElements, TypeParts, TailElements
      <3> QED
        BY <1>4, <3>1
        DEF FlowInv, ClosingInv, LeftOnce, Leaving, IsOver, CloseMarks, CloseStops, Serving
    <2>2. CASE ConnectWebSocket
      BY <1>1, <1>2, <1>4, <2>2, ConnectFlow
    <2>3. CASE JoinRoom
      <3>1. PICK role \in Roles \cup {"none"}, raw \in Seq(RawMessage) :
              PostTask([kind |-> "joined", role |-> role, msgs |-> raw])
        BY <2>3, EmptySeq, ClientAssumption DEF JoinRoom
      <3> DEFINE task == [kind |-> "joined", role |-> role, msgs |-> raw]
      <3>2. task \in Task /\ task.kind = "joined"
        BY DEF Task, JoinedTask
      <3>3. Posts(task)
        BY <1>4, <3>1, <3>2 DEF PostTask, Posts
      <3> HIDE DEF task
      <3>4. net' = Tail(net) /\ Head(net).op = "join" /\ UNCHANGED <<socket, closing>>
        BY <2>3 DEF JoinRoom, Serving
      <3>5. /\ Head(net) \notin Descriptions \cup Byes \cup Registering
            /\ task \notin SentDescriptions \cup SentByes \cup Registered
        BY <3>2, <3>4
        DEF Descriptions, Byes, Registering, SentDescriptions, SentByes, Registered,
            IsPayload, IsSent
      <3> QED
        BY <1>1, <1>2, <3>2, <3>3, <3>4, <3>5, ServedFlow
    <2>4. CASE Register
      <3>1. PICK ok \in BOOLEAN : PostTask([kind |-> "registered", ok |-> ok])
        BY <2>4 DEF Register
      <3> DEFINE task == [kind |-> "registered", ok |-> ok]
      <3>2. task \in Task /\ task.kind = "registered"
        BY DEF Task
      <3>3. Posts(task)
        BY <1>4, <3>1, <3>2 DEF PostTask, Posts
      <3> HIDE DEF task
      <3>4. /\ net' = Tail(net) /\ Head(net).op = "register" /\ UNCHANGED <<socket, closing>>
            /\ Head(net) \in Request
        BY <1>1, <1>2, <2>4, NetTailType DEF Register, Serving, socketVars
      <3>5. /\ Head(net) \notin Descriptions \cup Byes /\ Head(net) \in Registering
            /\ task \notin SentDescriptions \cup SentByes /\ task \in Registered
        BY <3>2, <3>4
        DEF Descriptions, Byes, Registering, SentDescriptions, SentByes, Registered,
            IsPayload, IsSent
      <3> QED
        BY <1>1, <1>2, <3>2, <3>3, <3>4, <3>5, ServedFlow
    <2>5. CASE SendToRoom \/ SendWebSocketMessage
      <3>1. PICK ok \in BOOLEAN :
              PostTask([kind |-> "sent", what |-> Head(net).what, ok |-> ok])
        BY <2>5 DEF SendToRoom, SendWebSocketMessage
      <3> DEFINE task == [kind |-> "sent", what |-> Head(net).what, ok |-> ok]
      <3>2. /\ Head(net).op \in {"post", "send"} /\ Head(net) \in Request
            /\ net' = Tail(net) /\ UNCHANGED <<socket, closing>>
        BY <1>1, <1>2, <2>5, NetTailType
        DEF SendToRoom, SendWebSocketMessage, Serving, socketVars
      <3>3. task \in Task /\ task.kind = "sent" /\ task.what = Head(net).what
        BY <3>2 DEF Request, Task, SentTask
      <3>4. Posts(task)
        BY <1>4, <3>1, <3>3 DEF PostTask, Posts
      <3> HIDE DEF task
      <3>5. /\ Head(net) \in Descriptions <=> task \in SentDescriptions
            /\ Head(net) \in Byes <=> task \in SentByes
            /\ Head(net) \notin Registering /\ task \notin Registered
        BY <3>2, <3>3
        DEF Descriptions, Byes, Registering, SentDescriptions, SentByes, Registered,
            IsPayload, IsSent
      <3> QED
        BY <1>1, <1>2, <3>2, <3>3, <3>4, <3>5, ServedFlow
    <2> QED
      BY <2>1, <2>2, <2>3, <2>4, <2>5 DEF NetworkStep
  <1> QED
    BY <1>3, <1>4

LEMMA StartFlow == FlowInv /\ StartCall => FlowInv'
  <1> SUFFICES ASSUME FlowInv, StartCall PROVE FlowInv'
    OBVIOUS
  <1>1. ClosingInv' /\ TypeOK
    BY ProcessClosing DEF FlowInv, ClosingInv, HonestInv
  <1>2. /\ loop = "starting" /\ loop' = "running" /\ net' = Append(net, JoinRequest)
        /\ [kind |-> "startup", gen |-> startupGen'] \in timers'
        /\ UNCHANGED <<tasks, peer, joined, neg, callEstablished, finished, socket, closing>>
    BY DEF StartCall, socketVars, mediaVars
  <1>3. net = <<>> /\ joined = "none" /\ ~callEstablished
    BY <1>2 DEF FlowInv, ClosingInv, HonestInv, JoinOnce, JoinedFirst
  <1>4. /\ JoinRequest \in Request /\ JoinRequest.op = "join"
        /\ JoinRequest \notin Descriptions \cup Byes \cup Registering
    BY RequestType DEF JoinRequest, Descriptions, Byes, Registering, IsPayload
  <1>5. /\ Hits(net', Descriptions) = Hits(net, Descriptions)
        /\ Hits(net', Byes) = Hits(net, Byes)
        /\ Hits(net', Registering) = Hits(net, Registering)
    BY <1>1, <1>2, <1>4, TypeParts, AppendHits, HitsType DEF One
  <1>6. Armed'
    BY <1>2, <1>3 DEF Armed, IsArmed
  <1>7. /\ LiveOutcomes' = LiveOutcomes /\ SentDescriptions' = SentDescriptions
        /\ Descriptions' = Descriptions /\ Byes' = Byes /\ SentByes' = SentByes
        /\ Registering' = Registering /\ Registered' = Registered
    BY <1>2 DEF LiveOutcomes, SentDescriptions, Descriptions, Byes, SentByes, Registering,
                Registered
  <1>8. InFlight'
    BY <1>2, <1>5, <1>7 DEF FlowInv, InFlight, Underway
  <1>9. ByeWaits'
    BY <1>2, <1>5, <1>7 DEF FlowInv, ByeWaits
  <1>10. RegisteredOnce'
    <2>1. Registrations' = Registrations /\ Errors' = Errors
      <3>1. Fresh' = Fresh /\ Errors' = Errors
        BY <1>2 DEF Fresh, Errors
      <3> QED
        BY <1>2, <1>5, <1>7, <3>1 DEF Registrations
    <2>2. \A k \in DOMAIN net' : net'[k].op # "connect"
      BY <1>2, <1>3, <1>4
    <2> HIDE DEF Registrations, Errors
    <2> QED
      BY <1>2, <2>1, <2>2 DEF FlowInv, RegisteredOnce
  <1> QED
    BY <1>1, <1>6, <1>8, <1>9, <1>10 DEF FlowInv

LEMMA InitFlow == Init => FlowInv
  <1> SUFFICES ASSUME Init PROVE FlowInv
    OBVIOUS
  <1>1. ClosingInv
    BY InitClosing
  <1>2. /\ tasks = <<>> /\ net = <<>> /\ peer.pending = {} /\ loop = "starting"
        /\ ~neg.busy /\ ~neg.ready /\ ~finished /\ joined = "none"
        /\ socket = "idle" /\ ~closing
    BY DEF Init, ThreadInit, ClientInit, PeerInit
  <1>3. Cardinality({}) = 0 /\ DOMAIN tasks = {} /\ DOMAIN net = {}
    BY <1>2, FS_EmptySet
  <1>4. \A S : Hits(tasks, S) = 0 /\ Hits(net, S) = 0
    BY <1>3 DEF Hits, Places
  <1>5. Fresh = {} /\ Errors = {}
    BY <1>3 DEF Fresh, Errors
  <1>6. Underway = 0 /\ Registrations = 0
    BY <1>2, <1>3, <1>4, <1>5 DEF Underway, Registrations, One
  <1> QED
    BY <1>1, <1>2, <1>3, <1>4, <1>6
    DEF FlowInv, InFlight, Armed, ByeWaits, RegisteredOnce, One

LEMMA StepFlow == FlowInv /\ [Next]_vars => FlowInv'
  <1> SUFFICES ASSUME FlowInv, [Next]_vars PROVE FlowInv'
    OBVIOUS
  <1>1. CASE Dispatch
    BY <1>1, DispatchFlow
  <1>2. CASE Network \/ WebSocket \/ Library
    BY <1>2, NetworkFlow, WebSocketFlow, LibraryFlow
  <1>3. CASE \E kind \in TimerKinds : Alarm(kind)
    BY <1>3, AlarmFlow
  <1>4. CASE StartCall
    BY <1>4, StartFlow
  <1>5. CASE ReturnFromRun \/ Destroy
    BY <1>5, ProcessClosing, OverFlow DEF FlowInv, ReturnFromRun, Destroy
  <1>6. CASE Exited \/ UNCHANGED vars
    <2>1. UNCHANGED vars /\ ClosingInv'
      BY <1>6, StepClosing DEF FlowInv, Exited
    <2>2. /\ UNCHANGED <<tasks, timers, net, socket, closing>>
          /\ Aside
      BY <2>1 DEF vars, threadVars, clientVars, socketVars, mediaVars, Aside
    <2>3. UNCHANGED peer
      BY <2>1 DEF vars
    <2>4. InFlight' /\ ByeWaits'
      BY <2>2, <2>3, AsideFacts DEF FlowInv, InFlight, ByeWaits, Underway, Aside
    <2>5. Armed'
      BY <2>2 DEF FlowInv, Armed, IsArmed, Aside
    <2>6. RegisteredOnce'
      <3>1. Registrations' = Registrations /\ Errors' = Errors
        <4>1. Fresh' = Fresh /\ Errors' = Errors
          BY <2>2 DEF Fresh, Errors
        <4> QED
          BY <2>2, <4>1, AsideFacts DEF Registrations, Aside
      <3> HIDE DEF Registrations, Errors
      <3> QED
        BY <2>2, <3>1 DEF FlowInv, RegisteredOnce, Aside
    <2> QED
      BY <2>1, <2>4, <2>5, <2>6 DEF FlowInv
  <1> QED
    BY <1>1, <1>2, <1>3, <1>4, <1>5, <1>6 DEF Next

LEMMA FlowAlways == Spec => []FlowInv
  BY InitFlow, StepFlow, PTL DEF Spec

(* -- the theorems ------------------------------------------------------------- *)

(* The elements of the two queues are the places counted.                      *)
LEMMA CountedPlaces ==
  ASSUME TypeOK
  PROVE  /\ {k \in DOMAIN tasks : tasks[k].kind = "observer" /\ Live(tasks[k])}
              = Places(tasks, LiveOutcomes)
         /\ \A what : {k \in DOMAIN tasks : IsSent(tasks[k], what)}
              = Places(tasks, {t \in Task : IsSent(t, what)})
         /\ \A what : {k \in DOMAIN net : IsPayload(net[k], what)}
              = Places(net, {r \in Request : IsPayload(r, what)})
         /\ {k \in DOMAIN net : net[k].op = "register"} = Places(net, Registering)
         /\ {k \in DOMAIN tasks : tasks[k].kind = "registered"} = Places(tasks, Registered)
  <1>1. \A k \in DOMAIN tasks : tasks[k] \in Task
    BY TypeParts, ElementOfSeq, LenProperties
  <1>2. \A k \in DOMAIN net : net[k] \in Request
    BY TypeParts, ElementOfSeq, LenProperties
  <1> QED
    BY <1>1, <1>2 DEF Places, LiveOutcomes, Live, Registering, Registered

(* An action in flight always has exactly one continuation, and without one    *)
(* there is none: signaling_action_in_flight_ is never left set for ever, and  *)
(* two offers or answers are never negotiated at once, whatever the order in   *)
(* which the library, the network thread and the websocket answer.             *)
THEOREM ActionContinuesOnce == Spec => []OneContinuation
  <1>1. FlowInv => OneContinuation
    <2> SUFFICES ASSUME FlowInv, loop = "running" PROVE Continuations = One(neg.busy)
      BY DEF OneContinuation
    <2>1. Continuations = Underway
      BY CountedPlaces
      DEF Continuations, Underway, Count, Hits, Descriptions, SentDescriptions,
          FlowInv, ClosingInv, HonestInv
    <2> QED
      BY <2>1 DEF FlowInv, InFlight
  <1> QED
    BY <1>1, FlowAlways, PTL

(* While the loop runs the timer that ends the call is set or queued, and once *)
(* the call says goodbye exactly one bye is on its way: there is always a task *)
(* to come that quits the loop.                                                *)
THEOREM EndAlwaysArmed == Spec => []AlwaysEnding
  <1>1. FlowInv => AlwaysEnding
    <2> SUFFICES ASSUME FlowInv, loop = "running" PROVE AlwaysEnding
      BY DEF AlwaysEnding
    <2>1. /\ Count(net, LAMBDA r : IsPayload(r, "bye")) = Hits(net, Byes)
          /\ Count(tasks, LAMBDA t : IsSent(t, "bye")) = Hits(tasks, SentByes)
      BY CountedPlaces DEF Count, Hits, Byes, SentByes, FlowInv, ClosingInv, HonestInv
    <2> QED
      BY <2>1 DEF FlowInv, Armed, ByeWaits, AlwaysEnding
  <1> QED
    BY <1>1, FlowAlways, PTL

(* At most one registration is sent in a call, however often the websocket     *)
(* closes and opens again by itself: the error of its closing is queued before *)
(* the next opening, and ends the call.                                        *)
THEOREM OneRegistration == Spec => []RegistersOnce
  <1>1. FlowInv => RegistersOnce
    <2> SUFFICES ASSUME FlowInv, ~finished PROVE RegistersOnce
      BY DEF RegistersOnce
    <2>1. /\ Count(net, LAMBDA r : r.op = "register") = Hits(net, Registering)
          /\ Count(tasks, LAMBDA t : t.kind = "registered") = Hits(tasks, Registered)
      BY CountedPlaces DEF Count, Hits, FlowInv, ClosingInv, HonestInv
    <2> QED
      BY <2>1 DEF FlowInv, RegisteredOnce, RegistersOnce, Registrations, Fresh, Errors
  <1> QED
    BY <1>1, FlowAlways, PTL

-----------------------------------------------------------------------------

(* -- lists of candidates ------------------------------------------------------- *)

Vals(f) == {f[k] : k \in DOMAIN f}
Rising(f) == \A k, l \in DOMAIN f : k < l => f[k] < f[l]
Below(S, T) == \A x \in S, y \in T : x < y

(* Three places that the candidates pass, from the last to the first.          *)
Lined(a, b, q) ==
  /\ Rising(a) /\ Rising(b) /\ Rising(q)
  /\ Below(Vals(a), Vals(b)) /\ Below(Vals(a), Vals(q)) /\ Below(Vals(b), Vals(q))

(* The candidates that the controller has taken, and the ones in tasks.        *)
Taken(p, messages) == Vals(p.applied) \cup Vals(p.buffered) \cup Vals(CandidatesOf(messages))
Coming == CandidatesOf(InboundMessages)

(* -- the inductive invariant -------------------------------------------------- *)

(* The candidates taken by the peer client p and the queue are in line.        *)
TakenInLine(p, messages) ==
  /\ p.described => p.buffered = <<>>
  /\ Lined(p.applied, p.buffered, CandidatesOf(messages))

(* Nothing arrives before the join response, and only candidates numbered in   *)
(* the order of arrival are on their way.                                      *)
InLine ==
  ~finished =>
    /\ TakenInLine(peer, neg.queue)
    /\ Rising(Coming) /\ Below(Taken(peer, neg.queue), Vals(Coming))
    /\ joined # "none" => Taken(peer, neg.queue) \cup Vals(Coming) = arrived
    /\ joined = "none" =>
         /\ peer.applied = <<>> /\ peer.buffered = <<>> /\ neg.queue = <<>>
         /\ \A k \in DOMAIN tasks : tasks[k].kind # "inbound"
         /\ (\A k \in DOMAIN tasks : tasks[k].kind # "joined") => arrived = {}

Numbered == \A n \in arrived : n # 0 /\ 1..n \subseteq arrived

JoinedInOrder ==
  ~finished =>
    /\ Numbered
    /\ \A k \in DOMAIN tasks : tasks[k].kind = "joined" =>
         /\ NumberedInOrder(tasks[k].msgs)
         /\ arrived = CandidateIds(tasks[k].msgs)

CandidateInv == FlowInv /\ InLine /\ JoinedInOrder

(* -- lists of candidates -------------------------------------------------------- *)

(* The places of s that have an element of S, each with its number.            *)
Marks(s, S, g) == [k \in {j \in DOMAIN s : s[j] \in S} |-> g[s[k]]]

Candidates == {m \in Message : IsCandidate(m)}
CandidateId == [m \in Candidates |-> m.id]
Arrivals == {t \in Task : t.kind = "inbound" /\ IsCandidate(t.msg)}
ArrivalId == [t \in Arrivals |-> t.msg.id]

LEMMA MarksTail ==
  ASSUME NEW T, NEW s \in Seq(T), s # <<>>, NEW S, NEW g
  PROVE  /\ Vals(Marks(s, S, g)) =
              Vals(Marks(Tail(s), S, g)) \cup (IF Head(s) \in S THEN {g[Head(s)]} ELSE {})
         /\ Rising(Marks(s, S, g)) =>
              /\ Rising(Marks(Tail(s), S, g))
              /\ Head(s) \in S => Below({g[Head(s)]}, Vals(Marks(Tail(s), S, g)))
  <1> DEFINE F == Marks(s, S, g)
             G == Marks(Tail(s), S, g)
  <1>1. /\ Len(s) \in Nat \ {0} /\ DOMAIN s = 1..Len(s) /\ Head(s) = s[1]
        /\ DOMAIN Tail(s) = 1..(Len(s) - 1)
        /\ \A k \in DOMAIN Tail(s) : Tail(s)[k] = s[k + 1]
    BY EmptySeq, LenProperties, HeadTailProperties
  <1>2. /\ DOMAIN F = {j \in 1..Len(s) : s[j] \in S}
        /\ DOMAIN G = {j \in 1..(Len(s) - 1) : s[j + 1] \in S}
    BY <1>1 DEF Marks
  <1>3. /\ \A k \in DOMAIN F : F[k] = g[s[k]]
        /\ \A k \in DOMAIN G : G[k] = g[s[k + 1]]
    BY <1>1 DEF Marks
  <1> HIDE DEF F, G
  <1>4. \A k \in DOMAIN G : k + 1 \in DOMAIN F /\ k + 1 > 1 /\ G[k] = F[k + 1]
    BY <1>1, <1>2, <1>3
  <1>5. \A k \in DOMAIN F : k # 1 => k - 1 \in DOMAIN G /\ G[k - 1] = F[k]
    <2> SUFFICES ASSUME NEW k \in DOMAIN F, k # 1
                 PROVE  k - 1 \in DOMAIN G /\ G[k - 1] = F[k]
      OBVIOUS
    <2>1. k \in 1..Len(s) /\ s[k] \in S /\ (k - 1) + 1 = k /\ k - 1 \in 1..(Len(s) - 1)
      BY <1>1, <1>2
    <2>2. k - 1 \in DOMAIN G
      BY <1>2, <2>1
    <2> QED
      BY <1>3, <2>1, <2>2
  <1>6. 1 \in DOMAIN F <=> Head(s) \in S
    BY <1>1, <1>2
  <1>7. 1 \in DOMAIN F => F[1] = g[Head(s)]
    BY <1>1, <1>3
  <1>8. Vals(F) = Vals(G) \cup (IF Head(s) \in S THEN {g[Head(s)]} ELSE {})
    BY <1>4, <1>5, <1>6, <1>7 DEF Vals
  <1>9. ASSUME Rising(F)
        PROVE  Rising(G) /\ (Head(s) \in S => Below({g[Head(s)]}, Vals(G)))
    <2>1. Rising(G)
      <3> SUFFICES ASSUME NEW k \in DOMAIN G, NEW l \in DOMAIN G, k < l PROVE G[k] < G[l]
        BY DEF Rising
      <3>1. k \in Nat /\ l \in Nat /\ k + 1 < l + 1
        BY <1>1, <1>2
      <3> QED
        BY <1>4, <1>9, <3>1 DEF Rising
    <2>2. Head(s) \in S => \A k \in DOMAIN G : F[1] < G[k]
      BY <1>4, <1>6, <1>9 DEF Rising
    <2> QED
      BY <1>6, <1>7, <2>1, <2>2 DEF Below, Vals
  <1> QED
    BY <1>8, <1>9 DEF F, G

LEMMA MarksAppend ==
  ASSUME NEW T, NEW s \in Seq(T), NEW e \in T, NEW S, NEW g
  PROVE  /\ Vals(Marks(Append(s, e), S, g)) =
              Vals(Marks(s, S, g)) \cup (IF e \in S THEN {g[e]} ELSE {})
         /\ Rising(Marks(s, S, g)) /\ (e \in S => Below(Vals(Marks(s, S, g)), {g[e]})) =>
              Rising(Marks(Append(s, e), S, g))
  <1> DEFINE F == Marks(s, S, g)
             G == Marks(Append(s, e), S, g)
             n == Len(s) + 1
  <1>1. /\ Len(s) \in Nat /\ DOMAIN s = 1..Len(s) /\ Append(s, e) \in Seq(T)
        /\ Len(Append(s, e)) = n /\ Append(s, e)[n] = e
        /\ \A k \in 1..Len(s) : Append(s, e)[k] = s[k]
    BY LenProperties, AppendProperties
  <1>2. DOMAIN Append(s, e) = 1..n
    BY <1>1, LenProperties
  <1>3. /\ \A k \in DOMAIN F : k \in 1..Len(s) /\ k \in DOMAIN G /\ G[k] = F[k] /\ k < n
        /\ \A k \in DOMAIN G : k = n \/ k \in DOMAIN F
        /\ n \notin DOMAIN F
        /\ n \in DOMAIN G <=> e \in S
        /\ n \in DOMAIN G => G[n] = g[e]
    <2>1. \A k \in DOMAIN F : k \in 1..Len(s) /\ s[k] \in S /\ F[k] = g[s[k]]
      BY <1>1 DEF Marks
    <2>2. \A k \in DOMAIN G : k \in 1..n /\ Append(s, e)[k] \in S /\ G[k] = g[Append(s, e)[k]]
      BY <1>2 DEF Marks
    <2>3. \A k \in 1..n : Append(s, e)[k] \in S => k \in DOMAIN G
      BY <1>2 DEF Marks
    <2>4. \A k \in 1..Len(s) : s[k] \in S => k \in DOMAIN F
      BY <1>1 DEF Marks
    <2> HIDE DEF F, G
    <2>5. \A k \in 1..n : k = n \/ k \in 1..Len(s)
      BY <1>1
    <2>6. n \in 1..n /\ \A k \in 1..Len(s) : k \in 1..n /\ k < n
      BY <1>1
    <2> HIDE DEF n
    <2> QED
      BY <1>1, <2>1, <2>2, <2>3, <2>4, <2>5, <2>6
  <1> HIDE DEF F, G
  <1>4. Vals(G) = Vals(F) \cup (IF e \in S THEN {g[e]} ELSE {})
    BY <1>3 DEF Vals
  <1>5. ASSUME Rising(F), e \in S => Below(Vals(F), {g[e]}) PROVE Rising(G)
    <2> SUFFICES ASSUME NEW k \in DOMAIN G, NEW l \in DOMAIN G, k < l PROVE G[k] < G[l]
      BY DEF Rising
    <2>1. k \in DOMAIN F
      BY <1>1, <1>3
    <2>2. CASE l \in DOMAIN F
      BY <1>3, <1>5, <2>1, <2>2 DEF Rising
    <2>3. CASE l = n
      BY <1>3, <1>5, <2>1, <2>3 DEF Below, Vals
    <2> QED
      BY <1>3, <2>2, <2>3
  <1> QED
    BY <1>4, <1>5 DEF F, G

LEMMA CandidatesMarked ==
  ASSUME NEW messages \in Seq(Message)
  PROVE  CandidatesOf(messages) = Marks(messages, Candidates, CandidateId)
  <1>1. \A k \in DOMAIN messages : messages[k] \in Message
    BY LenProperties
  <1>2. {j \in DOMAIN messages : IsCandidate(messages[j])} =
          {j \in DOMAIN messages : messages[j] \in Candidates}
    BY <1>1 DEF Candidates
  <1> QED
    BY <1>1, <1>2 DEF CandidatesOf, Marks, CandidateId

LEMMA TasksMarked ==
  ASSUME NEW s \in Seq(Task)
  PROVE  CandidatesOf([k \in {j \in DOMAIN s : s[j].kind = "inbound"} |-> s[k].msg])
           = Marks(s, Arrivals, ArrivalId)
  <1> DEFINE inbound == [k \in {j \in DOMAIN s : s[j].kind = "inbound"} |-> s[k].msg]
  <1>1. \A k \in DOMAIN s : s[k] \in Task
    BY LenProperties
  <1>2. {j \in DOMAIN inbound : IsCandidate(inbound[j])} = {j \in DOMAIN s : s[j] \in Arrivals}
    BY <1>1 DEF Arrivals
  <1>3. \A k \in {j \in DOMAIN s : s[j] \in Arrivals} : inbound[k].id = ArrivalId[s[k]]
    BY DEF ArrivalId, Arrivals
  <1> QED
    BY <1>2, <1>3 DEF CandidatesOf, Marks

LEMMA ComingMarked ==
  /\ TypeOK => Coming = Marks(tasks, Arrivals, ArrivalId)
  /\ TypeOK' => Coming' = Marks(tasks', Arrivals, ArrivalId)
  <1>1. ASSUME TypeOK PROVE Coming = Marks(tasks, Arrivals, ArrivalId)
    BY <1>1, TypeParts, TasksMarked DEF Coming, InboundMessages
  <1>2. ASSUME TypeOK' PROVE Coming' = Marks(tasks', Arrivals, ArrivalId)
    <2>1. tasks' \in Seq(Task)
      BY <1>2 DEF TypeOK, ThreadTypeOK
    <2> QED
      BY <2>1, TasksMarked DEF Coming, InboundMessages
  <1> QED
    BY <1>1, <1>2

(* What is left of s without its first k elements.                             *)
LEMMA SuffixElements ==
  ASSUME NEW T, NEW s \in Seq(T), NEW k \in 0..Len(s)
  PROVE  LET R == SubSeq(s, k + 1, Len(s))
         IN  R \in Seq(T) /\ Len(R) = Len(s) - k /\ \A i \in 1..Len(R) : R[i] = s[i + k]
  <1>1. PICK n \in Nat : n = Len(s)
    BY LenProperties
  <1>2. k \in Nat /\ (k + 1 <= n \/ k = n)
    BY <1>1
  <1>3. \A i \in (k + 1)..n : s[i] \in T
    BY <1>1, <1>2, LenProperties
  <1> DEFINE R == SubSeq(s, k + 1, n)
  <1>4. /\ R \in Seq(T) /\ Len(R) = IF k + 1 <= n THEN n - (k + 1) + 1 ELSE 0
        /\ \A i \in 1..(n - (k + 1) + 1) : R[i] = s[(k + 1) + i - 1]
    BY <1>2, <1>3, SubSeqProperties
  <1> HIDE DEF R
  <1>5. Len(R) = n - k
    BY <1>2, <1>4
  <1>6. \A i \in 1..Len(R) : i \in 1..(n - (k + 1) + 1) /\ (k + 1) + i - 1 = i + k
    BY <1>2, <1>5
  <1> QED
    BY <1>1, <1>4, <1>5, <1>6 DEF R

(* The first k messages are candidates: their numbers, and what is left.       *)
LEMMA FrontTaken ==
  ASSUME NEW Q \in Seq(Message), NEW k \in 0..Len(Q),
         \A l \in 1..k : IsCandidate(Q[l])
  PROVE  LET ids == [l \in 1..k |-> Q[l].id]
             rest == CandidatesOf(SubSeq(Q, k + 1, Len(Q)))
         IN  /\ ids \in Seq(Nat)
             /\ Vals(CandidatesOf(Q)) = Vals(ids) \cup Vals(rest)
             /\ Rising(CandidatesOf(Q)) =>
                  Rising(ids) /\ Rising(rest) /\ Below(Vals(ids), Vals(rest))
  <1> DEFINE ids == [l \in 1..k |-> Q[l].id]
             R == SubSeq(Q, k + 1, Len(Q))
             rest == CandidatesOf(R)
             C == CandidatesOf(Q)
  <1>1. Len(Q) \in Nat /\ k \in Nat /\ DOMAIN Q = 1..Len(Q) /\ k <= Len(Q)
        /\ \A l \in 1..Len(Q) : Q[l] \in Message
    BY LenProperties
  <1>2. ids \in Seq(Nat)
    <2>1. \A l \in 1..k : Q[l].id \in Nat
      BY <1>1 DEF Message
    <2>2. ids \in [1..k -> Nat]
      BY <2>1
    <2> QED
      BY <1>1, <2>2, SeqDef
  <1>3. /\ R \in Seq(Message) /\ Len(R) = Len(Q) - k
        /\ \A i \in 1..Len(R) : R[i] = Q[i + k]
    BY SuffixElements
  <1>4. DOMAIN R = 1..(Len(Q) - k)
    BY <1>3, LenProperties
  <1>5. /\ DOMAIN C = {j \in 1..Len(Q) : IsCandidate(Q[j])}
        /\ \A j \in DOMAIN C : C[j] = Q[j].id
    BY <1>1 DEF CandidatesOf
  <1>6. /\ DOMAIN rest = {j \in 1..(Len(Q) - k) : IsCandidate(Q[j + k])}
        /\ \A j \in DOMAIN rest : rest[j] = Q[j + k].id
    BY <1>3, <1>4 DEF CandidatesOf
  <1>7. DOMAIN ids = 1..k /\ \A j \in DOMAIN ids : ids[j] = Q[j].id
    OBVIOUS
  <1> HIDE DEF ids, R, rest, C
  <1>8. \A j \in DOMAIN ids : j \in DOMAIN C /\ ids[j] = C[j] /\ j \in Nat /\ j <= k
    BY <1>1, <1>5, <1>7
  <1>9. \A j \in DOMAIN rest :
          j + k \in DOMAIN C /\ rest[j] = C[j + k] /\ j \in Nat /\ j + k > k
    BY <1>1, <1>5, <1>6
  <1>10. \A j \in DOMAIN C : \/ j \in DOMAIN ids
                             \/ j - k \in DOMAIN rest /\ rest[j - k] = C[j]
    <2> SUFFICES ASSUME NEW j \in DOMAIN C, j \notin DOMAIN ids
                 PROVE  j - k \in DOMAIN rest /\ rest[j - k] = C[j]
      OBVIOUS
    <2>1. j \in 1..Len(Q) /\ IsCandidate(Q[j]) /\ (j - k) + k = j /\ j - k \in 1..(Len(Q) - k)
      BY <1>1, <1>5, <1>7
    <2>2. j - k \in DOMAIN rest
      BY <1>6, <2>1
    <2> QED
      BY <1>5, <1>6, <2>1, <2>2
  <1>11. Vals(C) = Vals(ids) \cup Vals(rest)
    BY <1>8, <1>9, <1>10 DEF Vals
  <1>12. ASSUME Rising(C)
         PROVE  Rising(ids) /\ Rising(rest) /\ Below(Vals(ids), Vals(rest))
    <2>1. Rising(ids)
      BY <1>8, <1>12 DEF Rising
    <2>2. Rising(rest)
      <3> SUFFICES ASSUME NEW i \in DOMAIN rest, NEW j \in DOMAIN rest, i < j
                   PROVE  rest[i] < rest[j]
        BY DEF Rising
      <3>1. i + k < j + k
        BY <1>1, <1>9
      <3> QED
        BY <1>9, <1>12, <3>1 DEF Rising
    <2>3. \A i \in DOMAIN ids, j \in DOMAIN rest : ids[i] < rest[j]
      <3> SUFFICES ASSUME NEW i \in DOMAIN ids, NEW j \in DOMAIN rest
                   PROVE  ids[i] < rest[j]
        OBVIOUS
      <3>1. i < j + k
        BY <1>1, <1>8, <1>9
      <3> QED
        BY <1>8, <1>9, <1>12, <3>1 DEF Rising
    <2> QED
      BY <2>1, <2>2, <2>3 DEF Below, Vals
  <1> QED
    BY <1>2, <1>11, <1>12 DEF ids, R, rest, C

LEMMA ListsJoined ==
  ASSUME NEW f \in Seq(Nat), NEW g \in Seq(Nat)
  PROVE  /\ Vals(f \o g) = Vals(f) \cup Vals(g)
         /\ Rising(f) /\ Rising(g) /\ Below(Vals(f), Vals(g)) => Rising(f \o g)
  <1> DEFINE h == f \o g
  <1>1. /\ Len(f) \in Nat /\ Len(g) \in Nat /\ DOMAIN f = 1..Len(f) /\ DOMAIN g = 1..Len(g)
        /\ h \in Seq(Nat) /\ Len(h) = Len(f) + Len(g)
        /\ \A i \in 1..Len(f) + Len(g) : h[i] = IF i <= Len(f) THEN f[i] ELSE g[i - Len(f)]
    BY LenProperties, ConcatProperties
  <1>2. DOMAIN h = 1..(Len(f) + Len(g))
    BY <1>1, LenProperties
  <1> HIDE DEF h
  <1>3. \A i \in DOMAIN f : i \in DOMAIN h /\ h[i] = f[i]
    BY <1>1, <1>2
  <1>4. \A i \in DOMAIN g : i + Len(f) \in DOMAIN h /\ h[i + Len(f)] = g[i]
    <2> SUFFICES ASSUME NEW i \in DOMAIN g
                 PROVE  i + Len(f) \in DOMAIN h /\ h[i + Len(f)] = g[i]
      OBVIOUS
    <2>1. i + Len(f) \in 1..(Len(f) + Len(g)) /\ ~(i + Len(f) <= Len(f))
          /\ (i + Len(f)) - Len(f) = i
      BY <1>1
    <2> QED
      BY <1>1, <1>2, <2>1
  <1>5. \A i \in DOMAIN h :
          \/ i \in DOMAIN f /\ h[i] = f[i]
          \/ i > Len(f) /\ i - Len(f) \in DOMAIN g /\ h[i] = g[i - Len(f)]
    BY <1>1, <1>2
  <1>6. Vals(h) = Vals(f) \cup Vals(g)
    BY <1>3, <1>4, <1>5 DEF Vals
  <1>7. ASSUME Rising(f), Rising(g), Below(Vals(f), Vals(g)) PROVE Rising(h)
    <2> SUFFICES ASSUME NEW i \in DOMAIN h, NEW j \in DOMAIN h, i < j PROVE h[i] < h[j]
      BY DEF Rising
    <2>1. i \in Nat /\ j \in Nat
      BY <1>1, <1>2
    <2>2. CASE j \in DOMAIN f
      <3>1. i \in DOMAIN f
        BY <1>1, <1>2, <2>1, <2>2
      <3> QED
        BY <1>3, <1>7, <2>2, <3>1 DEF Rising
    <2>3. CASE j \notin DOMAIN f /\ i \in DOMAIN f
      BY <1>3, <1>5, <1>7, <2>3 DEF Below, Vals
    <2>4. CASE j \notin DOMAIN f /\ i \notin DOMAIN f
      <3>1. i - Len(f) < j - Len(f)
        BY <1>1, <2>1
      <3> QED
        BY <1>5, <1>7, <2>4, <3>1 DEF Rising
    <2> QED
      BY <2>2, <2>3, <2>4
  <1> QED
    BY <1>6, <1>7 DEF h

LEMMA EmptyLists ==
  /\ Vals(<<>>) = {} /\ Rising(<<>>) /\ Vals(CandidatesOf(<<>>)) = {}
  /\ Rising(CandidatesOf(<<>>)) /\ CandidatesOf(<<>>) = <<>>
  BY DEF Vals, Rising, CandidatesOf

(* -- what a handler does to the candidates ------------------------------------- *)

(* The candidates of the peer client p and the queue are still there, in line. *)
Goes(p, messages) ==
  /\ TakenInLine(peer', neg'.queue)
  /\ Taken(peer', neg'.queue) = Taken(p, messages)

Resting ==
  /\ peer'.applied = peer.applied /\ peer'.buffered = peer.buffered
  /\ neg'.queue = neg.queue

(* A handler's task is neither a message nor a join response, or its message   *)
(* is queued, or the join response is.                                         *)
Took ==
  \/ finished'
  \/ /\ joined' = joined /\ Head(tasks).kind \notin {"inbound", "joined"}
     /\ Goes(peer, neg.queue) /\ (joined = "none" => Resting)
  \/ /\ joined' = joined /\ Head(tasks).kind = "inbound"
     /\ Goes(peer, Append(neg.queue, Head(tasks).msg))
  \/ /\ joined = "none" /\ joined' # "none" /\ Head(tasks).kind = "joined"
     /\ peer'.applied = peer.applied /\ peer'.buffered = <<>> /\ ~peer'.described
     /\ \E queue \in QueuedOrders(Head(tasks).msgs) : neg'.queue = neg.queue \o queue

LEMMA TakenSame ==
  ASSUME NEW p, NEW messages, TakenInLine(p, messages), peer'.applied = p.applied,
         peer'.buffered = p.buffered, peer'.described <=> p.described,
         neg'.queue = messages
  PROVE  Goes(p, messages)
  BY DEF Goes, TakenInLine, Taken

LEMMA FinishEnds ==
  ASSUME NEW reason, NEW role, NEW p, Finish(reason, role, p) PROVE finished'
  <1>1. CASE finished /\ Continue
    BY <1>1 DEF Continue, finishVars
  <1>2. CASE finished' = TRUE
    BY <1>2
  <1> QED
    BY <1>1, <1>2 DEF Finish

(* The first k messages, candidates, are given to the peer client.             *)
LEMMA FrontAdded ==
  ASSUME NEW p \in Peer, NEW Q \in Seq(Message), TakenInLine(p, Q),
         NEW k \in 0..Len(Q), \A l \in 1..k : IsCandidate(Q[l])
  PROVE  LET added == AddRemoteCandidates(p, [l \in 1..k |-> Q[l].id])
             rest == SubSeq(Q, k + 1, Len(Q))
         IN  added \in Peer /\ TakenInLine(added, rest) /\ Taken(added, rest) = Taken(p, Q)
  <1> DEFINE ids == [l \in 1..k |-> Q[l].id]
             rest == SubSeq(Q, k + 1, Len(Q))
             C == CandidatesOf(rest)
             added == AddRemoteCandidates(p, ids)
  <1>1. /\ ids \in Seq(Nat) /\ Vals(CandidatesOf(Q)) = Vals(ids) \cup Vals(C)
        /\ Rising(ids) /\ Rising(C) /\ Below(Vals(ids), Vals(C))
    BY FrontTaken DEF TakenInLine, Lined
  <1> HIDE DEF ids, rest
  <1>2. p.applied \in Seq(Nat) /\ p.buffered \in Seq(Nat)
    BY DEF Peer
  <1>3. added \in Peer
    BY <1>1, AddType
  <1> HIDE DEF C
  <1>4. CASE p.described
    <2> DEFINE F == p.applied \o ids
    <2>1. added.applied = F /\ added.buffered = <<>> /\ p.buffered = <<>>
      BY <1>4 DEF AddRemoteCandidates, Peer, TakenInLine
    <2>2. Below(Vals(p.applied), Vals(ids)) /\ Below(Vals(p.applied), Vals(C))
      BY <1>1 DEF TakenInLine, Lined, Below
    <2>3. Vals(F) = Vals(p.applied) \cup Vals(ids) /\ Rising(F)
      BY <1>1, <1>2, <2>2, ListsJoined DEF TakenInLine, Lined
    <2> HIDE DEF F, added
    <2>4. Lined(F, <<>>, C)
      BY <1>1, <2>2, <2>3, EmptyLists DEF Lined, Below
    <2>5. TakenInLine(added, rest)
      BY <2>1, <2>4 DEF TakenInLine, C
    <2>6. Taken(added, rest) = Taken(p, Q)
      BY <1>1, <2>1, <2>3 DEF Taken, C
    <2> QED
      BY <1>3, <2>5, <2>6 DEF added, ids, rest
  <1>5. CASE ~p.described
    <2> DEFINE F == p.buffered \o ids
    <2>1. added.applied = p.applied /\ added.buffered = F /\ ~added.described
      BY <1>5 DEF AddRemoteCandidates, Peer
    <2>2. /\ Below(Vals(p.applied), Vals(ids)) /\ Below(Vals(p.applied), Vals(C))
          /\ Below(Vals(p.buffered), Vals(ids)) /\ Below(Vals(p.buffered), Vals(C))
      BY <1>1 DEF TakenInLine, Lined, Below
    <2>3. Vals(F) = Vals(p.buffered) \cup Vals(ids) /\ Rising(F)
      BY <1>1, <1>2, <2>2, ListsJoined DEF TakenInLine, Lined
    <2> HIDE DEF F, added
    <2>4. Lined(p.applied, F, C)
      <3>1. /\ Rising(p.applied) /\ Rising(F) /\ Rising(C)
            /\ Below(Vals(p.applied), Vals(p.buffered))
        BY <1>1, <2>3 DEF TakenInLine, Lined
      <3>2. Below(Vals(p.applied), Vals(F)) /\ Below(Vals(F), Vals(C))
        BY <1>1, <2>2, <2>3, <3>1 DEF Below
      <3> QED
        BY <2>2, <3>1, <3>2 DEF Lined
    <2>5. TakenInLine(added, rest)
      BY <2>1, <2>4 DEF TakenInLine, C
    <2>6. Taken(added, rest) = Taken(p, Q)
      BY <1>1, <2>1, <2>3 DEF Taken, C
    <2> QED
      BY <1>3, <2>5, <2>6 DEF added, ids, rest
  <1> QED
    BY <1>4, <1>5

(* The front of the queue, not a candidate, is handled.                        *)
LEMMA FrontDropped ==
  ASSUME NEW p, NEW Q \in Seq(Message), TakenInLine(p, Q), Q # <<>>, ~IsCandidate(Head(Q))
  PROVE  TakenInLine(p, Tail(Q)) /\ Taken(p, Tail(Q)) = Taken(p, Q)
  <1>1. Tail(Q) \in Seq(Message) /\ Head(Q) \notin Candidates
    BY HeadTailProperties DEF Candidates
  <1>2. /\ Vals(CandidatesOf(Q)) = Vals(CandidatesOf(Tail(Q)))
        /\ Rising(CandidatesOf(Q)) => Rising(CandidatesOf(Tail(Q)))
    <2>1. /\ CandidatesOf(Q) = Marks(Q, Candidates, CandidateId)
          /\ CandidatesOf(Tail(Q)) = Marks(Tail(Q), Candidates, CandidateId)
      BY <1>1, CandidatesMarked
    <2>2. /\ Vals(Marks(Q, Candidates, CandidateId)) =
               Vals(Marks(Tail(Q), Candidates, CandidateId))
          /\ Rising(Marks(Q, Candidates, CandidateId)) =>
               Rising(Marks(Tail(Q), Candidates, CandidateId))
      <3> DEFINE id == CandidateId[Head(Q)]
      <3>1. /\ Vals(Marks(Q, Candidates, CandidateId)) =
                 Vals(Marks(Tail(Q), Candidates, CandidateId))
                   \cup (IF Head(Q) \in Candidates THEN {id} ELSE {})
            /\ Rising(Marks(Q, Candidates, CandidateId)) =>
                 Rising(Marks(Tail(Q), Candidates, CandidateId))
        BY MarksTail
      <3> HIDE DEF id
      <3> QED
        BY <1>1, <3>1
    <2> QED
      BY <2>1, <2>2
  <1> DEFINE C == CandidatesOf(Q)
             D == CandidatesOf(Tail(Q))
  <1>3. Vals(C) = Vals(D) /\ (Rising(C) => Rising(D))
    BY <1>2
  <1>4. (TakenInLine(p, Tail(Q)) <=> (p.described => p.buffered = <<>>) /\ Lined(p.applied, p.buffered, D))
        /\ (p.described => p.buffered = <<>>) /\ Lined(p.applied, p.buffered, C)
    BY DEF TakenInLine
  <1> HIDE DEF C, D
  <1>5. TakenInLine(p, Tail(Q))
    BY <1>3, <1>4 DEF Lined
  <1> QED
    BY <1>3, <1>5 DEF Taken, C, D

(* The buffered candidates are applied.                                        *)
LEMMA BufferFlushed ==
  ASSUME NEW p \in Peer, NEW Q, TakenInLine(p, Q)
  PROVE  LET flushed == FlushPendingRemoteCandidates(p)
         IN  flushed \in Peer /\ TakenInLine(flushed, Q) /\ Taken(flushed, Q) = Taken(p, Q)
  <1> DEFINE flushed == FlushPendingRemoteCandidates(p)
             F == p.applied \o p.buffered
  <1>1. p.applied \in Seq(Nat) /\ p.buffered \in Seq(Nat)
    BY DEF Peer
  <1>2. flushed.applied = F /\ flushed.buffered = <<>>
    BY DEF FlushPendingRemoteCandidates, Peer
  <1>3. Vals(F) = Vals(p.applied) \cup Vals(p.buffered) /\ Rising(F)
    BY <1>1, ListsJoined DEF TakenInLine, Lined
  <1>4. flushed \in Peer
    BY FlushType
  <1> HIDE DEF F, flushed
  <1>5. Lined(F, <<>>, CandidatesOf(Q))
    BY <1>3, EmptyLists DEF TakenInLine, Lined, Below
  <1>6. TakenInLine(flushed, Q)
    BY <1>2, <1>5 DEF TakenInLine
  <1>7. Taken(flushed, Q) = Taken(p, Q)
    BY <1>2, <1>3, EmptyLists DEF Taken
  <1> QED
    BY <1>4, <1>6, <1>7 DEF flushed

LEMMA StartGoes ==
  ASSUME NEW n \in Negotiation, NEW p \in Peer, NEW step, TakenInLine(p, n.queue),
         StartNegotiating(n, p, step)
  PROVE  Goes(p, n.queue)
  <1>1. neg' = [n EXCEPT !.busy = TRUE] /\ peer' = Start(p, step)
    BY DEF StartNegotiating
  <1>2. /\ neg'.queue = n.queue /\ peer'.applied = p.applied
        /\ peer'.buffered = p.buffered /\ peer'.described = p.described
    BY <1>1 DEF Negotiation, Start, Peer
  <1> QED
    BY <1>2, TakenSame

LEMMA NextGoes ==
  ASSUME ~finished', NEW n \in Negotiation, NEW p \in Peer, TakenInLine(p, n.queue),
         PumpNext(n, p)
  PROVE  Goes(p, n.queue)
  <1> DEFINE rest == [n EXCEPT !.queue = Tail(@)]
             first == [n EXCEPT !.offered = TRUE]
  <1>1. CASE StartNegotiating(first, p, "createOffer")
    <2>1. first \in Negotiation /\ first.queue = n.queue
      BY DEF Negotiation
    <2> HIDE DEF first
    <2> QED
      BY <1>1, <2>1, StartGoes
  <1>2. CASE neg' = n /\ peer' = p
    BY <1>2, TakenSame
  <1>3. CASE \E reason : Finish(reason, joined, p)
    BY <1>3, FinishEnds
  <1>4. CASE /\ n.queue # <<>> /\ Head(n.queue).type \in {"answer", "offer"}
             /\ \E step : ApplyDescription(rest, p, step)
    <2>1. rest \in Negotiation /\ rest.queue = Tail(n.queue) /\ n.queue \in Seq(Message)
      BY <1>4, RestType DEF Negotiation
    <2> HIDE DEF rest
    <2>2. PICK step : StartNegotiating(rest, p, step)
      BY <1>4, FinishEnds DEF ApplyDescription
    <2>3. TakenInLine(p, Tail(n.queue)) /\ Taken(p, Tail(n.queue)) = Taken(p, n.queue)
      BY <1>4, <2>1, FrontDropped DEF IsCandidate
    <2>4. Goes(p, Tail(n.queue))
      BY <2>1, <2>2, <2>3, StartGoes
    <2> QED
      BY <2>3, <2>4 DEF Goes
  <1>5. CASE Finish(IF callEstablished THEN "RemoteByeAfterEstablished"
                                       ELSE "RemoteByeBeforeEstablished", joined, p)
    BY <1>5, FinishEnds
  <1> QED
    BY <1>1, <1>2, <1>3, <1>4, <1>5 DEF PumpNext

LEMMA PumpGoes ==
  ASSUME ~finished', NEW n \in Negotiation, NEW p \in Peer, TakenInLine(p, n.queue),
         PumpSignalingMessages(n, p)
  PROVE  Goes(p, n.queue) /\ (joined = "none" => neg' = n /\ peer' = p)
  <1>1. CASE neg' = n /\ peer' = p /\ UNCHANGED <<net, state>> /\ Continue
    BY <1>1, TakenSame
  <1>2. ASSUME joined # "none", NEW k \in 0..Len(n.queue),
               \A l \in 1..k : IsCandidate(n.queue[l]),
               LET ids == [l \in 1..k |-> n.queue[l].id]
                   After(l) == [n EXCEPT !.queue = SubSeq(@, l, Len(@))]
                   added == AddRemoteCandidates(p, ids)
               IN  \/ PumpNext(After(k + 1), added)
                   \/ Finish("PeerConnectionError", joined, added)
        PROVE  Goes(p, n.queue)
    <2> DEFINE ids == [l \in 1..k |-> n.queue[l].id]
               rest == SubSeq(n.queue, k + 1, Len(n.queue))
               m == [n EXCEPT !.queue = SubSeq(@, k + 1, Len(@))]
               added == AddRemoteCandidates(p, ids)
    <2>1. k + 1 \in Nat \ {0} /\ n.queue \in Seq(Message)
      BY LenProperties DEF Negotiation
    <2>2. m \in Negotiation /\ m.queue = rest
      BY <2>1, AfterType DEF Negotiation
    <2>3. added \in Peer /\ TakenInLine(added, rest) /\ Taken(added, rest) = Taken(p, n.queue)
      BY <1>2, <2>1, FrontAdded
    <2>4. PumpNext(m, added) \/ Finish("PeerConnectionError", joined, added)
      BY <1>2
    <2> HIDE DEF m, added, rest
    <2>5. Goes(added, rest)
      BY <2>2, <2>3, <2>4, FinishEnds, NextGoes
    <2> QED
      BY <2>3, <2>5 DEF Goes
  <1> QED
    BY <1>1, <1>2 DEF PumpSignalingMessages

(* -- the handlers' candidates --------------------------------------------------- *)

(* The candidates in the tasks behind the one that runs.                       *)
Behind == Marks(Tail(tasks), Arrivals, ArrivalId)

LEMMA BehindComing ==
  ASSUME TypeOK, HasTask
  PROVE  /\ Vals(Coming) =
              Vals(Behind) \cup (IF Head(tasks) \in Arrivals THEN {Head(tasks).msg.id} ELSE {})
         /\ Rising(Coming) =>
              /\ Rising(Behind)
              /\ Head(tasks) \in Arrivals => Below({Head(tasks).msg.id}, Vals(Behind))
  <1>1. tasks \in Seq(Task) /\ tasks # <<>>
    BY TypeParts DEF HasTask
  <1>2. /\ Vals(Marks(tasks, Arrivals, ArrivalId)) =
             Vals(Behind)
               \cup (IF Head(tasks) \in Arrivals THEN {ArrivalId[Head(tasks)]} ELSE {})
        /\ Rising(Marks(tasks, Arrivals, ArrivalId)) =>
             /\ Rising(Behind)
             /\ Head(tasks) \in Arrivals => Below({ArrivalId[Head(tasks)]}, Vals(Behind))
    BY <1>1, MarksTail DEF Behind
  <1>3. Head(tasks) \in Arrivals => ArrivalId[Head(tasks)] = Head(tasks).msg.id
    BY DEF ArrivalId
  <1>4. Coming = Marks(tasks, Arrivals, ArrivalId)
    BY ComingMarked
  <1> HIDE DEF Behind
  <1> QED
    BY <1>2, <1>3, <1>4

(* The message that the handler's task carries joins the queue.                *)
LEMMA HeardInLine ==
  ASSUME TypeOK, HasTask, Head(tasks).kind = "inbound", TakenInLine(peer, neg.queue),
         Rising(Coming), Below(Taken(peer, neg.queue), Vals(Coming))
  PROVE  LET heardQueue == Append(neg.queue, Head(tasks).msg)
         IN  /\ TakenInLine(peer, heardQueue)
             /\ Taken(peer, heardQueue) \cup Vals(Behind) =
                  Taken(peer, neg.queue) \cup Vals(Coming)
             /\ Rising(Behind) /\ Below(Taken(peer, heardQueue), Vals(Behind))
  <1> DEFINE m == Head(tasks).msg
             Q == Append(neg.queue, m)
             C == CandidatesOf(neg.queue)
             D == CandidatesOf(Q)
             new == IF m \in Candidates THEN {m.id} ELSE {}
  <1>1. neg.queue \in Seq(Message) /\ m \in Message /\ Head(tasks) \in Task
    BY TypeParts, TaskFields, TailType DEF Negotiation
  <1>2. Head(tasks) \in Arrivals <=> m \in Candidates
    BY <1>1 DEF Arrivals, Candidates
  <1>3. Vals(Coming) = Vals(Behind) \cup new /\ Rising(Behind) /\ Below(new, Vals(Behind))
    BY <1>2, BehindComing DEF Below
  <1>4. Q \in Seq(Message)
    BY <1>1, AppendProperties
  <1>5. C = Marks(neg.queue, Candidates, CandidateId) /\ D = Marks(Q, Candidates, CandidateId)
    BY <1>1, <1>4, CandidatesMarked
  <1> HIDE DEF m
  <1>6. m \in Candidates => CandidateId[m] = m.id
    BY DEF CandidateId
  <1>7. /\ Vals(Marks(Q, Candidates, CandidateId)) =
             Vals(Marks(neg.queue, Candidates, CandidateId))
               \cup (IF m \in Candidates THEN {CandidateId[m]} ELSE {})
        /\ /\ Rising(Marks(neg.queue, Candidates, CandidateId))
           /\ m \in Candidates =>
                Below(Vals(Marks(neg.queue, Candidates, CandidateId)), {CandidateId[m]})
           => Rising(Marks(Q, Candidates, CandidateId))
    BY <1>1, MarksAppend
  <1> HIDE DEF C, D
  <1>8. Vals(D) = Vals(C) \cup new /\ (Rising(C) /\ Below(Vals(C), new) => Rising(D))
    BY <1>5, <1>6, <1>7
  <1>9. /\ Taken(peer, neg.queue) = Vals(peer.applied) \cup Vals(peer.buffered) \cup Vals(C)
        /\ Taken(peer, Q) = Vals(peer.applied) \cup Vals(peer.buffered) \cup Vals(D)
    BY DEF Taken, C, D
  <1> HIDE DEF new
  <1>10. /\ Below(Vals(C), new) /\ Below(Vals(peer.applied), new)
         /\ Below(Vals(peer.buffered), new)
    BY <1>3, <1>9 DEF Below
  <1>11. Lined(peer.applied, peer.buffered, C) /\ (peer.described => peer.buffered = <<>>)
    BY DEF TakenInLine, C
  <1>12. Lined(peer.applied, peer.buffered, D)
    BY <1>8, <1>10, <1>11 DEF Lined, Below
  <1>13. TakenInLine(peer, Q)
    BY <1>11, <1>12 DEF TakenInLine, D
  <1>14. Taken(peer, Q) \cup Vals(Behind) = Taken(peer, neg.queue) \cup Vals(Coming)
    BY <1>3, <1>8, <1>9
  <1>15. Below(Taken(peer, Q), Vals(Behind))
    BY <1>3, <1>8, <1>9 DEF Below
  <1> QED
    BY <1>3, <1>13, <1>14, <1>15 DEF m

LEMMA RestTook ==
  ASSUME TakenInLine(peer, neg.queue), joined' = joined,
         Head(tasks).kind \notin {"inbound", "joined"}, Resting,
         peer'.described <=> peer.described
  PROVE  Took
  BY TakenSame DEF Took, Resting

LEMMA FinishTook == ASSUME NEW reason, NEW role, NEW p, Finish(reason, role, p) PROVE Took
  BY FinishEnds DEF Took

(* A handler that pumps the queue of n, which is the controller's.             *)
LEMMA PumpTook ==
  ASSUME TakenInLine(peer, neg.queue), joined' = joined, peer \in Peer,
         Head(tasks).kind \notin {"inbound", "joined"}, NEW n \in Negotiation,
         n.queue = neg.queue, PumpSignalingMessages(n, peer)
  PROVE  Took
  <1>1. CASE finished'
    BY <1>1 DEF Took
  <1>2. CASE ~finished'
    BY <1>2, PumpGoes DEF Took, Resting
  <1> QED
    BY <1>1, <1>2

(* A handler of the candidates' invariant, before the call has finished.       *)
Takes ==
  /\ Runs /\ ~finished /\ HonestInv
  /\ TakenInLine(peer, neg.queue) /\ Rising(Coming)
  /\ Below(Taken(peer, neg.queue), Vals(Coming))

LEMMA IgnoreTook ==
  ASSUME Takes, Ignore, Head(tasks).kind \notin {"inbound", "joined"} PROVE Took
  BY RestTook DEF Takes, Ignore, Resting

LEMMA OnJoinCompleteTook == Takes /\ OnJoinComplete => Took
  <1> SUFFICES ASSUME Takes, OnJoinComplete PROVE Took
    OBVIOUS
  <1>1. Head(tasks).kind = "joined" /\ HasTask
    BY RunningTask DEF OnJoinComplete
  <1>2. joined = "none"
    <2>1. 1 \in DOMAIN tasks /\ Head(tasks) = tasks[1]
      BY <1>1, TailElements, TypeParts DEF Takes, HonestInv, HasTask
    <2> QED
      BY <1>1, <2>1 DEF Takes, HonestInv, JoinOnce
  <1>3. CASE \E reason, role, p : Finish(reason, role, p)
    BY <1>3, FinishTook
  <1>4. CASE /\ joined' = Head(tasks).role /\ Head(tasks).role # "none"
             /\ \E queue \in QueuedOrders(Head(tasks).msgs) :
                  neg' = [neg EXCEPT !.queue = @ \o queue]
             /\ peer' = Initialize(peer)
    <2>1. peer \in Peer /\ neg \in Negotiation
      BY RunsFacts DEF Takes
    <2>2. peer'.applied = peer.applied /\ peer'.buffered = <<>> /\ ~peer'.described
      BY <1>4, <2>1 DEF Initialize, Peer
    <2>3. \E queue \in QueuedOrders(Head(tasks).msgs) : neg'.queue = neg.queue \o queue
      BY <1>4, <2>1 DEF Negotiation
    <2> QED
      BY <1>1, <1>2, <1>4, <2>2, <2>3 DEF Took
  <1> QED
    BY <1>3, <1>4 DEF OnJoinComplete, Takes

LEMMA OnSignalingTook ==
  ASSUME Takes, \/ OnWebSocketOpen \/ OnRegisterComplete \/ OnSignalingError
                \/ OnDescriptionSent \/ OnCandidateSent \/ OnByeSent
  PROVE  Took
  <1>1. peer \in Peer /\ neg \in Negotiation /\ Settled \in Negotiation
    BY RunsFacts DEF Takes
  <1>2. Head(tasks).kind \notin {"inbound", "joined"} /\ joined' = joined
    BY RunningTask DEF OnWebSocketOpen, OnRegisterComplete, OnSignalingError,
       OnDescriptionSent, OnCandidateSent, OnByeSent, Ignore
  <1>3. CASE OnWebSocketOpen
    <2>1. CASE Ignore
      BY <1>2, <2>1, IgnoreTook
    <2>2. CASE UNCHANGED <<peer, neg>>
      BY <1>2, <2>2, RestTook DEF Takes, Resting
    <2> QED
      BY <1>3, <2>1, <2>2 DEF OnWebSocketOpen
  <1>4. CASE OnRegisterComplete
    <2> DEFINE n == [neg EXCEPT !.ready = TRUE]
    <2>1. n \in Negotiation /\ n.queue = neg.queue
      BY <1>1 DEF Negotiation
    <2>2. CASE PumpSignalingMessages(n, peer)
      <3> HIDE DEF n
      <3> QED
        BY <1>1, <1>2, <2>1, <2>2, PumpTook DEF Takes
    <2> QED
      BY <1>4, <2>2, FinishTook DEF OnRegisterComplete, Takes
  <1>5. CASE OnDescriptionSent
    <2>1. Settled.queue = neg.queue
      BY <1>1 DEF Settled, Negotiation
    <2>2. CASE PumpSignalingMessages(Settled, peer)
      BY <1>1, <1>2, <2>1, <2>2, PumpTook DEF Takes
    <2> QED
      BY <1>5, <2>2, FinishTook DEF OnDescriptionSent
  <1>6. CASE OnSignalingError \/ OnCandidateSent
    BY <1>2, <1>6, FinishTook, IgnoreTook DEF OnSignalingError, OnCandidateSent
  <1>7. CASE OnByeSent
    <2>1. loop' = "quit"
      BY <1>7 DEF OnByeSent, CompleteFinish
    <2> QED
      BY <2>1 DEF Takes, Runs
  <1> QED
    BY <1>3, <1>4, <1>5, <1>6, <1>7

LEMMA OnInboundTook ==
  Takes /\ OnInboundSignalingMessage => Took
  <1> SUFFICES ASSUME Takes, OnInboundSignalingMessage, ~finished' PROVE Took
    BY DEF Took
  <1> DEFINE n == [neg EXCEPT !.queue = Append(@, Head(tasks).msg)]
  <1>1. /\ Head(tasks).kind = "inbound" /\ HasTask /\ joined' = joined
        /\ PumpSignalingMessages(n, peer)
    BY RunningTask DEF OnInboundSignalingMessage, Takes
  <1>2. peer \in Peer /\ neg \in Negotiation /\ TypeOK
    BY RunsFacts DEF Takes
  <1>3. n \in Negotiation /\ n.queue = Append(neg.queue, Head(tasks).msg)
    <2>1. Head(tasks).msg \in Message
      BY <1>1, <1>2, TaskFields
    <2>2. Append(neg.queue, Head(tasks).msg) \in Seq(Message)
      BY <1>2, <2>1, AppendProperties DEF Negotiation
    <2> QED
      BY <1>2, <2>2 DEF Negotiation
  <1> HIDE DEF n
  <1>4. TakenInLine(peer, n.queue)
    BY <1>1, <1>2, <1>3, HeardInLine DEF Takes
  <1>5. Goes(peer, n.queue)
    BY <1>1, <1>2, <1>3, <1>4, PumpGoes
  <1> QED
    BY <1>1, <1>3, <1>5 DEF Took

LEMMA OnObserverTook ==
  ASSUME Takes, OnStepFailed \/ OnCreated \/ OnLocalDescriptionSet \/ OnRemoteDescriptionSet
  PROVE  Took
  <1>1. peer \in Peer /\ neg \in Negotiation /\ Settled \in Negotiation
    BY RunsFacts DEF Takes
  <1>2. /\ Head(tasks).kind = "observer" /\ HasTask /\ joined' = joined
    BY RunningTask DEF RunningLive, OnStepFailed, OnCreated, OnLocalDescriptionSet,
       OnRemoteDescriptionSet
  <1>3. joined # "none"
    <2>1. 1 \in DOMAIN tasks /\ Head(tasks) = tasks[1]
      BY <1>2, TailElements, TypeParts DEF Takes, HonestInv, HasTask
    <2> QED
      BY <1>2, <2>1 DEF Takes, HonestInv, JoinedFirst
  <1>4. CASE OnStepFailed
    BY <1>4, FinishTook DEF OnStepFailed
  <1>5. CASE OnCreated
    <2>1. /\ peer' = Start(peer, NextStep[Head(tasks).step]) /\ neg' = neg
      BY <1>5 DEF OnCreated
    <2>2. /\ peer'.applied = peer.applied /\ peer'.buffered = peer.buffered
          /\ peer'.described = peer.described
      BY <1>1, <2>1 DEF Start, Peer
    <2> QED
      BY <1>2, <2>1, <2>2, RestTook DEF Takes, Resting
  <1>6. CASE OnLocalDescriptionSet
    BY <1>2, <1>6, RestTook DEF OnLocalDescriptionSet, SendLocalDescription, Takes, Resting
  <1>7. CASE OnRemoteDescriptionSet
    <2> SUFFICES ASSUME ~finished' PROVE Took
      BY DEF Took
    <2> DEFINE flushed == FlushPendingRemoteCandidates(peer)
    <2>1. /\ flushed \in Peer /\ TakenInLine(flushed, neg.queue)
          /\ Taken(flushed, neg.queue) = Taken(peer, neg.queue)
      BY <1>1, BufferFlushed DEF Takes
    <2>2. \/ \E step : peer' = Start(flushed, step) /\ neg' = neg
          \/ PumpSignalingMessages(Settled, flushed)
      BY <1>7, FinishEnds DEF OnRemoteDescriptionSet
    <2> HIDE DEF flushed
    <2>3. Goes(flushed, neg.queue)
      <3>1. CASE \E step : peer' = Start(flushed, step) /\ neg' = neg
        <4>1. /\ peer'.applied = flushed.applied /\ peer'.buffered = flushed.buffered
              /\ peer'.described = flushed.described /\ neg'.queue = neg.queue
          BY <2>1, <3>1 DEF Start, Peer
        <4> QED
          BY <2>1, <4>1, TakenSame
      <3>2. CASE PumpSignalingMessages(Settled, flushed)
        <4>1. Settled.queue = neg.queue
          BY <1>1 DEF Settled, Negotiation
        <4> QED
          BY <1>1, <2>1, <3>2, <4>1, PumpGoes
      <3> QED
        BY <2>2, <3>1, <3>2
    <2>4. Goes(peer, neg.queue)
      BY <2>1, <2>3 DEF Goes
    <2> QED
      BY <1>2, <1>3, <2>4 DEF Took
  <1> QED
    BY <1>4, <1>5, <1>6, <1>7

LEMMA OnMediaTook ==
  ASSUME Takes, OnIceCandidate \/ DropDead \/ OnConnectionChange \/ OnFrame
  PROVE  Took
  <1>1. peer \in Peer
    BY RunsFacts DEF Takes
  <1>2. Head(tasks).kind \notin {"inbound", "joined"} /\ joined' = joined
    BY RunningTask DEF RunningLive, OnIceCandidate, DropDead, OnConnectionChange, OnFrame, Ignore
  <1>3. CASE OnIceCandidate \/ DropDead
    BY <1>2, <1>3, RestTook DEF OnIceCandidate, DropDead, Ignore, Takes, Resting
  <1>4. CASE OnConnectionChange
    <2> DEFINE noted == [peer EXCEPT !.connected = (Head(tasks).to = "connected")]
    <2>1. /\ neg' = neg
          /\ Finish("PeerConnectionError", joined, noted) \/ peer' = noted
      BY <1>4 DEF OnConnectionChange
    <2>2. CASE peer' = noted
      <3>1. /\ peer'.applied = peer.applied /\ peer'.buffered = peer.buffered
            /\ peer'.described = peer.described
        BY <1>1, <2>2 DEF Peer
      <3> QED
        BY <1>2, <2>1, <3>1, RestTook DEF Takes, Resting
    <2> HIDE DEF noted
    <2> QED
      BY <2>1, <2>2, FinishTook
  <1>5. CASE OnFrame
    <2>1. peer' = [peer EXCEPT !.seen = TRUE] /\ neg' = neg
      BY <1>5 DEF OnFrame
    <2>2. /\ peer'.applied = peer.applied /\ peer'.buffered = peer.buffered
          /\ peer'.described = peer.described
      BY <1>1, <2>1 DEF Peer
    <2> QED
      BY <1>2, <2>1, <2>2, RestTook DEF Takes, Resting
  <1> QED
    BY <1>3, <1>4, <1>5

LEMMA OnTimersTook ==
  ASSUME Takes, OnStartupTimeout \/ OnCallDuration \/ OnStats PROVE Took
  <1>1. Head(tasks).kind \notin {"inbound", "joined"} /\ joined' = joined
    BY RunningTask DEF OnStartupTimeout, OnCallDuration, OnStats, Ignore
  <1>2. CASE \E reason, role, p : Finish(reason, role, p)
    BY <1>2, FinishTook
  <1>3. CASE UNCHANGED <<peer, neg>>
    BY <1>1, <1>3, RestTook DEF Takes, Resting
  <1> QED
    BY <1>2, <1>3 DEF OnStartupTimeout, OnCallDuration, OnStats, Ignore

LEMMA DispatchTook == Takes /\ Dispatch => Took
  BY OnJoinCompleteTook, OnSignalingTook, OnInboundTook, OnObserverTook, OnMediaTook,
     OnTimersTook DEF Dispatch

(* The candidates of a join response keep their order in the queue.            *)
LEMMA QueuedInOrder ==
  ASSUME NEW raw \in Seq(RawMessage), NumberedInOrder(raw), NEW queue \in QueuedOrders(raw)
  PROVE  /\ Rising(CandidatesOf(queue))
         /\ Vals(CandidatesOf(queue)) = CandidateIds(raw)
  <1>1. PICK n \in 0..Len(raw) : queue \in OrdersOfLength(raw, n)
    BY DEF QueuedOrders
  <1>2. PICK p \in [1..n -> Parsable(raw)] :
          /\ queue = [k \in 1..n |-> raw[p[k]]]
          /\ \A k \in Parsable(raw) : \E l \in 1..n : p[l] = k
          /\ \A k, l \in 1..n : k < l => QueuedBefore(raw, p[k], p[l])
    BY <1>1 DEF OrdersOfLength
  <1> DEFINE C == CandidatesOf(queue)
  <1>3. \A k \in 1..n : p[k] \in DOMAIN raw
    BY <1>2 DEF Parsable
  <1>4. /\ DOMAIN C = {k \in 1..n : raw[p[k]].type = "candidate"}
        /\ \A k \in DOMAIN C : C[k] = raw[p[k]].id
    BY <1>2 DEF CandidatesOf, IsCandidate
  <1> HIDE DEF C
  <1>5. Rising(C)
    <2> SUFFICES ASSUME NEW k \in DOMAIN C, NEW l \in DOMAIN C, k < l PROVE C[k] < C[l]
      BY DEF Rising
    <2>1. /\ raw[p[k]].type = "candidate" /\ raw[p[l]].type = "candidate"
          /\ k \in 1..n /\ l \in 1..n
      BY <1>4
    <2>2. QueuedBefore(raw, p[k], p[l])
      BY <1>2, <2>1
    <2>3. p[k] < p[l]
      <3>1. QueuedMessagePriority["candidate"] = 1
        BY DEF QueuedMessagePriority, MessageTypes
      <3> QED
        BY <2>1, <2>2, <3>1 DEF QueuedBefore
    <2> QED
      BY <1>3, <1>4, <2>1, <2>3 DEF NumberedInOrder
  <1>6. ASSUME NEW x \in Vals(C) PROVE x \in CandidateIds(raw)
    BY <1>3, <1>4, <1>6 DEF Vals, CandidateIds
  <1>7. ASSUME NEW x \in CandidateIds(raw) PROVE x \in Vals(C)
    <2>1. PICK j \in DOMAIN raw : raw[j].type = "candidate" /\ x = raw[j].id
      BY <1>7 DEF CandidateIds
    <2>2. j \in Parsable(raw)
      BY <2>1 DEF Parsable, MessageTypes
    <2>3. PICK l \in 1..n : p[l] = j
      BY <1>2, <2>2
    <2>4. l \in DOMAIN C /\ C[l] = x
      BY <1>4, <2>1, <2>3
    <2> QED
      BY <2>4 DEF Vals
  <1> QED
    BY <1>5, <1>6, <1>7 DEF C

(* -- a handler keeps the invariant ------------------------------------------------ *)

LEMMA OverInLine == finished' => InLine' /\ JoinedInOrder'
  BY DEF InLine, JoinedInOrder

LEMMA TookInLine ==
  ASSUME CandidateInv, TypeOK', HasTask, tasks' = Tail(tasks), ~finished, ~finished',
         arrived' = arrived, Took
  PROVE  InLine'
  <1>1. TypeOK
    BY DEF CandidateInv, FlowInv, ClosingInv, HonestInv
  <1>2. Coming' = Behind
    BY ComingMarked DEF Behind
  <1>3. \A k \in DOMAIN tasks' : k + 1 \in DOMAIN tasks /\ tasks'[k] = tasks[k + 1]
    BY <1>1, TailElements, TypeParts DEF HasTask
  <1>4. /\ TakenInLine(peer, neg.queue)
        /\ Rising(Coming) /\ Below(Taken(peer, neg.queue), Vals(Coming))
        /\ joined # "none" => Taken(peer, neg.queue) \cup Vals(Coming) = arrived
        /\ joined = "none" =>
             /\ peer.applied = <<>> /\ peer.buffered = <<>> /\ neg.queue = <<>>
             /\ \A k \in DOMAIN tasks : tasks[k].kind # "inbound"
             /\ (\A k \in DOMAIN tasks : tasks[k].kind # "joined") => arrived = {}
    BY DEF CandidateInv, InLine
  <1>5. 1 \in DOMAIN tasks /\ Head(tasks) = tasks[1]
    BY <1>1, TailElements, TypeParts DEF HasTask
  <1>6. \A k \in DOMAIN tasks : k = 1 \/ (k - 1 \in DOMAIN tasks' /\ tasks[k] = tasks'[k - 1])
    <2>1. /\ Len(tasks) \in Nat /\ DOMAIN tasks = 1..Len(tasks)
          /\ Tail(tasks) \in Seq(Task) /\ Len(Tail(tasks)) = Len(tasks) - 1
      BY <1>1, TypeParts, LenProperties, HeadTailProperties DEF HasTask
    <2>2. DOMAIN tasks' = 1..(Len(tasks) - 1)
      BY <2>1, LenProperties
    <2> SUFFICES ASSUME NEW k \in DOMAIN tasks, k # 1
                 PROVE  k - 1 \in DOMAIN tasks' /\ tasks[k] = tasks'[k - 1]
      OBVIOUS
    <2>3. k - 1 \in DOMAIN tasks' /\ (k - 1) + 1 = k
      BY <2>1, <2>2
    <2> QED
      BY <1>3, <2>3
  <1>7. CASE /\ joined' = joined /\ Head(tasks).kind \notin {"inbound", "joined"}
             /\ Goes(peer, neg.queue) /\ (joined = "none" => Resting)
    <2>1. Head(tasks) \notin Arrivals
      BY <1>7 DEF Arrivals
    <2>2. Vals(Coming') = Vals(Coming) /\ Rising(Coming')
      BY <1>1, <1>2, <1>4, <2>1, BehindComing
    <2>3. joined' = "none" =>
            /\ peer'.applied = <<>> /\ peer'.buffered = <<>> /\ neg'.queue = <<>>
            /\ \A k \in DOMAIN tasks' : tasks'[k].kind # "inbound"
            /\ (\A k \in DOMAIN tasks' : tasks'[k].kind # "joined") => arrived' = {}
      BY <1>3, <1>4, <1>5, <1>6, <1>7 DEF Resting
    <2> QED
      BY <1>4, <1>7, <2>2, <2>3 DEF InLine, Goes
  <1>8. CASE /\ joined' = joined /\ Head(tasks).kind = "inbound"
             /\ Goes(peer, Append(neg.queue, Head(tasks).msg))
    <2> DEFINE Q == Append(neg.queue, Head(tasks).msg)
    <2>1. /\ Taken(peer, Q) \cup Vals(Behind) = Taken(peer, neg.queue) \cup Vals(Coming)
          /\ Rising(Behind) /\ Below(Taken(peer, Q), Vals(Behind))
      BY <1>1, <1>4, <1>8, HeardInLine
    <2>2. TakenInLine(peer', neg'.queue) /\ Taken(peer', neg'.queue) = Taken(peer, Q)
      BY <1>8 DEF Goes
    <2> HIDE DEF Q
    <2>3. joined # "none"
      BY <1>4, <1>5, <1>8
    <2> QED
      BY <1>2, <1>4, <1>8, <2>1, <2>2, <2>3 DEF InLine
  <1>9. CASE /\ joined = "none" /\ joined' # "none" /\ Head(tasks).kind = "joined"
             /\ peer'.applied = peer.applied /\ peer'.buffered = <<>> /\ ~peer'.described
             /\ \E queue \in QueuedOrders(Head(tasks).msgs) : neg'.queue = neg.queue \o queue
    <2>1. PICK queue \in QueuedOrders(Head(tasks).msgs) : neg'.queue = neg.queue \o queue
      BY <1>9
    <2>2. /\ Head(tasks).msgs \in Seq(RawMessage) /\ NumberedInOrder(Head(tasks).msgs)
          /\ arrived = CandidateIds(Head(tasks).msgs)
      BY <1>1, <1>5, <1>9, TaskFields DEF CandidateInv, JoinedInOrder
    <2>3. neg'.queue = queue
      <3>1. queue \in Seq(Message)
        BY <2>2, QueuedOrdersType
      <3> QED
        BY <1>4, <1>9, <2>1, <3>1, ConcatEmptySeq
    <2>4. /\ Rising(CandidatesOf(neg'.queue))
          /\ Vals(CandidatesOf(neg'.queue)) = arrived
      BY <2>2, <2>3, QueuedInOrder
    <2>5. Vals(Coming') = {} /\ Rising(Coming')
      <3>1. \A k \in DOMAIN tasks' : tasks'[k] \notin Arrivals
        BY <1>3, <1>4, <1>9 DEF Arrivals
      <3>2. DOMAIN Marks(tasks', Arrivals, ArrivalId) = {}
        BY <3>1 DEF Marks
      <3> QED
        BY <3>2, ComingMarked DEF Vals, Rising
    <2>6. peer'.applied = <<>> /\ peer'.buffered = <<>>
      BY <1>4, <1>9
    <2>7. Taken(peer', neg'.queue) = arrived
      BY <2>4, <2>6, EmptyLists DEF Taken
    <2>8. TakenInLine(peer', neg'.queue)
      BY <2>4, <2>6, EmptyLists DEF TakenInLine, Lined, Below
    <2> QED
      BY <1>9, <2>5, <2>7, <2>8 DEF InLine, Below
  <1> QED
    BY <1>7, <1>8, <1>9 DEF Took

LEMMA DispatchCandidates == CandidateInv /\ Dispatch => CandidateInv'
  <1> SUFFICES ASSUME CandidateInv, Dispatch PROVE CandidateInv'
    OBVIOUS
  <1>1. FlowInv' /\ HonestInv' /\ TypeOK'
    BY DispatchFlow DEF CandidateInv, FlowInv, ClosingInv, HonestInv
  <1>2. CASE finished'
    BY <1>1, <1>2, OverInLine DEF CandidateInv
  <1>3. CASE ~finished'
    <2>1. Handled /\ Moved
      BY DispatchHandled, DispatchMoved DEF CandidateInv, FlowInv, ClosingInv
    <2>2. loop' = "running"
      BY <1>1, <1>3, <2>1, MovedLoop DEF CandidateInv, FlowInv, HonestInv, CodeKnown
    <2>3. Runs /\ HasTask
      BY <2>1, <2>2 DEF Runs, CandidateInv, FlowInv, InTask, Handled
    <2>4. tasks' = Tail(tasks) /\ ~finished
      BY <1>3, <2>3, DispatchRan DEF CandidateInv, FlowInv, Ran
    <2>5. Took
      <3>1. Takes
        BY <2>3, <2>4 DEF Takes, CandidateInv, FlowInv, ClosingInv, InLine
      <3> QED
        BY <3>1, DispatchTook
    <2>6. arrived' = arrived
      BY <2>1 DEF Moved, socketVars
    <2>7. InLine'
      BY <1>1, <1>3, <2>3, <2>4, <2>5, <2>6, TookInLine
    <2>8. JoinedInOrder'
      <3>1. \A k \in DOMAIN tasks' : k + 1 \in DOMAIN tasks /\ tasks'[k] = tasks[k + 1]
        BY <2>3, <2>4, RunsFacts, TailElements DEF HasTask
      <3> QED
        BY <2>4, <2>6, <3>1 DEF CandidateInv, JoinedInOrder, Numbered
    <2> QED
      BY <1>1, <2>7, <2>8 DEF CandidateInv
  <1> QED
    BY <1>2, <1>3

(* -- the other steps keep the invariant ------------------------------------------ *)

LEMMA UnfinishedLoop ==
  ASSUME CandidateInv, ~finished PROVE loop \in {"starting", "running"} /\ TypeOK /\ HonestInv
  BY DEF CandidateInv, FlowInv, ClosingInv, HonestInv, CodeKnown, TypeOK, ThreadTypeOK, Phases

LEMMA AppendKeeps ==
  ASSUME NEW T, NEW s \in Seq(T), NEW e \in T
  PROVE  /\ \A k \in DOMAIN Append(s, e) :
              (k \in DOMAIN s /\ Append(s, e)[k] = s[k]) \/ Append(s, e)[k] = e
         /\ \A k \in DOMAIN s : k \in DOMAIN Append(s, e) /\ Append(s, e)[k] = s[k]
  <1> DEFINE a == Append(s, e)
  <1>1. /\ a \in Seq(T) /\ Len(a) = Len(s) + 1 /\ a[Len(s) + 1] = e
        /\ \A k \in 1..Len(s) : a[k] = s[k]
        /\ Len(s) \in Nat /\ DOMAIN s = 1..Len(s)
    BY AppendProperties, LenProperties
  <1>2. DOMAIN a = 1..(Len(s) + 1)
    BY <1>1, LenProperties
  <1> HIDE DEF a
  <1>3. \A k \in 1..(Len(s) + 1) : k \in 1..Len(s) \/ k = Len(s) + 1
    BY <1>1
  <1>4. \A k \in 1..Len(s) : k \in 1..(Len(s) + 1)
    BY <1>1
  <1> QED
    BY <1>1, <1>2, <1>3, <1>4 DEF a

(* The step leaves the candidates alone; it may post a task without one.       *)
LEMMA QuietCandidates ==
  ASSUME CandidateInv, FlowInv', UNCHANGED <<neg, joined, finished, arrived>>,
         peer'.applied = peer.applied, peer'.buffered = peer.buffered,
         peer'.described <=> peer.described,
         NEW task, task.kind \notin {"inbound", "joined"},
         ~finished => tasks' = tasks \/ Posts(task)
  PROVE  CandidateInv'
  <1>1. CASE finished
    BY <1>1, OverInLine DEF CandidateInv
  <1>2. CASE ~finished
    <2>1. TypeOK /\ TypeOK' /\ tasks \in Seq(Task)
      BY <1>2, UnfinishedLoop, TypeParts DEF FlowInv, ClosingInv, HonestInv
    <2>2. CASE tasks' = tasks
      <3>1. Coming' = Coming
        BY <2>2 DEF Coming, InboundMessages
      <3>2. TakenInLine(peer', neg'.queue) <=> TakenInLine(peer, neg.queue)
        BY DEF TakenInLine
      <3>3. Taken(peer', neg'.queue) = Taken(peer, neg.queue)
        BY DEF Taken
      <3>4. InLine'
        BY <2>2, <3>1, <3>2, <3>3 DEF CandidateInv, InLine
      <3> QED
        BY <2>2, <3>4 DEF CandidateInv, JoinedInOrder, Numbered
    <2>3. CASE Posts(task)
      <3>1. task \in Task /\ tasks' = Append(tasks, task) /\ task \notin Arrivals
        BY <2>3 DEF Posts, Arrivals
      <3>2. Vals(Coming') = Vals(Coming) /\ (Rising(Coming) => Rising(Coming'))
        <4> DEFINE F == Marks(tasks, Arrivals, ArrivalId)
                   G == Marks(Append(tasks, task), Arrivals, ArrivalId)
        <4>1. /\ Vals(G) = Vals(F) \cup (IF task \in Arrivals THEN {ArrivalId[task]} ELSE {})
              /\ /\ Rising(F) /\ (task \in Arrivals => Below(Vals(F), {ArrivalId[task]}))
                 => Rising(G)
          BY <2>1, <3>1, MarksAppend
        <4>2. Coming = F /\ Coming' = G
          BY <2>1, <3>1, ComingMarked
        <4> HIDE DEF F, G
        <4> QED
          BY <3>1, <4>1, <4>2
      <3>3. TakenInLine(peer', neg'.queue) <=> TakenInLine(peer, neg.queue)
        BY DEF TakenInLine
      <3>4. Taken(peer', neg'.queue) = Taken(peer, neg.queue)
        BY DEF Taken
      <3>5. /\ \A k \in DOMAIN tasks' :
                 \/ k \in DOMAIN tasks /\ tasks'[k] = tasks[k]
                 \/ tasks'[k] = task
            /\ \A k \in DOMAIN tasks : k \in DOMAIN tasks' /\ tasks'[k] = tasks[k]
        BY <2>1, <3>1, AppendKeeps
      <3>6. InLine'
        <4>1. joined' = "none" =>
                /\ peer'.applied = <<>> /\ peer'.buffered = <<>> /\ neg'.queue = <<>>
                /\ \A k \in DOMAIN tasks' : tasks'[k].kind # "inbound"
                /\ (\A k \in DOMAIN tasks' : tasks'[k].kind # "joined") => arrived' = {}
          BY <1>2, <3>5 DEF CandidateInv, InLine
        <4> QED
          BY <1>2, <3>2, <3>3, <3>4, <4>1 DEF CandidateInv, InLine
      <3>7. JoinedInOrder'
        BY <3>5 DEF CandidateInv, JoinedInOrder, Numbered
      <3> QED
        BY <3>6, <3>7 DEF CandidateInv
    <2> QED
      BY <1>2, <2>2, <2>3
  <1> QED
    BY <1>1, <1>2

(* A candidate that arrives is behind all the others.                          *)
LEMMA NumberedLast ==
  ASSUME TypeOK, Numbered, NEW n \in Nat \ {0}, n \notin arrived
  PROVE  Below(arrived, {n})
  <1> SUFFICES ASSUME NEW x \in arrived PROVE x < n
    BY DEF Below
  <1>1. x \in Nat /\ (n \in 1..x \/ x < n)
    BY DEF TypeOK, ClientTypeOK
  <1>2. 1..x \subseteq arrived /\ x # 0
    BY DEF Numbered
  <1> QED
    BY <1>1, <1>2

LEMMA MessageCandidates ==
  ASSUME CandidateInv, FlowInv', WebSocketMessage, UNCHANGED <<peer, controlVars>>
  PROVE  CandidateInv'
  <1>1. UNCHANGED <<neg, joined, finished>>
    BY DEF controlVars, mediaVars
  <1>2. CASE finished
    BY <1>1, <1>2, OverInLine DEF CandidateInv
  <1>3. CASE ~finished
    <2>1. /\ loop \in {"starting", "running"} /\ HonestInv /\ TypeOK /\ TypeOK'
          /\ tasks \in Seq(Task)
      BY <1>3, UnfinishedLoop, TypeParts DEF FlowInv, ClosingInv, HonestInv
    <2>2. joined # "none"
      BY <1>3 DEF CandidateInv, FlowInv, RegisteredOnce, WebSocketMessage
    <2>3. PICK message \in [type : MessageTypes, id : 0..MaxCandidates] :
            /\ IF message.type = "candidate"
                 THEN /\ message.id \notin arrived \cup {0}
                      /\ 1..(message.id - 1) \subseteq arrived
                      /\ arrived' = arrived \cup {message.id}
                 ELSE message.id = 0 /\ UNCHANGED arrived
            /\ PostTask([kind |-> "inbound", msg |-> message])
      BY DEF WebSocketMessage
    <2> DEFINE task == [kind |-> "inbound", msg |-> message]
               new == IF IsCandidate(message) THEN {message.id} ELSE {}
    <2>4. /\ task \in Task /\ task.kind = "inbound" /\ task.msg = message
          /\ message.id \in Nat
      BY ClientAssumption DEF Task, InboundTask, Message
    <2>5. tasks' = Append(tasks, task)
      BY <2>1, <2>3 DEF PostTask
    <2> HIDE DEF task
    <2>6. arrived' = arrived \cup new /\ Below(arrived, new) /\ Numbered'
      <3>1. CASE IsCandidate(message)
        <4>1. /\ message.id \notin arrived \cup {0} /\ 1..(message.id - 1) \subseteq arrived
              /\ arrived' = arrived \cup {message.id}
          BY <2>3, <3>1 DEF IsCandidate
        <4>2. Numbered
          BY <1>3 DEF CandidateInv, JoinedInOrder
        <4>3. \A x \in 1..message.id : x = message.id \/ x \in 1..(message.id - 1)
          BY <2>4
        <4>4. Numbered'
          BY <4>1, <4>2, <4>3 DEF Numbered
        <4> QED
          BY <2>1, <2>4, <3>1, <4>1, <4>2, <4>4, NumberedLast
      <3>2. CASE ~IsCandidate(message)
        BY <1>3, <2>3, <3>2 DEF IsCandidate, Below, CandidateInv, JoinedInOrder, Numbered
      <3> QED
        BY <3>1, <3>2
    <2>7. Taken(peer, neg.queue) \cup Vals(Coming) = arrived /\ Rising(Coming)
          /\ Below(Taken(peer, neg.queue), Vals(Coming)) /\ TakenInLine(peer, neg.queue)
      BY <1>3, <2>2 DEF CandidateInv, InLine
    <2>8. Vals(Coming') = Vals(Coming) \cup new /\ Rising(Coming')
      <3> DEFINE F == Marks(tasks, Arrivals, ArrivalId)
                 G == Marks(Append(tasks, task), Arrivals, ArrivalId)
      <3>1. task \in Arrivals <=> IsCandidate(message)
        BY <2>4 DEF Arrivals
      <3>2. task \in Arrivals => ArrivalId[task] = message.id
        BY <2>4 DEF ArrivalId
      <3>3. /\ Vals(G) = Vals(F) \cup (IF task \in Arrivals THEN {ArrivalId[task]} ELSE {})
            /\ /\ Rising(F) /\ (task \in Arrivals => Below(Vals(F), {ArrivalId[task]}))
               => Rising(G)
        BY <2>1, <2>4, MarksAppend
      <3>4. Coming = F /\ Coming' = G
        BY <2>1, <2>5, ComingMarked
      <3> HIDE DEF F, G
      <3>5. Below(Vals(F), new)
        BY <2>6, <2>7, <3>4 DEF Below
      <3> QED
        BY <2>7, <3>1, <3>2, <3>3, <3>4, <3>5
    <2>9. peer' = peer /\ neg' = neg /\ joined' = joined
      BY <1>1
    <2> HIDE DEF new
    <2>10. InLine'
      <3>1. TakenInLine(peer', neg'.queue) /\ Rising(Coming')
        BY <2>7, <2>8, <2>9
      <3>2. Below(Taken(peer', neg'.queue), Vals(Coming'))
        BY <2>6, <2>7, <2>8, <2>9 DEF Below
      <3>3. Taken(peer', neg'.queue) \cup Vals(Coming') = arrived'
        BY <2>6, <2>7, <2>8, <2>9
      <3> QED
        BY <2>2, <2>9, <3>1, <3>2, <3>3 DEF InLine
    <2>11. JoinedInOrder'
      <3>1. \A k \in DOMAIN tasks' : tasks'[k].kind # "joined"
        <4>1. \A k \in DOMAIN tasks : tasks[k].kind # "joined"
          BY <2>1, <2>2 DEF HonestInv, JoinOnce
        <4> QED
          BY <2>1, <2>4, <2>5, <4>1, AppendElements
      <3> QED
        BY <2>6, <3>1 DEF JoinedInOrder
    <2> QED
      BY <2>10, <2>11 DEF CandidateInv
  <1> QED
    BY <1>2, <1>3

LEMMA WebSocketCandidates == CandidateInv /\ WebSocket => CandidateInv'
  <1> SUFFICES ASSUME CandidateInv, WebSocket PROVE CandidateInv'
    OBVIOUS
  <1>1. FlowInv' /\ WebSocketEvent /\ UNCHANGED <<peer, controlVars>>
    BY WebSocketFlow DEF CandidateInv, WebSocket
  <1>2. CASE WebSocketMessage
    BY <1>1, <1>2, MessageCandidates
  <1>3. CASE \/ WebSocketOpens \/ WebSocketCloses \/ WebSocketFails \/ WebSocketBadMessage
    <2>1. PICK task \in {[kind |-> "opened"], [kind |-> "error"]} :
            tasks' = tasks \/ PostTask(task)
      BY <1>3 DEF WebSocketOpens, WebSocketCloses, WebSocketFails, WebSocketBadMessage
    <2>2. task.kind \notin {"inbound", "joined"} /\ task \in Task
      BY DEF Task
    <2>3. ~finished => tasks' = tasks \/ Posts(task)
      BY <2>1, <2>2, UnfinishedLoop DEF PostTask, Posts
    <2>4. UNCHANGED <<peer, neg, joined, finished, arrived>>
      BY <1>1, <1>3 DEF WebSocketOpens, WebSocketCloses, WebSocketFails, WebSocketBadMessage,
         controlVars
    <2> QED
      BY <1>1, <2>2, <2>3, <2>4, QuietCandidates
  <1> QED
    BY <1>1, <1>2, <1>3 DEF WebSocketEvent

LEMMA LibraryCandidates == CandidateInv /\ Library => CandidateInv'
  <1> SUFFICES ASSUME CandidateInv, Library PROVE CandidateInv'
    OBVIOUS
  <1>1. FlowInv' /\ LibraryEvent /\ UNCHANGED <<clientVars, controlVars>>
    BY LibraryFlow DEF CandidateInv, Library
  <1>2. peer \in Peer
    BY TypeParts DEF CandidateInv, FlowInv, ClosingInv, HonestInv
  <1>3. PICK task \in Task : /\ PostTask(task)
                             /\ task.kind \notin {"inbound", "joined"}
    <2>1. peer.flag \in Nat
      BY <1>2 DEF Peer
    <2>2. CASE OperationCompletes
      <3>1. PICK step \in peer.pending, ok \in BOOLEAN :
              PostTask([kind |-> "observer", step |-> step, ok |-> ok, flag |-> peer.flag])
        BY <2>2 DEF OperationCompletes
      <3>2. [kind |-> "observer", step |-> step, ok |-> ok, flag |-> peer.flag] \in Task
        BY <1>2, <2>1 DEF Peer, Task, ObserverTask
      <3> QED
        BY <3>1, <3>2
    <2>3. CASE CandidateGathered
      <3>1. [kind |-> "localCandidate", flag |-> peer.flag] \in Task
        BY <2>1 DEF Task
      <3> QED
        BY <2>3, <3>1 DEF CandidateGathered
    <2>4. CASE ConnectionChanges
      <3>1. PICK to \in {"connected", "disconnected", "failed"} :
              PostTask([kind |-> "connection", to |-> to, flag |-> peer.flag])
        BY <2>4 DEF ConnectionChanges
      <3>2. [kind |-> "connection", to |-> to, flag |-> peer.flag] \in Task
        BY <2>1 DEF Task, ConnectionTask
      <3> QED
        BY <3>1, <3>2
    <2>5. CASE OnFrameDelivered
      <3>1. [kind |-> "frame", flag |-> peer.flag] \in Task
        BY <2>1 DEF Task
      <3> QED
        BY <2>5, <3>1 DEF OnFrameDelivered
    <2> QED
      BY <1>1, <2>2, <2>3, <2>4, <2>5 DEF LibraryEvent
  <1>4. /\ peer'.applied = peer.applied /\ peer'.buffered = peer.buffered
        /\ peer'.described = peer.described
    <2>1. CASE OperationCompletes
      <3>1. PICK step \in Steps, ok \in BOOLEAN :
              peer' = [peer EXCEPT
                !.pending = @ \ {step},
                !.gathering = @ \/ (ok /\ step \in {"setLocalOffer", "setLocalAnswer"}),
                !.sink = @ \/ (ok /\ step \in {"setRemoteOffer", "setRemoteAnswer"})]
        BY <1>2, <2>1 DEF OperationCompletes, Peer
      <3> QED
        BY <1>2, <3>1 DEF Peer
    <2>2. CASE CandidateGathered
      BY <1>2, <2>2 DEF CandidateGathered, Peer
    <2>3. CASE ConnectionChanges \/ OnFrameDelivered
      BY <2>3 DEF ConnectionChanges, OnFrameDelivered
    <2> QED
      BY <1>1, <2>1, <2>2, <2>3 DEF LibraryEvent
  <1>5. ~finished => tasks' = tasks \/ Posts(task)
    BY <1>3, UnfinishedLoop DEF PostTask, Posts
  <1>6. UNCHANGED <<neg, joined, finished, arrived>>
    BY <1>1 DEF clientVars, socketVars, controlVars
  <1> QED
    BY <1>1, <1>3, <1>4, <1>5, <1>6, QuietCandidates

LEMMA AlarmCandidates == ASSUME CandidateInv, NEW kind, Alarm(kind) PROVE CandidateInv'
  <1>1. FlowInv'
    BY AlarmFlow DEF CandidateInv
  <1>2. PICK timer \in timers : tasks' = Append(tasks, timer)
    BY DEF Alarm, TimerDue
  <1>3. timer \in Task /\ timer.kind \notin {"inbound", "joined"}
    BY TypeParts DEF CandidateInv, FlowInv, ClosingInv, HonestInv, Task, Timer, TimerKinds
  <1>4. ~finished => Posts(timer)
    BY <1>2, <1>3, UnfinishedLoop DEF Posts
  <1>5. UNCHANGED <<peer, neg, joined, finished, arrived>>
    BY DEF Alarm, clientVars, socketVars, controlVars
  <1> QED
    BY <1>1, <1>3, <1>4, <1>5, QuietCandidates

LEMMA JoinCandidates ==
  ASSUME CandidateInv, FlowInv', JoinRoom, UNCHANGED <<peer, controlVars>>
  PROVE  CandidateInv'
  <1>1. UNCHANGED <<peer, neg, joined, finished>>
    BY DEF controlVars, mediaVars
  <1>2. CASE finished
    BY <1>1, <1>2, OverInLine DEF CandidateInv
  <1>3. CASE ~finished
    <2>1. /\ loop \in {"starting", "running"} /\ HonestInv /\ TypeOK /\ TypeOK'
          /\ tasks \in Seq(Task)
      BY <1>3, UnfinishedLoop, TypeParts DEF FlowInv, ClosingInv, HonestInv
    <2>2. joined = "none" /\ \A k \in DOMAIN tasks : tasks[k].kind # "joined"
      <3>1. net # <<>> /\ Head(net).op = "join"
        BY DEF JoinRoom, Serving
      <3>2. 1 \in DOMAIN net /\ Head(net) = net[1]
        BY <2>1, <3>1, TypeParts, TailElements
      <3> QED
        BY <2>1, <3>1, <3>2 DEF HonestInv, JoinOnce
    <2>3. arrived = {} /\ \A k \in DOMAIN tasks : tasks[k].kind # "inbound"
      BY <1>3, <2>2 DEF CandidateInv, InLine
    <2>4. PICK role \in Roles \cup {"none"}, raw \in Seq(RawMessage) :
            /\ PostTask([kind |-> "joined", role |-> role, msgs |-> raw])
            /\ NumberedInOrder(raw) /\ arrived' = CandidateIds(raw)
      <3>1. CASE /\ PostTask([kind |-> "joined", role |-> "none", msgs |-> <<>>])
                 /\ membership' = "unknown" /\ UNCHANGED arrived
        <4>1. NumberedInOrder(<<>>) /\ CandidateIds(<<>>) = {}
          BY DEF NumberedInOrder, CandidateIds
        <4> QED
          BY <2>3, <3>1, <4>1, EmptySeq
      <3>2. CASE \E role \in Roles, raw \in JoinQueues :
                   /\ PostTask([kind |-> "joined", role |-> role, msgs |-> raw])
                   /\ arrived' = CandidateIds(raw)
        BY <3>2, ClientAssumption
      <3> QED
        BY <3>1, <3>2 DEF JoinRoom
    <2> DEFINE task == [kind |-> "joined", role |-> role, msgs |-> raw]
    <2>5. task \in Task /\ task.kind = "joined" /\ task.msgs = raw
      BY DEF Task, JoinedTask
    <2>6. tasks' = Append(tasks, task)
      BY <2>1, <2>4 DEF PostTask
    <2> HIDE DEF task
    <2>7. /\ \A k \in DOMAIN tasks' :
               (k \in DOMAIN tasks /\ tasks'[k] = tasks[k]) \/ tasks'[k] = task
          /\ \E k \in DOMAIN tasks' : tasks'[k] = task
      <3>1. /\ Append(tasks, task) \in Seq(Task) /\ Len(tasks) \in Nat
            /\ Len(Append(tasks, task)) = Len(tasks) + 1
            /\ Append(tasks, task)[Len(tasks) + 1] = task
        BY <2>1, <2>5, AppendProperties, LenProperties
      <3>2. Len(tasks) + 1 \in DOMAIN Append(tasks, task)
        BY <3>1, LenProperties
      <3> QED
        BY <2>1, <2>5, <2>6, <3>1, <3>2, AppendKeeps
    <2>8. Vals(Coming') = {} /\ Rising(Coming') /\ Vals(Coming) = {}
      <3>1. /\ \A k \in DOMAIN tasks' : tasks'[k] \notin Arrivals
            /\ \A k \in DOMAIN tasks : tasks[k] \notin Arrivals
        BY <2>3, <2>5, <2>7 DEF Arrivals
      <3>2. /\ DOMAIN Marks(tasks', Arrivals, ArrivalId) = {}
            /\ DOMAIN Marks(tasks, Arrivals, ArrivalId) = {}
        BY <3>1 DEF Marks
      <3> QED
        BY <2>1, <3>2, ComingMarked DEF Vals, Rising
    <2>9. InLine'
      <3>1. TakenInLine(peer, neg.queue) /\ peer.applied = <<>> /\ peer.buffered = <<>>
            /\ neg.queue = <<>>
        BY <1>3, <2>2 DEF CandidateInv, InLine
      <3>2. TakenInLine(peer', neg'.queue)
        BY <1>1, <3>1
      <3>3. \A k \in DOMAIN tasks' : tasks'[k].kind # "inbound"
        BY <2>3, <2>5, <2>7
      <3>4. ~(\A k \in DOMAIN tasks' : tasks'[k].kind # "joined")
        BY <2>5, <2>7
      <3> QED
        BY <1>1, <2>2, <2>8, <3>1, <3>2, <3>3, <3>4 DEF InLine, Below
    <2>10. JoinedInOrder'
      <3>1. \A k \in DOMAIN tasks' : tasks'[k].kind = "joined" => tasks'[k].msgs = raw
        BY <2>2, <2>5, <2>7
      <3>2. Numbered'
        BY <2>4 DEF Numbered, NumberedInOrder
      <3> QED
        BY <2>4, <3>1, <3>2 DEF JoinedInOrder
    <2> QED
      BY <2>9, <2>10 DEF CandidateInv
  <1> QED
    BY <1>2, <1>3

LEMMA NetworkCandidates == CandidateInv /\ Network => CandidateInv'
  <1> SUFFICES ASSUME CandidateInv, Network PROVE CandidateInv'
    OBVIOUS
  <1>1. FlowInv' /\ NetworkStep /\ UNCHANGED <<peer, controlVars>>
    BY NetworkFlow DEF CandidateInv, Network
  <1>2. CASE JoinRoom
    BY <1>1, <1>2, JoinCandidates
  <1>3. UNCHANGED <<peer, neg, joined, finished>>
    BY <1>1 DEF controlVars, mediaVars
  <1>4. CASE ConnectWebSocket \/ CloseMarks \/ CloseStops
    <2>1. tasks' = tasks /\ arrived' = arrived
      BY <1>4 DEF ConnectWebSocket, CloseMarks, CloseStops, threadVars
    <2> DEFINE task == [kind |-> "opened"]
    <2>2. task.kind \notin {"inbound", "joined"}
      OBVIOUS
    <2> HIDE DEF task
    <2> QED
      BY <1>1, <1>3, <2>1, <2>2, QuietCandidates
  <1>5. CASE Register
    <2>1. PICK ok \in BOOLEAN : PostTask([kind |-> "registered", ok |-> ok])
      BY <1>5 DEF Register
    <2> DEFINE task == [kind |-> "registered", ok |-> ok]
    <2>2. task \in Task /\ task.kind = "registered"
      BY DEF Task
    <2>3. ~finished => Posts(task)
      BY <2>1, <2>2, UnfinishedLoop DEF PostTask, Posts
    <2>4. arrived' = arrived
      BY <1>5 DEF Register, socketVars
    <2> HIDE DEF task
    <2> QED
      BY <1>1, <1>3, <2>2, <2>3, <2>4, QuietCandidates
  <1>6. CASE SendToRoom \/ SendWebSocketMessage
    <2>1. PICK ok \in BOOLEAN :
            PostTask([kind |-> "sent", what |-> Head(net).what, ok |-> ok])
      BY <1>6 DEF SendToRoom, SendWebSocketMessage
    <2> DEFINE task == [kind |-> "sent", what |-> Head(net).what, ok |-> ok]
    <2>2. task \in Task /\ task.kind = "sent"
      <3>1. TypeOK /\ net # <<>> /\ Head(net).op \in {"post", "send"}
        BY <1>6 DEF SendToRoom, SendWebSocketMessage, Serving, CandidateInv, FlowInv,
           ClosingInv, HonestInv
      <3>2. Head(net) \in Request
        BY <3>1, TypeParts, HeadTailProperties
      <3> QED
        BY <3>1, <3>2 DEF Request, Task, SentTask
    <2>3. ~finished => Posts(task)
      BY <2>1, <2>2, UnfinishedLoop DEF PostTask, Posts
    <2>4. arrived' = arrived
      BY <1>6 DEF SendToRoom, SendWebSocketMessage, socketVars
    <2> HIDE DEF task
    <2> QED
      BY <1>1, <1>3, <2>2, <2>3, <2>4, QuietCandidates
  <1> QED
    BY <1>1, <1>2, <1>4, <1>5, <1>6 DEF NetworkStep

LEMMA InitCandidates == Init => CandidateInv
  <1> SUFFICES ASSUME Init PROVE CandidateInv
    OBVIOUS
  <1>1. FlowInv
    BY InitFlow
  <1>2. /\ tasks = <<>> /\ arrived = {} /\ joined = "none" /\ neg.queue = <<>>
        /\ peer.applied = <<>> /\ peer.buffered = <<>>
    BY DEF Init, ThreadInit, ClientInit, PeerInit
  <1>3. DOMAIN tasks = {}
    BY <1>2
  <1>4. Vals(Coming) = {} /\ Rising(Coming)
    <2>1. DOMAIN Coming = {}
      BY <1>3 DEF Coming, CandidatesOf, InboundMessages
    <2> QED
      BY <2>1 DEF Vals, Rising
  <1>5. Taken(peer, neg.queue) = {} /\ TakenInLine(peer, neg.queue)
    BY <1>2, EmptyLists DEF Taken, TakenInLine, Lined, Below
  <1> QED
    BY <1>1, <1>2, <1>3, <1>4, <1>5
    DEF CandidateInv, InLine, JoinedInOrder, Numbered, Below

LEMMA StepCandidates == CandidateInv /\ [Next]_vars => CandidateInv'
  <1> SUFFICES ASSUME CandidateInv, [Next]_vars PROVE CandidateInv'
    OBVIOUS
  <1>1. FlowInv'
    BY StepFlow DEF CandidateInv
  <1>2. CASE Dispatch
    BY <1>2, DispatchCandidates
  <1>3. CASE Network \/ WebSocket \/ Library
    BY <1>3, NetworkCandidates, WebSocketCandidates, LibraryCandidates
  <1>4. CASE \E kind \in TimerKinds : Alarm(kind)
    BY <1>4, AlarmCandidates
  <1>5. CASE StartCall \/ Exited \/ UNCHANGED vars
    <2>1. UNCHANGED <<tasks, peer, neg, joined, finished, arrived>>
      BY <1>5 DEF StartCall, Exited, vars, threadVars, clientVars, socketVars
    <2> DEFINE task == [kind |-> "opened"]
    <2>2. task.kind \notin {"inbound", "joined"}
      OBVIOUS
    <2> HIDE DEF task
    <2> QED
      BY <1>1, <2>1, <2>2, QuietCandidates
  <1>6. CASE ReturnFromRun \/ Destroy
    <2>1. loop \in {"quit", "returned"} /\ finished' = finished
      BY <1>6 DEF ReturnFromRun, Destroy
    <2>2. finished
      BY <2>1, UnfinishedLoop
    <2> QED
      BY <1>1, <2>1, <2>2, OverInLine DEF CandidateInv
  <1> QED
    BY <1>2, <1>3, <1>4, <1>5, <1>6 DEF Next

LEMMA CandidateAlways == Spec => []CandidateInv
  BY InitCandidates, StepCandidates, PTL DEF Spec

(* A join response numbered in order is in order.                              *)
LEMMA NumberedRises ==
  ASSUME NEW raw, NumberedInOrder(raw)
  PROVE  /\ Rising(CandidatesOf(raw))
         /\ Vals(CandidatesOf(raw)) = CandidateIds(raw)
  <1>1. /\ DOMAIN CandidatesOf(raw) = {k \in DOMAIN raw : raw[k].type = "candidate"}
        /\ \A k \in DOMAIN CandidatesOf(raw) : CandidatesOf(raw)[k] = raw[k].id
    BY DEF CandidatesOf, IsCandidate
  <1> QED
    BY <1>1 DEF Rising, Vals, NumberedInOrder, CandidateIds

LEMMA CandidateWay ==
  ASSUME CandidateInv, ~finished
  PROVE  /\ Lined(peer.applied, peer.buffered, CandidatesOf(neg.queue))
         /\ Rising(CandidatesOf(JoinMessages)) /\ Rising(Coming)
         /\ Below(Taken(peer, neg.queue), Vals(CandidatesOf(JoinMessages)))
         /\ Below(Taken(peer, neg.queue), Vals(Coming))
         /\ Below(Vals(CandidatesOf(JoinMessages)), Vals(Coming))
         /\ Taken(peer, neg.queue) \cup Vals(CandidatesOf(JoinMessages)) \cup Vals(Coming)
              = arrived
  <1> DEFINE answers == {k \in DOMAIN tasks : tasks[k].kind = "joined"}
             J == CandidatesOf(JoinMessages)
  <1>1. /\ TakenInLine(peer, neg.queue)
        /\ Rising(Coming) /\ Below(Taken(peer, neg.queue), Vals(Coming))
        /\ joined # "none" => Taken(peer, neg.queue) \cup Vals(Coming) = arrived
        /\ joined = "none" =>
             /\ peer.applied = <<>> /\ peer.buffered = <<>> /\ neg.queue = <<>>
             /\ \A k \in DOMAIN tasks : tasks[k].kind # "inbound"
             /\ answers = {} => arrived = {}
    BY DEF CandidateInv, InLine
  <1>2. joined = "none" => Taken(peer, neg.queue) = {} /\ Vals(Coming) = {}
    <2>1. ASSUME joined = "none" PROVE DOMAIN Coming = {}
      BY <1>1, <2>1 DEF Coming, CandidatesOf, InboundMessages
    <2> QED
      BY <1>1, <2>1, EmptyLists DEF Taken, Vals
  <1>3. CASE answers = {}
    <2>1. JoinMessages = <<>>
      BY <1>3 DEF JoinMessages
    <2>2. Vals(J) = {} /\ Rising(J)
      BY <2>1, EmptyLists
    <2> HIDE DEF J
    <2> QED
      BY <1>1, <1>2, <1>3, <2>2 DEF TakenInLine, Below, J
  <1>4. CASE answers # {}
    <2>1. (CHOOSE k \in answers : TRUE) \in answers
      BY <1>4
    <2>2. PICK k \in answers : JoinMessages = tasks[k].msgs
      BY <1>4, <2>1 DEF JoinMessages
    <2>3. joined = "none"
      BY <2>2 DEF CandidateInv, FlowInv, ClosingInv, HonestInv, JoinOnce
    <2>4. NumberedInOrder(JoinMessages) /\ arrived = CandidateIds(JoinMessages)
      BY <2>2 DEF CandidateInv, JoinedInOrder
    <2>5. Rising(J) /\ Vals(J) = arrived
      BY <2>4, NumberedRises
    <2> HIDE DEF J
    <2> QED
      BY <1>1, <1>2, <2>3, <2>5 DEF TakenInLine, Below, J
  <1> QED
    BY <1>3, <1>4

(* The candidates received reach the connection once, in the order of arrival. *)
THEOREM CandidatesKeepOrder == Spec => []CandidatesInOrder
  <1>1. CandidateInv => CandidatesInOrder
    <2> SUFFICES ASSUME CandidateInv, ~finished
                 PROVE  /\ UNION {{Way[i][k] : k \in DOMAIN Way[i]} : i \in 1..5} = arrived
                        /\ \A i, j \in 1..5 : \A k \in DOMAIN Way[i], l \in DOMAIN Way[j] :
                             i < j \/ (i = j /\ k < l) => Way[i][k] < Way[j][l]
      BY DEF CandidatesInOrder
    <2> DEFINE a == peer.applied
               b == peer.buffered
               q == CandidatesOf(neg.queue)
               j == CandidatesOf(JoinMessages)
               t == Coming
    <2>1. Way = <<a, b, q, j, t>>
      BY DEF Way, Coming
    <2>2. Taken(peer, neg.queue) = Vals(a) \cup Vals(b) \cup Vals(q)
      BY DEF Taken
    <2>3. /\ Lined(a, b, q) /\ Rising(j) /\ Rising(t) /\ Below(Vals(j), Vals(t))
          /\ Below(Vals(a) \cup Vals(b) \cup Vals(q), Vals(j))
          /\ Below(Vals(a) \cup Vals(b) \cup Vals(q), Vals(t))
          /\ Vals(a) \cup Vals(b) \cup Vals(q) \cup Vals(j) \cup Vals(t) = arrived
      BY <2>2, CandidateWay
    <2> HIDE DEF a, b, q, j, t
    <2>4. /\ Way[1] = a /\ Way[2] = b /\ Way[3] = q /\ Way[4] = j /\ Way[5] = t
      BY <2>1
    <2>5. \A i \in 1..5 : i = 1 \/ i = 2 \/ i = 3 \/ i = 4 \/ i = 5
      OBVIOUS
    <2>6. UNION {{Way[i][k] : k \in DOMAIN Way[i]} : i \in 1..5} = arrived
      <3>1. UNION {Vals(Way[i]) : i \in 1..5} = arrived
        BY <2>3, <2>4, <2>5
      <3> QED
        BY <3>1 DEF Vals
    <2>7. \A i \in 1..5 : Rising(Way[i])
      BY <2>3, <2>4, <2>5 DEF Lined
    <2>8. ASSUME NEW i \in 1..5, NEW m \in 1..5, i < m PROVE Below(Vals(Way[i]), Vals(Way[m]))
      <3>1. /\ Below(Vals(a), Vals(b)) /\ Below(Vals(a), Vals(q)) /\ Below(Vals(b), Vals(q))
            /\ Below(Vals(a), Vals(j)) /\ Below(Vals(b), Vals(j)) /\ Below(Vals(q), Vals(j))
            /\ Below(Vals(a), Vals(t)) /\ Below(Vals(b), Vals(t)) /\ Below(Vals(q), Vals(t))
            /\ Below(Vals(j), Vals(t))
        BY <2>3 DEF Lined, Below
      <3> QED
        BY <2>4, <2>5, <2>8, <3>1
    <2> QED
      BY <2>6, <2>7, <2>8 DEF Rising, Below, Vals
  <1> QED
    BY <1>1, CandidateAlways, PTL

-----------------------------------------------------------------------------

(* -- the room's messages -------------------------------------------------------- *)

(* The first messages of the queue, all but n, are in the order of their types. *)
InFront(queue, n) ==
  \A k, l \in 1..(Len(queue) - n) : k < l => queue[l].type \notin Earlier[queue[k].type]

Waiting == {t \in Task : t.kind = "inbound"}

(* The messages of the websocket that are in tasks no more.                    *)
Past == heard - Hits(tasks, Waiting)

RoomFirst == Hits(tasks, Waiting) <= heard /\ InFront(neg.queue, Past)

(* The inductive invariant: only messages that have been heard are appended.   *)
RoomInv == CandidateInv /\ RoomFirst

SuffixOf(rest, queue) ==
  \E d \in 0..Len(queue) :
    /\ Len(rest) = Len(queue) - d
    /\ \A k \in 1..Len(rest) : rest[k] = queue[k + d]

LEMMA ItselfSuffix == ASSUME NEW q \in Seq(Message) PROVE SuffixOf(q, q)
  <1>1. Len(q) \in Nat
    BY LenProperties
  <1>2. 0 \in 0..Len(q) /\ Len(q) = Len(q) - 0 /\ \A k \in 1..Len(q) : k + 0 = k
    BY <1>1
  <1> QED
    BY <1>2 DEF SuffixOf

LEMMA SuffixSuffix ==
  ASSUME NEW q \in Seq(Message), NEW r \in Seq(Message), NEW s,
         SuffixOf(r, q), SuffixOf(s, r)
  PROVE  SuffixOf(s, q)
  <1>1. PICK d \in 0..Len(q) : Len(r) = Len(q) - d /\ \A k \in 1..Len(r) : r[k] = q[k + d]
    BY DEF SuffixOf
  <1>2. PICK e \in 0..Len(r) : Len(s) = Len(r) - e /\ \A k \in 1..Len(s) : s[k] = r[k + e]
    BY DEF SuffixOf
  <1>3. Len(q) \in Nat /\ Len(r) \in Nat
    BY LenProperties
  <1>4. d + e \in 0..Len(q) /\ Len(s) = Len(q) - (d + e)
    BY <1>1, <1>2, <1>3
  <1>5. ASSUME NEW k \in 1..Len(s) PROVE s[k] = q[k + (d + e)]
    <2>1. k + e \in 1..Len(r) /\ (k + e) + d = k + (d + e)
      BY <1>1, <1>2, <1>3
    <2> QED
      BY <1>1, <1>2, <2>1
  <1> QED
    BY <1>4, <1>5 DEF SuffixOf

LEMMA TailSuffix ==
  ASSUME NEW q \in Seq(Message), q # <<>> PROVE SuffixOf(Tail(q), q)
  <1>1. /\ Len(Tail(q)) = Len(q) - 1
        /\ \A k \in 1..Len(Tail(q)) : Tail(q)[k] = q[k + 1]
    BY HeadTailProperties
  <1>2. 1 \in 0..Len(q)
    BY LenProperties, EmptySeq
  <1> QED
    BY <1>1, <1>2 DEF SuffixOf

LEMMA AfterSuffix ==
  ASSUME NEW q \in Seq(Message), NEW d \in 0..Len(q)
  PROVE  SuffixOf(SubSeq(q, d + 1, Len(q)), q)
  BY SuffixElements DEF SuffixOf

(* What is left of a queue in order is in order.                               *)
LEMMA FrontKept ==
  ASSUME NEW q \in Seq(Message), NEW r, SuffixOf(r, q),
         NEW n \in Nat, NEW m \in Nat, n <= m, InFront(q, n)
  PROVE  InFront(r, m)
  <1>1. PICK d \in 0..Len(q) : Len(r) = Len(q) - d /\ \A k \in 1..Len(r) : r[k] = q[k + d]
    BY DEF SuffixOf
  <1>2. Len(q) \in Nat
    BY LenProperties
  <1> SUFFICES ASSUME NEW k \in 1..(Len(r) - m), NEW l \in 1..(Len(r) - m), k < l
               PROVE  r[l].type \notin Earlier[r[k].type]
    BY DEF InFront
  <1>3. /\ k + d \in 1..(Len(q) - n) /\ l + d \in 1..(Len(q) - n) /\ k + d < l + d
        /\ k \in 1..Len(r) /\ l \in 1..Len(r)
    BY <1>1, <1>2
  <1>4. r[k] = q[k + d] /\ r[l] = q[l + d]
    BY <1>1, <1>3
  <1> QED
    BY <1>3, <1>4 DEF InFront

LEMMA FrontAppended ==
  ASSUME NEW q \in Seq(Message), NEW e \in Message, NEW n \in Nat, InFront(q, n)
  PROVE  InFront(Append(q, e), n + 1)
  <1>1. Len(q) \in Nat /\ Len(Append(q, e)) = Len(q) + 1
        /\ \A k \in 1..Len(q) : Append(q, e)[k] = q[k]
    BY LenProperties, AppendProperties
  <1>2. \A k \in 1..(Len(q) + 1 - (n + 1)) : k \in 1..(Len(q) - n) /\ k \in 1..Len(q)
    BY <1>1
  <1> QED
    BY <1>1, <1>2 DEF InFront

(* The sorted join response is in the order of the types.                      *)
LEMMA SortedInFront ==
  ASSUME NEW raw \in Seq(RawMessage), NEW queue \in QueuedOrders(raw), NEW m \in Nat
  PROVE  InFront(queue, m)
  <1>1. PICK n \in 0..Len(raw) : queue \in OrdersOfLength(raw, n)
    BY DEF QueuedOrders
  <1>2. PICK p \in [1..n -> Parsable(raw)] :
          /\ queue = [k \in 1..n |-> raw[p[k]]]
          /\ \A k, l \in 1..n : k < l => QueuedBefore(raw, p[k], p[l])
    BY <1>1 DEF OrdersOfLength
  <1>3. n \in Nat /\ Len(raw) \in Nat
    BY <1>1, LenProperties
  <1>4. queue \in Seq(Message)
    BY QueuedOrdersType
  <1>5. Len(queue) = n
    <2>1. DOMAIN queue = 1..n /\ DOMAIN queue = 1..Len(queue) /\ Len(queue) \in Nat
      BY <1>2, <1>4, LenProperties
    <2> QED
      BY <1>3, <2>1
  <1> SUFFICES ASSUME NEW k \in 1..(Len(queue) - m), NEW l \in 1..(Len(queue) - m), k < l
               PROVE  queue[l].type \notin Earlier[queue[k].type]
    BY DEF InFront
  <1>6. k \in 1..n /\ l \in 1..n
    BY <1>3, <1>5
  <1>7. /\ QueuedBefore(raw, p[k], p[l]) /\ queue[k] = raw[p[k]] /\ queue[l] = raw[p[l]]
        /\ raw[p[k]].type \in MessageTypes /\ raw[p[l]].type \in MessageTypes
    BY <1>2, <1>6 DEF Parsable
  <1>8. QueuedMessagePriority[queue[k].type] <= QueuedMessagePriority[queue[l].type]
    <2>1. \A t \in MessageTypes : QueuedMessagePriority[t] \in Nat
      BY DEF QueuedMessagePriority
    <2> QED
      BY <1>7, <2>1 DEF QueuedBefore
  <1>9. \A s, t \in MessageTypes : t \in Earlier[s] =>
          QueuedMessagePriority[t] < QueuedMessagePriority[s]
    BY DEF Earlier, QueuedMessagePriority, MessageTypes
  <1> QED
    <2>1. \A t \in MessageTypes : QueuedMessagePriority[t] \in Nat
      BY DEF QueuedMessagePriority
    <2> QED
      BY <1>7, <1>8, <1>9, <2>1

(* -- the handlers' queue -------------------------------------------------------- *)

Keeps(queue) == SuffixOf(neg'.queue, queue)

LEMMA DescriptionKeeps ==
  ASSUME NEW n \in Negotiation, NEW p, NEW step, ApplyDescription(n, p, step)
  PROVE  Keeps(n.queue)
  <1>1. neg' = [n EXCEPT !.busy = TRUE] \/ neg' = n
    BY DEF ApplyDescription, StartNegotiating
  <1>2. neg'.queue = n.queue /\ n.queue \in Seq(Message)
    BY <1>1 DEF Negotiation
  <1> QED
    BY <1>2, ItselfSuffix DEF Keeps

LEMMA NextKeeps ==
  ASSUME NEW n \in Negotiation, NEW p, PumpNext(n, p) PROVE Keeps(n.queue)
  <1> DEFINE rest == [n EXCEPT !.queue = Tail(@)]
             first == [n EXCEPT !.offered = TRUE]
  <1>1. n.queue \in Seq(Message)
    BY DEF Negotiation
  <1>2. CASE StartNegotiating(first, p, "createOffer") \/ neg' = n
    <2>1. neg' = [first EXCEPT !.busy = TRUE] \/ neg' = n
      BY <1>2 DEF StartNegotiating
    <2>2. neg'.queue = n.queue
      BY <2>1 DEF Negotiation
    <2> QED
      BY <1>1, <2>2, ItselfSuffix DEF Keeps
  <1>3. CASE n.queue # <<>> /\ (neg' = rest \/ \E step : ApplyDescription(rest, p, step))
    <2>1. rest \in Negotiation /\ rest.queue = Tail(n.queue) /\ SuffixOf(Tail(n.queue), n.queue)
      BY <1>1, <1>3, RestType, TailSuffix DEF Negotiation
    <2> HIDE DEF rest
    <2>2. Keeps(rest.queue)
      BY <1>3, <2>1, DescriptionKeeps, ItselfSuffix DEF Keeps, Negotiation
    <2>3. Tail(n.queue) \in Seq(Message)
      BY <2>1 DEF Negotiation
    <2> QED
      BY <1>1, <2>1, <2>2, <2>3, SuffixSuffix DEF Keeps
  <1> QED
    BY <1>2, <1>3 DEF PumpNext

LEMMA PumpKeeps ==
  ASSUME NEW n \in Negotiation, NEW p, PumpSignalingMessages(n, p) PROVE Keeps(n.queue)
  <1>1. n.queue \in Seq(Message) /\ Len(n.queue) \in Nat
    BY LenProperties DEF Negotiation
  <1>2. CASE neg' = n
    BY <1>1, <1>2, ItselfSuffix DEF Keeps
  <1>3. ASSUME NEW k \in 0..Len(n.queue), NEW added,
               PumpNext([n EXCEPT !.queue = SubSeq(@, k + 1, Len(@))], added)
        PROVE  Keeps(n.queue)
    <2> DEFINE m == [n EXCEPT !.queue = SubSeq(@, k + 1, Len(@))]
               rest == SubSeq(n.queue, k + 1, Len(n.queue))
    <2>1. k + 1 \in Nat \ {0}
      BY <1>1
    <2>2. m \in Negotiation /\ m.queue = rest /\ rest \in Seq(Message)
      BY <1>1, <2>1, AfterType, SuffixElements DEF Negotiation
    <2>3. SuffixOf(rest, n.queue)
      BY <1>1, AfterSuffix
    <2> HIDE DEF m, rest
    <2>4. PumpNext(m, added)
      BY <1>3 DEF m
    <2>5. Keeps(rest)
      BY <2>2, <2>4, NextKeeps
    <2> QED
      BY <1>1, <2>2, <2>3, <2>5, SuffixSuffix DEF Keeps
  <1>4. ASSUME NEW k \in 0..Len(n.queue), k < Len(n.queue),
               neg' = [n EXCEPT !.queue = SubSeq(@, k + 2, Len(@))]
        PROVE  Keeps(n.queue)
    <2>1. k + 1 \in 0..Len(n.queue) /\ (k + 1) + 1 = k + 2
      BY <1>1, <1>4
    <2>2. neg'.queue = SubSeq(n.queue, k + 2, Len(n.queue))
      BY <1>4 DEF Negotiation
    <2> QED
      BY <1>1, <2>1, <2>2, AfterSuffix DEF Keeps
  <1> QED
    BY <1>2, <1>3, <1>4 DEF PumpSignalingMessages

(* A handler drops messages at the front, after it has appended the one of its *)
(* task, or queues the join response.                                          *)
Heeds ==
  \/ Keeps(neg.queue)
  \/ Head(tasks).kind = "inbound" /\ Keeps(Append(neg.queue, Head(tasks).msg))
  \/ /\ Head(tasks).kind = "joined" /\ ~finished
     /\ \E queue \in QueuedOrders(Head(tasks).msgs) : neg'.queue = neg.queue \o queue

LEMMA SameHeeds == ASSUME TypeOK, neg'.queue = neg.queue PROVE Heeds
  BY TypeParts, ItselfSuffix DEF Heeds, Keeps, Negotiation

LEMMA PumpHeeds ==
  ASSUME TypeOK, NEW n \in Negotiation, n.queue = neg.queue, NEW p,
         PumpSignalingMessages(n, p)
  PROVE  Heeds
  BY PumpKeeps DEF Heeds

LEMMA OnJoinCompleteHeeds == TypeOK /\ OnJoinComplete => Heeds
  <1> SUFFICES ASSUME TypeOK, OnJoinComplete PROVE Heeds
    OBVIOUS
  <1>1. Head(tasks).kind = "joined" /\ neg \in Negotiation
    BY RunningTask, TypeParts DEF OnJoinComplete
  <1>2. CASE neg' = neg
    BY <1>2, SameHeeds
  <1>3. CASE ~finished /\ \E queue \in QueuedOrders(Head(tasks).msgs) :
                            neg' = [neg EXCEPT !.queue = @ \o queue]
    BY <1>1, <1>3 DEF Heeds, Negotiation
  <1> QED
    BY <1>2, <1>3 DEF OnJoinComplete, Ignore

LEMMA OnInboundHeeds == TypeOK /\ OnInboundSignalingMessage => Heeds
  <1> SUFFICES ASSUME TypeOK, OnInboundSignalingMessage PROVE Heeds
    OBVIOUS
  <1> DEFINE n == [neg EXCEPT !.queue = Append(@, Head(tasks).msg)]
  <1>1. Head(tasks).kind = "inbound" /\ HasTask /\ neg \in Negotiation
    BY RunningTask, TypeParts DEF OnInboundSignalingMessage
  <1>2. n \in Negotiation /\ n.queue = Append(neg.queue, Head(tasks).msg)
    <2>1. Append(neg.queue, Head(tasks).msg) \in Seq(Message)
      BY <1>1, TaskFields, AppendProperties DEF Negotiation
    <2> QED
      BY <1>1, <2>1 DEF Negotiation
  <1>3. neg' = neg \/ PumpSignalingMessages(n, peer)
    BY DEF OnInboundSignalingMessage, Ignore
  <1> HIDE DEF n
  <1>4. CASE PumpSignalingMessages(n, peer)
    BY <1>1, <1>2, <1>4, PumpKeeps DEF Heeds
  <1> QED
    BY <1>3, <1>4, SameHeeds

LEMMA DispatchHeeds == TypeOK /\ Dispatch => Heeds
  <1> SUFFICES ASSUME TypeOK, Dispatch PROVE Heeds
    OBVIOUS
  <1> DEFINE ready == [neg EXCEPT !.ready = TRUE]
  <1>1. /\ Settled \in Negotiation /\ Settled.queue = neg.queue
        /\ ready \in Negotiation /\ ready.queue = neg.queue
    BY TypeParts DEF Settled, Negotiation
  <1>2. CASE OnJoinComplete \/ OnInboundSignalingMessage
    BY <1>2, OnJoinCompleteHeeds, OnInboundHeeds
  <1>3. CASE OnRegisterComplete
    <2>1. neg' = neg \/ PumpSignalingMessages(ready, peer)
      BY <1>3 DEF OnRegisterComplete, Ignore
    <2> HIDE DEF ready
    <2> QED
      BY <1>1, <2>1, SameHeeds, PumpHeeds
  <1>4. CASE OnDescriptionSent \/ OnRemoteDescriptionSet \/ OnStepFailed
    <2>1. neg' = neg \/ neg' = Settled \/ \E p : PumpSignalingMessages(Settled, p)
      BY <1>4 DEF OnDescriptionSent, OnRemoteDescriptionSet, OnStepFailed
    <2> QED
      BY <1>1, <2>1, SameHeeds, PumpHeeds
  <1>5. CASE \/ OnWebSocketOpen \/ OnSignalingError \/ OnCandidateSent \/ OnByeSent
             \/ DropDead \/ OnCreated \/ OnLocalDescriptionSet \/ OnIceCandidate
             \/ OnConnectionChange \/ OnFrame
             \/ OnStartupTimeout \/ OnCallDuration \/ OnStats
    <2>1. neg' = neg
      BY <1>5 DEF OnWebSocketOpen, OnSignalingError, OnCandidateSent, OnByeSent, DropDead,
         OnCreated, OnLocalDescriptionSet, SendLocalDescription, OnIceCandidate,
         OnConnectionChange, OnFrame, OnStartupTimeout, OnCallDuration, OnStats, Ignore
    <2> QED
      BY <2>1, SameHeeds
  <1> QED
    BY <1>2, <1>3, <1>4, <1>5 DEF Dispatch

(* -- the invariant ------------------------------------------------------------- *)

LEMMA WaitingType == TypeOK => Hits(tasks, Waiting) \in Nat /\ heard \in Nat
  BY TypeParts, HitsType DEF TypeOK, ClientTypeOK

(* Running a task takes it off the ones that wait.                             *)
LEMMA HandledWaiting ==
  ASSUME HonestInv, TypeOK', Handled
  PROVE  Hits(tasks', Waiting) + One(Head(tasks).kind = "inbound") <= Hits(tasks, Waiting)
  <1> DEFINE P == Places(tasks, Waiting)
             Q == Places(tasks', Waiting)
             R == Places(Tail(tasks), Waiting)
  <1>1. /\ tasks \in Seq(Task) /\ tasks # <<>> /\ Tail(tasks) \in Seq(Task)
        /\ Head(tasks) \in Task
    BY TypeParts, TailType DEF HonestInv, Handled, HasTask
  <1>2. Hits(tasks, Waiting) = Hits(Tail(tasks), Waiting) + One(Head(tasks) \in Waiting)
    BY <1>1, TailHits
  <1>3. Q \subseteq R
    <2>1. \A k \in DOMAIN tasks' : tasks'[k].kind # "frame" =>
            k \in DOMAIN Tail(tasks) /\ tasks'[k] = Tail(tasks)[k]
      <3> SUFFICES ASSUME NEW k \in DOMAIN tasks', tasks'[k].kind # "frame"
                   PROVE  k \in DOMAIN Tail(tasks) /\ tasks'[k] = Tail(tasks)[k]
        OBVIOUS
      <3>1. k \in Nat \ {0} /\ k + 1 \in DOMAIN tasks /\ tasks'[k] = tasks[k + 1]
        BY HandledTasks DEF TasksRun
      <3>2. /\ DOMAIN tasks = 1..Len(tasks) /\ Len(tasks) \in Nat
            /\ Len(Tail(tasks)) = Len(tasks) - 1
            /\ DOMAIN Tail(tasks) = 1..Len(Tail(tasks))
            /\ \A i \in 1..Len(Tail(tasks)) : Tail(tasks)[i] = tasks[i + 1]
        BY <1>1, LenProperties, HeadTailProperties
      <3>3. k \in 1..Len(Tail(tasks))
        BY <3>1, <3>2
      <3> QED
        BY <3>1, <3>2, <3>3
    <2>2. \A t \in Waiting : t.kind # "frame"
      BY DEF Waiting
    <2> QED
      BY <2>1, <2>2 DEF Places
  <1>4. R \in SUBSET (1..Len(Tail(tasks))) /\ Len(Tail(tasks)) \in Nat
    BY <1>1, HitsType
  <1>5. IsFiniteSet(R)
    <2>1. IsFiniteSet(1..Len(Tail(tasks)))
      BY <1>4, FS_Interval
    <2> QED
      BY <1>4, <2>1, FS_Subset
  <1>6. Cardinality(Q) <= Cardinality(R)
    BY <1>3, <1>5, FS_Subset
  <1>7. Head(tasks) \in Waiting <=> Head(tasks).kind = "inbound"
    BY <1>1 DEF Waiting
  <1>8. Hits(tasks', Waiting) \in Nat /\ Hits(Tail(tasks), Waiting) \in Nat
    <2>1. tasks' \in Seq(Task)
      BY DEF TypeOK, ThreadTypeOK
    <2> QED
      BY <1>1, <2>1, HitsType
  <1> QED
    BY <1>2, <1>6, <1>7, <1>8 DEF Hits, One

LEMMA DispatchRoom == RoomInv /\ Dispatch => RoomInv'
  <1> SUFFICES ASSUME RoomInv, Dispatch PROVE RoomInv'
    OBVIOUS
  <1>1. CandidateInv' /\ TypeOK' /\ TypeOK /\ HonestInv /\ ClosingInv
    BY DispatchCandidates DEF RoomInv, CandidateInv, FlowInv, ClosingInv, HonestInv
  <1>2. Handled /\ heard' = heard
    BY <1>1, DispatchHandled, DispatchMoved DEF Moved, socketVars
  <1>3. Hits(tasks', Waiting) + One(Head(tasks).kind = "inbound") <= Hits(tasks, Waiting)
    BY <1>1, <1>2, HandledWaiting
  <1>4. /\ Hits(tasks, Waiting) \in Nat /\ Hits(tasks', Waiting) \in Nat /\ heard \in Nat
        /\ neg.queue \in Seq(Message)
    <2>1. tasks' \in Seq(Task)
      BY <1>1 DEF TypeOK, ThreadTypeOK
    <2>2. Hits(tasks', Waiting) \in Nat
      BY <2>1, HitsType
    <2> QED
      BY <1>1, <2>2, WaitingType, TypeParts DEF Negotiation
  <1>5. Hits(tasks, Waiting) <= heard /\ InFront(neg.queue, Past)
    BY DEF RoomInv, RoomFirst
  <1>6. Past \in Nat /\ Past' \in Nat /\ Past + One(Head(tasks).kind = "inbound") <= Past'
        /\ Hits(tasks', Waiting) <= heard'
    BY <1>2, <1>3, <1>4, <1>5 DEF Past, One
  <1>7. InFront(neg'.queue, Past')
    <2>1. Heeds
      BY <1>1, DispatchHeeds
    <2>2. CASE Keeps(neg.queue)
      <3>1. Past <= Past'
        BY <1>6 DEF One
      <3> QED
        BY <1>4, <1>5, <1>6, <2>2, <3>1, FrontKept DEF Keeps
    <2>3. CASE Head(tasks).kind = "inbound" /\ Keeps(Append(neg.queue, Head(tasks).msg))
      <3>1. Head(tasks).msg \in Message
        BY <1>1, <1>2, <2>3, TaskFields DEF Handled
      <3>2. InFront(Append(neg.queue, Head(tasks).msg), Past + 1)
        BY <1>4, <1>5, <1>6, <3>1, FrontAppended
      <3>3. Past + 1 \in Nat /\ Past + 1 <= Past'
        BY <1>6, <2>3 DEF One
      <3>4. Append(neg.queue, Head(tasks).msg) \in Seq(Message)
        BY <1>4, <3>1, AppendProperties
      <3> QED
        BY <1>6, <2>3, <3>2, <3>3, <3>4, FrontKept DEF Keeps
    <2>4. CASE /\ Head(tasks).kind = "joined" /\ ~finished
               /\ \E queue \in QueuedOrders(Head(tasks).msgs) : neg'.queue = neg.queue \o queue
      <3>1. PICK queue \in QueuedOrders(Head(tasks).msgs) : neg'.queue = neg.queue \o queue
        BY <2>4
      <3>2. Head(tasks).msgs \in Seq(RawMessage)
        BY <1>1, <1>2, <2>4, TaskFields DEF Handled
      <3>3. joined = "none"
        <4>1. 1 \in DOMAIN tasks /\ Head(tasks) = tasks[1]
          BY <1>1, <1>2, TailElements, TypeParts DEF Handled, HasTask
        <4> QED
          BY <1>1, <2>4, <4>1 DEF HonestInv, JoinOnce
      <3>4. neg.queue = <<>>
        BY <2>4, <3>3 DEF RoomInv, CandidateInv, InLine
      <3>5. queue \in Seq(Message)
        BY <3>2, QueuedOrdersType
      <3>6. neg'.queue = queue
        BY <3>1, <3>4, <3>5, ConcatEmptySeq
      <3> QED
        BY <1>6, <3>2, <3>6, SortedInFront
    <2> QED
      BY <2>1, <2>2, <2>3, <2>4 DEF Heeds
  <1> QED
    BY <1>1, <1>6, <1>7 DEF RoomInv, RoomFirst

(* The step leaves the queue alone, and posts no message that it does not count. *)
LEMMA QuietRoom ==
  ASSUME RoomInv, CandidateInv', neg' = neg, heard' \in Nat, NEW task,
         \/ tasks' = tasks /\ heard <= heard'
         \/ tasks' = Append(tasks, task) /\ heard + One(task.kind = "inbound") <= heard'
  PROVE  RoomInv'
  <1>1. TypeOK /\ TypeOK'
    BY DEF RoomInv, CandidateInv, FlowInv, ClosingInv, HonestInv
  <1>2. /\ Hits(tasks, Waiting) \in Nat /\ heard \in Nat /\ neg.queue \in Seq(Message)
        /\ tasks \in Seq(Task) /\ Hits(tasks', Waiting) \in Nat
    <2>1. tasks' \in Seq(Task)
      BY <1>1 DEF TypeOK, ThreadTypeOK
    <2>2. Hits(tasks', Waiting) \in Nat
      BY <2>1, HitsType
    <2> QED
      BY <1>1, <2>2, WaitingType, TypeParts DEF Negotiation
  <1>3. Hits(tasks', Waiting) + (heard - Hits(tasks, Waiting)) <= heard'
    <2>1. CASE tasks' = tasks /\ heard <= heard'
      BY <1>2, <2>1
    <2>2. CASE tasks' = Append(tasks, task) /\ heard + One(task.kind = "inbound") <= heard'
      <3>1. tasks \in Seq(Task \cup {task}) /\ task \in Task \cup {task}
        BY <1>2
      <3>2. Hits(Append(tasks, task), Waiting) = Hits(tasks, Waiting) + One(task \in Waiting)
        BY <3>1, AppendHits
      <3>3. task \in Waiting => task.kind = "inbound"
        BY DEF Waiting
      <3> QED
        BY <1>2, <2>2, <3>2, <3>3 DEF One
    <2> QED
      BY <2>1, <2>2
  <1>4. Hits(tasks, Waiting) <= heard /\ InFront(neg.queue, Past)
    BY DEF RoomInv, RoomFirst
  <1>5. Past \in Nat /\ Past' \in Nat /\ Past <= Past' /\ Hits(tasks', Waiting) <= heard'
    BY <1>2, <1>3, <1>4 DEF Past
  <1>6. InFront(neg'.queue, Past')
    BY <1>2, <1>4, <1>5, ItselfSuffix, FrontKept
  <1> QED
    BY <1>5, <1>6 DEF RoomInv, RoomFirst

LEMMA StepRoom == RoomInv /\ [Next]_vars => RoomInv'
  <1> SUFFICES ASSUME RoomInv, [Next]_vars PROVE RoomInv'
    OBVIOUS
  <1>1. CandidateInv' /\ TypeOK /\ heard \in Nat
    BY StepCandidates, WaitingType DEF RoomInv, CandidateInv, FlowInv, ClosingInv, HonestInv
  <1>2. CASE Dispatch
    BY <1>2, DispatchRoom
  <1>3. CASE \/ StartCall \/ ReturnFromRun \/ Destroy \/ Exited \/ UNCHANGED vars
    <2>1. UNCHANGED <<tasks, neg, heard>>
      BY <1>3 DEF StartCall, ReturnFromRun, Destroy, Exited, vars, threadVars, clientVars,
         socketVars
    <2> QED
      BY <1>1, <2>1, QuietRoom
  <1>4. CASE WebSocket /\ WebSocketMessage
    <2>1. PICK message : PostTask([kind |-> "inbound", msg |-> message])
      BY <1>4 DEF WebSocketMessage
    <2> DEFINE task == [kind |-> "inbound", msg |-> message]
    <2>2. task.kind = "inbound" /\ (tasks' = Append(tasks, task) \/ tasks' = tasks)
      BY <2>1 DEF PostTask
    <2> HIDE DEF task
    <2>3. neg' = neg /\ heard' = heard + 1
      BY <1>4 DEF WebSocket, controlVars, WebSocketMessage
    <2>4. heard <= heard' /\ heard + One(task.kind = "inbound") <= heard' /\ heard' \in Nat
      BY <1>1, <2>2, <2>3 DEF One
    <2> QED
      BY <1>1, <2>2, <2>3, <2>4, QuietRoom
  <1>5. CASE \/ (WebSocket /\ ~WebSocketMessage) \/ Network \/ Library
             \/ \E kind \in TimerKinds : Alarm(kind)
    <2>1. neg' = neg
      BY <1>5 DEF WebSocket, Network, Library, Alarm, controlVars
    <2>2. heard' \in Nat /\ heard <= heard'
      <3>1. heard' = heard \/ heard' = heard + 1
        BY <1>5 DEF WebSocket, WebSocketEvent, WebSocketOpens, WebSocketCloses, WebSocketFails,
           WebSocketBadMessage, Network, NetworkStep, JoinRoom, ConnectWebSocket, Register,
           SendToRoom, SendWebSocketMessage, CloseMarks, CloseStops, Library, Alarm,
           clientVars, socketVars
      <3> QED
        BY <1>1, <3>1
    <2>3. \E task : /\ task.kind # "inbound"
                    /\ tasks' = tasks \/ tasks' = Append(tasks, task)
      <3> DEFINE Harmless(task) == /\ task.kind # "inbound"
                                   /\ tasks' = tasks \/ tasks' = Append(tasks, task)
      <3>1. \A task : task.kind # "inbound" /\ PostTask(task) => Harmless(task)
        BY DEF PostTask
      <3>2. [kind |-> "opened"].kind # "inbound" /\ [kind |-> "error"].kind # "inbound"
        OBVIOUS
      <3>3. CASE tasks' = tasks
        BY <3>2, <3>3
      <3>4. CASE WebSocket /\ ~WebSocketMessage
        <4>1. tasks' = tasks \/ PostTask([kind |-> "opened"]) \/ PostTask([kind |-> "error"])
          BY <3>4 DEF WebSocket, WebSocketEvent, WebSocketOpens, WebSocketCloses,
             WebSocketFails, WebSocketBadMessage
        <4> HIDE DEF Harmless
        <4>2. \E task : Harmless(task)
          BY <3>1, <3>2, <3>3, <4>1 DEF Harmless
        <4> QED
          BY <4>2 DEF Harmless
      <3>5. CASE Network
        <4>1. \/ tasks' = tasks
              \/ \E role, raw : PostTask([kind |-> "joined", role |-> role, msgs |-> raw])
              \/ \E ok : PostTask([kind |-> "registered", ok |-> ok])
              \/ \E what, ok : PostTask([kind |-> "sent", what |-> what, ok |-> ok])
          BY <3>5 DEF Network, NetworkStep, JoinRoom, ConnectWebSocket, Register, SendToRoom,
             SendWebSocketMessage, CloseMarks, CloseStops, threadVars
        <4>2. /\ \A role, raw : [kind |-> "joined", role |-> role, msgs |-> raw].kind # "inbound"
              /\ \A ok : [kind |-> "registered", ok |-> ok].kind # "inbound"
              /\ \A what, ok : [kind |-> "sent", what |-> what, ok |-> ok].kind # "inbound"
          OBVIOUS
        <4> HIDE DEF Harmless
        <4>3. tasks' = tasks \/ \E task : Harmless(task)
          BY <3>1, <4>1, <4>2
        <4> QED
          BY <3>3, <4>3 DEF Harmless
      <3>6. CASE Library
        <4>1. \/ \E step, ok, f : PostTask([kind |-> "observer", step |-> step, ok |-> ok,
                                            flag |-> f])
              \/ \E f : PostTask([kind |-> "localCandidate", flag |-> f])
              \/ \E to, f : PostTask([kind |-> "connection", to |-> to, flag |-> f])
              \/ \E f : PostTask([kind |-> "frame", flag |-> f])
          BY <3>6 DEF Library, LibraryEvent, OperationCompletes, CandidateGathered,
             ConnectionChanges, OnFrameDelivered
        <4>2. /\ \A step, ok, f : [kind |-> "observer", step |-> step, ok |-> ok,
                                   flag |-> f].kind # "inbound"
              /\ \A f : [kind |-> "localCandidate", flag |-> f].kind # "inbound"
              /\ \A to, f : [kind |-> "connection", to |-> to, flag |-> f].kind # "inbound"
              /\ \A f : [kind |-> "frame", flag |-> f].kind # "inbound"
          OBVIOUS
        <4> HIDE DEF Harmless
        <4>3. \E task : Harmless(task)
          BY <3>1, <4>1, <4>2
        <4> QED
          BY <4>3 DEF Harmless
      <3>7. CASE \E kind \in TimerKinds : Alarm(kind)
        <4>1. PICK timer \in timers : tasks' = Append(tasks, timer)
          BY <3>7 DEF Alarm, TimerDue
        <4>2. timer.kind # "inbound"
          BY <1>1, TypeParts DEF Timer, TimerKinds
        <4> QED
          BY <4>1, <4>2
      <3> QED
        BY <1>5, <3>4, <3>5, <3>6, <3>7
    <2>4. PICK task : /\ task.kind # "inbound"
                      /\ tasks' = tasks \/ tasks' = Append(tasks, task)
      BY <2>3
    <2>5. heard + One(task.kind = "inbound") <= heard'
      BY <1>1, <2>2, <2>4 DEF One
    <2> QED
      BY <1>1, <2>1, <2>2, <2>4, <2>5, QuietRoom
  <1> QED
    BY <1>2, <1>3, <1>4, <1>5 DEF Next

LEMMA InitRoom == Init => RoomInv
  <1> SUFFICES ASSUME Init PROVE RoomInv
    OBVIOUS
  <1>1. CandidateInv /\ tasks = <<>> /\ heard = 0 /\ neg.queue = <<>>
    BY InitCandidates DEF Init, ThreadInit, ClientInit
  <1>2. DOMAIN tasks = {} /\ Places(tasks, Waiting) = {}
    BY <1>1 DEF Places
  <1>3. Hits(tasks, Waiting) = 0
    BY <1>2, FS_EmptySet DEF Hits
  <1>4. InFront(neg.queue, Past)
    <2>1. Len(neg.queue) = 0 /\ Past = 0
      BY <1>1, <1>3 DEF Past
    <2> QED
      BY <2>1 DEF InFront
  <1> QED
    BY <1>1, <1>3, <1>4 DEF RoomInv, RoomFirst

LEMMA RoomAlways == Spec => []RoomInv
  BY InitRoom, StepRoom, PTL DEF Spec

(* What the room held is handled in the order of its types: a bye never before *)
(* a description or a candidate that its sender had left in the room, however  *)
(* long the queue waits for actions in flight and whatever else arrives.       *)
THEOREM RoomOrderKept == Spec => []RoomMessagesInOrder
  <1>1. RoomInv => RoomMessagesInOrder
    <2> SUFFICES ASSUME RoomInv PROVE RoomMessagesInOrder
      OBVIOUS
    <2>1. TypeOK
      BY DEF RoomInv, CandidateInv, FlowInv, ClosingInv, HonestInv
    <2>2. /\ Hits(tasks, Waiting) \in Nat /\ heard \in Nat /\ Len(neg.queue) \in Nat
          /\ neg.queue \in Seq(Message)
      BY <2>1, WaitingType, TypeParts, LenProperties DEF Negotiation
    <2>3. Hits(tasks, Waiting) <= heard /\ InFront(neg.queue, Past)
      BY DEF RoomInv, RoomFirst
    <2>4. Past \in Nat /\ Past <= heard
      BY <2>2, <2>3 DEF Past
    <2>5. \A k \in 1..(Len(neg.queue) - heard) : k \in 1..(Len(neg.queue) - Past)
      BY <2>2, <2>4
    <2> QED
      BY <2>3, <2>5 DEF InFront, RoomMessagesInOrder
  <1> QED
    BY <1>1, RoomAlways, PTL
=============================================================================
