------------------------------ MODULE RoomProofs ------------------------------
(* What one client writes, the other reads, for any description and candidate; *)
(* and what two clients in one room can say of each other when they are done.  *)
EXTENDS TwoClients, SequenceTheorems, TLAPS

(* -- the texts ------------------------------------------------------------------ *)

Descriptions == [type : STRING, sdp : STRING]
Candidates == [sdp_mid : STRING, sdp_mline_index : Int, sdp : STRING]

(* What a written string or number reads back as.                              *)
LEMMA StringReads ==
  ASSUME NEW s
  PROVE  asString(JsonString(s)) = s
BY DEF asString, JsonString

LEMMA IntReads ==
  ASSUME NEW i
  PROVE  asInt(JsonInt(i)) = i
BY DEF asInt, JsonInt

(* The envelope of the websocket takes nothing away.                           *)
LEMMA EnvelopeTransparent ==
  ASSUME NEW text
  PROVE  ParseEnvelope(SendEnvelope(text)) = ParseSignalingMessage(text)
<1> DEFINE sent == [cmd |-> JsonString("send"), msg |-> JsonString(text)]
<1>1. SendEnvelope(text).json /\ SendEnvelope(text).members = sent
  BY DEF SendEnvelope, Object
<1>2. DOMAIN sent = {"cmd", "msg"} /\ sent.msg = JsonString(text)
  OBVIOUS
<1>3. /\ Member(SendEnvelope(text), "error") = JsonNull
      /\ Member(SendEnvelope(text), "msg") = JsonString(text)
  BY <1>1, <1>2 DEF Member
<1>4. JsonNull.kind = "null" /\ JsonString(text).kind = "string" /\ JsonString(text).value = text
  BY DEF JsonNull, JsonString
<1>5. QED
  BY <1>1, <1>3, <1>4 DEF ParseEnvelope

(* What is read of a description, of a candidate and of a goodbye.              *)
LEMMA DescriptionParsed ==
  ASSUME NEW d
  PROVE  LET text == SerializeSessionDescription(d)
         IN  /\ text.json
             /\ asString(Member(text, "type")) = d.type
             /\ asString(Member(text, "sdp")) = d.sdp
             /\ d.type \in {"offer", "answer"} =>
                  ParseSignalingMessage(text) =
                    Accepted([EmptyMessage EXCEPT !.type = d.type, !.sdp_type = d.type, !.sdp = d.sdp])
<1> DEFINE text == SerializeSessionDescription(d)
           members == [type |-> JsonString(d.type), sdp |-> JsonString(d.sdp)]
<1>1. text.json /\ text.members = members
  BY DEF SerializeSessionDescription, Object
<1>2. DOMAIN members = {"type", "sdp"} /\ members.type = JsonString(d.type)
      /\ members.sdp = JsonString(d.sdp)
  OBVIOUS
<1>3. Member(text, "type") = JsonString(d.type) /\ Member(text, "sdp") = JsonString(d.sdp)
  BY <1>1, <1>2 DEF Member
<1>4. asString(Member(text, "type")) = d.type /\ asString(Member(text, "sdp")) = d.sdp
  BY <1>3, StringReads
<1>5. QED
  BY <1>1, <1>4 DEF ParseSignalingMessage

LEMMA CandidateParsed ==
  ASSUME NEW c
  PROVE  ParseSignalingMessage(SerializeIceCandidate(c)) =
           Accepted([EmptyMessage EXCEPT !.type = "candidate", !.candidate = c.sdp,
                       !.sdp_mid = c.sdp_mid, !.sdp_mline_index = c.sdp_mline_index])
<1> DEFINE text == SerializeIceCandidate(c)
           members == [type |-> JsonString("candidate"), label |-> JsonInt(c.sdp_mline_index),
                       id |-> JsonString(c.sdp_mid), candidate |-> JsonString(c.sdp)]
<1>1. text.json /\ text.members = members
  BY DEF SerializeIceCandidate, Object
<1>2. DOMAIN members = {"type", "label", "id", "candidate"}
      /\ members.type = JsonString("candidate") /\ members.label = JsonInt(c.sdp_mline_index)
      /\ members.id = JsonString(c.sdp_mid) /\ members.candidate = JsonString(c.sdp)
  OBVIOUS
<1>3. Member(text, "type") = JsonString("candidate") /\ Member(text, "label") = JsonInt(c.sdp_mline_index)
      /\ Member(text, "id") = JsonString(c.sdp_mid) /\ Member(text, "candidate") = JsonString(c.sdp)
  BY <1>1, <1>2 DEF Member
<1>4. asString(Member(text, "type")) = "candidate" /\ asInt(Member(text, "label")) = c.sdp_mline_index
      /\ asString(Member(text, "id")) = c.sdp_mid /\ asString(Member(text, "candidate")) = c.sdp
  BY <1>3, StringReads, IntReads
<1>5. QED
  BY <1>1, <1>4 DEF ParseSignalingMessage

LEMMA ByeParsed == ParseSignalingMessage(BuildByeMessage) = Accepted([EmptyMessage EXCEPT !.type = "bye"])
<1> DEFINE members == [type |-> JsonString("bye")]
<1>1. BuildByeMessage.json /\ BuildByeMessage.members = members
  BY DEF BuildByeMessage, Object
<1>2. DOMAIN members = {"type"} /\ members.type = JsonString("bye")
  OBVIOUS
<1>3. asString(Member(BuildByeMessage, "type")) = "bye"
  BY <1>1, <1>2, StringReads DEF Member
<1>4. QED
  BY <1>1, <1>3 DEF ParseSignalingMessage

(* An offer or answer arrives with its type and its SDP; a description of a    *)
(* type that the signaling does not have arrives as an unknown message.        *)
THEOREM DescriptionUnderstood ==
  ASSUME NEW d \in Descriptions
  PROVE  LET parsed == ParseEnvelope(SendEnvelope(SerializeSessionDescription(d)))
         IN  /\ parsed.ok
             /\ d.type \in {"offer", "answer"} =>
                  parsed.message.type = d.type /\ parsed.message.sdp = d.sdp
             /\ d.type \notin {"offer", "answer", "candidate", "bye"} =>
                  parsed.message.type = "unknown"
<1> DEFINE text == SerializeSessionDescription(d)
<1>1. text.json
  BY DescriptionParsed
<1>2. asString(Member(text, "type")) = d.type
  BY DescriptionParsed
<1>3. CASE d.type \in {"offer", "answer"}
  <2> DEFINE message == [EmptyMessage EXCEPT !.type = d.type, !.sdp_type = d.type, !.sdp = d.sdp]
  <2>1. ParseSignalingMessage(text) = Accepted(message)
    BY <1>3, DescriptionParsed
  <2>2. message.type = d.type /\ message.sdp = d.sdp
    BY DEF EmptyMessage
  <2>3. Accepted(message).ok /\ Accepted(message).message = message
    BY DEF Accepted
  <2>4. QED
    BY <2>1, <2>2, <2>3, <1>3, EnvelopeTransparent
<1>4. CASE d.type \notin {"offer", "answer"}
  <2>1. ParseSignalingMessage(text).ok
    BY <1>1, <1>2, <1>4 DEF ParseSignalingMessage, Accepted
  <2>2. d.type \notin {"candidate", "bye"} => ParseSignalingMessage(text) = Accepted(EmptyMessage)
    BY <1>1, <1>2, <1>4 DEF ParseSignalingMessage
  <2>3. Accepted(EmptyMessage).message.type = "unknown"
    BY DEF Accepted, EmptyMessage
  <2>4. QED
    BY <2>1, <2>2, <2>3, <1>4, EnvelopeTransparent
<1>5. QED
  BY <1>3, <1>4

(* A candidate arrives with its line, its media and its text.                  *)
THEOREM CandidateUnderstood ==
  ASSUME NEW c \in Candidates
  PROVE  ParseEnvelope(SendEnvelope(SerializeIceCandidate(c))) =
           Accepted([EmptyMessage EXCEPT !.type = "candidate", !.candidate = c.sdp,
                       !.sdp_mid = c.sdp_mid, !.sdp_mline_index = c.sdp_mline_index])
BY CandidateParsed, EnvelopeTransparent

(* -- the inductive invariant ------------------------------------------------------ *)

(* What e can write.                                                            *)
Texts(e) ==
  {SerializeSessionDescription([type |-> t, sdp |-> e]) : t \in {"offer", "answer"}}
    \cup {SerializeIceCandidate(Candidate(e)), BuildByeMessage}

(* What e can have written and meant so far: no goodbye before its call's end.  *)
Written == [e \in Ends |-> {t \in Texts(e) : t = BuildByeMessage => HungUp(e)}]
Said == [e \in Ends |-> {m \in Meant(e) : m.type = "bye" => HungUp(e)}]

(* Each end has only what the other wrote.                                      *)
From(f, S) == DOMAIN f = Ends /\ \A e \in Ends : f[e] \in Seq(S[Other(e)])

Letters == From(wire, Written) /\ From(inbox, Said)

(* How each call goes, and how it can end without trouble.                      *)
Byes == {"RemoteByeAfterEstablished", "RemoteByeBeforeEstablished"}

CallGoes ==
  \A e \in Ends :
    /\ reason[e] = "none" <=> stage[e] # "over"
    /\ established[e] => stage[e] \in {"ready", "farewell", "parting", "over"}
    /\ stage[e] \in {"farewell", "parting"} => established[e]
    /\ reason[e] = "LocalDurationReached" => established[e]
    /\ reason[e] = "RemoteByeBeforeEstablished" => ~established[e]
    /\ reason[e] \in Byes => HungUp(Other(e))
    /\ trouble \/ reason[e] \in Byes \cup {"none", "LocalDurationReached"}

(* The types that do not depend on the texts.                                   *)
RoomTyped ==
  /\ role \in [Ends -> {"none", "initiator", "callee"}]
  /\ stage \in [Ends -> Stages]
  /\ dead \subseteq Ends
  /\ inRoom \subseteq Ends
  /\ reason \in [Ends -> TerminalReasons \cup {"none"}]
  /\ offered \in [Ends -> BOOLEAN]
  /\ inFlight \in [Ends -> BOOLEAN]
  /\ described \in [Ends -> SUBSET Both]
  /\ trickled \in [Ends -> BOOLEAN]
  /\ connected \in [Ends -> BOOLEAN]
  /\ seen \in [Ends -> BOOLEAN]
  /\ established \in [Ends -> BOOLEAN]
  /\ trouble \in BOOLEAN

RoomInv == RoomTyped /\ CallGoes /\ Letters

(* -- what is written is read ------------------------------------------------------- *)

(* The envelope of the room takes nothing away either.                          *)
LEMMA RelayTransparent ==
  ASSUME NEW text
  PROVE  ParseEnvelope(Relay(text)) = ParseSignalingMessage(text)
<1> DEFINE sent == [msg |-> JsonString(text), error |-> JsonString("")]
<1>1. Relay(text).json /\ Relay(text).members = sent
  BY DEF Relay, Object
<1>2. DOMAIN sent = {"msg", "error"} /\ sent.msg = JsonString(text) /\ sent.error = JsonString("")
  OBVIOUS
<1>3. /\ Member(Relay(text), "error") = JsonString("")
      /\ Member(Relay(text), "msg") = JsonString(text)
  BY <1>1, <1>2 DEF Member
<1>4. /\ JsonString("").kind = "string" /\ JsonString("").value = ""
      /\ JsonString(text).kind = "string" /\ JsonString(text).value = text
  BY DEF JsonString
<1>5. QED
  BY <1>1, <1>3, <1>4 DEF ParseEnvelope

(* A text is read as what its writer meant, and only a goodbye as a goodbye.    *)
LEMMA TextRead ==
  ASSUME NEW e \in Ends, NEW text \in Texts(e)
  PROVE  /\ ParseSignalingMessage(text).ok
         /\ ParseSignalingMessage(text).message \in Meant(e)
         /\ ParseSignalingMessage(text).message.type = "bye" => text = BuildByeMessage
<1>1. ASSUME NEW m PROVE Accepted(m).ok /\ Accepted(m).message = m
  BY DEF Accepted
<1>2. CASE \E t \in {"offer", "answer"} : text = SerializeSessionDescription([type |-> t, sdp |-> e])
  <2>1. PICK t \in {"offer", "answer"} : text = SerializeSessionDescription([type |-> t, sdp |-> e])
    BY <1>2
  <2> DEFINE d == [type |-> t, sdp |-> e]
             m == [EmptyMessage EXCEPT !.type = t, !.sdp_type = t, !.sdp = e]
  <2>2. d.type = t /\ d.sdp = e
    OBVIOUS
  <2>3. ParseSignalingMessage(text) = Accepted(m)
    <3> HIDE DEF d
    <3>1. text = SerializeSessionDescription(d)
      BY <2>1 DEF d
    <3> QED
      BY <2>2, <3>1, DescriptionParsed
  <2>4. m \in Meant(e)
    BY DEF Meant
  <2>5. m.type # "bye"
    BY DEF EmptyMessage
  <2> QED
    BY <1>1, <2>3, <2>4, <2>5
<1>3. CASE text = SerializeIceCandidate(Candidate(e))
  <2> DEFINE m == [EmptyMessage EXCEPT !.type = "candidate", !.candidate = e, !.sdp_mid = "0",
                     !.sdp_mline_index = 1]
  <2>1. /\ Candidate(e).sdp = e
        /\ Candidate(e).sdp_mid = "0" /\ Candidate(e).sdp_mline_index = 1
    BY DEF Candidate
  <2>2. ParseSignalingMessage(text) = Accepted(m)
    BY <1>3, <2>1, CandidateParsed
  <2>3. m \in Meant(e)
    BY DEF Meant
  <2>4. m.type # "bye"
    BY DEF EmptyMessage
  <2> QED
    BY <1>1, <2>2, <2>3, <2>4
<1>4. CASE text = BuildByeMessage
  <2>1. [EmptyMessage EXCEPT !.type = "bye"] \in Meant(e)
    BY DEF Meant
  <2> QED
    BY <1>1, <1>4, <2>1, ByeParsed
<1> QED
  BY <1>2, <1>3, <1>4 DEF Texts

LEMMA WrittenRead ==
  ASSUME NEW e \in Ends, NEW text \in Written[e]
  PROVE  ParseSignalingMessage(text).ok /\ ParseSignalingMessage(text).message \in Said[e]
  BY TextRead DEF Written, Said

(* -- sequences of texts and messages ------------------------------------------------ *)

LEMMA OthersOther == \A e \in Ends : Other(e) \in Ends /\ Other(e) # e /\ Other(Other(e)) = e
  BY DEF Ends, Other

(* More can be written, never less.                                             *)
LEMMA FromMore ==
  ASSUME NEW f, NEW S, NEW T, From(f, S), \A e \in Ends : S[e] \subseteq T[e]
  PROVE  From(f, T)
<1> SUFFICES ASSUME NEW e \in Ends PROVE f[e] \in Seq(T[Other(e)])
  BY DEF From
<1>1. f[e] \in Seq(S[Other(e)]) /\ S[Other(e)] \subseteq T[Other(e)]
  BY OthersOther DEF From
<1> QED
  BY <1>1, SeqMonotonic

(* One sequence is replaced.                                                    *)
LEMMA FromReplaced ==
  ASSUME NEW f, NEW S, From(f, S), NEW e \in Ends, NEW s \in Seq(S[Other(e)])
  PROVE  From([f EXCEPT ![e] = s], S)
  BY DEF From

LEMMA FromEmptied ==
  ASSUME NEW f, NEW S, From(f, S), NEW e \in Ends
  PROVE  From([f EXCEPT ![e] = <<>>], S)
  BY FromReplaced, EmptySeq

LEMMA FromTail ==
  ASSUME NEW f, NEW S, From(f, S), NEW e \in Ends, f[e] # <<>>
  PROVE  Head(f[e]) \in S[Other(e)] /\ From([f EXCEPT ![e] = Tail(@)], S)
<1>1. f[e] \in Seq(S[Other(e)])
  BY DEF From
<1>2. Head(f[e]) \in S[Other(e)] /\ Tail(f[e]) \in Seq(S[Other(e)])
  BY <1>1, HeadTailProperties
<1>3. From([f EXCEPT ![e] = Tail(f[e])], S)
  BY <1>2, FromReplaced
<1> QED
  BY <1>2, <1>3

LEMMA FromAppended ==
  ASSUME NEW f, NEW S, From(f, S), NEW e \in Ends, NEW x \in S[Other(e)]
  PROVE  From([f EXCEPT ![e] = Append(@, x)], S)
<1>1. f[e] \in Seq(S[Other(e)])
  BY DEF From
<1>2. Append(f[e], x) \in Seq(S[Other(e)])
  BY <1>1, AppendProperties
<1>3. From([f EXCEPT ![e] = Append(f[e], x)], S)
  BY <1>2, FromReplaced
<1> QED
  BY <1>3

LEMMA PostedFrom ==
  ASSUME NEW S, From(wire, S), NEW e \in Ends, NEW text \in S[e]
  PROVE  From(Posted(e, text), S)
<1>1. Other(e) \in Ends /\ Other(Other(e)) = e
  BY OthersOther
<1>2. From([wire EXCEPT ![Other(e)] = Append(@, text)], S)
  BY <1>1, FromAppended
<1> QED
  BY <1>2 DEF Posted

LEMMA LeftFrom ==
  ASSUME NEW S, NEW sent, From(sent, S), NEW e \in Ends, Left(e, sent)
  PROVE  From(wire', S)
<1>1. Other(e) \in Ends /\ Other(e) # e
  BY OthersOther
<1> DEFINE own == [sent EXCEPT ![e] = <<>>]
<1>2. From(own, S)
  BY FromEmptied
<1>3. From([own EXCEPT ![Other(e)] = <<>>], S)
  BY <1>1, <1>2, FromEmptied
<1>4. \/ wire' = own
      \/ wire' = [own EXCEPT ![Other(e)] = IF stage[Other(e)] = "absent" THEN <<>> ELSE @]
  BY DEF Left
<1>5. DOMAIN own = Ends
  BY <1>2 DEF From
<1>6. [own EXCEPT ![Other(e)] = @] = own
  BY <1>5
<1> QED
  <2> HIDE DEF own
  <2> QED
    BY <1>2, <1>3, <1>4, <1>6

(* The sort of a join response keeps to its messages.                           *)
LEMMA QueuedFrom ==
  ASSUME NEW S, NEW raw \in Seq(S), NEW queue \in QueuedOrders(raw)
  PROVE  queue \in Seq(S)
<1>1. PICK n \in 0 .. Len(raw) : queue \in OrdersOfLength(raw, n)
  BY DEF QueuedOrders
<1>2. PICK p \in [1 .. n -> Parsable(raw)] : queue = [k \in 1 .. n |-> raw[p[k]]]
  BY <1>1 DEF OrdersOfLength
<1>3. ASSUME NEW k \in 1 .. n PROVE raw[p[k]] \in S
  <2>1. p[k] \in 1 .. Len(raw)
    BY <1>2, LenProperties DEF Parsable
  <2> QED
    BY <2>1, ElementOfSeq
<1>4. n \in Nat /\ queue \in [1 .. n -> S]
  BY <1>2, <1>3, LenProperties
<1> QED
  BY <1>4, SeqDef

(* -- every step --------------------------------------------------------------------- *)

(* The end of a call, and the goodbye to it, keep the types.                    *)
LEMMA EndTyped ==
  ASSUME RoomTyped, NEW e \in Ends, NEW why \in TerminalReasons, NEW sent, End(e, why, sent),
         trouble' \in BOOLEAN
  PROVE  RoomTyped'
<1>1. inRoom' \subseteq Ends
  BY DEF End, Left, RoomTyped
<1> QED
  BY <1>1 DEF End, RoomTyped, Stages

(* Every variable has its type.                                                 *)
LEMMA TypedStep ==
  ASSUME RoomTyped, [RoomNext]_roomVars
  PROVE  RoomTyped'
<1> USE DEF RoomTyped, Stages, Both
<1>1. ASSUME NEW e \in Ends, JoinRoom(e) PROVE RoomTyped'
  BY <1>1 DEF JoinRoom
<1>2. ASSUME NEW e \in Ends, Register(e) PROVE RoomTyped'
  BY <1>2 DEF Register
<1>3. ASSUME NEW e \in Ends, OnWebSocketMessage(e) PROVE RoomTyped'
  <2>1. ASSUME NEW sent, End(e, "SignalingError", sent), UNCHANGED trouble PROVE RoomTyped'
    BY <2>1, EndTyped DEF TerminalReasons
  <2> QED
    BY <1>3, <2>1 DEF OnWebSocketMessage
<1>4. ASSUME NEW e \in Ends, OnBye(e) PROVE RoomTyped'
  BY <1>4, EndTyped DEF OnBye, TerminalReasons
<1>5. ASSUME NEW e \in Ends, OnCandidate(e) PROVE RoomTyped'
  BY <1>5 DEF OnCandidate
<1>6. ASSUME NEW e \in Ends, OnOffer(e) PROVE RoomTyped'
  BY <1>6 DEF OnOffer
<1>7. ASSUME NEW e \in Ends, OnAnswer(e) PROVE RoomTyped'
  BY <1>7 DEF OnAnswer
<1>8. ASSUME NEW e \in Ends, CreateOffer(e) PROVE RoomTyped'
  BY <1>8 DEF CreateOffer
<1>9. ASSUME NEW e \in Ends, SendLocalDescription(e) PROVE RoomTyped'
  BY <1>9 DEF SendLocalDescription
<1>10. ASSUME NEW e \in Ends, SendCandidate(e) PROVE RoomTyped'
  BY <1>10 DEF SendCandidate
<1>11. ASSUME NEW e \in Ends, OnConnected(e) PROVE RoomTyped'
  BY <1>11 DEF OnConnected
<1>12. ASSUME NEW e \in Ends, OnDisconnected(e) PROVE RoomTyped'
  BY <1>12 DEF OnDisconnected
<1>13. ASSUME NEW e \in Ends, OnRemoteMedia(e) PROVE RoomTyped'
  BY <1>13 DEF OnRemoteMedia
<1>14. ASSUME NEW e \in Ends, OnCallDuration(e) PROVE RoomTyped'
  BY <1>14 DEF OnCallDuration
<1>15. ASSUME NEW e \in Ends, SendBye(e) PROVE RoomTyped'
  BY <1>15 DEF SendBye
<1>15a. ASSUME NEW e \in Ends, CompleteFinish(e) PROVE RoomTyped'
  BY <1>15a, EndTyped DEF CompleteFinish, TerminalReasons
<1>16. ASSUME NEW e \in Ends, OnStartupTimeout(e) PROVE RoomTyped'
  BY <1>16, EndTyped DEF OnStartupTimeout, TerminalReasons
<1>17. ASSUME NEW e \in Ends, Fail(e) PROVE RoomTyped'
  BY <1>17, EndTyped DEF Fail, TerminalReasons
<1>18. ASSUME NEW e \in Ends, Kill(e) PROVE RoomTyped'
  BY <1>18 DEF Kill, callVars
<1>19. CASE UNCHANGED roomVars
  BY <1>19 DEF roomVars, callVars
<1> QED
  BY <1>1, <1>2, <1>3, <1>4, <1>5, <1>6, <1>7, <1>8, <1>9, <1>10, <1>11, <1>12, <1>13, <1>14, <1>15, <1>15a,
     <1>16, <1>17, <1>18, <1>19 DEF RoomNext

(* A call that has not ended ends for a reason that fits, with trouble if the   *)
(* reason is one.                                                               *)
LEMMA EndGoes ==
  ASSUME RoomTyped, CallGoes, NEW e \in Ends, NEW why \in TerminalReasons, NEW sent,
         End(e, why, sent), stage[e] # "over", trouble => trouble', trouble' \in BOOLEAN,
         why = "LocalDurationReached" => established[e],
         stage[e] = "parting" => why = "LocalDurationReached",
         why = "RemoteByeBeforeEstablished" => ~established[e],
         why \in Byes => HungUp(Other(e)),
         trouble' \/ why \in Byes \cup {"LocalDurationReached"}
  PROVE  CallGoes'
<1>1. /\ stage' = [stage EXCEPT ![e] = "over"]
      /\ reason' = [reason EXCEPT ![e] = why]
      /\ established' = established
  BY DEF End
<1>2. why # "none"
  BY DEF TerminalReasons
<1>3. reason[e] = "none"
  BY DEF CallGoes
<1> SUFFICES ASSUME NEW d \in Ends
             PROVE  /\ reason'[d] = "none" <=> stage'[d] # "over"
                    /\ established'[d] => stage'[d] \in {"ready", "farewell", "parting", "over"}
                    /\ stage'[d] \in {"farewell", "parting"} => established'[d]
                    /\ reason'[d] = "LocalDurationReached" => established'[d]
                    /\ reason'[d] = "RemoteByeBeforeEstablished" => ~established'[d]
                    /\ reason'[d] \in Byes => HungUp(Other(d))'
                    /\ trouble' \/ reason'[d] \in Byes \cup {"none", "LocalDurationReached"}
  BY DEF CallGoes
<1>4. Other(d) \in Ends /\ Other(d) # d
  BY OthersOther
<1>5. CASE d = e
  <2>1. HungUp(Other(d)) => HungUp(Other(d))'
    BY <1>1, <1>4, <1>5 DEF HungUp, RoomTyped
  <2> QED
    BY <1>1, <1>2, <1>5, <2>1 DEF RoomTyped
<1>6. CASE d # e
  <2>1. /\ reason'[d] = reason[d] /\ stage'[d] = stage[d] /\ established'[d] = established[d]
    BY <1>1, <1>6 DEF RoomTyped
  <2>2. reason[d] \in Byes => HungUp(Other(d))
    BY DEF CallGoes
  <2>3. HungUp(Other(d)) => HungUp(Other(d))'
    BY <1>1, <1>3, <1>4 DEF HungUp, RoomTyped
  <2> QED
    BY <2>1, <2>2, <2>3 DEF CallGoes
<1> QED
  BY <1>5, <1>6

(* A step that ends no call.                                                    *)
LEMMA GoesOn ==
  ASSUME RoomTyped, CallGoes, reason' = reason, trouble => trouble', trouble' \in BOOLEAN,
         \A e \in Ends :
           /\ stage'[e] = "over" <=> stage[e] = "over"
           /\ established[e] => established'[e]
           /\ established'[e] => stage'[e] \in {"ready", "farewell", "parting", "over"}
           /\ established'[e] => established[e] \/ stage[e] = "ready"
           /\ stage'[e] \in {"farewell", "parting"} => established'[e]
           /\ stage[e] = "parting" => stage'[e] = "parting"
  PROVE  CallGoes'
<1>1. \A e \in Ends : HungUp(e) => HungUp(e)'
  BY DEF HungUp
<1>2. \A e \in Ends : reason[e] = "RemoteByeBeforeEstablished" => stage[e] = "over"
  BY DEF CallGoes
<1> QED
  BY <1>1, <1>2, OthersOther DEF CallGoes

(* A goodbye that waits to be handled was said.                                 *)
LEMMA ByeSaid ==
  ASSUME Letters, NEW e \in Ends, NextMessage(e, "bye")
  PROVE  HungUp(Other(e))
<1>1. Head(inbox[e]) \in Said[Other(e)] /\ Head(inbox[e]).type = "bye"
  BY FromTail DEF Letters, NextMessage
<1> QED
  BY <1>1, OthersOther DEF Said

(* A text from the other end can be read.                                       *)
LEMMA TextAccepted ==
  ASSUME Letters, NEW e \in Ends, wire[e] # <<>>
  PROVE  /\ ParseEnvelope(Relay(Head(wire[e]))).ok
         /\ ParseEnvelope(Relay(Head(wire[e]))).message \in Said[Other(e)]
<1>1. Head(wire[e]) \in Written[Other(e)]
  BY FromTail DEF Letters
<1> QED
  BY <1>1, RelayTransparent, WrittenRead, OthersOther

(* Each call ends once, for a reason that fits.                                 *)
LEMMA GoesStep ==
  ASSUME RoomTyped, CallGoes, Letters, [RoomNext]_roomVars
  PROVE  CallGoes'
<1>0. RoomTyped'
  BY TypedStep
<1>a. trouble' \in BOOLEAN
  BY <1>0 DEF RoomTyped
<1>1. ASSUME NEW e \in Ends, JoinRoom(e) PROVE CallGoes'
  BY <1>1, <1>a, GoesOn DEF JoinRoom, RoomTyped, CallGoes
<1>2. ASSUME NEW e \in Ends, Register(e) PROVE CallGoes'
  BY <1>2, <1>a, GoesOn DEF Register, RoomTyped, CallGoes, Ready
<1>3. ASSUME NEW e \in Ends, OnWebSocketMessage(e) PROVE CallGoes'
  <2>1. UNCHANGED <<stage, reason, established, trouble>>
    BY <1>3, TextAccepted DEF OnWebSocketMessage
  <2> QED
    BY <2>1, <1>a, GoesOn DEF CallGoes
<1>4. ASSUME NEW e \in Ends, OnBye(e) PROVE CallGoes'
  BY <1>4, ByeSaid, <1>a, EndGoes DEF OnBye, NextMessage, Ready, TerminalReasons, Byes
<1>5. ASSUME NEW e \in Ends, OnCandidate(e) PROVE CallGoes'
  BY <1>5, <1>a, GoesOn DEF OnCandidate, RoomTyped, CallGoes, NextMessage
<1>6. ASSUME NEW e \in Ends, OnOffer(e) PROVE CallGoes'
  BY <1>6, <1>a, GoesOn DEF OnOffer, RoomTyped, CallGoes, NextMessage
<1>7. ASSUME NEW e \in Ends, OnAnswer(e) PROVE CallGoes'
  BY <1>7, <1>a, GoesOn DEF OnAnswer, RoomTyped, CallGoes, NextMessage
<1>8. ASSUME NEW e \in Ends, CreateOffer(e) PROVE CallGoes'
  BY <1>8, <1>a, GoesOn DEF CreateOffer, RoomTyped, CallGoes, Ready
<1>9. ASSUME NEW e \in Ends, SendLocalDescription(e) PROVE CallGoes'
  BY <1>9, <1>a, GoesOn DEF SendLocalDescription, RoomTyped, CallGoes, Ready
<1>10. ASSUME NEW e \in Ends, SendCandidate(e) PROVE CallGoes'
  BY <1>10, <1>a, GoesOn DEF SendCandidate, RoomTyped, CallGoes, Ready
<1>11. ASSUME NEW e \in Ends, OnConnected(e) PROVE CallGoes'
  BY <1>11, <1>a, GoesOn DEF OnConnected, RoomTyped, CallGoes, Ready
<1>12. ASSUME NEW e \in Ends, OnDisconnected(e) PROVE CallGoes'
  BY <1>12, <1>a, GoesOn DEF OnDisconnected, RoomTyped, CallGoes, Ready
<1>13. ASSUME NEW e \in Ends, OnRemoteMedia(e) PROVE CallGoes'
  BY <1>13, <1>a, GoesOn DEF OnRemoteMedia, RoomTyped, CallGoes, Ready
<1>14. ASSUME NEW e \in Ends, OnCallDuration(e) PROVE CallGoes'
  BY <1>14, <1>a, GoesOn DEF OnCallDuration, RoomTyped, CallGoes, Ready
<1>15. ASSUME NEW e \in Ends, SendBye(e) PROVE CallGoes'
  BY <1>15, <1>a, GoesOn DEF SendBye, RoomTyped, CallGoes
<1>15a. ASSUME NEW e \in Ends, CompleteFinish(e) PROVE CallGoes'
  <2>1. stage[e] # "over" /\ established[e]
    BY <1>15a DEF CompleteFinish, CallGoes
  <2> QED
    BY <1>15a, <2>1, <1>a, EndGoes DEF CompleteFinish, TerminalReasons, Byes
<1>16. ASSUME NEW e \in Ends, OnStartupTimeout(e) PROVE CallGoes'
  BY <1>16, <1>a, EndGoes DEF OnStartupTimeout, TerminalReasons, Going, Byes
<1>17. ASSUME NEW e \in Ends, Fail(e) PROVE CallGoes'
  BY <1>17, <1>a, EndGoes DEF Fail, TerminalReasons, Going, Byes
<1>18. ASSUME NEW e \in Ends, Kill(e) PROVE CallGoes'
  BY <1>18, <1>a, GoesOn DEF Kill, RoomTyped, CallGoes, callVars
<1>19. CASE UNCHANGED roomVars
  BY <1>19, <1>a, GoesOn DEF roomVars, callVars, CallGoes
<1> QED
  BY <1>1, <1>2, <1>3, <1>4, <1>5, <1>6, <1>7, <1>8, <1>9, <1>10, <1>11, <1>12, <1>13, <1>14, <1>15, <1>15a,
     <1>16, <1>17, <1>18, <1>19 DEF RoomNext

(* Who has hung up has hung up.                                                 *)
LEMMA HungUpStays ==
  ASSUME RoomTyped, CallGoes, Letters, [RoomNext]_roomVars, NEW d \in Ends, HungUp(d)
  PROVE  HungUp(d)'
<1>1. /\ established[d]
      /\ \/ stage[d] = "parting"
         \/ stage[d] = "over" /\ reason[d] = "LocalDurationReached"
  BY DEF HungUp, CallGoes
<1>2. ASSUME NEW e \in Ends, NEW why, NEW sent, End(e, why, sent), stage[e] # "over",
             stage[e] = "parting" => why = "LocalDurationReached"
      PROVE  HungUp(d)'
  BY <1>1, <1>2 DEF End, HungUp, RoomTyped
<1>3. ASSUME reason' = reason, established[d] => established'[d],
             stage[d] = "parting" => stage'[d] = "parting"
      PROVE  HungUp(d)'
  BY <1>1, <1>3 DEF HungUp
<1>4. ASSUME NEW e \in Ends, JoinRoom(e) PROVE HungUp(d)'
  BY <1>4, <1>3 DEF JoinRoom, RoomTyped
<1>5. ASSUME NEW e \in Ends, Register(e) PROVE HungUp(d)'
  BY <1>5, <1>3 DEF Register, RoomTyped
<1>6. ASSUME NEW e \in Ends, OnWebSocketMessage(e) PROVE HungUp(d)'
  BY <1>6, <1>3, TextAccepted DEF OnWebSocketMessage
<1>7. ASSUME NEW e \in Ends, OnBye(e) PROVE HungUp(d)'
  BY <1>7, <1>2 DEF OnBye, Going, Ready, NextMessage
<1>8. ASSUME NEW e \in Ends, OnCandidate(e) PROVE HungUp(d)'
  BY <1>8, <1>3 DEF OnCandidate, RoomTyped
<1>9. ASSUME NEW e \in Ends, OnOffer(e) PROVE HungUp(d)'
  BY <1>9, <1>3 DEF OnOffer, RoomTyped
<1>10. ASSUME NEW e \in Ends, OnAnswer(e) PROVE HungUp(d)'
  BY <1>10, <1>3 DEF OnAnswer, RoomTyped
<1>11. ASSUME NEW e \in Ends, CreateOffer(e) PROVE HungUp(d)'
  BY <1>11, <1>3 DEF CreateOffer, RoomTyped
<1>12. ASSUME NEW e \in Ends, SendLocalDescription(e) PROVE HungUp(d)'
  BY <1>12, <1>3 DEF SendLocalDescription, RoomTyped
<1>13. ASSUME NEW e \in Ends, SendCandidate(e) PROVE HungUp(d)'
  BY <1>13, <1>3 DEF SendCandidate, RoomTyped
<1>14. ASSUME NEW e \in Ends, OnConnected(e) PROVE HungUp(d)'
  BY <1>14, <1>3 DEF OnConnected, RoomTyped
<1>15. ASSUME NEW e \in Ends, OnDisconnected(e) PROVE HungUp(d)'
  BY <1>15, <1>3 DEF OnDisconnected, RoomTyped
<1>16. ASSUME NEW e \in Ends, OnRemoteMedia(e) PROVE HungUp(d)'
  BY <1>16, <1>3 DEF OnRemoteMedia, RoomTyped
<1>17. ASSUME NEW e \in Ends, OnCallDuration(e) PROVE HungUp(d)'
  BY <1>17, <1>3 DEF OnCallDuration, Ready, RoomTyped
<1>18. ASSUME NEW e \in Ends, SendBye(e) PROVE HungUp(d)'
  BY <1>18, <1>3 DEF SendBye, RoomTyped
<1>18a. ASSUME NEW e \in Ends, CompleteFinish(e) PROVE HungUp(d)'
  BY <1>18a, <1>2 DEF CompleteFinish
<1>19. ASSUME NEW e \in Ends, OnStartupTimeout(e) PROVE HungUp(d)'
  BY <1>19, <1>2 DEF OnStartupTimeout, Going, Ready, NextMessage
<1>20. ASSUME NEW e \in Ends, Fail(e) PROVE HungUp(d)'
  BY <1>20, <1>2 DEF Fail, Going, Ready, NextMessage
<1>21. ASSUME NEW e \in Ends, Kill(e) PROVE HungUp(d)'
  BY <1>21, <1>3 DEF Kill, RoomTyped, callVars
<1>22. CASE UNCHANGED roomVars
  BY <1>22, <1>3 DEF roomVars, callVars
<1> QED
  BY <1>4, <1>5, <1>6, <1>7, <1>8, <1>9, <1>10, <1>11, <1>12, <1>13, <1>14, <1>15, <1>16, <1>17, <1>18, <1>18a, <1>19, <1>20, <1>21, <1>22
     DEF RoomNext

(* Descriptions and candidates are no goodbyes.                                 *)
LEMMA NoGoodbye ==
  ASSUME NEW e \in Ends
  PROVE  /\ SerializeSessionDescription(Description(e)) \in Texts(e) \ {BuildByeMessage}
         /\ SerializeIceCandidate(Candidate(e)) \in Texts(e) \ {BuildByeMessage}
<1>1. ParseSignalingMessage(BuildByeMessage).message.type = "bye"
  <2> DEFINE m == [EmptyMessage EXCEPT !.type = "bye"]
  <2>1. m.type = "bye"
    BY DEF EmptyMessage
  <2>2. Accepted(m).message = m
    BY DEF Accepted
  <2> QED
    BY <2>1, <2>2, ByeParsed
<1>2. SerializeIceCandidate(Candidate(e)) # BuildByeMessage
  <2> DEFINE c == Candidate(e)
             m == [EmptyMessage EXCEPT !.type = "candidate", !.candidate = c.sdp,
                     !.sdp_mid = c.sdp_mid, !.sdp_mline_index = c.sdp_mline_index]
  <2>1. ParseSignalingMessage(SerializeIceCandidate(c)) = Accepted(m)
    BY CandidateParsed
  <2>2. m.type = "candidate"
    BY DEF EmptyMessage
  <2>3. Accepted(m).message = m
    BY DEF Accepted
  <2> QED
    BY <1>1, <2>1, <2>2, <2>3
<1>3. PICK t \in {"offer", "answer"} : Description(e) = [type |-> t, sdp |-> e]
  BY DEF Description
<1>4. SerializeSessionDescription(Description(e)) # BuildByeMessage
  <2> DEFINE d == Description(e)
             m == [EmptyMessage EXCEPT !.type = d.type, !.sdp_type = d.type, !.sdp = d.sdp]
  <2>1. d.type = t
    BY <1>3
  <2>2. ParseSignalingMessage(SerializeSessionDescription(d)) = Accepted(m)
    <3> HIDE DEF d
    <3> QED
      BY <2>1, DescriptionParsed DEF m
  <2>3. m.type = t
    BY <2>1 DEF EmptyMessage
  <2>4. Accepted(m).message = m
    BY DEF Accepted
  <2> QED
    BY <1>1, <2>2, <2>3, <2>4
<1> QED
  BY <1>2, <1>3, <1>4 DEF Texts

(* The texts that waited in the room are a queue of what the other end said.    *)
LEMMA QueuedLetters ==
  ASSUME Letters, NEW e \in Ends,
         NEW queued \in QueuedOrders([k \in DOMAIN wire[e] |-> ParseSignalingMessage(wire[e][k]).message])
  PROVE  queued \in Seq(Said[Other(e)])
<1> DEFINE raw == [k \in DOMAIN wire[e] |-> ParseSignalingMessage(wire[e][k]).message]
<1>1. wire[e] \in Seq(Written[Other(e)]) /\ Other(e) \in Ends
  BY OthersOther DEF Letters, From
<1>2. DOMAIN wire[e] = 1 .. Len(wire[e]) /\ Len(wire[e]) \in Nat
  BY <1>1, LenProperties
<1>3. ASSUME NEW k \in 1 .. Len(wire[e]) PROVE raw[k] \in Said[Other(e)]
  <2>1. wire[e][k] \in Written[Other(e)]
    BY <1>1, ElementOfSeq
  <2>2. raw[k] = ParseSignalingMessage(wire[e][k]).message
    BY <1>2
  <2> QED
    BY <1>1, <2>1, <2>2, WrittenRead
<1>4. raw \in [1 .. Len(wire[e]) -> Said[Other(e)]]
  BY <1>2, <1>3
<1>5. raw \in Seq(Said[Other(e)])
  BY <1>2, <1>4, SeqDef
<1> QED
  <2> HIDE DEF raw
  <2>1. queued \in QueuedOrders(raw)
    BY DEF raw
  <2> QED
    BY <1>5, <2>1, QueuedFrom

(* A call that ends leaves its messages and its texts.                          *)
LEMMA EndLetters ==
  ASSUME NEW e \in Ends, NEW why, NEW sent, End(e, why, sent),
         From(sent, Written'), From(inbox, Said')
  PROVE  Letters'
<1>1. inbox' = [inbox EXCEPT ![e] = <<>>] /\ Left(e, sent)
  BY DEF End
<1>2. From(inbox', Said')
  BY <1>1, FromEmptied
<1>3. From(wire', Written')
  BY <1>1, LeftFrom
<1> QED
  BY <1>2, <1>3 DEF Letters

(* Nothing that waits for an end was written by another, nor too early.         *)
LEMMA LettersStep ==
  ASSUME RoomTyped, CallGoes, Letters, [RoomNext]_roomVars
  PROVE  Letters'
<1>a. \A e \in Ends : Written[e] \subseteq Written'[e] /\ Said[e] \subseteq Said'[e]
  BY HungUpStays DEF Written, Said
<1>b. From(wire, Written') /\ From(inbox, Said')
  BY <1>a, FromMore DEF Letters
<1>1. ASSUME NEW e \in Ends, JoinRoom(e) PROVE Letters'
  <2>1. PICK queued \in QueuedOrders([k \in DOMAIN wire[e] |-> ParseSignalingMessage(wire[e][k]).message]) :
          inbox' = [inbox EXCEPT ![e] = queued]
    BY <1>1 DEF JoinRoom
  <2>2. queued \in Seq(Said[Other(e)])
    BY QueuedLetters
  <2>3. From(inbox', Said)
    BY <2>1, <2>2, FromReplaced DEF Letters
  <2>4. From(inbox', Said')
    BY <1>a, <2>3, FromMore
  <2>5. From(wire', Written')
    BY <1>1, <1>b, FromEmptied DEF JoinRoom
  <2> QED
    BY <2>4, <2>5 DEF Letters
<1>2. ASSUME NEW e \in Ends, Register(e) PROVE Letters'
  BY <1>2, <1>b DEF Register, Letters
<1>3. ASSUME NEW e \in Ends, OnWebSocketMessage(e) PROVE Letters'
  <2> DEFINE message == ParseEnvelope(Relay(Head(wire[e]))).message
  <2>1. wire[e] # <<>>
    BY <1>3 DEF OnWebSocketMessage
  <2>2. /\ wire' = [wire EXCEPT ![e] = Tail(@)]
        /\ inbox' = [inbox EXCEPT ![e] = Append(@, message)]
    BY <1>3, <2>1, TextAccepted DEF OnWebSocketMessage
  <2>3. message \in Said'[Other(e)]
    BY <1>a, <2>1, TextAccepted, OthersOther
  <2>4. From(wire', Written')
    BY <1>b, <2>1, <2>2, FromTail
  <2>5. From(inbox', Said')
    <3> HIDE DEF message
    <3> QED
      BY <1>b, <2>2, <2>3, FromAppended
  <2> QED
    BY <2>4, <2>5 DEF Letters
<1>4. ASSUME NEW e \in Ends, OnBye(e) PROVE Letters'
  BY <1>4, <1>b, EndLetters DEF OnBye
<1>5. ASSUME NEW e \in Ends, OnCandidate(e) PROVE Letters'
  <2>1. wire' = wire /\ inbox[e] # <<>> /\ inbox' = [inbox EXCEPT ![e] = Tail(@)]
    BY <1>5 DEF OnCandidate, NextMessage
  <2> QED
    BY <1>b, <2>1, FromTail DEF Letters
<1>6. ASSUME NEW e \in Ends, OnOffer(e) PROVE Letters'
  <2>1. wire' = wire /\ inbox[e] # <<>> /\ inbox' = [inbox EXCEPT ![e] = Tail(@)]
    BY <1>6 DEF OnOffer, NextMessage
  <2> QED
    BY <1>b, <2>1, FromTail DEF Letters
<1>7. ASSUME NEW e \in Ends, OnAnswer(e) PROVE Letters'
  <2>1. wire' = wire /\ inbox[e] # <<>> /\ inbox' = [inbox EXCEPT ![e] = Tail(@)]
    BY <1>7 DEF OnAnswer, NextMessage
  <2> QED
    BY <1>b, <2>1, FromTail DEF Letters
<1>8. ASSUME NEW e \in Ends, CreateOffer(e) PROVE Letters'
  BY <1>8, <1>b DEF CreateOffer, Letters
<1>9. ASSUME NEW e \in Ends, SendLocalDescription(e) PROVE Letters'
  <2>1. SerializeSessionDescription(Description(e)) \in Written'[e]
    BY NoGoodbye DEF Written
  <2>2. wire' = Posted(e, SerializeSessionDescription(Description(e))) /\ inbox' = inbox
    BY <1>9 DEF SendLocalDescription
  <2> QED
    BY <1>b, <2>1, <2>2, PostedFrom DEF Letters
<1>10. ASSUME NEW e \in Ends, SendCandidate(e) PROVE Letters'
  <2>1. SerializeIceCandidate(Candidate(e)) \in Written'[e]
    BY NoGoodbye DEF Written
  <2>2. wire' = Posted(e, SerializeIceCandidate(Candidate(e))) /\ inbox' = inbox
    BY <1>10 DEF SendCandidate
  <2> QED
    BY <1>b, <2>1, <2>2, PostedFrom DEF Letters
<1>11. ASSUME NEW e \in Ends, OnConnected(e) PROVE Letters'
  BY <1>11, <1>b DEF OnConnected, Letters
<1>12. ASSUME NEW e \in Ends, OnDisconnected(e) PROVE Letters'
  BY <1>12, <1>b DEF OnDisconnected, Letters
<1>13. ASSUME NEW e \in Ends, OnRemoteMedia(e) PROVE Letters'
  BY <1>13, <1>b DEF OnRemoteMedia, Letters
<1>14. ASSUME NEW e \in Ends, OnCallDuration(e) PROVE Letters'
  BY <1>14, <1>b DEF OnCallDuration, Letters
<1>15. ASSUME NEW e \in Ends, SendBye(e) PROVE Letters'
  <2>1. stage'[e] = "parting" /\ established'[e] /\ inbox' = inbox
    BY <1>15 DEF SendBye, CallGoes, RoomTyped
  <2>2. BuildByeMessage \in Written'[e]
    BY <2>1 DEF Written, Texts, HungUp
  <2>3. From(Posted(e, BuildByeMessage), Written')
    BY <1>b, <2>2, PostedFrom
  <2> QED
    BY <1>15, <1>b, <2>1, <2>3 DEF SendBye, Letters
<1>15a. ASSUME NEW e \in Ends, CompleteFinish(e) PROVE Letters'
  BY <1>15a, <1>b, EndLetters DEF CompleteFinish
<1>16. ASSUME NEW e \in Ends, OnStartupTimeout(e) PROVE Letters'
  BY <1>16, <1>b, EndLetters DEF OnStartupTimeout
<1>17. ASSUME NEW e \in Ends, Fail(e) PROVE Letters'
  BY <1>17, <1>b, EndLetters DEF Fail
<1>18. ASSUME NEW e \in Ends, Kill(e) PROVE Letters'
  <2>1. wire' = [wire EXCEPT ![e] = <<>>] /\ inbox' = inbox
    BY <1>18 DEF Kill, callVars
  <2> QED
    BY <1>b, <2>1, FromEmptied DEF Letters
<1>19. CASE UNCHANGED roomVars
  BY <1>19, <1>b DEF roomVars, callVars, Letters
<1> QED
  BY <1>1, <1>2, <1>3, <1>4, <1>5, <1>6, <1>7, <1>8, <1>9, <1>10, <1>11, <1>12, <1>13, <1>14, <1>15, <1>15a,
     <1>16, <1>17, <1>18, <1>19 DEF RoomNext

LEMMA RoomInitial == RoomInit => RoomInv
<1> SUFFICES ASSUME RoomInit PROVE RoomInv
  OBVIOUS
<1>1. RoomTyped
  BY DEF RoomInit, RoomTyped, Stages
<1>2. CallGoes
  BY DEF RoomInit, CallGoes, Byes
<1>3. Letters
  <2>1. From([e \in Ends |-> <<>>], Written) /\ From([e \in Ends |-> <<>>], Said)
    BY EmptySeq DEF From
  <2> QED
    BY <2>1 DEF RoomInit, Letters
<1> QED
  BY <1>1, <1>2, <1>3 DEF RoomInv

LEMMA RoomStep == RoomInv /\ [RoomNext]_roomVars => RoomInv'
  BY TypedStep, GoesStep, LettersStep DEF RoomInv

(* The invariant holds in every reachable state.                                *)
LEMMA RoomAlways == RoomSpec => []RoomInv
  BY RoomInitial, RoomStep, PTL DEF RoomSpec

(* -- the properties ------------------------------------------------------------------- *)

(* A message that waits to be handled is one that the other end sent, with      *)
(* nothing lost in writing, relaying, sorting and reading it.                   *)
THEOREM NothingLostOnTheWay == RoomSpec => []RoomTypeOK
<1>1. RoomInv => RoomTypeOK
  <2> SUFFICES ASSUME RoomInv PROVE RoomTypeOK
    OBVIOUS
  <2>1. ASSUME NEW e \in Ends, NEW k \in DOMAIN inbox[e]
        PROVE  inbox[e][k] \in Meant(Other(e))
    <3>1. inbox[e] \in Seq(Said[Other(e)]) /\ Other(e) \in Ends
      BY OthersOther DEF RoomInv, Letters, From
    <3>2. inbox[e][k] \in Said[Other(e)]
      BY <3>1, LenProperties, ElementOfSeq
    <3> QED
      BY <3>1, <3>2 DEF Said
  <2> QED
    BY <2>1 DEF RoomInv, RoomTyped, RoomTypeOK
<1>2. QED
  BY <1>1, RoomAlways, PTL

(* An end is hung up on only by one whose call was established and lasted its   *)
(* duration; without trouble both exit with success, but one that was hung up   *)
(* on before its own call was established.                                      *)
THEOREM HungUpOnHonestly == RoomSpec => []HangUpHonest
<1>1. RoomInv => HangUpHonest
  <2> SUFFICES ASSUME RoomInv, NEW e \in Ends
               PROVE  /\ reason[e] \in Byes => HungUp(Other(e))
                      /\ ~trouble /\ stage[e] = "over" =>
                           \/ ExitCodeForReason[reason[e]] = Success
                           \/ ~established[e] /\ reason[e] = "RemoteByeBeforeEstablished"
    BY DEF HangUpHonest, HungUp, Byes
  <2>1. /\ ExitCodeForReason["LocalDurationReached"] = Success
        /\ ExitCodeForReason["RemoteByeAfterEstablished"] = Success
    BY DEF ExitCodeForReason, TerminalReasons
  <2> QED
    BY <2>1 DEF RoomInv, CallGoes, Byes
<1>2. QED
  BY <1>1, RoomAlways, PTL

(* -- the lifecycle of each end ---------------------------------------------------------- *)

Failures == {MediaFailed, SignalingFailed, PeerConnectionFailed, TimedOut}
Losses == {Success, SignalingFailed, PeerConnectionFailed}

(* What a step makes of the call of d.                                          *)
Lives(d) ==
  \/ UNCHANGED <<PhaseOf(d), CodeOf(d)>>
  \/ PhaseOf(d) = "setup" /\ PhaseOf(d)' = "established" /\ UNCHANGED CodeOf(d)
  \/ PhaseOf(d) = "setup" /\ PhaseOf(d)' = "over" /\ CodeOf(d)' \in Failures
  \/ PhaseOf(d) = "established" /\ PhaseOf(d)' = "over" /\ CodeOf(d)' \in Losses
  \/ PhaseOf(d) = "established" /\ PhaseOf(d)' = "farewell" /\ UNCHANGED CodeOf(d)
  \/ PhaseOf(d) = "farewell" /\ PhaseOf(d)' = "over" /\ CodeOf(d)' = Success

LEMMA ReasonCodes ==
  /\ ExitCodeForReason["LocalDurationReached"] = Success
  /\ ExitCodeForReason["RemoteByeAfterEstablished"] = Success
  /\ ExitCodeForReason["RemoteByeBeforeEstablished"] = SignalingFailed
  /\ ExitCodeForReason["SignalingError"] = SignalingFailed
  /\ ExitCodeForReason["StartupTimeout"] = TimedOut
  /\ ExitCodeForReason["PeerConnectionError"] = PeerConnectionFailed
  /\ ExitCodeForReason["MediaError"] = MediaFailed
  BY DEF ExitCodeForReason, TerminalReasons

(* The end of one's own call.                                                   *)
LEMMA EndLives ==
  ASSUME RoomInv, NEW d \in Ends, NEW why \in TerminalReasons, NEW sent, End(d, why, sent),
         stage[d] # "over",
         PhaseOf(d) = "setup" => ExitCodeForReason[why] \in Failures,
         PhaseOf(d) = "established" => ExitCodeForReason[why] \in Losses,
         PhaseOf(d) = "farewell" => ExitCodeForReason[why] = Success
  PROVE  Lives(d)
<1>1. stage'[d] = "over" /\ reason'[d] = why
  BY DEF End, RoomInv, RoomTyped
<1>2. PhaseOf(d)' = "over" /\ CodeOf(d)' = ExitCodeForReason[why]
  BY <1>1 DEF PhaseOf, CodeOf
<1>3. PhaseOf(d) \in {"setup", "established", "farewell"}
  BY DEF PhaseOf
<1> QED
  BY <1>2, <1>3 DEF Lives

(* A step in which the call of d goes on as it was, or is the other end's.      *)
LEMMA GoesOnLives ==
  ASSUME NEW d \in Ends,
         stage'[d] = stage[d] \/ {stage[d], stage'[d]} \subseteq {"absent", "joined", "ready"},
         established'[d] = established[d], reason'[d] = reason[d]
  PROVE  Lives(d)
<1>1. PhaseOf(d)' = PhaseOf(d) /\ CodeOf(d)' = CodeOf(d)
  BY DEF PhaseOf, CodeOf
<1> QED
  BY <1>1 DEF Lives

LEMMA OthersStepLives ==
  ASSUME RoomInv, NEW d \in Ends, NEW e \in Ends, d # e,
    \/ JoinRoom(e) \/ Register(e) \/ OnWebSocketMessage(e)
    \/ OnBye(e) \/ OnCandidate(e) \/ OnOffer(e) \/ OnAnswer(e)
    \/ CreateOffer(e) \/ SendLocalDescription(e) \/ SendCandidate(e)
    \/ OnConnected(e) \/ OnDisconnected(e) \/ OnRemoteMedia(e)
    \/ OnCallDuration(e) \/ SendBye(e) \/ CompleteFinish(e) \/ OnStartupTimeout(e)
    \/ Fail(e) \/ Kill(e)
  PROVE  Lives(d)
<1>1. ASSUME NEW why, NEW sent, End(e, why, sent)
      PROVE  stage'[d] = stage[d] /\ established'[d] = established[d] /\ reason'[d] = reason[d]
  BY <1>1 DEF End, RoomInv, RoomTyped
<1>2. CASE \/ OnWebSocketMessage(e) \/ OnBye(e) \/ CompleteFinish(e) \/ OnStartupTimeout(e)
           \/ Fail(e)
  <2>1. \/ \E why, sent : End(e, why, sent)
        \/ UNCHANGED <<stage, established, reason>>
    BY <1>2 DEF OnWebSocketMessage, OnBye, CompleteFinish, OnStartupTimeout, Fail
  <2> QED
    BY <1>1, <2>1, GoesOnLives
<1>3. CASE \/ JoinRoom(e) \/ Register(e) \/ OnCandidate(e) \/ OnOffer(e) \/ OnAnswer(e)
           \/ CreateOffer(e) \/ SendLocalDescription(e) \/ SendCandidate(e)
           \/ OnConnected(e) \/ OnDisconnected(e) \/ OnRemoteMedia(e)
           \/ OnCallDuration(e) \/ SendBye(e) \/ Kill(e)
  <2>1. stage'[d] = stage[d] /\ established'[d] = established[d] /\ reason'[d] = reason[d]
    BY <1>3 DEF JoinRoom, Register, OnCandidate, OnOffer, OnAnswer, CreateOffer,
       SendLocalDescription, SendCandidate, OnConnected, OnDisconnected, OnRemoteMedia,
       OnCallDuration, SendBye, Kill, callVars, RoomInv, RoomTyped
  <2> QED
    BY <2>1, GoesOnLives
<1> QED
  BY <1>2, <1>3

(* One's own step.                                                              *)
LEMMA OwnStepLives ==
  ASSUME RoomInv, NEW d \in Ends,
    \/ JoinRoom(d) \/ Register(d) \/ OnWebSocketMessage(d)
    \/ OnBye(d) \/ OnCandidate(d) \/ OnOffer(d) \/ OnAnswer(d)
    \/ CreateOffer(d) \/ SendLocalDescription(d) \/ SendCandidate(d)
    \/ OnConnected(d) \/ OnDisconnected(d) \/ OnRemoteMedia(d)
    \/ OnCallDuration(d) \/ SendBye(d) \/ CompleteFinish(d) \/ OnStartupTimeout(d)
    \/ Fail(d) \/ Kill(d)
  PROVE  Lives(d)
<1>1. CASE JoinRoom(d)
  BY <1>1, GoesOnLives DEF JoinRoom, RoomInv, RoomTyped
<1>2. CASE Register(d)
  BY <1>2, GoesOnLives DEF Register, RoomInv, RoomTyped
<1>3. CASE OnWebSocketMessage(d)
  BY <1>3, TextAccepted, GoesOnLives DEF OnWebSocketMessage, RoomInv
<1>4. CASE OnBye(d)
  <2>1. stage[d] = "ready"
    BY <1>4 DEF OnBye, NextMessage, Ready
  <2>2. PhaseOf(d) = IF established[d] THEN "established" ELSE "setup"
    BY <2>1 DEF PhaseOf
  <2> QED
    BY <1>4, <2>1, <2>2, ReasonCodes, EndLives DEF OnBye, TerminalReasons, Failures, Losses
<1>5. CASE OnCandidate(d)
  BY <1>5, GoesOnLives DEF OnCandidate
<1>6. CASE OnOffer(d)
  BY <1>6, GoesOnLives DEF OnOffer
<1>7. CASE OnAnswer(d)
  BY <1>7, GoesOnLives DEF OnAnswer
<1>8. CASE CreateOffer(d)
  BY <1>8, GoesOnLives DEF CreateOffer
<1>9. CASE SendLocalDescription(d)
  BY <1>9, GoesOnLives DEF SendLocalDescription
<1>10. CASE SendCandidate(d)
  BY <1>10, GoesOnLives DEF SendCandidate
<1>11. CASE OnConnected(d)
  <2>1. stage[d] = "ready" /\ stage' = stage /\ reason' = reason
    BY <1>11 DEF OnConnected, Ready
  <2>2. established'[d] = (established[d] \/ seen[d])
    BY <1>11 DEF OnConnected, RoomInv, RoomTyped
  <2> QED
    BY <2>1, <2>2 DEF Lives, PhaseOf, CodeOf
<1>12. CASE OnDisconnected(d)
  BY <1>12, GoesOnLives DEF OnDisconnected
<1>13. CASE OnRemoteMedia(d)
  <2>1. stage[d] = "ready" /\ stage' = stage /\ reason' = reason
    BY <1>13 DEF OnRemoteMedia, Ready
  <2>2. established'[d] = (established[d] \/ connected[d])
    BY <1>13 DEF OnRemoteMedia, RoomInv, RoomTyped
  <2> QED
    BY <2>1, <2>2 DEF Lives, PhaseOf, CodeOf
<1>14. CASE OnCallDuration(d)
  <2>1. /\ stage[d] = "ready" /\ established[d] /\ stage'[d] = "farewell"
        /\ reason' = reason /\ established' = established
    BY <1>14 DEF OnCallDuration, Ready, RoomInv, RoomTyped
  <2> QED
    BY <2>1 DEF Lives, PhaseOf, CodeOf
<1>15. CASE SendBye(d)
  <2>1. /\ stage[d] = "farewell" /\ stage'[d] = "parting"
        /\ reason' = reason /\ established' = established
    BY <1>15 DEF SendBye, RoomInv, RoomTyped
  <2> QED
    BY <2>1 DEF Lives, PhaseOf, CodeOf
<1>15a. CASE CompleteFinish(d)
  <2>1. stage[d] = "parting"
    BY <1>15a DEF CompleteFinish
  <2>2. PhaseOf(d) = "farewell"
    BY <2>1 DEF PhaseOf
  <2> QED
    BY <1>15a, <2>1, <2>2, ReasonCodes, EndLives DEF CompleteFinish, TerminalReasons
<1>16. CASE OnStartupTimeout(d)
  <2>1. stage[d] \in {"joined", "ready"} /\ ~established[d]
    BY <1>16 DEF OnStartupTimeout, Going
  <2>2. PhaseOf(d) = "setup"
    BY <2>1 DEF PhaseOf
  <2> QED
    BY <1>16, <2>1, <2>2, ReasonCodes, EndLives DEF OnStartupTimeout, TerminalReasons, Failures
<1>17. CASE Fail(d)
  <2>1. PICK why \in {"SignalingError", "PeerConnectionError", "MediaError"} :
          /\ End(d, why, wire)
          /\ stage[d] \in {"absent", "joined", "ready"}
          /\ why = "MediaError" => stage[d] = "joined"
    BY <1>17 DEF Fail, Going
  <2>2. PhaseOf(d) = IF established[d] THEN "established" ELSE "setup"
    BY <2>1 DEF PhaseOf
  <2>3. established[d] => stage[d] = "ready"
    BY <2>1 DEF RoomInv, CallGoes
  <2> QED
    BY <2>1, <2>2, <2>3, ReasonCodes, EndLives DEF TerminalReasons, Failures, Losses
<1>18. CASE Kill(d)
  BY <1>18, GoesOnLives DEF Kill, callVars
<1> QED
  BY <1>1, <1>2, <1>3, <1>4, <1>5, <1>6, <1>7, <1>8, <1>9, <1>10, <1>11, <1>12, <1>13, <1>14, <1>15, <1>15a,
     <1>16, <1>17, <1>18

LEMMA StepLives ==
  ASSUME RoomInv, [RoomNext]_roomVars, NEW d \in Ends
  PROVE  Lives(d)
<1>1. CASE RoomNext
  BY <1>1, OwnStepLives, OthersStepLives DEF RoomNext
<1>2. CASE UNCHANGED roomVars
  BY <1>2, GoesOnLives DEF roomVars, callVars
<1> QED
  BY <1>1, <1>2

LEMMA ACodes ==
  /\ A!Success = Success
  /\ A!MediaFailed = MediaFailed
  /\ A!SignalingFailed = SignalingFailed
  /\ A!PeerConnectionFailed = PeerConnectionFailed
  /\ A!TimedOut = TimedOut
  /\ A!RuntimeFailed = RuntimeFailed
  BY DEF A!Success, Success,
     A!MediaFailed, MediaFailed,
     A!SignalingFailed, SignalingFailed,
     A!PeerConnectionFailed, PeerConnectionFailed,
     A!TimedOut, TimedOut,
     A!RuntimeFailed, RuntimeFailed

LEMMA AInitial == RoomInit => A!LifecycleInit
<1> SUFFICES ASSUME RoomInit PROVE A!LifecycleInit
  OBVIOUS
<1>1. PhaseOf("a") = "setup" /\ CodeOf("a") = RuntimeFailed
  BY DEF RoomInit, Ends, PhaseOf, CodeOf
<1> QED
  BY <1>1, ACodes DEF A!LifecycleInit

LEMMA AStep ==
  ASSUME RoomInv, [RoomNext]_roomVars
  PROVE  [A!LifecycleNext]_(A!lifecycleVars)
<1>1. Lives("a")
  BY StepLives DEF Ends
<1> QED
  BY <1>1, ACodes DEF Lives, Failures, Losses, A!LifecycleNext, A!lifecycleVars, A!Establish,
     A!FailSetup, A!LoseCall, A!SayGoodbye, A!EndFarewell

LEMMA BCodes ==
  /\ B!Success = Success
  /\ B!MediaFailed = MediaFailed
  /\ B!SignalingFailed = SignalingFailed
  /\ B!PeerConnectionFailed = PeerConnectionFailed
  /\ B!TimedOut = TimedOut
  /\ B!RuntimeFailed = RuntimeFailed
  BY DEF B!Success, Success,
     B!MediaFailed, MediaFailed,
     B!SignalingFailed, SignalingFailed,
     B!PeerConnectionFailed, PeerConnectionFailed,
     B!TimedOut, TimedOut,
     B!RuntimeFailed, RuntimeFailed

LEMMA BInitial == RoomInit => B!LifecycleInit
<1> SUFFICES ASSUME RoomInit PROVE B!LifecycleInit
  OBVIOUS
<1>1. PhaseOf("b") = "setup" /\ CodeOf("b") = RuntimeFailed
  BY DEF RoomInit, Ends, PhaseOf, CodeOf
<1> QED
  BY <1>1, BCodes DEF B!LifecycleInit

LEMMA BStep ==
  ASSUME RoomInv, [RoomNext]_roomVars
  PROVE  [B!LifecycleNext]_(B!lifecycleVars)
<1>1. Lives("b")
  BY StepLives DEF Ends
<1> QED
  BY <1>1, BCodes DEF Lives, Failures, Losses, B!LifecycleNext, B!lifecycleVars, B!Establish,
     B!FailSetup, B!LoseCall, B!SayGoodbye, B!EndFarewell

(* Seen alone, the call of either end is the abstract life of a call, whatever   *)
(* the other end, the room and the wires do.                                    *)
THEOREM BothImplement == RoomSpec => BothLifecycles
<1>1. RoomSpec => A!LifecycleSpec
  BY AInitial, AStep, RoomAlways, PTL DEF RoomSpec, A!LifecycleSpec
<1>2. RoomSpec => B!LifecycleSpec
  BY BInitial, BStep, RoomAlways, PTL DEF RoomSpec, B!LifecycleSpec
<1> QED
  BY <1>1, <1>2 DEF BothLifecycles

=============================================================================
