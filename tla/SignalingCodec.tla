---------------------------- MODULE SignalingCodec ----------------------------
(* The texts that the clients and the room exchange.  A text is abstract:      *)
(* whether it is JSON at all, and the object it parses to, whose members are   *)
(* kept as far as the program reads them.                                      *)
EXTENDS Integers

(* A JSON value of each kind; absent members read as null.                     *)
JsonNull == [kind |-> "null", value |-> ""]
JsonString(s) == [kind |-> "string", value |-> s]
JsonInt(i) == [kind |-> "int", value |-> i]
JsonBool(b) == [kind |-> "bool", value |-> b]

Object(members) == [json |-> TRUE, members |-> members]

Member(text, name) ==
  IF name \in DOMAIN text.members THEN text.members[name] ELSE JsonNull

(* asString and asInt of the kinds the program meets.                          *)
asString(v) == IF v.kind = "string" THEN v.value ELSE ""
asInt(v) == IF v.kind = "int" THEN v.value ELSE 0

(* A SignalingMessage; what its type does not fill in keeps its default.       *)
EmptyMessage ==
  [type |-> "unknown", sdp_type |-> "", sdp |-> "", candidate |-> "", sdp_mid |-> "",
   sdp_mline_index |-> 0]

(* A status that is not OK.                                                    *)
Rejected == [ok |-> FALSE, message |-> EmptyMessage]

Accepted(message) == [ok |-> TRUE, message |-> message]

(* An object without a type, or with another one, is accepted as unknown.      *)
ParseSignalingMessage(text) ==
  LET type == asString(Member(text, "type"))
  IN  IF ~text.json THEN Rejected
      ELSE IF type \in {"offer", "answer"} THEN
        Accepted([EmptyMessage EXCEPT !.type = type, !.sdp_type = type,
                    !.sdp = asString(Member(text, "sdp"))])
      ELSE IF type = "candidate" THEN
        Accepted([EmptyMessage EXCEPT !.type = type,
                    !.candidate = asString(Member(text, "candidate")),
                    !.sdp_mid = asString(Member(text, "id")),
                    !.sdp_mline_index = asInt(Member(text, "label"))])
      ELSE IF type = "bye" THEN Accepted([EmptyMessage EXCEPT !.type = type])
      ELSE Accepted(EmptyMessage)

SerializeSessionDescription(description) ==
  Object([type |-> JsonString(description.type), sdp |-> JsonString(description.sdp)])

(* Faulty variant: a candidate whose names follow WebRTC, not AppRTC.          *)
SerializeIceCandidateAsInit(candidate) ==
  Object([type |-> JsonString("candidate"),
          sdpMLineIndex |-> JsonInt(candidate.sdp_mline_index),
          sdpMid |-> JsonString(candidate.sdp_mid),
          candidate |-> JsonString(candidate.sdp)])

SerializeIceCandidate(candidate) ==
  Object([type |-> JsonString("candidate"),
          label |-> JsonInt(candidate.sdp_mline_index),
          id |-> JsonString(candidate.sdp_mid),
          candidate |-> JsonString(candidate.sdp)])

BuildByeMessage == Object([type |-> JsonString("bye")])

(* SendWebSocketMessageAsync and the websocket's callback: the text travels as *)
(* a string inside another object.                                             *)
SendEnvelope(text) == Object([cmd |-> JsonString("send"), msg |-> JsonString(text)])

ParseEnvelope(text) ==
  IF \/ ~text.json
     \/ Member(text, "error").kind = "string" /\ Member(text, "error").value # ""
     \/ Member(text, "msg").kind # "string"
  THEN Rejected
  ELSE ParseSignalingMessage(Member(text, "msg").value)

(* A room server may say true as a boolean or as a string.                     *)
ParseInitiatorField(v) ==
  \/ v.kind = "bool" /\ v.value
  \/ v.kind = "string" /\ v.value = "true"
=============================================================================
