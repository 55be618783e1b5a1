--------------------------- MODULE MCCallController ---------------------------
(* Small instances of the call.                                                *)
EXTENDS CallProperties

Msg(type, id) == [type |-> type, id |-> id]

(* The room of an initiator is empty.                                          *)
EmptyRoom == {<<>>}

(* What a peer may have left in the room: its offer and candidates, in any     *)
(* order, text that does not parse, a bye, candidates of a lost offer.         *)
BusyRoom ==
  {<<>>,
   <<Msg("candidate", 1), Msg("candidate", 2)>>,
   <<Msg("candidate", 1), Msg("garbled", 0), Msg("offer", 0)>>,
   <<Msg("bye", 0), Msg("offer", 0), Msg("candidate", 1)>>}
=============================================================================
