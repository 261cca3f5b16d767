---------------------------- MODULE MCGroupSend ----------------------------
(* The group sends to two devices of one member.                           *)
EXTENDS GroupSend

CONSTANT a1

OneMember == [d \in Devices |-> a1]
=============================================================================
