---------------------------- MODULE MCOfferings ----------------------------
(* Instances of Offerings for TLC.                                         *)
EXTENDS Offerings

CONSTANTS d1, slot, b1, b2, w1, w2

MCSlotOf == [b \in Booking |-> slot]
MCPeople == [b \in Booking |-> IF b = b1 THEN 1 ELSE 2]
=============================================================================
