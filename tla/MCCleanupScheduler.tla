------------------------- MODULE MCCleanupScheduler -------------------------
(* Instances of CleanupScheduler for TLC: one puja slot with one seat.     *)
EXTENDS CleanupScheduler, TLC

CONSTANTS puja, b1, b2, w1, c1, c2, i1, i2

MCSlotOf == [b \in Booking |-> puja]
MCQty == [b \in Booking |-> 1]
MCHostOf == [c \in Cleaner |-> IF c = c1 THEN i1 ELSE i2]
=============================================================================
