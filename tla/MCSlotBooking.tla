--------------------------- MODULE MCSlotBooking ---------------------------
(* Instances of SlotBooking for TLC.                                       *)
EXTENDS SlotBooking, TLC

CONSTANTS puja, darshan, b1, b2, b3, w1, w2, c1, c2

\* b1 and b2 compete for the puja slot; b3, where present, is for darshan.
MCSlotOf == [b \in Booking |-> IF b = b3 THEN darshan ELSE puja]
\* b2 wants two seats.
MCQty == [b \in Booking |-> IF b = b2 THEN 2 ELSE 1]
\* Every booking wants one seat.
MCOneSeat == [b \in Booking |-> 1]

\* The requests of one kind are interchangeable.
Interchangeable == Permutations(Worker) \cup Permutations(Cleaner)
=============================================================================
