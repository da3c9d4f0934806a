------------------------- MODULE MCBookingPayments -------------------------
(* Instances of BookingPayments for TLC: one puja slot with one seat.      *)
EXTENDS BookingPayments, TLC

CONSTANTS puja, b1, w1, h1, h2, e1, e2

MCSlotOf == [b \in Booking |-> puja]
MCQty == [b \in Booking |-> 1]
\* Every attempt is for the payment of b1.
MCAttemptOf == [e \in Attempt |-> b1]
MCClosings == {"FAILED", "CANCELLED", "REFUNDED"}
Interchangeable == Permutations(Handler) \cup Permutations(Attempt)
=============================================================================
