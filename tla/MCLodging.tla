----------------------------- MODULE MCLodging -----------------------------
(* Instances of Lodging for TLC.                                           *)
EXTENDS Lodging

CONSTANTS room, s1, s2, w1, w2

\* One room; s2 arrives on the last night of s1.
MCRoomOf == [b \in Stay |-> room]
MCCheckIn == [b \in Stay |-> IF b = s1 THEN 1 ELSE 2]
MCCheckOut == [b \in Stay |-> IF b = s1 THEN 3 ELSE 4]
=============================================================================
