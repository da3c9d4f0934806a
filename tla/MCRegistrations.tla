-------------------------- MODULE MCRegistrations --------------------------
(* Instances of Registrations for TLC.                                     *)
EXTENDS Registrations

CONSTANTS event, r1, r2, w1, w2

MCMinBooked == -1
MCEventOf == [r \in Reg |-> event]
=============================================================================
