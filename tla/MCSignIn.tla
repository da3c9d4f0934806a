------------------------------ MODULE MCSignIn ------------------------------
(* Instances of SignIn for TLC.                                            *)
EXTENDS SignIn, TLC

CONSTANTS p1, t1, t2, w1, w2

\* A window admits one request.
MCPoints == [r \in Routes |-> 1]
Interchangeable == Permutations(Worker) \cup Permutations(Token)
=============================================================================
