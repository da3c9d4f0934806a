---------------------------- MODULE MCPrasadShop ----------------------------
(* Instances of PrasadShop for TLC.                                        *)
EXTENDS PrasadShop, TLC

CONSTANTS laddu, o1, o2, d1, d2, c1

\* o1 wants one of the product, o2 wants two of it.
MCItems == [o \in Order |-> [p \in Product |-> IF o = o1 THEN 1 ELSE 2]]
\* Only o1 is ever set back to PLACED.
MCMaxReopenings == [o \in Order |-> IF o = o1 THEN 1 ELSE 0]
Interchangeable == Permutations(Desk)
=============================================================================
