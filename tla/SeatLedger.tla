----------------------------- MODULE SeatLedger -----------------------------
(***************************************************************************)
(* What a slot's bookedCount promises, without requests or transactions:   *)
(* every booking that holds seats was admitted while they fitted, gives    *)
(* them back exactly once, and the count is the seats held.                *)
(***************************************************************************)
EXTENDS Integers, FiniteSets

CONSTANTS Slot, Booking, SlotOf, Qty

VARIABLES
  limit,    \* the highest capacity announced for each slot so far
  holders,  \* the bookings that hold their seats
  taken     \* the seats counted as taken in each slot

ledger == <<limit, holders, taken>>

\* The seats the bookings in S hold in slot s, one element per seat.
SeatUnits(S, s) ==
  UNION {{b} \X (1..Qty[b]) : b \in {x \in S : SlotOf[x] = s}}

Seats(S, s) == Cardinality(SeatUnits(S, s))

Init ==
  /\ limit \in [Slot -> Nat]
  /\ holders = {}
  /\ taken = [s \in Slot |-> 0]

Announce(s) ==
  /\ limit'[s] \in Nat /\ limit'[s] > limit[s]
  /\ limit' = [limit EXCEPT ![s] = limit'[s]]
  /\ UNCHANGED <<holders, taken>>

Admit(b) ==
  /\ b \notin holders
  /\ taken[SlotOf[b]] + Qty[b] <= limit[SlotOf[b]]
  /\ holders' = holders \cup {b}
  /\ taken' = [taken EXCEPT ![SlotOf[b]] = @ + Qty[b]]
  /\ UNCHANGED limit

Release(b) ==
  /\ b \in holders
  /\ holders' = holders \ {b}
  /\ taken' = [taken EXCEPT ![SlotOf[b]] = @ - Qty[b]]
  /\ UNCHANGED limit

Next ==
  \/ \E s \in Slot : Announce(s)
  \/ \E b \in Booking : Admit(b) \/ Release(b)

Spec == Init /\ [][Next]_ledger
=============================================================================
