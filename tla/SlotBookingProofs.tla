------------------------- MODULE SlotBookingProofs -------------------------
(***************************************************************************)
(* Theorems about SlotBooking, for any slots, bookings, quantities,        *)
(* capacities and number of concurrent requests.                           *)
(***************************************************************************)
EXTENDS SlotBooking, FiniteSetTheorems, TLAPS

USE SlotAssumption

LEMMA CapacitiesAreIntegers == \A n \in Capacities : n \in Int
<1>1. \A n \in Capacities : n \in Nat
  OBVIOUS
<1> QED
  BY <1>1

----------------------------------------------------------------------------
(* Type correctness.                                                       *)

LEMMA InitTypeOK == Init => TypeOK
BY DEF Init, TypeOK, Request, Idle, BookingStatus, PaymentStatus

LEMMA WorkerTypeOK ==
  ASSUME NEW p \in Worker, TypeOK, WorkerStep(p)
  PROVE  TypeOK'
<1> USE DEF TypeOK
<1>1. ASSUME NEW b \in Booking, CreateRead(p, b) PROVE TypeOK'
  BY <1>1 DEF CreateRead, Begin, Request, slotVars, rowVars
<1>2. ASSUME NEW b \in Booking, CancelRead(p, b) PROVE TypeOK'
  BY <1>2 DEF CancelRead, Begin, Request, slotVars, rowVars
<1>3. ASSUME NEW b \in Booking, CheckInRead(p, b) PROVE TypeOK'
  BY <1>3 DEF CheckInRead, Begin, Request, slotVars, rowVars
<1>4. ASSUME NEW b \in Booking, QrVerify(p, b) PROVE TypeOK'
  BY <1>4 DEF QrVerify, Begin, Request, slotVars, rowVars
<1>5. ASSUME CreateCommit(p) PROVE TypeOK'
  <2>1. req[p].b \in Booking
    BY <1>5 DEF CreateCommit, Running, Request, Idle
  <2> QED
    BY <1>5, <2>1 DEF CreateCommit, Finish, Request, BookingStatus
<1>6. ASSUME CreateRefused(p) PROVE TypeOK'
  BY <1>6 DEF CreateRefused, Finish, Request, slotVars, rowVars
<1>7. ASSUME CancelCommit(p) PROVE TypeOK'
  <2>1. req[p].b \in Booking
    BY <1>7 DEF CancelCommit, Running, Request, Idle
  <2> QED
    BY <1>7, <2>1 DEF CancelCommit, Released, Finish, Request, BookingStatus
<1>8. ASSUME QrRead(p) PROVE TypeOK'
  <2>1. req[p].b \in Booking
    BY <1>8 DEF QrRead, Running, Request, Idle
  <2>2. [op |-> "checkIn", b |-> req[p].b] \in Request
    BY <2>1 DEF Request
  <2> QED
    BY <1>8, <2>2 DEF QrRead, Request, slotVars, rowVars
<1>9. ASSUME CheckInCommit(p) PROVE TypeOK'
  <2>1. req[p].b \in Booking
    BY <1>9 DEF CheckInCommit, Running, Request, Idle
  <2> QED
    BY <1>9, <2>1
    DEF CheckInCommit, WithToken, Finish, Request, BookingStatus, slotVars
<1>10. ASSUME CheckInRejected(p) PROVE TypeOK'
  BY <1>10 DEF CheckInRejected, Finish, Request, slotVars, rowVars
<1> QED
  BY <1>1, <1>2, <1>3, <1>4, <1>5, <1>6, <1>7, <1>8, <1>9, <1>10 DEF WorkerStep

LEMMA CleanerTypeOK ==
  ASSUME NEW c \in Cleaner, TypeOK, CleanerStep(c)
  PROVE  TypeOK'
<1> USE DEF TypeOK
<1>1. ASSUME ExpireScan(c) PROVE TypeOK'
  <2>1. req'[c] \in Request
    BY <1>1 DEF ExpireScan, Begin, Request, Overdue
  <2> QED
    BY <1>1, <2>1 DEF ExpireScan, Begin, slotVars, rowVars
<1>2. ASSUME NEW b \in Booking, ExpireRead(c, b) PROVE TypeOK'
  <2>1. /\ req[c].todo \subseteq Booking
        /\ req[c].unpaid \subseteq Booking
    BY <1>2 DEF ExpireRead, Running, Request, Idle
  <2>2. req'[c] \in Request
    BY <1>2, <2>1 DEF ExpireRead, Request
  <2> QED
    BY <1>2, <2>2 DEF ExpireRead, slotVars, rowVars
<1>3. ASSUME ExpireCommit(c) PROVE TypeOK'
  <2>1. /\ req[c].b \in Booking
        /\ req[c].todo \subseteq Booking
        /\ req[c].unpaid \subseteq Booking
    BY <1>3 DEF ExpireCommit, Running, Request, Idle
  <2>2. req'[c] \in Request
    BY <1>3, <2>1 DEF ExpireCommit, Request
  <2>3. booked' \in [Slot -> Int]
    BY <1>3, <2>1 DEF ExpireCommit, Released
  <2>4. status' \in [Booking -> BookingStatus \cup {"ABSENT"}]
    BY <1>3, <2>1 DEF ExpireCommit, ExpiredStatus, BookingStatus
  <2>5. payment' \in [Booking -> PaymentStatus \cup {"NONE"}]
    BY <1>3, <2>1 DEF ExpireCommit, PaymentStatus
  <2> QED
    BY <1>3, <2>2, <2>3, <2>4, <2>5 DEF ExpireCommit
<1>4. ASSUME ExpireDone(c) PROVE TypeOK'
  BY <1>4 DEF ExpireDone, Finish, Request, slotVars, rowVars
<1> QED
  BY <1>1, <1>2, <1>3, <1>4 DEF CleanerStep

LEMMA OtherTypeOK ==
  ASSUME TypeOK,
         \/ Environment
         \/ PaymentStep
         \/ \E p \in Worker \cup Cleaner : Abort(p)
  PROVE  TypeOK'
<1> USE DEF TypeOK
<1>1. ASSUME NEW s \in Slot, NEW c \in Capacities, NEW a \in BOOLEAN,
             UpdateSlot(s, c, a)
      PROVE  TypeOK'
  BY <1>1 DEF UpdateSlot, rowVars
<1>2. ASSUME NEW b \in Booking, GrowOld(b) PROVE TypeOK'
  BY <1>2 DEF GrowOld, slotVars
<1>3. ASSUME NEW b \in Booking, PaymentOpened(b) PROVE TypeOK'
  BY <1>3 DEF PaymentOpened, PaymentStatus, slotVars
<1>4. ASSUME NEW b \in Booking, PaymentCaptured(b) PROVE TypeOK'
  BY <1>4 DEF PaymentCaptured, WithToken, PaymentStatus, BookingStatus, slotVars
<1>5. ASSUME NEW b \in Booking, PaymentClosed(b) PROVE TypeOK'
  BY <1>5 DEF PaymentClosed, PaymentStatus, slotVars
<1>6. ASSUME NEW p \in Worker \cup Cleaner, Abort(p) PROVE TypeOK'
  BY <1>6 DEF Abort, Finish, Request, slotVars, rowVars
<1> QED
  BY <1>1, <1>2, <1>3, <1>4, <1>5, <1>6 DEF Environment, PaymentStep

LEMMA NextTypeOK == TypeOK /\ [Next]_vars => TypeOK'
<1> SUFFICES ASSUME TypeOK, [Next]_vars PROVE TypeOK'
  OBVIOUS
<1>1. CASE Next
  BY <1>1, WorkerTypeOK, CleanerTypeOK, OtherTypeOK DEF Next, BookingServiceStep
<1>2. CASE UNCHANGED vars
  BY <1>2 DEF TypeOK, vars, slotVars, rowVars
<1> QED
  BY <1>1, <1>2

(* Every row and every request record keeps its type.                      *)
THEOREM TypeCorrect == Spec => []TypeOK
BY InitTypeOK, NextTypeOK, PTL DEF Spec

----------------------------------------------------------------------------
(* Admission.  The count is bounded by the peak because what the commit    *)
(* compares it with, the capacity the request read, was a capacity of the  *)
(* slot and the peak only grows.                                           *)

AdmissionInv ==
  /\ BookedWithinPeak
  /\ \A s \in Slot : capacity[s] <= peak[s]
  /\ \A p \in Worker \cup Cleaner :
       Running(p, "create") => req[p].cap <= peak[SlotOf[req[p].b]]

LEMMA NumbersAreIntegers ==
  ASSUME TypeOK
  PROVE  /\ \A s \in Slot : capacity[s] \in Int /\ booked[s] \in Int /\ peak[s] \in Int
         /\ \A b \in Booking : Qty[b] \in Nat /\ Qty[b] > 0 /\ SlotOf[b] \in Slot
         /\ \A p \in Worker \cup Cleaner :
              Running(p, "create") => req[p].b \in Booking /\ req[p].cap \in Int
<1>1. ASSUME NEW s \in Slot
      PROVE  capacity[s] \in Int /\ booked[s] \in Int /\ peak[s] \in Int
  BY CapacitiesAreIntegers DEF TypeOK
<1>2. ASSUME NEW b \in Booking
      PROVE  Qty[b] \in Nat /\ Qty[b] > 0 /\ SlotOf[b] \in Slot
  OBVIOUS
<1>3. ASSUME NEW p \in Worker \cup Cleaner, Running(p, "create")
      PROVE  req[p].b \in Booking /\ req[p].cap \in Int
  <2>1. req[p].b \in Booking /\ req[p].cap \in Capacities
    BY <1>3 DEF TypeOK, Request, Idle, Running
  <2> QED
    BY <2>1, CapacitiesAreIntegers
<1> QED
  BY <1>1, <1>2, <1>3

LEMMA InitAdmission == Init => AdmissionInv
<1> SUFFICES ASSUME Init PROVE AdmissionInv
  OBVIOUS
<1>1. \A s \in Slot : booked[s] = 0 /\ peak[s] \in Nat /\ capacity[s] = peak[s]
  BY DEF Init
<1> QED
  BY <1>1 DEF Init, AdmissionInv, BookedWithinPeak, Running, Idle

\* A step that changes no slot row and begins no creation.
LEMMA SlotsUntouched ==
  ASSUME AdmissionInv, UNCHANGED slotVars,
         \A p \in Worker \cup Cleaner :
           Running(p, "create")' => Running(p, "create") /\ req'[p] = req[p]
  PROVE  AdmissionInv'
BY DEF AdmissionInv, BookedWithinPeak, slotVars, Running

\* A step that ends a request and raises no count.
LEMMA SeatsReturned ==
  ASSUME AdmissionInv, TypeOK, TypeOK', UNCHANGED <<capacity, peak>>,
         \A s \in Slot : booked'[s] <= booked[s],
         \A p \in Worker \cup Cleaner :
           Running(p, "create")' => Running(p, "create") /\ req'[p] = req[p]
  PROVE  AdmissionInv'
<1>1. BookedWithinPeak'
  BY NumbersAreIntegers DEF AdmissionInv, BookedWithinPeak, TypeOK
<1> QED
  BY <1>1 DEF AdmissionInv, Running

LEMMA WorkerAdmission ==
  ASSUME NEW p \in Worker, TypeOK, TypeOK', AdmissionInv, WorkerStep(p)
  PROVE  AdmissionInv'
<1> USE DEF TypeOK
<1>1. ASSUME NEW b \in Booking, CreateRead(p, b) PROVE AdmissionInv'
  BY <1>1, NumbersAreIntegers
  DEF CreateRead, Begin, AdmissionInv, BookedWithinPeak, Running, slotVars
<1>2. ASSUME CreateCommit(p) PROVE AdmissionInv'
  <2> DEFINE b == req[p].b
             s == SlotOf[b]
  <2>1. b \in Booking /\ s \in Slot /\ req[p].cap \in Int /\ req[p].cap <= peak[s]
    BY <1>2, NumbersAreIntegers DEF CreateCommit, AdmissionInv
  <2>2. booked' = [booked EXCEPT ![s] = booked[s] + Qty[b]]
        /\ booked[s] <= req[p].cap - Qty[b]
    BY <1>2 DEF CreateCommit, Fits
  <2>3. UNCHANGED <<capacity, peak>>
    BY <1>2 DEF CreateCommit
  <2>4. booked'[s] <= peak[s]
    BY <2>1, <2>2, NumbersAreIntegers
  <2>5. BookedWithinPeak'
    BY <2>2, <2>3, <2>4 DEF AdmissionInv, BookedWithinPeak
  <2>6. \A q \in Worker \cup Cleaner : req'[q] = req[q] \/ req'[q] = Idle
    BY <1>2 DEF CreateCommit, Finish
  <2> QED
    BY <2>3, <2>5, <2>6 DEF AdmissionInv, Running, Idle
<1>3. ASSUME CancelCommit(p) PROVE AdmissionInv'
  <2>1. req[p].b \in Booking
    BY <1>3 DEF CancelCommit, Running, Request, Idle
  <2>2. \A s \in Slot : booked'[s] <= booked[s]
    BY <1>3, <2>1, NumbersAreIntegers DEF CancelCommit, Released
  <2> QED
    BY <1>3, <2>2, SeatsReturned DEF CancelCommit, Finish, Running, Idle
<1>4. ASSUME \/ \E b \in Booking : CancelRead(p, b) \/ CheckInRead(p, b) \/ QrVerify(p, b)
             \/ CreateRefused(p) \/ QrRead(p)
             \/ CheckInCommit(p) \/ CheckInRejected(p)
      PROVE  AdmissionInv'
  <2>1. UNCHANGED slotVars
    BY <1>4 DEF CancelRead, CheckInRead, QrVerify, CreateRefused, QrRead,
                CheckInCommit, CheckInRejected
  <2>2. \A q \in Worker \cup Cleaner :
          Running(q, "create")' => Running(q, "create") /\ req'[q] = req[q]
    BY <1>4 DEF CancelRead, CheckInRead, QrVerify, CreateRefused, QrRead,
                CheckInCommit, CheckInRejected, Begin, Finish, Running, Idle
  <2> QED
    BY <2>1, <2>2, SlotsUntouched
<1> QED
  BY <1>1, <1>2, <1>3, <1>4 DEF WorkerStep

LEMMA CleanerAdmission ==
  ASSUME NEW c \in Cleaner, TypeOK, TypeOK', AdmissionInv, CleanerStep(c)
  PROVE  AdmissionInv'
<1> USE DEF TypeOK
<1>1. ASSUME ExpireScan(c) \/ (\E b \in Booking : ExpireRead(c, b)) \/ ExpireDone(c)
      PROVE  AdmissionInv'
  <2>1. UNCHANGED slotVars
    BY <1>1 DEF ExpireScan, ExpireRead, ExpireDone
  <2>2. \A q \in Worker \cup Cleaner :
          Running(q, "create")' => Running(q, "create") /\ req'[q] = req[q]
    BY <1>1 DEF ExpireScan, ExpireRead, ExpireDone, Begin, Finish, Running, Idle
  <2> QED
    BY <2>1, <2>2, SlotsUntouched
<1>2. ASSUME ExpireCommit(c) PROVE AdmissionInv'
  <2>1. req[c].b \in Booking
    BY <1>2 DEF ExpireCommit, Running, Request, Idle
  <2>2. \A s \in Slot : booked'[s] <= booked[s]
    BY <1>2, <2>1, NumbersAreIntegers DEF ExpireCommit, Released
  <2> QED
    BY <1>2, <2>2, SeatsReturned DEF ExpireCommit, Running
<1> QED
  BY <1>1, <1>2 DEF CleanerStep

LEMMA NextAdmission ==
  TypeOK /\ TypeOK' /\ AdmissionInv /\ [Next]_vars => AdmissionInv'
<1> SUFFICES ASSUME TypeOK, TypeOK', AdmissionInv, [Next]_vars PROVE AdmissionInv'
  OBVIOUS
<1>1. ASSUME NEW p \in Worker \cup Cleaner, Abort(p) PROVE AdmissionInv'
  BY <1>1, SlotsUntouched DEF Abort, Finish, Running, Idle, TypeOK
<1>2. ASSUME NEW s \in Slot, NEW c \in Capacities, NEW a \in BOOLEAN,
             UpdateSlot(s, c, a)
      PROVE  AdmissionInv'
  <2>1. peak'[s] >= peak[s] /\ peak'[s] >= c /\ capacity'[s] = c
    BY <1>2, NumbersAreIntegers DEF UpdateSlot, TypeOK
  <2>2. \A t \in Slot \ {s} : peak'[t] = peak[t] /\ capacity'[t] = capacity[t]
    BY <1>2 DEF UpdateSlot, TypeOK
  <2>3. \A t \in Slot : peak'[t] >= peak[t] /\ capacity'[t] <= peak'[t]
    BY <2>1, <2>2, NumbersAreIntegers DEF AdmissionInv, TypeOK
  <2>4. UNCHANGED <<booked, req>>
    BY <1>2 DEF UpdateSlot
  <2>5. \A t \in Slot : peak'[t] \in Int
    BY CapacitiesAreIntegers DEF TypeOK
  <2> QED
    BY <2>3, <2>4, <2>5, NumbersAreIntegers DEF AdmissionInv, BookedWithinPeak, Running
<1>3. ASSUME NEW b \in Booking,
             \/ GrowOld(b) \/ PaymentOpened(b)
             \/ PaymentCaptured(b) \/ PaymentClosed(b)
      PROVE  AdmissionInv'
  BY <1>3, SlotsUntouched
  DEF GrowOld, PaymentOpened, PaymentCaptured, PaymentClosed, Running
<1>4. CASE UNCHANGED vars
  BY <1>4, SlotsUntouched DEF vars, Running
<1> QED
  BY <1>1, <1>2, <1>3, <1>4, WorkerAdmission, CleanerAdmission
  DEF Next, BookingServiceStep, Environment, PaymentStep

(* No interleaving of creations, cancellations, expiries and changes of    *)
(* capacity takes a slot's bookedCount above a capacity it has had.        *)
THEOREM AdmissionBounded == Spec => []BookedWithinPeak
<1>1. AdmissionInv => BookedWithinPeak
  BY DEF AdmissionInv
<1> QED
  BY <1>1, TypeCorrect, InitAdmission, NextAdmission, PTL DEF Spec

----------------------------------------------------------------------------
(* Admission at the gate.                                                  *)

LEMMA CheckInIsFirst ==
  ASSUME TypeOK, [Next]_vars, NEW b \in Booking,
         status'[b] = "CHECKED_IN", status[b] # "CHECKED_IN"
  PROVE  b \notin checkIns
<1> USE DEF TypeOK
<1>1. ASSUME NEW p \in Worker, WorkerStep(p) PROVE b \notin checkIns
  <2>1. CASE CheckInCommit(p)
    BY <2>1 DEF CheckInCommit, FirstCheckIn
  <2>2. CASE CreateCommit(p)
    BY <2>2 DEF CreateCommit
  <2>3. CASE CancelCommit(p)
    BY <2>3 DEF CancelCommit
  <2> QED
    BY <1>1, <2>1, <2>2, <2>3
    DEF WorkerStep, CreateRead, CancelRead, CheckInRead, QrVerify, CreateRefused,
        QrRead, CheckInRejected, rowVars
<1>2. ASSUME NEW c \in Cleaner, CleanerStep(c) PROVE b \notin checkIns
  BY <1>2 DEF CleanerStep, ExpireScan, ExpireRead, ExpireCommit, ExpireDone,
              ExpiredStatus, rowVars
<1>3. ASSUME NEW x \in Booking, PaymentCaptured(x) PROVE b \notin checkIns
  BY <1>3 DEF PaymentCaptured
<1> QED
  BY <1>1, <1>2, <1>3
  DEF Next, BookingServiceStep, Environment, PaymentStep, Abort, UpdateSlot, GrowOld,
      PaymentOpened, PaymentClosed, vars, rowVars

(* Nobody is admitted twice on one booking, even after a late payment made *)
(* the checked-in booking CONFIRMED again.                                 *)
THEOREM NobodyAdmittedTwice == Spec => AdmittedOnce
<1>1. TypeOK /\ [Next]_vars =>
        [\A b \in Booking :
           status'[b] = "CHECKED_IN" /\ status[b] # "CHECKED_IN"
             => b \notin checkIns]_vars
  BY CheckInIsFirst
<1> QED
  BY <1>1, TypeCorrect, PTL DEF Spec, AdmittedOnce

(* A booking somebody can be admitted on has a QR token.                   *)
THEOREM AdmissibleHasQr == Spec => []ValidHasQr
<1>1. Init => ValidHasQr
  BY DEF Init, ValidHasQr
<1>2. TypeOK /\ ValidHasQr /\ [Next]_vars => ValidHasQr'
  <2> SUFFICES ASSUME TypeOK, ValidHasQr, [Next]_vars, NEW b \in Booking,
                      status'[b] \in {"CONFIRMED", "CHECKED_IN"}
               PROVE  b \in qr'
    BY DEF ValidHasQr
  <2> USE DEF TypeOK, ValidHasQr
  <2>1. ASSUME NEW p \in Worker, WorkerStep(p) PROVE b \in qr'
    <3>1. CASE CheckInCommit(p)
      BY <3>1 DEF CheckInCommit, WithToken
    <3>2. CASE CreateCommit(p)
      BY <3>2 DEF CreateCommit
    <3>3. CASE CancelCommit(p)
      BY <3>3 DEF CancelCommit
    <3> QED
      BY <2>1, <3>1, <3>2, <3>3
      DEF WorkerStep, CreateRead, CancelRead, CheckInRead, QrVerify, CreateRefused,
          QrRead, CheckInRejected, rowVars
  <2>2. ASSUME NEW c \in Cleaner, CleanerStep(c) PROVE b \in qr'
    BY <2>2 DEF CleanerStep, ExpireScan, ExpireRead, ExpireCommit, ExpireDone,
                ExpiredStatus, rowVars
  <2>3. ASSUME NEW x \in Booking, PaymentCaptured(x) PROVE b \in qr'
    BY <2>3 DEF PaymentCaptured, WithToken
  <2> QED
    BY <2>1, <2>2, <2>3
    DEF Next, BookingServiceStep, Environment, PaymentStep, Abort, UpdateSlot, GrowOld,
        PaymentOpened, PaymentClosed, vars, rowVars
<1> QED
  BY <1>1, <1>2, TypeCorrect, PTL DEF Spec

----------------------------------------------------------------------------
(* Rows come into being once.  Requests other than a creation are about    *)
(* rows that exist, so a creation in flight finds its identifier unused.   *)

Creating(p, b) == Running(p, "create") /\ req[p].b = b

RowInv ==
  /\ \A b \in Booking : payment[b] # "NONE" => status[b] # "ABSENT"
  /\ \A p \in Worker \cup Cleaner, b \in Booking :
       Creating(p, b) => /\ status[b] = "ABSENT"
                         /\ p \in Worker
                         /\ \A q \in Worker : Creating(q, b) => q = p
  /\ \A p \in Worker \cup Cleaner :
       /\ req[p].op \in {"cancel", "verified", "checkIn", "expire"}
            => status[req[p].b] # "ABSENT"
       /\ req[p].op \in {"expiring", "expire"}
            => \A b \in req[p].todo : status[b] # "ABSENT"

LEMMA InitRow == Init => RowInv
BY DEF Init, RowInv, Creating, Running, Idle

\* Every step but the commit of a creation: no row appears or disappears,
\* and the requests of the other processes stay.
LEMMA NoRowBorn ==
  ASSUME TypeOK, TypeOK', RowInv,
         \A b \in Booking : status'[b] = "ABSENT" <=> status[b] = "ABSENT",
         \A b \in Booking : payment'[b] # "NONE" => status[b] # "ABSENT",
         NEW p \in Worker \cup Cleaner,
         \A q \in (Worker \cup Cleaner) \ {p} : req'[q] = req[q],
         \/ req'[p] = req[p]
         \/ req'[p] = Idle
         \/ /\ req'[p].op \in {"cancel", "verified", "checkIn", "expire"}
               => status[req'[p].b] # "ABSENT" /\ req'[p].b \in Booking
            /\ req'[p].op \in {"expiring", "expire"}
               => req'[p].todo \subseteq {b \in Booking : status[b] # "ABSENT"}
            /\ req'[p].op # "create"
  PROVE  RowInv'
<1>1. \A q \in Worker \cup Cleaner, b \in Booking :
        Creating(q, b)' => Creating(q, b)
  BY DEF Creating, Running, Idle
<1>2. ASSUME NEW q \in Worker \cup Cleaner
      PROVE  /\ req'[q].op \in {"cancel", "verified", "checkIn", "expire"}
                  => status'[req'[q].b] # "ABSENT"
             /\ req'[q].op \in {"expiring", "expire"}
                  => \A b \in req'[q].todo : status'[b] # "ABSENT"
  <2>1. CASE req'[q] = req[q]
    <3>1. req[q].op \in {"cancel", "verified", "checkIn", "expire"}
            => req[q].b \in Booking
      BY DEF TypeOK, Request, Idle
    <3>2. req[q].op \in {"expiring", "expire"} => req[q].todo \subseteq Booking
      BY DEF TypeOK, Request, Idle
    <3> QED
      BY <2>1, <3>1, <3>2 DEF RowInv
  <2>2. CASE req'[q] = Idle
    BY <2>2 DEF Idle
  <2>3. CASE q = p /\ req'[p] # req[p] /\ req'[p] # Idle
    BY <2>3
  <2> QED
    BY <2>1, <2>2, <2>3
<1>3. \A b \in Booking : payment'[b] # "NONE" => status'[b] # "ABSENT"
  OBVIOUS
<1> QED
  BY <1>1, <1>2, <1>3 DEF RowInv

LEMMA WorkerRow ==
  ASSUME NEW p \in Worker, TypeOK, TypeOK', RowInv, WorkerStep(p)
  PROVE  RowInv'
<1> USE DEF TypeOK
<1>1. ASSUME NEW b \in Booking, CreateRead(p, b) PROVE RowInv'
  <2>1. /\ UNCHANGED rowVars
        /\ req' = [req EXCEPT ![p] = [op |-> "create", b |-> b, cap |-> capacity[SlotOf[b]]]]
        /\ req[p] = Idle
    BY <1>1 DEF CreateRead, Begin
  <2>2. status[b] = "ABSENT" /\ \A q \in Worker : ~Creating(q, b)
    BY <1>1 DEF CreateRead, Creating
  <2>3. \A q \in Worker \cup Cleaner, x \in Booking :
          Creating(q, x)' <=> IF q = p THEN x = b ELSE Creating(q, x)
    BY <2>1 DEF Creating, Running
  <2>4. \A q \in (Worker \cup Cleaner) \ {p} : req'[q] = req[q]
    BY <2>1
  <2>5. req'[p].op = "create"
    BY <2>1
  <2>6. \A q \in Worker \cup Cleaner, x \in Booking :
          Creating(q, x)' => /\ status'[x] = "ABSENT"
                             /\ q \in Worker
                             /\ \A r \in Worker : Creating(r, x)' => r = q
    BY <2>1, <2>2, <2>3 DEF RowInv, rowVars
  <2> QED
    BY <2>1, <2>4, <2>5, <2>6 DEF RowInv, rowVars
<1>2. ASSUME CreateCommit(p) PROVE RowInv'
  <2> DEFINE b == req[p].b
  <2>1. b \in Booking /\ Creating(p, b)
    BY <1>2 DEF CreateCommit, Running, Request, Idle, Creating
  <2>2. /\ status'[b] # "ABSENT"
        /\ \A x \in Booking \ {b} : status'[x] = status[x]
        /\ UNCHANGED payment
        /\ req' = [req EXCEPT ![p] = Idle]
    BY <1>2, <2>1 DEF CreateCommit, Finish
  <2>3. \A q \in Worker \cup Cleaner, x \in Booking :
          Creating(q, x)' => q # p /\ Creating(q, x) /\ x # b
    BY <2>1, <2>2 DEF Creating, Running, Idle, RowInv
  <2>4. \A q \in Worker \cup Cleaner, x \in Booking :
          Creating(q, x)' => /\ status'[x] = "ABSENT"
                             /\ q \in Worker
                             /\ \A r \in Worker : Creating(r, x)' => r = q
    BY <2>2, <2>3 DEF RowInv
  <2>5. ASSUME NEW q \in Worker \cup Cleaner
        PROVE  /\ req'[q].op \in {"cancel", "verified", "checkIn", "expire"}
                    => status'[req'[q].b] # "ABSENT"
               /\ req'[q].op \in {"expiring", "expire"}
                    => \A x \in req'[q].todo : status'[x] # "ABSENT"
    <3>1. CASE q = p
      BY <2>2, <3>1 DEF Idle
    <3>2. CASE q # p
      <4>1. req[q].op \in {"cancel", "verified", "checkIn", "expire"}
              => req[q].b \in Booking
        BY DEF Request, Idle
      <4>2. req[q].op \in {"expiring", "expire"} => req[q].todo \subseteq Booking
        BY DEF Request, Idle
      <4> QED
        BY <2>2, <3>2, <4>1, <4>2 DEF RowInv
    <3> QED
      BY <3>1, <3>2
  <2>6. \A x \in Booking : payment'[x] # "NONE" => status'[x] # "ABSENT"
    BY <2>2 DEF RowInv
  <2> QED
    BY <2>4, <2>5, <2>6 DEF RowInv
<1>3. ASSUME NEW b \in Booking,
             CancelRead(p, b) \/ CheckInRead(p, b) \/ QrVerify(p, b)
      PROVE  RowInv'
  <2>1. status[b] # "ABSENT" /\ UNCHANGED rowVars
    BY <1>3 DEF CancelRead, Cancellable, CheckInRead, QrVerify
  <2>2. /\ req'[p].op \in {"cancel", "verified", "checkIn"} /\ req'[p].b = b
        /\ \A q \in (Worker \cup Cleaner) \ {p} : req'[q] = req[q]
    BY <1>3 DEF CancelRead, CheckInRead, QrVerify, Begin
  <2>3. \A x \in Booking : payment'[x] # "NONE" => status[x] # "ABSENT"
    BY <2>1 DEF rowVars, RowInv
  <2>4. \A x \in Booking : status'[x] = "ABSENT" <=> status[x] = "ABSENT"
    BY <2>1 DEF rowVars
  <2> QED
    BY <2>1, <2>2, <2>3, <2>4, NoRowBorn
<1>4. ASSUME CancelCommit(p) \/ CheckInCommit(p) PROVE RowInv'
  <2>1. req[p].b \in Booking /\ status[req[p].b] # "ABSENT"
    BY <1>4 DEF CancelCommit, CheckInCommit, Running, Request, Idle, RowInv
  <2>2. \A x \in Booking : status'[x] = "ABSENT" <=> status[x] = "ABSENT"
    BY <1>4, <2>1 DEF CancelCommit, CheckInCommit
  <2>3. \A x \in Booking : payment'[x] # "NONE" => status[x] # "ABSENT"
    BY <1>4 DEF CancelCommit, CheckInCommit, RowInv
  <2>4. req'[p] = Idle /\ \A q \in (Worker \cup Cleaner) \ {p} : req'[q] = req[q]
    BY <1>4 DEF CancelCommit, CheckInCommit, Finish
  <2> QED
    BY <2>2, <2>3, <2>4, NoRowBorn
<1>5. ASSUME QrRead(p) PROVE RowInv'
  <2>1. UNCHANGED rowVars
    BY <1>5 DEF QrRead
  <2>2. /\ \/ req'[p] = Idle
           \/ req'[p] = [op |-> "checkIn", b |-> req[p].b]
        /\ \A q \in (Worker \cup Cleaner) \ {p} : req'[q] = req[q]
    BY <1>5 DEF QrRead
  <2>3. req[p].b \in Booking /\ status[req[p].b] # "ABSENT"
    BY <1>5 DEF QrRead, Running, Request, Idle, RowInv
  <2>4. \A x \in Booking : payment'[x] # "NONE" => status[x] # "ABSENT"
    BY <2>1 DEF rowVars, RowInv
  <2>5. \A x \in Booking : status'[x] = "ABSENT" <=> status[x] = "ABSENT"
    BY <2>1 DEF rowVars
  <2> QED
    BY <2>2, <2>3, <2>4, <2>5, NoRowBorn
<1>6. ASSUME CreateRefused(p) \/ CheckInRejected(p) PROVE RowInv'
  <2>1. UNCHANGED rowVars
    BY <1>6 DEF CreateRefused, CheckInRejected
  <2>2. req'[p] = Idle /\ \A q \in (Worker \cup Cleaner) \ {p} : req'[q] = req[q]
    BY <1>6 DEF CreateRefused, CheckInRejected, Finish
  <2>3. \A x \in Booking : payment'[x] # "NONE" => status[x] # "ABSENT"
    BY <2>1 DEF rowVars, RowInv
  <2>4. \A x \in Booking : status'[x] = "ABSENT" <=> status[x] = "ABSENT"
    BY <2>1 DEF rowVars
  <2> QED
    BY <2>2, <2>3, <2>4, NoRowBorn
<1> QED
  BY <1>1, <1>2, <1>3, <1>4, <1>5, <1>6 DEF WorkerStep

LEMMA CleanerRow ==
  ASSUME NEW c \in Cleaner, TypeOK, TypeOK', RowInv, CleanerStep(c)
  PROVE  RowInv'
<1> USE DEF TypeOK
<1>1. ASSUME ExpireScan(c) \/ (\E b \in Booking : ExpireRead(c, b)) \/ ExpireDone(c)
      PROVE  RowInv'
  <2>1. UNCHANGED rowVars
    BY <1>1 DEF ExpireScan, ExpireRead, ExpireDone
  <2>2. \A q \in (Worker \cup Cleaner) \ {c} : req'[q] = req[q]
    BY <1>1 DEF ExpireScan, ExpireRead, ExpireDone, Begin, Finish
  <2>3. CASE ExpireScan(c)
    <3>1. /\ req'[c].op = "expiring"
          /\ req'[c].todo = {b \in Overdue : payment[b] # "SUCCESS"}
      BY <2>3 DEF ExpireScan, Begin
    <3>2. req'[c].todo \subseteq {b \in Booking : status[b] # "ABSENT"}
      BY <3>1 DEF Overdue
    <3>3. \A x \in Booking : payment'[x] # "NONE" => status[x] # "ABSENT"
      BY <2>1 DEF rowVars, RowInv
    <3> QED
      BY <2>1, <2>2, <3>1, <3>2, <3>3, NoRowBorn DEF rowVars
  <2>4. ASSUME NEW b \in Booking, ExpireRead(c, b) PROVE RowInv'
    <3>1. /\ req[c].op = "expiring" /\ b \in req[c].todo
          /\ req[c].todo \subseteq Booking
      BY <2>4 DEF ExpireRead, Running, Request, Idle
    <3>2. req[c].todo \subseteq {x \in Booking : status[x] # "ABSENT"}
      BY <3>1 DEF RowInv
    <3>3. /\ req'[c].op \in {"expiring", "expire"}
          /\ req'[c].todo = req[c].todo \ {b}
          /\ req'[c].op = "expire" => req'[c].b = b
      BY <2>4 DEF ExpireRead
    <3>4. \A x \in Booking : payment'[x] # "NONE" => status[x] # "ABSENT"
      BY <2>1 DEF rowVars, RowInv
    <3> QED
      BY <2>1, <2>2, <3>1, <3>2, <3>3, <3>4, NoRowBorn DEF rowVars
  <2>5. CASE ExpireDone(c)
    <3>1. req'[c] = Idle
      BY <2>5 DEF ExpireDone, Finish
    <3>2. \A x \in Booking : payment'[x] # "NONE" => status[x] # "ABSENT"
      BY <2>1 DEF rowVars, RowInv
    <3> QED
      BY <2>1, <2>2, <3>1, <3>2, NoRowBorn DEF rowVars
  <2> QED
    BY <1>1, <2>3, <2>4, <2>5
<1>2. ASSUME ExpireCommit(c) PROVE RowInv'
  <2>1. /\ req[c].op = "expire" /\ req[c].b \in Booking /\ req[c].todo \subseteq Booking
    BY <1>2 DEF ExpireCommit, Running, Request, Idle
  <2>2. /\ status[req[c].b] # "ABSENT"
        /\ req[c].todo \subseteq {x \in Booking : status[x] # "ABSENT"}
    BY <2>1 DEF RowInv
  <2>3. \A x \in Booking : status'[x] = "ABSENT" <=> status[x] = "ABSENT"
    BY <1>2, <2>1, <2>2 DEF ExpireCommit, ExpiredStatus
  <2>4. \A x \in Booking : payment'[x] # "NONE" => status[x] # "ABSENT"
    BY <1>2, <2>1, <2>2 DEF ExpireCommit, RowInv
  <2>5. /\ req'[c].op = "expiring" /\ req'[c].todo = req[c].todo
        /\ \A q \in (Worker \cup Cleaner) \ {c} : req'[q] = req[q]
    BY <1>2 DEF ExpireCommit
  <2> QED
    BY <2>2, <2>3, <2>4, <2>5, NoRowBorn
<1> QED
  BY <1>1, <1>2 DEF CleanerStep

LEMMA OtherRow ==
  ASSUME TypeOK, TypeOK', RowInv,
         Environment \/ PaymentStep \/ UNCHANGED vars
  PROVE  RowInv'
<1>1. UNCHANGED req
  BY DEF Environment, PaymentStep, UpdateSlot, GrowOld, PaymentOpened, PaymentCaptured,
         PaymentClosed, vars
<1>2. \A x \in Booking : status'[x] = "ABSENT" <=> status[x] = "ABSENT"
  BY DEF Environment, PaymentStep, UpdateSlot, GrowOld, PaymentOpened, PaymentCaptured,
         PaymentClosed, vars, rowVars, RowInv, TypeOK
<1>3. \A x \in Booking : payment'[x] # "NONE" => status[x] # "ABSENT"
  BY DEF Environment, PaymentStep, UpdateSlot, GrowOld, PaymentOpened, PaymentCaptured,
         PaymentClosed, vars, rowVars, RowInv, TypeOK
<1>4. \A p \in Worker \cup Cleaner, b \in Booking : Creating(p, b)' <=> Creating(p, b)
  BY <1>1 DEF Creating, Running
<1>5. ASSUME NEW q \in Worker \cup Cleaner
      PROVE  /\ req'[q].op \in {"cancel", "verified", "checkIn", "expire"}
                  => status'[req'[q].b] # "ABSENT"
             /\ req'[q].op \in {"expiring", "expire"}
                  => \A x \in req'[q].todo : status'[x] # "ABSENT"
  <2>1. req[q].op \in {"cancel", "verified", "checkIn", "expire"} => req[q].b \in Booking
    BY DEF TypeOK, Request, Idle
  <2>2. req[q].op \in {"expiring", "expire"} => req[q].todo \subseteq Booking
    BY DEF TypeOK, Request, Idle
  <2> QED
    BY <1>1, <1>2, <2>1, <2>2 DEF RowInv
<1> QED
  BY <1>2, <1>3, <1>4, <1>5 DEF RowInv

LEMMA NextRow == TypeOK /\ TypeOK' /\ RowInv /\ [Next]_vars => RowInv'
<1> SUFFICES ASSUME TypeOK, TypeOK', RowInv, [Next]_vars PROVE RowInv'
  OBVIOUS
<1>1. ASSUME NEW p \in Worker \cup Cleaner, Abort(p) PROVE RowInv'
  <2>1. UNCHANGED rowVars
    BY <1>1 DEF Abort
  <2>2. req'[p] = Idle /\ \A q \in (Worker \cup Cleaner) \ {p} : req'[q] = req[q]
    BY <1>1 DEF Abort, Finish, TypeOK
  <2>3. \A x \in Booking : payment'[x] # "NONE" => status[x] # "ABSENT"
    BY <2>1 DEF rowVars, RowInv
  <2> QED
    BY <2>1, <2>2, <2>3, NoRowBorn DEF rowVars
<1> QED
  BY <1>1, WorkerRow, CleanerRow, OtherRow DEF Next, BookingServiceStep

(* Whatever is in flight refers to rows that exist, and a creation to one  *)
(* that does not: no row is created twice, paid for or cancelled before it *)
(* exists.                                                                 *)
THEOREM RowsBornOnce == Spec => []RowInv
BY TypeCorrect, InitRow, NextRow, NextTypeOK, PTL DEF Spec

----------------------------------------------------------------------------
(* Seats.  What one booking adds to, or takes from, the seats of its slot. *)

LEMMA SeatsOfOne ==
  ASSUME NEW b \in Booking
  PROVE  /\ IsFiniteSet({b} \X (1..Qty[b]))
         /\ Cardinality({b} \X (1..Qty[b])) = Qty[b]
<1>1. IsFiniteSet({b}) /\ Cardinality({b}) = 1
  BY FS_Singleton
<1>2. Qty[b] \in Nat /\ Qty[b] > 0
  OBVIOUS
<1>3. IsFiniteSet(1..Qty[b]) /\ Cardinality(1..Qty[b]) = Qty[b]
  BY <1>2, FS_Interval
<1>4. /\ IsFiniteSet({b} \X (1..Qty[b]))
      /\ Cardinality({b} \X (1..Qty[b])) = 1 * Qty[b]
  BY <1>1, <1>3, FS_Product
<1> QED
  BY <1>2, <1>4

\* The ledger counts with the same Cardinality as the library's theorems.
LEMMA SeatsAreCounted ==
  \A S, s : Ledger!Seats(S, s) = Cardinality(Ledger!SeatUnits(S, s))
<1>1. \A S : Ledger!Cardinality(S) = Cardinality(S)
  BY DEF Ledger!Cardinality, Cardinality
<1> QED
  BY <1>1 DEF Ledger!Seats

LEMMA SeatsElsewhere ==
  ASSUME NEW S, NEW T, NEW s, \A b : SlotOf[b] = s => (b \in S <=> b \in T)
  PROVE  Ledger!SeatUnits(S, s) = Ledger!SeatUnits(T, s)
<1>1. {b \in S : SlotOf[b] = s} = {b \in T : SlotOf[b] = s}
  OBVIOUS
<1> QED
  BY <1>1 DEF Ledger!SeatUnits

LEMMA SeatsAdded ==
  ASSUME NEW S \in SUBSET Booking, NEW b \in Booking \ S, NEW s \in Slot, SlotOf[b] = s,
         IsFiniteSet(Ledger!SeatUnits(S, s))
  PROVE  /\ IsFiniteSet(Ledger!SeatUnits(S \cup {b}, s))
         /\ Ledger!Seats(S \cup {b}, s) = Ledger!Seats(S, s) + Qty[b]
<1> DEFINE U == {b} \X (1..Qty[b])
           V == Ledger!SeatUnits(S, s)
<1>0. {x \in S \cup {b} : SlotOf[x] = s} = {x \in S : SlotOf[x] = s} \cup {b}
  OBVIOUS
<1>1. Ledger!SeatUnits(S \cup {b}, s) = V \cup U
  BY <1>0 DEF Ledger!SeatUnits
<1>2. V \cap U = {}
  BY DEF Ledger!SeatUnits
<1>3. IsFiniteSet(U) /\ Cardinality(U) = Qty[b] /\ IsFiniteSet(V)
  BY SeatsOfOne
<1>4. Ledger!Seats(S, s) = Cardinality(V)
  BY SeatsAreCounted
<1> HIDE DEF U, V
<1>5. Cardinality(V) \in Nat /\ Qty[b] \in Nat
  BY <1>3, FS_CardinalityType
<1>6. Cardinality(V \cap U) = 0
  BY <1>2, FS_EmptySet
<1>7. /\ IsFiniteSet(V \cup U)
      /\ Cardinality(V \cup U) = Cardinality(V) + Cardinality(U) - Cardinality(V \cap U)
  BY <1>3, FS_Union
<1>8. Cardinality(V \cup U) = Cardinality(V) + Qty[b]
  BY <1>3, <1>5, <1>6, <1>7
<1> QED
  BY <1>1, <1>4, <1>7, <1>8, SeatsAreCounted

LEMMA SeatsRemoved ==
  ASSUME NEW S \in SUBSET Booking, NEW b \in S, NEW s \in Slot, SlotOf[b] = s,
         IsFiniteSet(Ledger!SeatUnits(S, s))
  PROVE  /\ IsFiniteSet(Ledger!SeatUnits(S \ {b}, s))
         /\ Ledger!Seats(S \ {b}, s) = Ledger!Seats(S, s) - Qty[b]
         /\ Ledger!Seats(S, s) >= Qty[b]
<1> DEFINE R == S \ {b}
<1>1. Ledger!SeatUnits(R, s) \subseteq Ledger!SeatUnits(S, s)
  BY DEF Ledger!SeatUnits
<1>2. IsFiniteSet(Ledger!SeatUnits(R, s))
  BY <1>1, FS_Subset
<1>3. R \cup {b} = S /\ R \in SUBSET Booking /\ b \in Booking \ R
  OBVIOUS
<1> HIDE DEF R
<1>4. Ledger!Seats(S, s) = Ledger!Seats(R, s) + Qty[b]
  BY <1>2, <1>3, SeatsAdded
<1>5. Ledger!Seats(R, s) \in Nat /\ Qty[b] \in Nat
  BY <1>2, <1>3, FS_CardinalityType, SeatsAreCounted
<1>6. /\ Ledger!Seats(R, s) = Ledger!Seats(S, s) - Qty[b]
      /\ Ledger!Seats(S, s) >= Qty[b]
  BY <1>4, <1>5
<1> QED
  BY <1>2, <1>6 DEF R

----------------------------------------------------------------------------
(* One request per booking.  Nothing in the code keeps two requests off    *)
(* one booking; where they stay off, and payments are not late, the seat   *)
(* ledger is kept.                                                         *)

WorksOn(p, b) ==
  req[p].op \in {"create", "cancel", "verified", "checkIn", "expire"} /\ req[p].b = b

OnePerBooking ==
  \A p, q \in Worker \cup Cleaner : \A b \in Booking :
    WorksOn(p, b) /\ WorksOn(q, b) => p = q

\* What a request says of its booking while it works on it.
Steady(p) ==
  /\ req[p].op \in {"cancel", "checkIn", "expire"} =>
       status[req[p].b] \in {"PENDING_PAYMENT", "CONFIRMED"}
  /\ req[p].op = "expire" => SlotOf[req[p].b] \notin DarshanSlot
  /\ req[p].op = "verified" => status[req[p].b] \in {"CONFIRMED", "CHECKED_IN"}

FreeOfCharge ==
  \A b \in Booking : SlotOf[b] \in DarshanSlot =>
    payment[b] = "NONE" /\ status[b] # "PENDING_PAYMENT"

SteadyInv ==
  FreeOfCharge /\ \A p \in Worker \cup Cleaner : Steady(p)

LedgerInv ==
  \A s \in Slot :
    /\ IsFiniteSet(Ledger!SeatUnits(Live, s))
    /\ booked[s] = Ledger!Seats(Live, s)

LEMMA InitSteady == Init => SteadyInv /\ LedgerInv
<1> SUFFICES ASSUME Init PROVE SteadyInv /\ LedgerInv
  OBVIOUS
<1>1. SteadyInv
  BY DEF Init, SteadyInv, FreeOfCharge, Steady, Idle
<1>2. ASSUME NEW s \in Slot
      PROVE  /\ IsFiniteSet(Ledger!SeatUnits(Live, s))
             /\ booked[s] = Ledger!Seats(Live, s)
  <2>1. Live = {}
    BY DEF Init, Live, BookingStatus
  <2>2. Ledger!SeatUnits(Live, s) = {}
    BY <2>1 DEF Ledger!SeatUnits
  <2> QED
    BY <2>2, SeatsAreCounted, FS_EmptySet DEF Init
<1> QED
  BY <1>1, <1>2 DEF LedgerInv

LEMMA RequestsName ==
  ASSUME TypeOK, NEW p \in Worker \cup Cleaner
  PROVE  req[p].op \in {"create", "cancel", "verified", "checkIn", "expire"} => req[p].b \in Booking
BY DEF TypeOK, Request, Idle

\* Steps that write no booking: reads, rejections, aborts.
LEMMA SteadyKept ==
  ASSUME TypeOK, SteadyInv, UNCHANGED status,
         \A b \in Booking : SlotOf[b] \in DarshanSlot => payment'[b] = "NONE",
         \A p \in Worker \cup Cleaner : req'[p] = req[p] \/ Steady(p)'
  PROVE  SteadyInv'
<1>1. \A p \in Worker \cup Cleaner : Steady(p)'
  BY DEF SteadyInv, Steady
<1> QED
  BY <1>1 DEF SteadyInv, FreeOfCharge

\* Steps that write the booking their request is about.
LEMMA SteadyCommit ==
  ASSUME TypeOK, OnePerBooking, SteadyInv, NEW p \in Worker \cup Cleaner, NEW b \in Booking,
         WorksOn(p, b), \A c \in Booking \ {b} : status'[c] = status[c],
         \A q \in (Worker \cup Cleaner) \ {p} : req'[q] = req[q],
         req'[p].op \in {"idle", "expiring"},
         SlotOf[b] \in DarshanSlot => status'[b] # "PENDING_PAYMENT",
         \A c \in Booking : SlotOf[c] \in DarshanSlot => payment'[c] = "NONE"
  PROVE  SteadyInv'
<1>1. ASSUME NEW q \in Worker \cup Cleaner PROVE Steady(q)'
  <2>1. CASE q = p
    BY <2>1 DEF Steady
  <2>2. CASE q # p
    <3>1. req'[q] = req[q]
      BY <2>2
    <3>2. req[q].op \in {"create", "cancel", "verified", "checkIn", "expire"} =>
            req[q].b \in Booking \ {b}
      BY <2>2, RequestsName DEF OnePerBooking, WorksOn
    <3> QED
      BY <3>1, <3>2 DEF SteadyInv, Steady
  <2> QED
    BY <2>1, <2>2
<1>2. FreeOfCharge'
  BY DEF SteadyInv, FreeOfCharge
<1> QED
  BY <1>1, <1>2 DEF SteadyInv

LEMMA WorkerSteady ==
  ASSUME NEW p \in Worker, TypeOK, TypeOK', OnePerBooking, RowInv, SteadyInv, WorkerStep(p)
  PROVE  SteadyInv'
<1> USE DEF TypeOK
<1>0. \A b \in Booking : SlotOf[b] \in DarshanSlot => payment'[b] = "NONE"
  BY DEF WorkerStep, CreateRead, CancelRead, CheckInRead, QrVerify, CreateCommit,
         CreateRefused, CancelCommit, QrRead, CheckInCommit, CheckInRejected, rowVars,
         SteadyInv, FreeOfCharge
<1>1. ASSUME NEW b \in Booking,
             CreateRead(p, b) \/ CancelRead(p, b) \/ CheckInRead(p, b) \/ QrVerify(p, b)
      PROVE  SteadyInv'
  <2>1. UNCHANGED <<status, checkIns>>
    BY <1>1 DEF CreateRead, CancelRead, CheckInRead, QrVerify, rowVars
  <2>2. \A q \in Worker \cup Cleaner : q # p => req'[q] = req[q]
    BY <1>1 DEF CreateRead, CancelRead, CheckInRead, QrVerify, Begin
  <2>3. \/ req'[p].op = "create"
        \/ req'[p].op = "cancel" /\ req'[p].b = b /\ Cancellable(b)
        \/ req'[p].op = "checkIn" /\ req'[p].b = b
             /\ status[b] \in {"CONFIRMED", "PENDING_PAYMENT"}
        \/ req'[p].op = "verified" /\ req'[p].b = b
             /\ status[b] \in {"CONFIRMED", "CHECKED_IN"}
    BY <1>1 DEF CreateRead, CancelRead, CheckInRead, QrVerify, Begin
  <2>4. Steady(p)'
    BY <2>1, <2>3 DEF Steady, Cancellable, BookingStatus
  <2> QED
    BY <1>0, <2>1, <2>2, <2>4, SteadyKept
<1>2. ASSUME CreateRefused(p) \/ CheckInRejected(p) \/ QrRead(p) PROVE SteadyInv'
  <2>1. UNCHANGED <<status, checkIns>>
    BY <1>2 DEF CreateRefused, CheckInRejected, QrRead, rowVars
  <2>2. \A q \in Worker \cup Cleaner : q # p => req'[q] = req[q]
    BY <1>2 DEF CreateRefused, CheckInRejected, QrRead, Finish
  <2>3. \/ req'[p].op = "idle"
        \/ req'[p].op = "checkIn" /\ req'[p].b = req[p].b /\ req[p].op = "verified"
             /\ status[req[p].b] # "CHECKED_IN"
    BY <1>2 DEF CreateRefused, CheckInRejected, QrRead, Finish, Running, Idle
  <2>4. Steady(p)'
    BY <2>1, <2>3 DEF SteadyInv, Steady
  <2> QED
    BY <1>0, <2>1, <2>2, <2>4, SteadyKept
<1>3. ASSUME CreateCommit(p) \/ CancelCommit(p) \/ CheckInCommit(p) PROVE SteadyInv'
  <2> DEFINE b == req[p].b
  <2>1. b \in Booking /\ WorksOn(p, b)
    BY <1>3, RequestsName DEF CreateCommit, CancelCommit, CheckInCommit, Running, WorksOn
  <2>2. /\ \A c \in Booking \ {b} : status'[c] = status[c]
        /\ \A q \in (Worker \cup Cleaner) \ {p} : req'[q] = req[q]
        /\ req'[p].op = "idle"
    BY <1>3, <2>1 DEF CreateCommit, CancelCommit, CheckInCommit, Finish, Idle
  <2>3. SlotOf[b] \in DarshanSlot => status'[b] # "PENDING_PAYMENT"
    BY <1>3, <2>1 DEF CreateCommit, CancelCommit, CheckInCommit
  <2> QED
    BY <1>0, <2>1, <2>2, <2>3, SteadyCommit
<1> QED
  BY <1>1, <1>2, <1>3 DEF WorkerStep

LEMMA CleanerSteady ==
  ASSUME NEW c \in Cleaner, TypeOK, TypeOK', OnePerBooking, SteadyInv, CleanerStep(c)
  PROVE  SteadyInv'
<1> USE DEF TypeOK
<1>1. ASSUME ExpireScan(c) \/ ExpireDone(c) \/ (\E b \in Booking : ExpireRead(c, b))
      PROVE  SteadyInv'
  <2>1. UNCHANGED <<status, checkIns, payment>>
    BY <1>1 DEF ExpireScan, ExpireDone, ExpireRead, rowVars
  <2>2. \A q \in Worker \cup Cleaner : q # c => req'[q] = req[q]
    BY <1>1 DEF ExpireScan, ExpireDone, ExpireRead, Begin, Finish
  <2>3. \/ req'[c].op \in {"idle", "expiring"}
        \/ /\ req'[c].op = "expire" /\ req'[c].b \in Booking
           /\ status[req'[c].b] = "PENDING_PAYMENT"
    BY <1>1 DEF ExpireScan, ExpireDone, ExpireRead, Begin, Finish, Idle, Expirable
  <2>4. Steady(c)'
    BY <2>1, <2>3 DEF Steady, SteadyInv, FreeOfCharge
  <2> QED
    BY <2>1, <2>2, <2>4, SteadyKept DEF SteadyInv, FreeOfCharge
<1>2. ASSUME ExpireCommit(c) PROVE SteadyInv'
  <2> DEFINE b == req[c].b
  <2>1. b \in Booking /\ WorksOn(c, b)
    BY <1>2, RequestsName DEF ExpireCommit, Running, WorksOn
  <2>2. /\ \A x \in Booking \ {b} : status'[x] = status[x]
        /\ \A q \in (Worker \cup Cleaner) \ {c} : req'[q] = req[q]
        /\ req'[c].op = "expiring" /\ status'[b] = "CANCELLED"
    BY <1>2, <2>1 DEF ExpireCommit, ExpiredStatus
  <2>3. SlotOf[b] \notin DarshanSlot
    BY <1>2, <2>1 DEF ExpireCommit, Running, SteadyInv, Steady
  <2>4. \A x \in Booking : SlotOf[x] \in DarshanSlot => payment'[x] = "NONE"
    BY <1>2, <2>3 DEF ExpireCommit, SteadyInv, FreeOfCharge
  <2> QED
    BY <2>1, <2>2, <2>4, SteadyCommit
<1> QED
  BY <1>1, <1>2 DEF CleanerStep

LEMMA NextSteady ==
  ASSUME TypeOK, TypeOK', OnePerBooking, RowInv, SteadyInv, [Next]_vars
  PROVE  SteadyInv'
<1>1. ASSUME NEW p \in Worker \cup Cleaner, Abort(p) PROVE SteadyInv'
  <2>1. UNCHANGED <<status, checkIns, payment>>
    BY <1>1 DEF Abort, rowVars
  <2>2. \A q \in Worker \cup Cleaner : req'[q] = req[q] \/ req'[q] = Idle
    BY <1>1 DEF Abort, Finish, TypeOK
  <2>3. \A q \in Worker \cup Cleaner : req'[q] = req[q] \/ Steady(q)'
    BY <2>2 DEF Steady, Idle
  <2> QED
    BY <2>1, <2>3, SteadyKept DEF SteadyInv, FreeOfCharge
<1>2. CASE Environment \/ UNCHANGED vars
  <2>1. UNCHANGED <<status, checkIns, payment, req>>
    BY <1>2 DEF Environment, UpdateSlot, GrowOld, vars, rowVars
  <2> QED
    BY <2>1, SteadyKept DEF SteadyInv, FreeOfCharge
<1>3. ASSUME NEW b \in Booking, PaymentOpened(b) \/ PaymentClosed(b) PROVE SteadyInv'
  <2>1. UNCHANGED <<status, checkIns, req>>
    BY <1>3 DEF PaymentOpened, PaymentClosed
  <2>2. \A x \in Booking : SlotOf[x] \in DarshanSlot => payment'[x] = "NONE"
    BY <1>3 DEF PaymentOpened, PaymentClosed, SteadyInv, FreeOfCharge, TypeOK
  <2> QED
    BY <2>1, <2>2, SteadyKept
<1>4. ASSUME NEW b \in Booking, PaymentCaptured(b) PROVE SteadyInv'
  <2>1. /\ UNCHANGED req
        /\ \A x \in Booking : status'[x] = IF x = b THEN "CONFIRMED" ELSE status[x]
    BY <1>4 DEF PaymentCaptured, TypeOK
  <2>2. ASSUME NEW q \in Worker \cup Cleaner PROVE Steady(q)'
    BY <2>1, RequestsName DEF SteadyInv, Steady
  <2>3. FreeOfCharge'
    BY <1>4, <2>1 DEF PaymentCaptured, SteadyInv, FreeOfCharge, TypeOK
  <2> QED
    BY <2>2, <2>3 DEF SteadyInv
<1> QED
  BY <1>1, <1>2, <1>3, <1>4, WorkerSteady, CleanerSteady
  DEF Next, BookingServiceStep, PaymentStep

----------------------------------------------------------------------------
(* Each step of the service is a step of the ledger, or none.              *)

LEMMA LiveAfter ==
  ASSUME TypeOK, NEW b \in Booking, \A c \in Booking \ {b} : status'[c] = status[c],
         status'[b] \in BookingStatus
  PROVE  /\ status'[b] # "CANCELLED" => Live' = Live \cup {b}
         /\ status'[b] = "CANCELLED" => Live' = Live \ {b}
<1>1. CASE status'[b] # "CANCELLED"
  <2>1. \A c : c \in Live' <=> c \in Live \cup {b}
    BY <1>1 DEF Live
  <2> QED
    BY <1>1, <2>1
<1>2. CASE status'[b] = "CANCELLED"
  <2>1. \A c : c \in Live' <=> c \in Live \ {b}
    BY <1>2 DEF Live
  <2> QED
    BY <1>2, <2>1
<1> QED
  BY <1>1, <1>2

LEMMA CreateAdmits ==
  ASSUME TypeOK, RowInv, AdmissionInv, NEW p \in Worker, CreateCommit(p)
  PROVE  \E b \in Booking : Ledger!Admit(b)
<1> DEFINE b == req[p].b
           s == SlotOf[b]
<1>1. b \in Booking /\ s \in Slot /\ req[p].cap \in Int /\ req[p].cap <= peak[s]
  BY NumbersAreIntegers DEF CreateCommit, AdmissionInv
<1>2. status[b] = "ABSENT"
  BY <1>1 DEF CreateCommit, RowInv, Creating
<1>3. /\ UNCHANGED peak /\ booked' = [booked EXCEPT ![s] = @ + Qty[b]]
      /\ booked[s] <= req[p].cap - Qty[b]
      /\ status'[b] \in BookingStatus /\ status'[b] # "CANCELLED"
      /\ \A c \in Booking \ {b} : status'[c] = status[c]
  BY <1>1 DEF CreateCommit, Fits, TypeOK, BookingStatus
<1> HIDE DEF b, s
<1>4. Live' = Live \cup {b} /\ b \notin Live
  BY <1>1, <1>2, <1>3, LiveAfter DEF Live, BookingStatus
<1>5. booked[s] + Qty[b] <= peak[s]
  BY <1>1, <1>3, NumbersAreIntegers
<1>6. Ledger!Admit(b)
  BY <1>3, <1>4, <1>5 DEF Ledger!Admit, s
<1> QED
  BY <1>1, <1>6

LEMMA CancelReleases ==
  ASSUME TypeOK, SteadyInv, NEW p \in Worker, CancelCommit(p)
  PROVE  \E b \in Booking : Ledger!Release(b)
<1> DEFINE b == req[p].b
<1>1. b \in Booking /\ status[b] \in {"PENDING_PAYMENT", "CONFIRMED"}
  BY RequestsName DEF CancelCommit, Running, SteadyInv, Steady
<1>2. /\ UNCHANGED peak /\ booked' = [booked EXCEPT ![SlotOf[b]] = @ - Qty[b]]
      /\ status'[b] = "CANCELLED" /\ \A c \in Booking \ {b} : status'[c] = status[c]
  BY <1>1 DEF CancelCommit, Released, TypeOK
<1> HIDE DEF b
<1>3. Live' = Live \ {b} /\ b \in Live
  BY <1>1, <1>2, LiveAfter DEF Live, BookingStatus
<1>4. Ledger!Release(b)
  BY <1>2, <1>3 DEF Ledger!Release
<1> QED
  BY <1>1, <1>4

LEMMA ExpireReleases ==
  ASSUME TypeOK, SteadyInv, LedgerInv, NEW c \in Cleaner, ExpireCommit(c)
  PROVE  \E b \in Booking : Ledger!Release(b)
<1> DEFINE b == req[c].b
           s == SlotOf[b]
<1>1. /\ b \in Booking /\ status[b] \in {"PENDING_PAYMENT", "CONFIRMED"}
      /\ s \in Slot /\ s \notin DarshanSlot
  BY RequestsName DEF ExpireCommit, Running, SteadyInv, Steady
<1>2. /\ UNCHANGED peak
      /\ booked' = IF booked[s] >= Qty[b] THEN [booked EXCEPT ![s] = @ - Qty[b]] ELSE booked
      /\ status'[b] = "CANCELLED" /\ \A x \in Booking \ {b} : status'[x] = status[x]
  BY <1>1 DEF ExpireCommit, ExpiredStatus, Released, TypeOK
<1> HIDE DEF b
<1>3. Live' = Live \ {b} /\ b \in Live /\ Live \in SUBSET Booking
  BY <1>1, <1>2, LiveAfter DEF Live, BookingStatus
<1>4. booked[s] >= Qty[b]
  <2>1. s \in Slot /\ SlotOf[b] = s
    BY <1>1
  <2> HIDE DEF s
  <2>2. IsFiniteSet(Ledger!SeatUnits(Live, s)) /\ booked[s] = Ledger!Seats(Live, s)
    BY <2>1 DEF LedgerInv
  <2>3. Ledger!Seats(Live, s) >= Qty[b]
    BY <1>3, <2>1, <2>2, SeatsRemoved
  <2> QED
    BY <2>2, <2>3
<1>5. Ledger!Release(b)
  BY <1>2, <1>3, <1>4 DEF Ledger!Release
<1> QED
  BY <1>1, <1>5

LEMMA UpdateAnnounces ==
  ASSUME TypeOK, NEW s \in Slot, NEW c \in Capacities, NEW a \in BOOLEAN, UpdateSlot(s, c, a)
  PROVE  Ledger!Announce(s) \/ UNCHANGED Ledger!ledger
<1>1. /\ UNCHANGED <<booked, status>> /\ Live' = Live
      /\ peak' = [peak EXCEPT ![s] = IF c > @ THEN c ELSE @]
  BY DEF UpdateSlot, rowVars, Live
<1>2. c \in Nat /\ c \in Int /\ peak[s] \in Int
  BY NumbersAreIntegers
<1>3. CASE c > peak[s]
  <2>1. peak'[s] = c /\ peak' = [peak EXCEPT ![s] = c]
    BY <1>1, <1>3 DEF TypeOK
  <2> QED
    BY <1>1, <1>2, <1>3, <2>1 DEF Ledger!Announce
<1>4. CASE ~(c > peak[s])
  <2>1. peak' = peak
    BY <1>1, <1>4 DEF TypeOK
  <2> QED
    BY <1>1, <2>1 DEF Ledger!ledger
<1> QED
  BY <1>3, <1>4

\* Admission at the gate and the payment of a booking that is not cancelled
\* move a booking that holds its seats to another status that does.
LEMMA SeatsStay ==
  ASSUME LateCapture = FALSE, TypeOK, RowInv, SteadyInv,
         \/ \E p \in Worker : CheckInCommit(p)
         \/ \E b \in Booking : PaymentCaptured(b)
  PROVE  UNCHANGED Ledger!ledger
<1>1. UNCHANGED <<peak, booked>>
  BY DEF CheckInCommit, PaymentCaptured, slotVars
<1>2. PICK b \in Booking :
        /\ status[b] \in {"PENDING_PAYMENT", "CONFIRMED", "CHECKED_IN"}
        /\ status'[b] \in {"CHECKED_IN", "CONFIRMED"}
        /\ \A c \in Booking \ {b} : status'[c] = status[c]
  <2>1. ASSUME NEW p \in Worker, CheckInCommit(p)
        PROVE  /\ req[p].b \in Booking
               /\ status[req[p].b] \in {"PENDING_PAYMENT", "CONFIRMED"}
               /\ status'[req[p].b] = "CHECKED_IN"
               /\ \A c \in Booking \ {req[p].b} : status'[c] = status[c]
    <3>1. req[p].b \in Booking
      BY <2>1, RequestsName DEF CheckInCommit, Running
    <3> QED
      BY <2>1, <3>1 DEF CheckInCommit, Running, SteadyInv, Steady, TypeOK
  <2>2. ASSUME NEW b \in Booking, PaymentCaptured(b)
        PROVE  /\ status[b] \in {"PENDING_PAYMENT", "CONFIRMED", "CHECKED_IN"}
               /\ status'[b] = "CONFIRMED"
               /\ \A c \in Booking \ {b} : status'[c] = status[c]
    BY <2>2 DEF PaymentCaptured, RowInv, TypeOK, BookingStatus
  <2> QED
    BY <2>1, <2>2
<1>3. Live' = Live
  <2>1. b \in Live
    BY <1>2 DEF Live, BookingStatus
  <2>2. status'[b] \in BookingStatus /\ status'[b] # "CANCELLED"
    BY <1>2 DEF BookingStatus
  <2>3. Live' = Live \cup {b}
    BY <1>2, <2>2, LiveAfter
  <2> QED
    BY <2>1, <2>3
<1> QED
  BY <1>1, <1>3 DEF Ledger!ledger

\* Steps that write neither a status nor a count.
LEMMA LedgerUntouched ==
  ASSUME UNCHANGED <<peak, booked, status>>
  PROVE  UNCHANGED Ledger!ledger
BY DEF Ledger!ledger, Live

LEMMA NextLedger ==
  ASSUME LateCapture = FALSE, TypeOK, RowInv, AdmissionInv, SteadyInv, LedgerInv, [Next]_vars
  PROVE  Ledger!Next \/ UNCHANGED Ledger!ledger
<1>1. ASSUME NEW p \in Worker, WorkerStep(p) PROVE Ledger!Next \/ UNCHANGED Ledger!ledger
  <2>1. CASE CreateCommit(p)
    BY <2>1, CreateAdmits DEF Ledger!Next
  <2>2. CASE CancelCommit(p)
    BY <2>2, CancelReleases DEF Ledger!Next
  <2>3. CASE CheckInCommit(p)
    BY <2>3, SeatsStay
  <2>4. CASE ~(CreateCommit(p) \/ CancelCommit(p) \/ CheckInCommit(p))
    <3>1. UNCHANGED <<peak, booked, status>>
      BY <1>1, <2>4 DEF WorkerStep, CreateRead, CancelRead, CheckInRead, QrVerify,
        CreateRefused, QrRead, CheckInRejected, slotVars, rowVars
    <3> QED
      BY <3>1, LedgerUntouched
  <2> QED
    BY <2>1, <2>2, <2>3, <2>4
<1>2. ASSUME NEW c \in Cleaner, CleanerStep(c) PROVE Ledger!Next \/ UNCHANGED Ledger!ledger
  <2>1. CASE ExpireCommit(c)
    BY <2>1, ExpireReleases DEF Ledger!Next
  <2>2. CASE ~ExpireCommit(c)
    <3>1. UNCHANGED <<peak, booked, status>>
      BY <1>2, <2>2 DEF CleanerStep, ExpireScan, ExpireRead, ExpireDone, slotVars, rowVars
    <3> QED
      BY <3>1, LedgerUntouched
  <2> QED
    BY <2>1, <2>2
<1>3. ASSUME NEW s \in Slot, NEW c \in Capacities, NEW a \in BOOLEAN, UpdateSlot(s, c, a)
      PROVE  Ledger!Next \/ UNCHANGED Ledger!ledger
  BY <1>3, UpdateAnnounces DEF Ledger!Next
<1>4. ASSUME NEW b \in Booking, PaymentCaptured(b)
      PROVE  Ledger!Next \/ UNCHANGED Ledger!ledger
  BY <1>4, SeatsStay
<1>5. CASE \/ \E p \in Worker \cup Cleaner : Abort(p)
           \/ \E b \in Booking : GrowOld(b) \/ PaymentOpened(b) \/ PaymentClosed(b)
           \/ UNCHANGED vars
  <2>1. UNCHANGED <<peak, booked, status>>
    BY <1>5 DEF Abort, GrowOld, PaymentOpened, PaymentClosed, vars, slotVars, rowVars
  <2> QED
    BY <2>1, LedgerUntouched
<1> QED
  BY <1>1, <1>2, <1>3, <1>4, <1>5 DEF Next, BookingServiceStep, Environment, PaymentStep

\* The ledger itself keeps the count equal to the seats held.
LEMMA LedgerCounts ==
  ASSUME TypeOK, LedgerInv, Ledger!Next \/ UNCHANGED Ledger!ledger
  PROVE  LedgerInv'
<1> SUFFICES ASSUME NEW s \in Slot
             PROVE  /\ IsFiniteSet(Ledger!SeatUnits(Live', s))
                    /\ booked'[s] = Ledger!Seats(Live', s)
  BY DEF LedgerInv, Ledger!SeatUnits, Ledger!Seats
<1>0. /\ IsFiniteSet(Ledger!SeatUnits(Live, s)) /\ booked[s] = Ledger!Seats(Live, s)
      /\ Live \in SUBSET Booking /\ booked[s] \in Int
  BY DEF LedgerInv, Live, TypeOK
<1>1. CASE Live' = Live /\ booked' = booked
  BY <1>0, <1>1
<1>2. ASSUME NEW b \in Booking, Ledger!Admit(b)
      PROVE  /\ IsFiniteSet(Ledger!SeatUnits(Live', s))
             /\ booked'[s] = Ledger!Seats(Live', s)
  <2>1. /\ b \in Booking \ Live /\ Live' = Live \cup {b}
        /\ booked' = [booked EXCEPT ![SlotOf[b]] = @ + Qty[b]]
    BY <1>2 DEF Ledger!Admit
  <2>2. CASE SlotOf[b] = s
    BY <1>0, <2>1, <2>2, SeatsAdded DEF TypeOK
  <2>3. CASE SlotOf[b] # s
    <3>1. Ledger!SeatUnits(Live', s) = Ledger!SeatUnits(Live, s)
      BY <2>1, <2>3, SeatsElsewhere
    <3>2. Ledger!Seats(Live', s) = Ledger!Seats(Live, s)
      BY <3>1, SeatsAreCounted
    <3>3. booked'[s] = booked[s]
      BY <2>1, <2>3 DEF TypeOK
    <3> QED
      BY <1>0, <3>1, <3>2, <3>3
  <2> QED
    BY <2>2, <2>3
<1>3. ASSUME NEW b \in Booking, Ledger!Release(b)
      PROVE  /\ IsFiniteSet(Ledger!SeatUnits(Live', s))
             /\ booked'[s] = Ledger!Seats(Live', s)
  <2>1. /\ b \in Live /\ Live' = Live \ {b}
        /\ booked' = [booked EXCEPT ![SlotOf[b]] = @ - Qty[b]]
    BY <1>3 DEF Ledger!Release
  <2>2. CASE SlotOf[b] = s
    <3>1. /\ IsFiniteSet(Ledger!SeatUnits(Live \ {b}, s))
          /\ Ledger!Seats(Live \ {b}, s) = Ledger!Seats(Live, s) - Qty[b]
      BY <1>0, <2>1, <2>2, SeatsRemoved
    <3>2. booked'[s] = booked[s] - Qty[b]
      BY <2>1, <2>2 DEF TypeOK
    <3> QED
      BY <1>0, <2>1, <3>1, <3>2
  <2>3. CASE SlotOf[b] # s
    <3>1. Ledger!SeatUnits(Live', s) = Ledger!SeatUnits(Live, s)
      BY <2>1, <2>3, SeatsElsewhere
    <3>2. Ledger!Seats(Live', s) = Ledger!Seats(Live, s)
      BY <3>1, SeatsAreCounted
    <3>3. booked'[s] = booked[s]
      BY <2>1, <2>3 DEF TypeOK
    <3> QED
      BY <1>0, <3>1, <3>2, <3>3
  <2> QED
    BY <2>2, <2>3
<1>4. CASE \E t \in Slot : Ledger!Announce(t)
  BY <1>1, <1>4 DEF Ledger!Announce
<1>5. CASE UNCHANGED Ledger!ledger
  BY <1>1, <1>5 DEF Ledger!ledger
<1> QED
  BY <1>2, <1>3, <1>4, <1>5 DEF Ledger!Next

ServiceInv == TypeOK /\ RowInv /\ AdmissionInv /\ SteadyInv /\ LedgerInv

LEMMA NextService ==
  ASSUME LateCapture = FALSE
  PROVE  ServiceInv /\ OnePerBooking /\ [Next]_vars =>
           ServiceInv' /\ [Ledger!Next]_(Ledger!ledger)
<1> SUFFICES ASSUME ServiceInv, OnePerBooking, [Next]_vars
             PROVE  ServiceInv' /\ (Ledger!Next \/ UNCHANGED Ledger!ledger)
  OBVIOUS
<1>1. TypeOK'
  BY NextTypeOK DEF ServiceInv
<1>2. RowInv' /\ AdmissionInv' /\ SteadyInv'
  BY <1>1, NextRow, NextAdmission, NextSteady DEF ServiceInv
<1>3. Ledger!Next \/ UNCHANGED Ledger!ledger
  BY NextLedger DEF ServiceInv
<1>4. LedgerInv'
  BY <1>3, LedgerCounts DEF ServiceInv
<1> QED
  BY <1>1, <1>2, <1>3, <1>4 DEF ServiceInv

LEMMA ServiceHolds ==
  ASSUME LateCapture = FALSE
  PROVE  Spec /\ []OnePerBooking => []ServiceInv
<1>1. Init => ServiceInv
  BY InitTypeOK, InitRow, InitAdmission, InitSteady DEF ServiceInv
<1>2. ServiceInv /\ OnePerBooking /\ [Next]_vars => ServiceInv'
  BY NextService
<1> QED
  BY <1>1, <1>2, PTL DEF Spec

(* bookedCount is exactly the seats of the bookings that hold some, for    *)
(* any number of requests and clean-up passes on different bookings, when  *)
(* payments are not late: what create adds, cancel and expire give back    *)
(* (SeatsConserved).                                                       *)
THEOREM SeatsAreConserved ==
  ASSUME LateCapture = FALSE
  PROVE  Spec /\ []OnePerBooking => []SeatsConserved
<1>1. ServiceInv => SeatsConserved
  BY DEF ServiceInv, LedgerInv, SeatsConserved
<1> QED
  BY <1>1, ServiceHolds, PTL

(* Under the same conditions the booking service implements the seat       *)
(* ledger: each commit admits one booking that fits under the peak, gives  *)
(* back the seats of one that held them, or leaves both alone              *)
(* (ImplementsLedger).                                                     *)
THEOREM ServiceImplementsLedger ==
  ASSUME LateCapture = FALSE
  PROVE  Spec /\ []OnePerBooking => ImplementsLedger
<1>1. Init => Ledger!Init
  <2> SUFFICES ASSUME Init PROVE Ledger!Init
    OBVIOUS
  <2>1. peak \in [Slot -> Nat]
    BY DEF Init
  <2>2. Live = {}
    BY DEF Init, Live, BookingStatus
  <2> QED
    BY <2>1, <2>2 DEF Init, Ledger!Init
<1>2. ServiceInv /\ OnePerBooking /\ [Next]_vars => [Ledger!Next]_(Ledger!ledger)
  BY NextService
<1> QED
  BY <1>1, <1>2, ServiceHolds, PTL DEF Spec, ImplementsLedger, Ledger!Spec

(* Under the same conditions no slot is overbooked: the seats held fit a   *)
(* capacity the slot had (NoOverbooking).  A late payment is what breaks   *)
(* it with one request at a time.                                          *)
THEOREM NoOverbookingOnTime ==
  ASSUME LateCapture = FALSE
  PROVE  Spec /\ []OnePerBooking => []NoOverbooking
<1>1. ServiceInv => NoOverbooking
  BY DEF ServiceInv, LedgerInv, AdmissionInv, BookedWithinPeak, NoOverbooking
<1> QED
  BY <1>1, ServiceHolds, PTL

----------------------------------------------------------------------------
(* Admission at the gate, with late payments too.                          *)

\* Every step that writes statuses, by the booking it writes.
LEMMA CheckedInKept ==
  ASSUME TypeOK, RowInv, SteadyInv, [Next]_vars, NEW b \in Booking,
         status[b] = "CHECKED_IN", status'[b] # "CHECKED_IN"
  PROVE  status'[b] = "CONFIRMED" /\ payment'[b] = "SUCCESS"
<1> USE DEF TypeOK
<1>1. ASSUME NEW p \in Worker, WorkerStep(p) PROVE FALSE
  <2>1. \/ CreateCommit(p) \/ CancelCommit(p) \/ CheckInCommit(p)
    BY <1>1 DEF WorkerStep, CreateRead, CancelRead, CheckInRead, QrVerify, CreateRefused,
                QrRead, CheckInRejected, rowVars
  <2>2. req[p].b = b
    BY <2>1 DEF CreateCommit, CancelCommit, CheckInCommit
  <2> QED
    BY <2>1, <2>2 DEF CreateCommit, CancelCommit, CheckInCommit, Running, Creating,
                      RowInv, SteadyInv, Steady
<1>2. ASSUME NEW c \in Cleaner, CleanerStep(c) PROVE FALSE
  <2>1. ExpireCommit(c)
    BY <1>2 DEF CleanerStep, ExpireScan, ExpireRead, ExpireDone, rowVars
  <2> QED
    BY <2>1 DEF ExpireCommit, Running, SteadyInv, Steady
<1>3. ASSUME NEW x \in Booking, PaymentCaptured(x)
      PROVE  status'[b] = "CONFIRMED" /\ payment'[b] = "SUCCESS"
  <2>1. x = b
    BY <1>3 DEF PaymentCaptured
  <2> QED
    BY <1>3, <2>1 DEF PaymentCaptured
<1>4. CASE UNCHANGED status
  BY <1>4
<1> QED
  BY <1>1, <1>2, <1>3, <1>4 DEF Next, BookingServiceStep, Environment, PaymentStep, Abort,
    UpdateSlot, GrowOld, PaymentOpened, PaymentClosed, vars, rowVars

LEMMA SteadyHolds == Spec /\ []OnePerBooking => [](TypeOK /\ RowInv /\ SteadyInv)
<1>1. Init => TypeOK /\ RowInv /\ SteadyInv
  BY InitTypeOK, InitRow, InitSteady
<1>2. TypeOK /\ RowInv /\ SteadyInv /\ OnePerBooking /\ [Next]_vars
        => TypeOK' /\ RowInv' /\ SteadyInv'
  BY NextTypeOK, NextRow, NextSteady
<1> QED
  BY <1>1, <1>2, PTL DEF Spec

(* One request at a time on a booking, and payments as late as they like:  *)
(* whoever was admitted keeps a CHECKED_IN booking, unless the payment of  *)
(* a booking admitted unpaid makes it CONFIRMED; no cancellation or expiry *)
(* takes an admission back (AdmissionStands).                              *)
THEOREM AdmissionsStand == Spec /\ []OnePerBooking => AdmissionStands
<1>1. TypeOK /\ RowInv /\ SteadyInv /\ [Next]_vars
        => [\A b \in Booking :
              status[b] = "CHECKED_IN" /\ status'[b] # "CHECKED_IN"
                => status'[b] = "CONFIRMED" /\ payment'[b] = "SUCCESS"]_vars
  BY CheckedInKept
<1> QED
  BY <1>1, SteadyHolds, PTL DEF Spec, AdmissionStands
=============================================================================
