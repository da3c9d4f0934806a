---------------------------- MODULE SlotBooking ----------------------------
(***************************************************************************)
(* Puja, seva and darshan bookings against slots of limited capacity: the  *)
(* BookingService, the slot administration of the puja, seva and darshan   *)
(* services, check-in by QR, and the clean-up of abandoned reservations.   *)
(*                                                                         *)
(* The database is PostgreSQL at READ COMMITTED.  A handler reads rows in  *)
(* one step and commits its transaction in a later one; other requests run *)
(* in between.  A conditional or relative UPDATE takes the row lock and is *)
(* evaluated on the committed row, so it belongs to the commit step; a     *)
(* value the handler read earlier is kept in its request record.           *)
(*                                                                         *)
(* The payment row of a booking is written here only by the clean-up; what *)
(* the payment service does to it, and to the booking, is the three        *)
(* Payment... actions, which module BookingPayments refines.               *)
(***************************************************************************)
EXTENDS Integers, FiniteSets

CONSTANTS
  Slot,        \* the slots (puja, seva and darshan)
  DarshanSlot, \* those of free darshan
  Booking,     \* identifiers of booking rows, fresh until created
  SlotOf,      \* the slot a booking asks for
  Qty,         \* the seats it asks for
  Capacities,  \* the capacities an administrator may give a slot
  Worker,      \* HTTP requests in flight, over all server instances
  Cleaner,     \* clean-up passes (scheduler or admin endpoint) in flight;
               \* an instance that does one thing at a time is in both sets
  LateCapture, \* whether a gateway may report a payment after its booking
               \* was cancelled or expired
  Closings,    \* the statuses a payment may be closed with; this module
               \* tells apart only PENDING, SUCCESS and the others
  MaxDeficit   \* bound: how far below zero a bookedCount is followed

ASSUME SlotAssumption ==
  /\ DarshanSlot \subseteq Slot
  /\ SlotOf \in [Booking -> Slot]
  /\ Qty \in [Booking -> Nat \ {0}]
  /\ Capacities \subseteq Nat
  /\ LateCapture \in BOOLEAN
  /\ Closings \subseteq {"FAILED", "CANCELLED", "REFUNDED"}
  /\ MaxDeficit \in Nat

VARIABLES
  capacity,    \* capacity of each slot row
  active,      \* whether its status is ACTIVE
  booked,      \* its bookedCount
  peak,        \* history: the highest capacity the slot ever had
  status,      \* status of each booking row, "ABSENT" before it exists
  qr,          \* bookings with a qrToken
  overdue,     \* bookings older than the clean-up's cutoff
  checkIns,    \* bookings with a CheckIn row (bookingId is unique there)
  payment,     \* status of each booking's payment row, "NONE" without one
  req          \* what each worker and cleaner is doing

slotVars == <<capacity, active, booked, peak>>
rowVars == <<status, qr, overdue, checkIns, payment>>
vars == <<slotVars, rowVars, req>>

BookingStatus == {"PENDING_PAYMENT", "CONFIRMED", "CANCELLED", "CHECKED_IN"}
PaymentStatus == {"PENDING", "SUCCESS", "FAILED", "CANCELLED", "REFUNDED"}

Idle == [op |-> "idle"]
Request ==
  {Idle}
    \cup [op : {"create"}, b : Booking, cap : Capacities]
    \cup [op : {"cancel", "verified", "checkIn"}, b : Booking]
    \cup [op : {"expiring"}, todo : SUBSET Booking, unpaid : SUBSET Booking]
    \cup [op : {"expire"}, b : Booking,
          todo : SUBSET Booking, unpaid : SUBSET Booking]

TypeOK ==
  /\ capacity \in [Slot -> Capacities]
  /\ active \in [Slot -> BOOLEAN]
  /\ booked \in [Slot -> Int]
  /\ peak \in [Slot -> Capacities]
  /\ status \in [Booking -> BookingStatus \cup {"ABSENT"}]
  /\ qr \subseteq Booking /\ overdue \subseteq Booking /\ checkIns \subseteq Booking
  /\ payment \in [Booking -> PaymentStatus \cup {"NONE"}]
  /\ req \in [Worker \cup Cleaner -> Request]

Init ==
  /\ capacity \in [Slot -> Capacities]
  /\ active = [s \in Slot |-> TRUE]
  /\ booked = [s \in Slot |-> 0]
  /\ peak = capacity
  /\ status = [b \in Booking |-> "ABSENT"]
  /\ qr = {} /\ overdue = {} /\ checkIns = {}
  /\ payment = [b \in Booking |-> "NONE"]
  /\ req = [p \in Worker \cup Cleaner |-> Idle]

Begin(p, r) == req[p] = Idle /\ req' = [req EXCEPT ![p] = r]
Finish(p) == req' = [req EXCEPT ![p] = Idle]
Running(p, op) == req[p].op = op

----------------------------------------------------------------------------
(* createPujaBooking, createSevaBooking and createDarshanBooking.          *)

\* The transaction reads the slot row, and its capacity with it.
CreateRead(p, b) ==
  /\ status[b] = "ABSENT"
  /\ \A q \in Worker : ~(Running(q, "create") /\ req[q].b = b)
  /\ active[SlotOf[b]]
  /\ Begin(p, [op |-> "create", b |-> b, cap |-> capacity[SlotOf[b]]])
  /\ UNCHANGED <<slotVars, rowVars>>

\* Mutant: one free seat is enough, whatever the quantity.
FitsOne(s, q, cap) == active[s] /\ booked[s] < cap

\* WHERE status = ACTIVE AND bookedCount <= (capacity read before) - quantity
Fits(s, q, cap) == active[s] /\ booked[s] <= cap - q

CreateCommit(p) ==
  /\ Running(p, "create")
  /\ LET b == req[p].b
         s == SlotOf[b]
     IN  /\ Fits(s, Qty[b], req[p].cap)
         /\ booked' = [booked EXCEPT ![s] = @ + Qty[b]]
         /\ status' = [status EXCEPT ![b] =
              IF s \in DarshanSlot THEN "CONFIRMED" ELSE "PENDING_PAYMENT"]
         /\ qr' = IF s \in DarshanSlot THEN qr \cup {b} ELSE qr
  /\ Finish(p)
  /\ UNCHANGED <<capacity, active, peak, overdue, checkIns, payment>>

CreateRefused(p) ==
  /\ Running(p, "create")
  /\ ~Fits(SlotOf[req[p].b], Qty[req[p].b], req[p].cap)
  /\ Finish(p)
  /\ UNCHANGED <<slotVars, rowVars>>

----------------------------------------------------------------------------
(* cancelBooking                                                           *)

\* Mutant: a booking already used at the gate can be cancelled.
CancellableUsed(b) == status[b] \notin {"ABSENT", "CANCELLED"}

Cancellable(b) == status[b] \notin {"ABSENT", "CANCELLED", "CHECKED_IN"}

CancelRead(p, b) ==
  /\ Cancellable(b)
  /\ Begin(p, [op |-> "cancel", b |-> b])
  /\ UNCHANGED <<slotVars, rowVars>>

\* Mutant: the quantity is forgotten.
ReleasedOne(b) == [booked EXCEPT ![SlotOf[b]] = @ - 1]

Released(b) == [booked EXCEPT ![SlotOf[b]] = @ - Qty[b]]

CancelCommit(p) ==
  /\ Running(p, "cancel")
  /\ LET b == req[p].b
     IN  /\ booked[SlotOf[b]] - Qty[b] >= -MaxDeficit
         /\ booked' = Released(b)
         /\ status' = [status EXCEPT ![b] = "CANCELLED"]
  /\ Finish(p)
  /\ UNCHANGED <<capacity, active, peak, qr, overdue, checkIns, payment>>

----------------------------------------------------------------------------
(* Check-in at the desk (markCheckedIn) and by QR code (checkInBooking).   *)

CheckInRead(p, b) ==
  /\ status[b] \in {"CONFIRMED", "PENDING_PAYMENT"}
  /\ Begin(p, [op |-> "checkIn", b |-> b])
  /\ UNCHANGED <<slotVars, rowVars>>

QrVerify(p, b) ==
  /\ b \in qr
  /\ status[b] \in {"CONFIRMED", "CHECKED_IN"}
  /\ Begin(p, [op |-> "verified", b |-> b])
  /\ UNCHANGED <<slotVars, rowVars>>

\* checkInBooking reads the row again and rejects only CHECKED_IN.
QrRead(p) ==
  /\ Running(p, "verified")
  /\ req' = [req EXCEPT ![p] =
       IF status[req[p].b] = "CHECKED_IN"
         THEN Idle ELSE [op |-> "checkIn", b |-> req[p].b]]
  /\ UNCHANGED <<slotVars, rowVars>>

\* Mutants: the CheckIn row is not unique; the token is not generated.
AnyCheckIn(b) == TRUE
NoToken(b) == qr

\* CheckIn.bookingId is unique.
FirstCheckIn(b) == b \notin checkIns

\* existing.qrToken || generateQRToken()
WithToken(b) == qr \cup {b}

\* Booking update and CheckIn insert commit together or, when the booking
\* already has a CheckIn row, not at all.
CheckInCommit(p) ==
  /\ Running(p, "checkIn")
  /\ FirstCheckIn(req[p].b)
  /\ status' = [status EXCEPT ![req[p].b] = "CHECKED_IN"]
  /\ qr' = WithToken(req[p].b)
  /\ checkIns' = checkIns \cup {req[p].b}
  /\ Finish(p)
  /\ UNCHANGED <<slotVars, overdue, payment>>

CheckInRejected(p) ==
  /\ Running(p, "checkIn")
  /\ ~FirstCheckIn(req[p].b)
  /\ Finish(p)
  /\ UNCHANGED <<slotVars, rowVars>>

----------------------------------------------------------------------------
(* expirePendingBookings                                                   *)

\* Mutant: only bookings without a payment row are listed.
OverdueUnopened == {b \in overdue :
  status[b] = "PENDING_PAYMENT" /\ payment[b] = "NONE"}

Overdue == {b \in overdue : status[b] = "PENDING_PAYMENT"}

\* The pass lists the overdue bookings with their payments, skips the paid
\* ones, and remembers which payments it saw PENDING.
ExpireScan(c) ==
  /\ Overdue # {}
  /\ Begin(c, [op |-> "expiring",
               todo |-> {b \in Overdue : payment[b] # "SUCCESS"},
               unpaid |-> {b \in Overdue : payment[b] = "PENDING"}])
  /\ UNCHANGED <<slotVars, rowVars>>

Expirable(b) == status[b] = "PENDING_PAYMENT" /\ payment[b] # "SUCCESS"

\* One transaction per listed booking: read it again, ...
ExpireRead(c, b) ==
  /\ Running(c, "expiring")
  /\ b \in req[c].todo
  /\ LET rest == [op |-> "expiring", todo |-> req[c].todo \ {b},
                  unpaid |-> req[c].unpaid]
     IN  req' = [req EXCEPT ![c] =
           IF Expirable(b)
             THEN [op |-> "expire", b |-> b,
                   todo |-> rest.todo, unpaid |-> rest.unpaid]
             ELSE rest]
  /\ UNCHANGED <<slotVars, rowVars>>

\* Mutant: the status the schema has for this, which nothing handles.
ExpiredStatusOfSchema == "EXPIRED"

ExpiredStatus == "CANCELLED"

\* ... then cancel it, give back its seats and cancel the payment it had
\* when the pass listed it.
ExpireCommit(c) ==
  /\ Running(c, "expire")
  /\ LET b == req[c].b
         s == SlotOf[b]
     IN  /\ status' = [status EXCEPT ![b] = ExpiredStatus]
         /\ booked' = IF s \notin DarshanSlot /\ booked[s] >= Qty[b]
                        THEN Released(b) ELSE booked
         /\ payment' = IF b \in req[c].unpaid
                         THEN [payment EXCEPT ![b] = "CANCELLED"]
                         ELSE payment
  /\ req' = [req EXCEPT ![c] = [op |-> "expiring", todo |-> req[c].todo,
                                unpaid |-> req[c].unpaid]]
  /\ UNCHANGED <<capacity, active, peak, qr, overdue, checkIns>>

ExpireDone(c) ==
  /\ Running(c, "expiring")
  /\ req[c].todo = {}
  /\ Finish(c)
  /\ UNCHANGED <<slotVars, rowVars>>

----------------------------------------------------------------------------
(* Crash of an instance, or a transaction PostgreSQL aborts: nothing of    *)
(* the transaction remains and the request is gone.                        *)

Abort(p) ==
  /\ req[p] # Idle
  /\ Finish(p)
  /\ UNCHANGED <<slotVars, rowVars>>

(* updateSlot of the puja, seva and darshan services.                      *)

UpdateSlot(s, c, a) ==
  /\ capacity' = [capacity EXCEPT ![s] = c]
  /\ active' = [active EXCEPT ![s] = a]
  /\ peak' = [peak EXCEPT ![s] = IF c > @ THEN c ELSE @]
  /\ UNCHANGED <<booked, rowVars, req>>

(* Half an hour passes.                                                    *)

GrowOld(b) ==
  /\ status[b] = "PENDING_PAYMENT"
  /\ b \notin overdue
  /\ overdue' = overdue \cup {b}
  /\ UNCHANGED <<slotVars, status, qr, checkIns, payment, req>>

----------------------------------------------------------------------------
(* What the payment service does to the rows of this module.               *)

PaymentOpened(b) ==
  /\ status[b] # "ABSENT"
  /\ SlotOf[b] \notin DarshanSlot
  /\ payment[b] = "NONE"
  /\ payment' = [payment EXCEPT ![b] = "PENDING"]
  /\ UNCHANGED <<slotVars, status, qr, overdue, checkIns, req>>

\* fulfillEntityOnSuccess confirms the booking whatever its status is.
PaymentCaptured(b) ==
  /\ payment[b] # "NONE"
  /\ LateCapture \/ status[b] # "CANCELLED"
  /\ payment' = [payment EXCEPT ![b] = "SUCCESS"]
  /\ status' = [status EXCEPT ![b] = "CONFIRMED"]
  /\ qr' = WithToken(b)
  /\ UNCHANGED <<slotVars, overdue, checkIns, req>>

PaymentClosed(b) ==
  /\ payment[b] # "NONE"
  /\ \E s \in Closings : payment' = [payment EXCEPT ![b] = s]
  /\ UNCHANGED <<slotVars, status, qr, overdue, checkIns, req>>

----------------------------------------------------------------------------
WorkerStep(p) ==
  \/ \E b \in Booking :
       CreateRead(p, b) \/ CancelRead(p, b) \/ CheckInRead(p, b) \/ QrVerify(p, b)
  \/ CreateCommit(p) \/ CreateRefused(p)
  \/ CancelCommit(p)
  \/ QrRead(p) \/ CheckInCommit(p) \/ CheckInRejected(p)

CleanerStep(c) ==
  \/ ExpireScan(c)
  \/ \E b \in Booking : ExpireRead(c, b)
  \/ ExpireCommit(c)
  \/ ExpireDone(c)

BookingServiceStep ==
  \/ \E p \in Worker : WorkerStep(p) \/ Abort(p)
  \/ \E c \in Cleaner : CleanerStep(c) \/ Abort(c)

Environment ==
  \/ \E s \in Slot, c \in Capacities, a \in BOOLEAN : UpdateSlot(s, c, a)
  \/ \E b \in Booking : GrowOld(b)

PaymentStep ==
  \E b \in Booking : PaymentOpened(b) \/ PaymentCaptured(b) \/ PaymentClosed(b)

Next == BookingServiceStep \/ Environment \/ PaymentStep

Spec == Init /\ [][Next]_vars

----------------------------------------------------------------------------
(* Properties.                                                             *)

\* The bookings that hold their seats.
Live == {b \in Booking : status[b] \in BookingStatus \ {"CANCELLED"}}

Ledger == INSTANCE SeatLedger WITH limit <- peak, holders <- Live, taken <- booked

(* However many create requests overlap, and whatever administrators do to *)
(* the capacity meanwhile, bookedCount never passes a capacity the slot    *)
(* had: the conditional updateMany decides, not the capacity check alone.  *)
BookedWithinPeak == \A s \in Slot : booked[s] <= peak[s]

(* Desk and QR check-in race each other, and a late payment can make a     *)
(* checked-in booking CONFIRMED again; still nobody is admitted twice on   *)
(* one booking, because the CheckIn row is unique.                         *)
AdmittedOnce ==
  [][\A b \in Booking :
       status'[b] = "CHECKED_IN" /\ status[b] # "CHECKED_IN" => b \notin checkIns]_vars

(* A booking somebody can be admitted on has a QR token, whichever of its  *)
(* writers (darshan creation, payment, desk check-in) made it so.          *)
ValidHasQr ==
  \A b \in Booking : status[b] \in {"CONFIRMED", "CHECKED_IN"} => b \in qr

(* The clean-up releases every unpaid hold: no booking waits for payment   *)
(* for ever, although passes are aborted and two may run at once.          *)
HoldReleased ==
  \A b \in Booking :
    status[b] = "PENDING_PAYMENT" ~> status[b] # "PENDING_PAYMENT"

(* bookedCount is exactly the seats of the bookings that hold some: the    *)
(* increment of create and the decrements of cancel and expire balance.    *)
SeatsConserved == \A s \in Slot : booked[s] = Ledger!Seats(Live, s)

(* The booking service implements the seat ledger: each commit admits one  *)
(* booking that fits, releases one that held its seats, or leaves both.    *)
ImplementsLedger == Ledger!Spec

(* Whoever was admitted holds a CHECKED_IN booking, which no cancellation  *)
(* or expiry takes back; only a payment does, of a booking the desk let in *)
(* before it was paid, and leaves it CONFIRMED beside its CheckIn row.     *)
AdmissionStands ==
  [][\A b \in Booking :
       status[b] = "CHECKED_IN" /\ status'[b] # "CHECKED_IN"
         => status'[b] = "CONFIRMED" /\ payment'[b] = "SUCCESS"]_vars

(* The seats of the bookings that hold some fit a capacity the slot had.   *)
(* docs/PRODUCTION_READINESS.md:30 claims it of every slot reservation.    *)
NoOverbooking == \A s \in Slot : Ledger!Seats(Live, s) <= peak[s]
=============================================================================
