------------------------------ MODULE Lodging ------------------------------
(***************************************************************************)
(* Rooms and the stays booked in them: the AccommodationService, its       *)
(* branches of QR check-in and payment, and the clean-up of its holds.     *)
(* Read and commit steps as in SlotBooking.                                *)
(*                                                                         *)
(* A room has no counter: what keeps two stays apart is a query for        *)
(* overlapping stays, made before the insert.                              *)
(***************************************************************************)
EXTENDS Integers, FiniteSets

CONSTANTS
  Room,        \* room rows
  Stay,        \* identifiers of accommodation bookings, fresh until created
  RoomOf,      \* the room a stay is for
  CheckIn,     \* its first night
  CheckOut,    \* the day it leaves
  Closings,    \* the statuses a payment may be closed with
  Worker,      \* requests in flight
  Cleaner      \* clean-up passes in flight

ASSUME LodgingAssumption ==
  /\ RoomOf \in [Stay -> Room]
  /\ CheckIn \in [Stay -> Nat] /\ CheckOut \in [Stay -> Nat]
  /\ \A b \in Stay : CheckIn[b] < CheckOut[b]
  /\ Closings \subseteq {"FAILED", "CANCELLED", "REFUNDED"}

VARIABLES
  available,   \* the rooms whose status is AVAILABLE
  status,      \* status of each stay, "ABSENT" before it is booked
  qr,          \* stays with a qrToken
  payment,     \* status of each stay's payment row, "NONE" without one
  overdue,     \* stays older than the clean-up's cutoff
  paid,        \* history: stays whose payment was captured
  revived,     \* history: stays that held their room again after losing it
  raced,       \* history: pairs of stays that were created at once
  req          \* what each worker and cleaner is doing

stayVars == <<status, qr, payment, overdue, paid, revived, raced>>
vars == <<available, stayVars, req>>

StayStatus ==
  {"PENDING_PAYMENT", "CONFIRMED", "CANCELLED", "CHECKED_IN", "CHECKED_OUT", "COMPLETED"}
PaymentStatus == {"PENDING", "SUCCESS", "FAILED", "CANCELLED", "REFUNDED"}

Idle == [op |-> "idle"]
Request ==
  {Idle}
    \cup [op : {"create", "cancel", "verified", "checkIn"}, b : Stay]
    \cup [op : {"checkOut"}, b : Stay, to : {"COMPLETED", "CHECKED_OUT"}]
    \cup [op : {"expiring"}, todo : SUBSET Stay, unpaid : SUBSET Stay]
    \cup [op : {"expire"}, b : Stay, todo : SUBSET Stay, unpaid : SUBSET Stay]

TypeOK ==
  /\ available \subseteq Room
  /\ status \in [Stay -> StayStatus \cup {"ABSENT"}]
  /\ payment \in [Stay -> PaymentStatus \cup {"NONE"}]
  /\ qr \subseteq Stay /\ overdue \subseteq Stay
  /\ paid \subseteq Stay /\ revived \subseteq Stay
  /\ raced \subseteq SUBSET Stay
  /\ req \in [Worker \cup Cleaner -> Request]

Init ==
  /\ available = Room
  /\ status = [b \in Stay |-> "ABSENT"]
  /\ payment = [b \in Stay |-> "NONE"]
  /\ qr = {} /\ overdue = {} /\ paid = {} /\ revived = {} /\ raced = {}
  /\ req = [p \in Worker \cup Cleaner |-> Idle]

Begin(p, r) == req[p] = Idle /\ req' = [req EXCEPT ![p] = r]
Finish(p) == req' = [req EXCEPT ![p] = Idle]
Running(p, op) == req[p].op = op

\* Statuses that hold the room.
Holds(s) == s \in {"PENDING_PAYMENT", "CONFIRMED", "CHECKED_IN"}

\* What every write to a status records in the history.
SetStatus(b, s) ==
  /\ status' = [status EXCEPT ![b] = s]
  /\ revived' = IF Holds(s) /\ status[b] # "ABSENT" /\ ~Holds(status[b])
                  THEN revived \cup {b} ELSE revived

----------------------------------------------------------------------------
(* createBooking                                                           *)

\* Mutant: the query of getAvailability, which overlooks unpaid holds.
HoldsAsListed(b) == status[b] \in {"CONFIRMED", "CHECKED_IN"}

HoldsRoom(b) == Holds(status[b])

\* The nights of two stays in one room intersect.
Clash(a, b) ==
  /\ a # b /\ RoomOf[a] = RoomOf[b]
  /\ CheckIn[a] < CheckOut[b] /\ CheckOut[a] > CheckIn[b]

Creating == {req[p].b : p \in {w \in Worker : Running(w, "create")}}

CreateRead(p, b) ==
  /\ status[b] = "ABSENT"
  /\ b \notin Creating
  /\ RoomOf[b] \in available
  /\ \A a \in Stay : ~(Clash(a, b) /\ HoldsRoom(a))
  /\ Begin(p, [op |-> "create", b |-> b])
  /\ raced' = raced \cup {{a, b} : a \in Creating}
  /\ UNCHANGED <<available, status, qr, payment, overdue, paid, revived>>

\* Stay and payment are inserted together, once the gateway has an order.
CreateCommit(p) ==
  /\ Running(p, "create")
  /\ SetStatus(req[p].b, "PENDING_PAYMENT")
  /\ payment' = [payment EXCEPT ![req[p].b] = "PENDING"]
  /\ Finish(p)
  /\ UNCHANGED <<available, qr, overdue, paid, raced>>

----------------------------------------------------------------------------
(* checkIn, checkInAccommodation, checkOut, checkOutAccommodation and      *)
(* cancelBooking: each updates the row by its id alone.                    *)

\* Mutant: the desk admits whom it admits to a puja.
AdmissibleUnpaid(b) == status[b] \in {"CONFIRMED", "PENDING_PAYMENT"}

AdmissibleAtDesk(b) == status[b] = "CONFIRMED"

CheckInRead(p, b) ==
  /\ AdmissibleAtDesk(b)
  /\ Begin(p, [op |-> "checkIn", b |-> b])
  /\ UNCHANGED <<available, stayVars>>

QrVerify(p, b) ==
  /\ b \in qr
  /\ status[b] \in {"CONFIRMED", "CHECKED_IN"}
  /\ Begin(p, [op |-> "verified", b |-> b])
  /\ UNCHANGED <<available, stayVars>>

\* checkInAccommodation reads the row again and rejects only CHECKED_IN.
QrRead(p) ==
  /\ Running(p, "verified")
  /\ req' = [req EXCEPT ![p] =
       IF status[req[p].b] = "CHECKED_IN"
         THEN Idle ELSE [op |-> "checkIn", b |-> req[p].b]]
  /\ UNCHANGED <<available, stayVars>>

\* The desk generates a token where there is none.
CheckInCommit(p) ==
  /\ Running(p, "checkIn")
  /\ SetStatus(req[p].b, "CHECKED_IN")
  /\ qr' = qr \cup {req[p].b}
  /\ Finish(p)
  /\ UNCHANGED <<available, payment, overdue, paid, raced>>

\* The desk completes a stay; with a QR code it is CHECKED_OUT.
CheckOutRead(p, b, s) ==
  /\ status[b] = "CHECKED_IN"
  /\ s = "CHECKED_OUT" => b \in qr
  /\ Begin(p, [op |-> "checkOut", b |-> b, to |-> s])
  /\ UNCHANGED <<available, stayVars>>

CheckOutCommit(p) ==
  /\ Running(p, "checkOut")
  /\ SetStatus(req[p].b, req[p].to)
  /\ Finish(p)
  /\ UNCHANGED <<available, qr, payment, overdue, paid, raced>>

CancelRead(p, b) ==
  /\ status[b] \notin {"ABSENT", "CANCELLED", "COMPLETED", "CHECKED_OUT"}
  /\ Begin(p, [op |-> "cancel", b |-> b])
  /\ UNCHANGED <<available, stayVars>>

CancelCommit(p) ==
  /\ Running(p, "cancel")
  /\ SetStatus(req[p].b, "CANCELLED")
  /\ Finish(p)
  /\ UNCHANGED <<available, qr, payment, overdue, paid, raced>>

----------------------------------------------------------------------------
(* Payments.  verifyBookingPayment, the webhook and the status lookup all  *)
(* end in one transaction that confirms the stay whatever its status is.   *)

Capture(b) ==
  /\ payment[b] # "NONE"
  /\ payment' = [payment EXCEPT ![b] = "SUCCESS"]
  /\ paid' = paid \cup {b}
  /\ SetStatus(b, "CONFIRMED")
  /\ qr' = qr \cup {b}
  /\ UNCHANGED <<available, overdue, raced, req>>

\* A failure, a drop or a refund, written on a payment status read before.
ClosePayment(b) ==
  /\ payment[b] # "NONE"
  /\ \E s \in Closings : payment' = [payment EXCEPT ![b] = s]
  /\ UNCHANGED <<available, status, qr, overdue, paid, revived, raced, req>>

----------------------------------------------------------------------------
(* expirePendingBookings                                                   *)

Overdue == {b \in overdue : status[b] = "PENDING_PAYMENT"}

ExpireScan(c) ==
  /\ Overdue # {}
  /\ Begin(c, [op |-> "expiring",
               todo |-> {b \in Overdue : payment[b] # "SUCCESS"},
               unpaid |-> {b \in Overdue : payment[b] = "PENDING"}])
  /\ UNCHANGED <<available, stayVars>>

Expirable(b) == status[b] = "PENDING_PAYMENT" /\ payment[b] # "SUCCESS"

ExpireRead(c, b) ==
  /\ Running(c, "expiring")
  /\ b \in req[c].todo
  /\ LET rest == [op |-> "expiring", todo |-> req[c].todo \ {b},
                  unpaid |-> req[c].unpaid]
     IN  req' = [req EXCEPT ![c] =
           IF Expirable(b)
             THEN [op |-> "expire", b |-> b,
                   todo |-> rest.todo, unpaid |-> rest.unpaid]
             ELSE rest]
  /\ UNCHANGED <<available, stayVars>>

\* Mutant: a status the enum of stays does not have.
ExpiredStatusOfBookings == "EXPIRED"

ExpiredStatus == "CANCELLED"

ExpireCommit(c) ==
  /\ Running(c, "expire")
  /\ LET b == req[c].b
     IN  /\ SetStatus(b, ExpiredStatus)
         /\ payment' = IF b \in req[c].unpaid
                         THEN [payment EXCEPT ![b] = "CANCELLED"] ELSE payment
  /\ req' = [req EXCEPT ![c] = [op |-> "expiring", todo |-> req[c].todo,
                                unpaid |-> req[c].unpaid]]
  /\ UNCHANGED <<available, qr, overdue, paid, raced>>

ExpireDone(c) ==
  /\ Running(c, "expiring")
  /\ req[c].todo = {}
  /\ Finish(c)
  /\ UNCHANGED <<available, stayVars>>

Abort(p) ==
  /\ req[p] # Idle
  /\ Finish(p)
  /\ UNCHANGED <<available, stayVars>>

GrowOld(b) ==
  /\ status[b] = "PENDING_PAYMENT"
  /\ b \notin overdue
  /\ overdue' = overdue \cup {b}
  /\ UNCHANGED <<available, status, qr, payment, paid, revived, raced, req>>

UpdateRoom(r) ==
  /\ \E s \in BOOLEAN : available' = IF s THEN available \cup {r} ELSE available \ {r}
  /\ UNCHANGED <<stayVars, req>>

----------------------------------------------------------------------------
WorkerStep(p) ==
  \/ \E b \in Stay :
       \/ CreateRead(p, b) \/ CheckInRead(p, b) \/ QrVerify(p, b) \/ CancelRead(p, b)
       \/ \E s \in {"COMPLETED", "CHECKED_OUT"} : CheckOutRead(p, b, s)
  \/ CreateCommit(p) \/ QrRead(p) \/ CheckInCommit(p)
  \/ CheckOutCommit(p) \/ CancelCommit(p)

CleanerStep(c) ==
  \/ ExpireScan(c)
  \/ \E b \in Stay : ExpireRead(c, b)
  \/ ExpireCommit(c)
  \/ ExpireDone(c)

StayStep(b) == Capture(b) \/ ClosePayment(b) \/ GrowOld(b)

Next ==
  \/ \E p \in Worker : WorkerStep(p)
  \/ \E c \in Cleaner : CleanerStep(c)
  \/ \E p \in Worker \cup Cleaner : Abort(p)
  \/ \E b \in Stay : StayStep(b)
  \/ \E r \in Room : UpdateRoom(r)

Spec == Init /\ [][Next]_vars

----------------------------------------------------------------------------
(* Properties                                                              *)

(* Nobody enters a room, or is promised one, without having paid, and      *)
(* whoever may enter has a token: the statuses a paid stay goes through    *)
(* are reached only past a captured payment, however stale the row was     *)
(* that a check-in, a check-out or a clean-up pass decided on.             *)
GuestsPaid ==
  \A b \in Stay :
    status[b] \in {"CONFIRMED", "CHECKED_IN", "CHECKED_OUT", "COMPLETED"} =>
      b \in paid /\ b \in qr

(* Two stays hold one room for one night only if their creations ran at    *)
(* once, or if one of them had lost the room and got it back from a late   *)
(* payment or an overtaken check-in: the overlap query has no other gap.   *)
DoubleStaysExplained ==
  \A a, b \in Stay :
    Clash(a, b) /\ Holds(status[a]) /\ Holds(status[b]) =>
      {a, b} \in raced \/ a \in revived \/ b \in revived
=============================================================================
