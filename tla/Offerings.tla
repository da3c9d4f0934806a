------------------------------ MODULE Offerings ------------------------------
(***************************************************************************)
(* Donations and community meals (mahaprasad): the DonationService, the    *)
(* MahaprasadService and what the payment service does to their rows when  *)
(* a payment ends.  Read and commit steps as in SlotBooking.               *)
(*                                                                         *)
(* Both are paid through the same handlers.  A captured donation gets its  *)
(* receipt there; a captured meal booking is not touched.                  *)
(***************************************************************************)
EXTENDS Integers, FiniteSets

CONSTANTS
  Donation,    \* identifiers of donations, fresh until made
  Slot,        \* meal sessions
  Booking,     \* identifiers of meal bookings, fresh until made
  SlotOf,      \* the session of a booking
  People,      \* its numberOfPeople
  Capacities,  \* capacities a session may be given
  Worker       \* requests in flight

ASSUME OfferingsAssumption ==
  /\ SlotOf \in [Booking -> Slot]
  /\ People \in [Booking -> Nat \ {0}]
  /\ Capacities \subseteq Nat
  /\ Donation \cap Booking = {}

VARIABLES
  active,      \* sessions that can be booked
  capacity,
  booked,      \* bookedCount of each session
  dining,      \* status of each meal booking, "ABSENT" before it is made
  donation,    \* status of each donation
  receipts,    \* receipts issued for each donation
  payment,     \* status of the payment row of each, "NONE" without one
  req,         \* what each worker is doing
  peak,        \* history: the largest capacity the session had
  captured,    \* history: what the gateway was paid for
  direct,      \* history: donations whose maker called them direct
  contested    \* history: bookings two requests worked on at once

slotVars == <<active, capacity, peak>>
mealVars == <<booked, dining, contested>>
giftVars == <<donation, receipts, direct>>
moneyVars == <<payment, captured>>
vars == <<slotVars, mealVars, giftVars, moneyVars, req>>

DiningStatus == {"PENDING_PAYMENT", "CONFIRMED", "CANCELLED", "COMPLETED"}
DonationStatus == {"PENDING", "SUCCESS", "FAILED", "REFUNDED"}
PaymentStatus == {"PENDING", "SUCCESS", "FAILED", "CANCELLED", "REFUNDED"}

Idle == [op |-> "idle"]
Request ==
  {Idle}
    \cup [op : {"book"}, b : Booking, seen : Nat]
    \cup [op : {"cancel", "checkIn"}, b : Booking]
    \cup [op : {"order", "record"}, d : Donation]

TypeOK ==
  /\ active \subseteq Slot
  /\ capacity \in [Slot -> Nat] /\ peak \in [Slot -> Nat]
  /\ booked \in [Slot -> Int]
  /\ dining \in [Booking -> DiningStatus \cup {"ABSENT"}]
  /\ donation \in [Donation -> DonationStatus \cup {"ABSENT"}]
  /\ receipts \in [Donation -> Nat]
  /\ payment \in [Donation \cup Booking -> PaymentStatus \cup {"NONE"}]
  /\ captured \subseteq Donation \cup Booking /\ direct \subseteq Donation
  /\ contested \subseteq Booking
  /\ req \in [Worker -> Request]

\* Sessions are created by adminCreateSlot.
Init ==
  /\ active = Slot
  /\ capacity \in [Slot -> Capacities] /\ peak = capacity
  /\ booked = [s \in Slot |-> 0]
  /\ dining = [b \in Booking |-> "ABSENT"]
  /\ donation = [d \in Donation |-> "ABSENT"]
  /\ receipts = [d \in Donation |-> 0]
  /\ payment = [x \in Donation \cup Booking |-> "NONE"]
  /\ captured = {} /\ direct = {} /\ contested = {}
  /\ req = [p \in Worker |-> Idle]

Begin(p, q) == req[p] = Idle /\ req' = [req EXCEPT ![p] = q]
Finish(p) == req' = [req EXCEPT ![p] = Idle]
Running(p, op) == req[p].op = op

WorksOn(p, b) == req[p].op \in {"book", "cancel", "checkIn"} /\ req[p].b = b

\* A second request on a booking makes it contested.
Contest(b) ==
  contested' = IF \E p \in Worker : WorksOn(p, b) THEN contested \cup {b} ELSE contested

----------------------------------------------------------------------------
(* bookSlot                                                                *)

BookRead(p, b) ==
  /\ dining[b] = "ABSENT" /\ ~\E q \in Worker : WorksOn(q, b)
  /\ SlotOf[b] \in active
  /\ Begin(p, [op |-> "book", b |-> b, seen |-> capacity[SlotOf[b]]])
  /\ UNCHANGED <<slotVars, mealVars, giftVars, moneyVars>>

\* The conditional update takes the seats under the capacity read before.
\* Free meals are CONFIRMED at once; the others get an order and a payment.
BookCommit(p, free) ==
  /\ Running(p, "book")
  /\ LET b == req[p].b
         s == SlotOf[b] IN
       /\ s \in active
       /\ booked[s] <= req[p].seen - People[b]
       /\ booked' = [booked EXCEPT ![s] = @ + People[b]]
       /\ dining' = [dining EXCEPT ![b] = IF free THEN "CONFIRMED" ELSE "PENDING_PAYMENT"]
       /\ payment' = IF free THEN payment ELSE [payment EXCEPT ![b] = "PENDING"]
  /\ Finish(p)
  /\ UNCHANGED <<slotVars, contested, giftVars, captured>>

----------------------------------------------------------------------------
(* adminCancelBooking and adminCheckIn                                     *)

\* Mutant: the status is not looked at.
CancellableAlways(b) == dining[b] # "ABSENT"

Cancellable(b) == dining[b] \notin {"ABSENT", "CANCELLED"}

CancelRead(p, b) ==
  /\ Cancellable(b)
  /\ Begin(p, [op |-> "cancel", b |-> b])
  /\ Contest(b)
  /\ UNCHANGED <<slotVars, booked, dining, giftVars, moneyVars>>

CancelCommit(p) ==
  /\ Running(p, "cancel")
  /\ LET b == req[p].b IN
       /\ booked' = [booked EXCEPT ![SlotOf[b]] = @ - People[b]]
       /\ dining' = [dining EXCEPT ![b] = "CANCELLED"]
  /\ Finish(p)
  /\ UNCHANGED <<slotVars, contested, giftVars, moneyVars>>

\* Mutant: the desk admits whom it admits to a puja.
AdmissibleUnpaid(b) == dining[b] \in {"CONFIRMED", "PENDING_PAYMENT"}

Admissible(b) == dining[b] = "CONFIRMED"

CheckInRead(p, b) ==
  /\ Admissible(b)
  /\ Begin(p, [op |-> "checkIn", b |-> b])
  /\ Contest(b)
  /\ UNCHANGED <<slotVars, booked, dining, giftVars, moneyVars>>

CheckInCommit(p) ==
  /\ Running(p, "checkIn")
  /\ dining' = [dining EXCEPT ![req[p].b] = "COMPLETED"]
  /\ Finish(p)
  /\ UNCHANGED <<slotVars, booked, contested, giftVars, moneyVars>>

\* adminUpdateSlot: capacity and isActive, whatever they were.
UpdateSlot(s) ==
  /\ \E c \in Capacities :
       /\ capacity' = [capacity EXCEPT ![s] = c]
       /\ peak' = [peak EXCEPT ![s] = IF c > @ THEN c ELSE @]
  /\ active' \in {active \cup {s}, active \ {s}}
  /\ UNCHANGED <<mealVars, giftVars, moneyVars, req>>

----------------------------------------------------------------------------
(* createDonation                                                          *)

\* Donation, payment and receipt together, without an order at the gateway:
\* for staff, and for every devotee whose request says isDirect.
DonateDirect(d) ==
  /\ donation[d] = "ABSENT"
  /\ donation' = [donation EXCEPT ![d] = "SUCCESS"]
  /\ payment' = [payment EXCEPT ![d] = "SUCCESS"]
  /\ receipts' = [receipts EXCEPT ![d] = 1]
  /\ direct' = direct \cup {d}
  /\ UNCHANGED <<slotVars, mealVars, captured, req>>

\* Online, the row comes first; order and payment follow, or fail to.
DonateOnline(p, d) ==
  /\ donation[d] = "ABSENT"
  /\ donation' = [donation EXCEPT ![d] = "PENDING"]
  /\ Begin(p, [op |-> "order", d |-> d])
  /\ UNCHANGED <<slotVars, mealVars, receipts, direct, moneyVars>>

OrderCreated(p) ==
  /\ Running(p, "order")
  /\ req' = [req EXCEPT ![p] = [op |-> "record", d |-> req[p].d]]
  /\ UNCHANGED <<slotVars, mealVars, giftVars, moneyVars>>

RecordPayment(p) ==
  /\ Running(p, "record")
  /\ payment' = [payment EXCEPT ![req[p].d] = "PENDING"]
  /\ Finish(p)
  /\ UNCHANGED <<slotVars, mealVars, giftVars, captured>>

----------------------------------------------------------------------------
(* Payments.  The webhook, verifyDonation and the status lookup end in one *)
(* transaction: fulfillEntityOnSuccess has a branch for donations, none    *)
(* for meals.  A direct donation has no order at the gateway, by which an  *)
(* event would find it, and its payment is not looked up any more.         *)

HasOrder(x) == payment[x] # "NONE" /\ x \notin direct

\* Mutant: a receipt for a payment that goes through at once.
ReceiptAtFirst(d) == receipts[d] = 0 /\ payment[d] = "PENDING"

NeedsReceipt(d) == receipts[d] = 0

FulfilDonation(d) ==
  /\ donation' = [donation EXCEPT ![d] = "SUCCESS"]
  /\ receipts' = [receipts EXCEPT ![d] = @ + IF NeedsReceipt(d) THEN 1 ELSE 0]
  /\ UNCHANGED direct

Capture(x) ==
  /\ HasOrder(x)
  /\ payment' = [payment EXCEPT ![x] = "SUCCESS"]
  /\ captured' = captured \cup {x}
  /\ IF x \in Donation THEN FulfilDonation(x) ELSE UNCHANGED giftVars
  /\ UNCHANGED <<slotVars, mealVars, req>>

\* Mutant: the event's own word for a payment that was left.
ClosedAsReported == {"FAILED", "USER_DROPPED"}

ClosedAs == {"FAILED", "CANCELLED"}

\* A failed or dropped attempt, written on a status read before; it leaves
\* the donation or the booking as it is.
ClosePayment(x) ==
  /\ HasOrder(x)
  /\ \E s \in ClosedAs : payment' = [payment EXCEPT ![x] = s]
  /\ UNCHANGED <<slotVars, mealVars, giftVars, captured, req>>

\* A refund, likewise; a gateway without credentials, which production
\* refuses, grants one of a direct donation as well.
RefundPayment(x) ==
  /\ x \in captured \cup direct
  /\ payment' = [payment EXCEPT ![x] = "REFUNDED"]
  /\ UNCHANGED <<slotVars, mealVars, giftVars, captured, req>>

----------------------------------------------------------------------------

\* A check or the gateway fails, or the process dies.
Abort(p) ==
  /\ req[p] # Idle
  /\ Finish(p)
  /\ UNCHANGED <<slotVars, mealVars, giftVars, moneyVars>>

MealStep(p) ==
  \/ \E b \in Booking : BookRead(p, b) \/ CancelRead(p, b) \/ CheckInRead(p, b)
  \/ \E free \in BOOLEAN : BookCommit(p, free)
  \/ CancelCommit(p) \/ CheckInCommit(p)

GiftStep(p) ==
  \/ \E d \in Donation : DonateOnline(p, d)
  \/ OrderCreated(p) \/ RecordPayment(p)

PaymentStep(x) == Capture(x) \/ ClosePayment(x) \/ RefundPayment(x)

Next ==
  \/ \E p \in Worker : MealStep(p) \/ GiftStep(p) \/ Abort(p)
  \/ \E s \in Slot : UpdateSlot(s)
  \/ \E d \in Donation : DonateDirect(d)
  \/ \E x \in Donation \cup Booking : PaymentStep(x)

Spec == Init /\ [][Next]_vars

----------------------------------------------------------------------------
(* Properties                                                              *)

Eating(s) == {b \in Booking : SlotOf[b] = s /\ dining[b] \notin {"ABSENT", "CANCELLED"}}

\* The plates the bookings in S are for, one element per person.
Plates(S) == UNION {{b} \X (1 .. People[b]) : b \in S}

(* bookedCount is the number of people whose booking stands, and never     *)
(* exceeds a capacity the session had, as long as no two requests cancel   *)
(* or admit one booking at once (bookSlot, adminCancelBooking,             *)
(* adminCheckIn); bookings themselves and changes of the capacity may      *)
(* interleave in any way.                                                  *)
SeatsExplained ==
  \A s \in Slot :
    (\A b \in contested : SlotOf[b] # s) =>
      /\ booked[s] = Cardinality(Plates(Eating(s)))
      /\ booked[s] <= peak[s]

(* A donation has exactly one receipt once it succeeded, none before, and  *)
(* no payment that succeeded, or was refunded, has a donation that waits,  *)
(* however attempts fail and succeed and their events repeat.  It succeeds *)
(* when the gateway was paid, or at once because its maker called it       *)
(* direct, whether or not anybody paid (createDonation,                    *)
(* fulfillEntityOnSuccess).                                                *)
DonationSettled ==
  \A d \in Donation :
    /\ receipts[d] = IF donation[d] = "SUCCESS" THEN 1 ELSE 0
    /\ payment[d] \in {"SUCCESS", "REFUNDED"} => donation[d] = "SUCCESS"
    /\ donation[d] = "SUCCESS" <=> d \in captured \cup direct

(* Nobody is admitted to a meal that costs something without paying,       *)
(* whatever becomes of the payment row (bookSlot, adminCheckIn).           *)
DinersPaid ==
  \A b \in Booking :
    dining[b] \in {"CONFIRMED", "COMPLETED"} => payment[b] = "NONE" \/ b \in captured
=============================================================================
