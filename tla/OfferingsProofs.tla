-------------------------- MODULE OfferingsProofs --------------------------
(***************************************************************************)
(* Theorems about Offerings, for any donations, meal sessions, bookings    *)
(* and numbers of requests.                                                *)
(***************************************************************************)
EXTENDS Offerings, FiniteSetTheorems, TLAPS

USE OfferingsAssumption

----------------------------------------------------------------------------
(* Type correctness.                                                       *)

LEMMA InitTypeOK == Init => TypeOK
<1> SUFFICES ASSUME Init PROVE TypeOK
  OBVIOUS
<1>1. capacity \in [Slot -> Nat] /\ peak \in [Slot -> Nat] /\ active \subseteq Slot
  BY DEF Init
<1>2. req \in [Worker -> Request]
  BY DEF Init, Request
<1> QED
  BY <1>1, <1>2 DEF Init, TypeOK

\* What a request in flight remembers.
LEMMA RequestParts ==
  ASSUME TypeOK, NEW p \in Worker
  PROVE  /\ req[p].op \in {"book", "cancel", "checkIn"} => req[p].b \in Booking
         /\ req[p].op = "book" => req[p].seen \in Nat
         /\ req[p].op \in {"order", "record"} => req[p].d \in Donation
BY DEF TypeOK, Request, Idle

LEMMA MealTypeOK ==
  ASSUME TypeOK, NEW p \in Worker, MealStep(p)
  PROVE  TypeOK'
<1> USE DEF TypeOK, slotVars, mealVars, giftVars, moneyVars
<1>1. ASSUME NEW b \in Booking, BookRead(p, b) PROVE TypeOK'
  <2>1. [op |-> "book", b |-> b, seen |-> capacity[SlotOf[b]]] \in Request
    BY DEF Request
  <2> QED
    BY <1>1, <2>1 DEF BookRead, Begin
<1>2. ASSUME NEW b \in Booking, CancelRead(p, b) \/ CheckInRead(p, b) PROVE TypeOK'
  <2>1. [op |-> "cancel", b |-> b] \in Request /\ [op |-> "checkIn", b |-> b] \in Request
    BY DEF Request
  <2> QED
    BY <1>2, <2>1 DEF CancelRead, CheckInRead, Begin, Contest
<1>3. ASSUME NEW free \in BOOLEAN, BookCommit(p, free) PROVE TypeOK'
  <2>1. req[p].b \in Booking
    BY <1>3, RequestParts DEF BookCommit, Running
  <2>2. booked' \in [Slot -> Int]
    BY <1>3, <2>1 DEF BookCommit
  <2>3. dining' \in [Booking -> DiningStatus \cup {"ABSENT"}]
    BY <1>3, <2>1 DEF BookCommit, DiningStatus
  <2>4. payment' \in [Donation \cup Booking -> PaymentStatus \cup {"NONE"}]
    BY <1>3, <2>1 DEF BookCommit, PaymentStatus
  <2>5. req' \in [Worker -> Request]
    BY <1>3 DEF BookCommit, Finish, Request
  <2> QED
    BY <1>3, <2>2, <2>3, <2>4, <2>5 DEF BookCommit
<1>4. ASSUME CancelCommit(p) PROVE TypeOK'
  <2>1. req[p].b \in Booking
    BY <1>4, RequestParts DEF CancelCommit, Running
  <2>2. booked' \in [Slot -> Int]
    BY <1>4, <2>1 DEF CancelCommit
  <2>3. dining' \in [Booking -> DiningStatus \cup {"ABSENT"}]
    BY <1>4, <2>1 DEF CancelCommit, DiningStatus
  <2> QED
    BY <1>4, <2>2, <2>3 DEF CancelCommit, Finish, Request
<1>5. ASSUME CheckInCommit(p) PROVE TypeOK'
  <2>1. req[p].b \in Booking
    BY <1>5, RequestParts DEF CheckInCommit, Running
  <2> QED
    BY <1>5, <2>1 DEF CheckInCommit, Finish, Request, DiningStatus
<1> QED
  BY <1>1, <1>2, <1>3, <1>4, <1>5 DEF MealStep

LEMMA GiftTypeOK ==
  ASSUME TypeOK, NEW p \in Worker, GiftStep(p)
  PROVE  TypeOK'
<1> USE DEF TypeOK, slotVars, mealVars, giftVars, moneyVars
<1>1. ASSUME NEW d \in Donation, DonateOnline(p, d) PROVE TypeOK'
  BY <1>1 DEF DonateOnline, Begin, Request, DonationStatus
<1>2. ASSUME OrderCreated(p) PROVE TypeOK'
  <2>1. req[p].d \in Donation
    BY <1>2, RequestParts DEF OrderCreated, Running
  <2> QED
    BY <1>2, <2>1 DEF OrderCreated, Request
<1>3. ASSUME RecordPayment(p) PROVE TypeOK'
  <2>1. req[p].d \in Donation
    BY <1>3, RequestParts DEF RecordPayment, Running
  <2> QED
    BY <1>3, <2>1 DEF RecordPayment, Finish, Request, PaymentStatus
<1> QED
  BY <1>1, <1>2, <1>3 DEF GiftStep

LEMMA PaymentTypeOK ==
  ASSUME TypeOK, NEW x \in Donation \cup Booking, PaymentStep(x)
  PROVE  TypeOK'
<1> USE DEF TypeOK, slotVars, mealVars, giftVars, moneyVars, PaymentStatus
<1>1. ASSUME Capture(x) PROVE TypeOK'
  <2>1. /\ donation' \in [Donation -> DonationStatus \cup {"ABSENT"}]
        /\ receipts' \in [Donation -> Nat] /\ direct' = direct
    BY <1>1 DEF Capture, FulfilDonation, DonationStatus
  <2> QED
    BY <1>1, <2>1 DEF Capture
<1>2. ASSUME ClosePayment(x) PROVE TypeOK'
  BY <1>2 DEF ClosePayment, ClosedAs
<1>3. ASSUME RefundPayment(x) PROVE TypeOK'
  BY <1>3 DEF RefundPayment
<1> QED
  BY <1>1, <1>2, <1>3 DEF PaymentStep

LEMMA NextTypeOK == TypeOK /\ [Next]_vars => TypeOK'
<1> SUFFICES ASSUME TypeOK, [Next]_vars PROVE TypeOK'
  OBVIOUS
<1>1. ASSUME NEW p \in Worker, Abort(p) PROVE TypeOK'
  BY <1>1 DEF Abort, Finish, Request, TypeOK, slotVars, mealVars, giftVars, moneyVars
<1>2. ASSUME NEW s \in Slot, UpdateSlot(s) PROVE TypeOK'
  <2>1. PICK c \in Capacities :
          /\ capacity' = [capacity EXCEPT ![s] = c]
          /\ peak' = [peak EXCEPT ![s] = IF c > @ THEN c ELSE @]
    BY <1>2 DEF UpdateSlot
  <2>2. c \in Nat
    OBVIOUS
  <2>3. capacity' \in [Slot -> Nat] /\ peak' \in [Slot -> Nat]
    BY <2>1, <2>2 DEF TypeOK
  <2>4. active' \subseteq Slot
    BY <1>2 DEF UpdateSlot, TypeOK
  <2> QED
    BY <1>2, <2>3, <2>4 DEF UpdateSlot, TypeOK, mealVars, giftVars, moneyVars
<1>3. ASSUME NEW d \in Donation, DonateDirect(d) PROVE TypeOK'
  BY <1>3 DEF DonateDirect, TypeOK, slotVars, mealVars, DonationStatus, PaymentStatus
<1>4. CASE UNCHANGED vars
  BY <1>4 DEF TypeOK, vars, slotVars, mealVars, giftVars, moneyVars
<1> QED
  BY <1>1, <1>2, <1>3, <1>4, MealTypeOK, GiftTypeOK, PaymentTypeOK DEF Next

(* The types of the sessions, bookings, donations, payments and requests:  *)
(* what every handler stores is a status, and what it remembers between    *)
(* its read and its commit is of the kind it read (TypeOK).                *)
THEOREM TypeCorrect == Spec => []TypeOK
<1> QED
  BY InitTypeOK, NextTypeOK, PTL DEF Spec

----------------------------------------------------------------------------
(* Donations: one succeeded exactly if it was captured or called direct.   *)

GiftInv ==
  \A d \in Donation :
    /\ receipts[d] = IF donation[d] = "SUCCESS" THEN 1 ELSE 0
    /\ payment[d] \in {"SUCCESS", "REFUNDED"} => donation[d] = "SUCCESS"
    /\ donation[d] = "SUCCESS" <=> d \in captured \cup direct

LEMMA InitGiftInv == Init => GiftInv
  BY DEF Init, GiftInv

LEMMA NextGiftInv == TypeOK /\ GiftInv /\ [Next]_vars => GiftInv'
<1> SUFFICES ASSUME TypeOK, GiftInv, [Next]_vars PROVE GiftInv'
  OBVIOUS
<1> USE DEF GiftInv
<1>1. ASSUME NEW p \in Worker, MealStep(p) PROVE GiftInv'
  <2>1. ASSUME NEW free \in BOOLEAN, BookCommit(p, free) PROVE GiftInv'
    <3>1. req[p].b \in Booking
      BY <2>1, RequestParts DEF BookCommit, Running
    <3>2. \A d \in Donation : payment'[d] = payment[d]
      BY <2>1, <3>1 DEF BookCommit, TypeOK
    <3> QED
      BY <2>1, <3>2 DEF BookCommit, giftVars
  <2>2. CASE ~\E free \in BOOLEAN : BookCommit(p, free)
    <3>1. UNCHANGED <<giftVars, moneyVars>>
      BY <1>1, <2>2 DEF MealStep, BookRead, CancelRead, CheckInRead, CancelCommit,
        CheckInCommit
    <3> QED
      BY <3>1 DEF giftVars, moneyVars
  <2> QED
    BY <2>1, <2>2
<1>2. ASSUME NEW p \in Worker, GiftStep(p) PROVE GiftInv'
  <2>1. ASSUME NEW d \in Donation, DonateOnline(p, d) PROVE GiftInv'
    BY <2>1 DEF DonateOnline, TypeOK, moneyVars, giftVars
  <2>2. ASSUME OrderCreated(p) PROVE GiftInv'
    BY <2>2 DEF OrderCreated, giftVars, moneyVars
  <2>3. ASSUME RecordPayment(p) PROVE GiftInv'
    BY <2>3 DEF RecordPayment, TypeOK, giftVars
  <2> QED
    BY <1>2, <2>1, <2>2, <2>3 DEF GiftStep
<1>3. ASSUME NEW p \in Worker, Abort(p) PROVE GiftInv'
  BY <1>3 DEF Abort, giftVars, moneyVars
<1>4. ASSUME NEW s \in Slot, UpdateSlot(s) PROVE GiftInv'
  BY <1>4 DEF UpdateSlot, giftVars, moneyVars
<1>5. ASSUME NEW d \in Donation, DonateDirect(d) PROVE GiftInv'
  BY <1>5 DEF DonateDirect, TypeOK
<1>6. ASSUME NEW x \in Donation \cup Booking, PaymentStep(x) PROVE GiftInv'
  <2>1. CASE Capture(x) /\ x \in Donation
    BY <2>1 DEF Capture, FulfilDonation, NeedsReceipt, TypeOK
  <2>2. CASE Capture(x) /\ x \in Booking
    BY <2>2 DEF Capture, giftVars, TypeOK
  <2>3. CASE ClosePayment(x)
    BY <2>3 DEF ClosePayment, ClosedAs, giftVars, TypeOK
  <2>4. CASE RefundPayment(x)
    BY <2>4 DEF RefundPayment, giftVars, TypeOK
  <2> QED
    BY <1>6, <2>1, <2>2, <2>3, <2>4 DEF PaymentStep
<1>7. CASE UNCHANGED vars
  BY <1>7 DEF vars, giftVars, moneyVars
<1> QED
  BY <1>1, <1>2, <1>3, <1>4, <1>5, <1>6, <1>7 DEF Next

(* A donation has one receipt exactly if it succeeded, it succeeded        *)
(* exactly if the gateway was paid for it or its maker called it direct,   *)
(* and no payment of it that succeeded or was refunded leaves it waiting,  *)
(* for any number of requests, attempts and repeated events                *)
(* (createDonation, fulfillEntityOnSuccess): DonationSettled.              *)
THEOREM DonationsSettle == Spec => []DonationSettled
<1>1. GiftInv => DonationSettled
  BY DEF GiftInv, DonationSettled
<1> QED
  BY <1>1, InitGiftInv, NextGiftInv, TypeCorrect, PTL DEF Spec

----------------------------------------------------------------------------
(* Meals: what a request read of its booking still holds when it commits.  *)

Paid(b) == payment[b] = "NONE" \/ b \in captured

MealInv ==
  /\ \A b \in Booking :
       /\ dining[b] = "ABSENT" => payment[b] = "NONE" /\ b \notin captured
       /\ dining[b] \in {"CONFIRMED", "COMPLETED"} => Paid(b)
  /\ \A p \in Worker :
       /\ req[p].op = "book" => dining[req[p].b] = "ABSENT"
       /\ req[p].op \in {"cancel", "checkIn"} => dining[req[p].b] # "ABSENT"
       /\ req[p].op = "checkIn" => Paid(req[p].b)
  /\ \A p, q \in Worker :
       req[p].op = "book" /\ req[q].op = "book" /\ req[p].b = req[q].b => p = q

LEMMA InitMealInv == Init => MealInv
  BY DEF Init, MealInv, Idle, Paid

\* Steps that leave the bookings and their payments alone.
LEMMA MealsUntouched ==
  ASSUME MealInv, UNCHANGED <<dining, captured>>,
         \A b \in Booking : payment'[b] = payment[b],
         \A p \in Worker : req'[p] = req[p] \/ req'[p].op \in {"idle", "order", "record"},
         \A p \in Worker : req[p].op \in {"book", "cancel", "checkIn"} => req[p].b \in Booking
  PROVE  MealInv'
BY DEF MealInv, Paid

LEMMA MealStepMealInv ==
  ASSUME TypeOK, MealInv, NEW p \in Worker, MealStep(p)
  PROVE  MealInv'
<1> USE DEF MealInv, Paid, moneyVars
<1>0. \A q \in Worker : req[q].op \in {"book", "cancel", "checkIn"} => req[q].b \in Booking
  BY RequestParts
<1>1. ASSUME NEW b \in Booking, BookRead(p, b) PROVE MealInv'
  <2>1. \A q \in Worker : req'[q] = IF q = p THEN [op |-> "book", b |-> b,
                             seen |-> capacity[SlotOf[b]]] ELSE req[q]
    BY <1>1 DEF BookRead, Begin, TypeOK
  <2>2. dining' = dining /\ payment' = payment /\ captured' = captured
    BY <1>1 DEF BookRead, mealVars
  <2>3. dining[b] = "ABSENT"
    BY <1>1 DEF BookRead
  <2>4. \A q \in Worker : req[q].op = "book" => req[q].b # b
    BY <1>1 DEF BookRead, WorksOn
  <2> QED
    BY <2>1, <2>2, <2>3, <2>4
<1>2. ASSUME NEW b \in Booking, CancelRead(p, b) PROVE MealInv'
  <2>1. \A q \in Worker : req'[q] = IF q = p THEN [op |-> "cancel", b |-> b] ELSE req[q]
    BY <1>2 DEF CancelRead, Begin, TypeOK
  <2>2. dining' = dining /\ payment' = payment /\ captured' = captured
    BY <1>2 DEF CancelRead
  <2>3. dining[b] # "ABSENT"
    BY <1>2 DEF CancelRead, Cancellable
  <2> QED
    BY <2>1, <2>2, <2>3
<1>3. ASSUME NEW b \in Booking, CheckInRead(p, b) PROVE MealInv'
  <2>1. \A q \in Worker : req'[q] = IF q = p THEN [op |-> "checkIn", b |-> b] ELSE req[q]
    BY <1>3 DEF CheckInRead, Begin, TypeOK
  <2>2. dining' = dining /\ payment' = payment /\ captured' = captured
    BY <1>3 DEF CheckInRead
  <2>3. dining[b] = "CONFIRMED"
    BY <1>3 DEF CheckInRead, Admissible
  <2> QED
    BY <2>1, <2>2, <2>3
<1>4. ASSUME NEW free \in BOOLEAN, BookCommit(p, free) PROVE MealInv'
  <2> DEFINE b == req[p].b
  <2>1. b \in Booking /\ req[p].op = "book" /\ dining[b] = "ABSENT" /\ payment[b] = "NONE"
    BY <1>4, <1>0 DEF BookCommit, Running
  <2>2. /\ \A q \in Worker : req'[q] = IF q = p THEN Idle ELSE req[q]
        /\ captured' = captured
    BY <1>4 DEF BookCommit, Finish, TypeOK
  <2>3. \A c \in Booking : c # b => dining'[c] = dining[c] /\ payment'[c] = payment[c]
    BY <1>4 DEF BookCommit, TypeOK
  <2>4. \/ dining'[b] = "CONFIRMED" /\ payment'[b] = payment[b]
        \/ dining'[b] = "PENDING_PAYMENT"
    BY <1>4, <2>1 DEF BookCommit, TypeOK
  <2>5. \A q \in Worker : q # p /\ req[q].op \in {"book", "cancel", "checkIn"} => req[q].b # b
    BY <2>1
  <2> QED
    BY <1>0, <2>1, <2>2, <2>3, <2>4, <2>5 DEF Idle
<1>5. ASSUME CancelCommit(p) \/ CheckInCommit(p) PROVE MealInv'
  <2> DEFINE b == req[p].b
  <2>1. b \in Booking /\ dining[b] # "ABSENT"
    BY <1>5, <1>0 DEF CancelCommit, CheckInCommit, Running
  <2>2. /\ \A q \in Worker : req'[q] = IF q = p THEN Idle ELSE req[q]
        /\ payment' = payment /\ captured' = captured
    BY <1>5 DEF CancelCommit, CheckInCommit, Finish, TypeOK
  <2>3. \A c \in Booking : c # b => dining'[c] = dining[c]
    BY <1>5 DEF CancelCommit, CheckInCommit, TypeOK
  <2>4. \/ dining'[b] = "CANCELLED"
        \/ dining'[b] = "COMPLETED" /\ Paid(b)
    BY <1>5, <2>1 DEF CancelCommit, CheckInCommit, Running, TypeOK
  <2> QED
    BY <1>0, <2>1, <2>2, <2>3, <2>4 DEF Idle
<1> QED
  BY <1>1, <1>2, <1>3, <1>4, <1>5 DEF MealStep

LEMMA NextMealInv == TypeOK /\ MealInv /\ [Next]_vars => MealInv'
<1> SUFFICES ASSUME TypeOK, MealInv, [Next]_vars PROVE MealInv'
  OBVIOUS
<1>0. \A q \in Worker : req[q].op \in {"book", "cancel", "checkIn"} => req[q].b \in Booking
  BY RequestParts
<1>1. ASSUME NEW p \in Worker, GiftStep(p) \/ Abort(p) PROVE MealInv'
  <2>1. dining' = dining /\ captured' = captured
    BY <1>1 DEF GiftStep, DonateOnline, OrderCreated, RecordPayment, Abort, mealVars, moneyVars
  <2>2. \A b \in Booking : payment'[b] = payment[b]
    <3>1. CASE RecordPayment(p)
      <4>1. req[p].d \in Donation
        BY <3>1, RequestParts DEF RecordPayment, Running
      <4> QED
        BY <3>1, <4>1 DEF RecordPayment, TypeOK
    <3> QED
      BY <1>1, <3>1 DEF GiftStep, DonateOnline, OrderCreated, Abort, moneyVars
  <2>3. \A q \in Worker : req'[q] = req[q] \/ req'[q].op \in {"idle", "order", "record"}
    BY <1>1 DEF GiftStep, DonateOnline, OrderCreated, RecordPayment, Abort, Begin, Finish,
      Idle, TypeOK
  <2> QED
    BY <1>0, <2>1, <2>2, <2>3, MealsUntouched
<1>2. ASSUME NEW s \in Slot, UpdateSlot(s) PROVE MealInv'
  BY <1>0, <1>2, MealsUntouched DEF UpdateSlot, mealVars, moneyVars
<1>3. ASSUME NEW d \in Donation, DonateDirect(d) PROVE MealInv'
  <2>1. \A b \in Booking : payment'[b] = payment[b] /\ (b \in captured' <=> b \in captured)
    BY <1>3 DEF DonateDirect, TypeOK
  <2> QED
    BY <1>0, <1>3, <2>1 DEF DonateDirect, mealVars, MealInv, Paid
<1>4. ASSUME NEW x \in Donation \cup Booking, PaymentStep(x) PROVE MealInv'
  <2>1. dining' = dining /\ req' = req /\ captured \subseteq captured'
    BY <1>4 DEF PaymentStep, Capture, ClosePayment, RefundPayment, mealVars
  <2>2. \A b \in Booking : Paid(b) => Paid(b)'
    <3>1. CASE Capture(x)
      BY <3>1 DEF Capture, HasOrder, Paid, TypeOK
    <3>2. CASE ClosePayment(x)
      BY <3>2 DEF ClosePayment, HasOrder, Paid, TypeOK
    <3>3. CASE RefundPayment(x)
      BY <3>3 DEF RefundPayment, Paid, TypeOK
    <3> QED
      BY <1>4, <3>1, <3>2, <3>3 DEF PaymentStep
  <2>3. \A b \in Booking :
          dining[b] = "ABSENT" => payment'[b] = "NONE" /\ b \notin captured'
    <3> SUFFICES ASSUME NEW b \in Booking, dining[b] = "ABSENT"
                 PROVE  payment'[b] = "NONE" /\ b \notin captured'
      OBVIOUS
    <3>1. payment[b] = "NONE" /\ b \notin captured /\ b \notin direct
      BY OfferingsAssumption DEF MealInv, TypeOK
    <3>2. x # b
      BY <1>4, <3>1 DEF PaymentStep, Capture, ClosePayment, RefundPayment, HasOrder
    <3> QED
      BY <1>4, <3>1, <3>2 DEF PaymentStep, Capture, ClosePayment, RefundPayment, TypeOK
  <2> QED
    BY <1>0, <2>1, <2>2, <2>3 DEF MealInv
<1>5. CASE UNCHANGED vars
  BY <1>5 DEF vars, mealVars, moneyVars, MealInv, Paid
<1> QED
  BY <1>1, <1>2, <1>3, <1>4, <1>5, MealStepMealInv DEF Next

(* Nobody is admitted to a meal that costs something without paying, for   *)
(* any number of bookings, requests and payment events (bookSlot,          *)
(* adminCheckIn): DinersPaid.                                              *)
THEOREM DinersPay == Spec => []DinersPaid
<1>1. MealInv => DinersPaid
  BY DEF MealInv, DinersPaid, Paid
<1> QED
  BY <1>1, InitMealInv, NextMealInv, TypeCorrect, PTL DEF Spec
----------------------------------------------------------------------------
(* Seats.  What one booking adds to, or takes from, the plates.            *)

LEMMA PlatesOfOne ==
  ASSUME NEW b \in Booking
  PROVE  /\ IsFiniteSet({b} \X (1 .. People[b]))
         /\ Cardinality({b} \X (1 .. People[b])) = People[b]
<1>1. IsFiniteSet({b}) /\ Cardinality({b}) = 1
  BY FS_Singleton
<1>2. People[b] \in Nat /\ People[b] > 0
  OBVIOUS
<1>3. IsFiniteSet(1 .. People[b]) /\ Cardinality(1 .. People[b]) = People[b]
  BY <1>2, FS_Interval
<1> QED
  BY <1>1, <1>2, <1>3, FS_Product

LEMMA PlatesAdded ==
  ASSUME NEW S \in SUBSET Booking, NEW b \in Booking \ S, IsFiniteSet(Plates(S))
  PROVE  /\ IsFiniteSet(Plates(S \cup {b}))
         /\ Cardinality(Plates(S \cup {b})) = Cardinality(Plates(S)) + People[b]
<1> DEFINE U == {b} \X (1 .. People[b])
<1>1. Plates(S \cup {b}) = Plates(S) \cup U
  BY DEF Plates
<1>2. Plates(S) \cap U = {}
  BY DEF Plates
<1>3. IsFiniteSet(U) /\ Cardinality(U) = People[b]
  BY PlatesOfOne
<1> HIDE DEF U
<1>4. Cardinality(Plates(S)) \in Nat /\ People[b] \in Nat
  BY FS_CardinalityType
<1>5. Cardinality(Plates(S) \cap U) = 0
  BY <1>2, FS_EmptySet
<1>6. /\ IsFiniteSet(Plates(S) \cup U)
      /\ Cardinality(Plates(S) \cup U)
           = Cardinality(Plates(S)) + Cardinality(U) - Cardinality(Plates(S) \cap U)
  BY <1>3, FS_Union
<1>7. Cardinality(Plates(S) \cup U) = Cardinality(Plates(S)) + People[b]
  BY <1>3, <1>4, <1>5, <1>6
<1> QED
  BY <1>1, <1>6, <1>7

LEMMA PlatesRemoved ==
  ASSUME NEW S \in SUBSET Booking, NEW b \in S, IsFiniteSet(Plates(S))
  PROVE  /\ IsFiniteSet(Plates(S \ {b}))
         /\ Cardinality(Plates(S \ {b})) = Cardinality(Plates(S)) - People[b]
<1> DEFINE R == S \ {b}
<1>1. Plates(R) \subseteq Plates(S)
  BY DEF Plates
<1>2. IsFiniteSet(Plates(R))
  BY <1>1, FS_Subset
<1>3. R \cup {b} = S /\ R \in SUBSET Booking /\ b \in Booking \ R
  OBVIOUS
<1> HIDE DEF R
<1>4. Cardinality(Plates(S)) = Cardinality(Plates(R)) + People[b]
  BY <1>2, <1>3, PlatesAdded
<1>5. Cardinality(Plates(R)) \in Nat /\ People[b] \in Nat
  BY <1>2, <1>3, FS_CardinalityType
<1>6. Cardinality(Plates(R)) = Cardinality(Plates(S)) - People[b]
  BY <1>4, <1>5
<1> QED
  BY <1>2, <1>6 DEF R

\* No booking of the session was worked on by two requests at once.
Calm(s) == \A b \in contested : SlotOf[b] # s

SessionInv ==
  \A s \in Slot :
    /\ capacity[s] <= peak[s]
    /\ Calm(s) =>
         /\ IsFiniteSet(Plates(Eating(s)))
         /\ booked[s] = Cardinality(Plates(Eating(s)))
         /\ booked[s] <= peak[s]

\* What a request read still holds: the capacity was one the session had,
\* and only a second request could have moved the booking.
RequestInv ==
  /\ \A p \in Worker :
       /\ req[p].op = "book" => req[p].seen <= peak[SlotOf[req[p].b]]
       /\ req[p].op = "cancel" /\ req[p].b \notin contested => Cancellable(req[p].b)
       /\ req[p].op = "checkIn" /\ req[p].b \notin contested => Admissible(req[p].b)
  /\ \A p, q \in Worker : \A b \in Booking :
       WorksOn(p, b) /\ WorksOn(q, b) => p = q \/ b \in contested

SeatInv == SessionInv /\ RequestInv

LEMMA InitSeatInv == Init => SeatInv
<1> SUFFICES ASSUME Init PROVE SeatInv
  OBVIOUS
<1>1. ASSUME NEW s \in Slot
      PROVE  /\ capacity[s] <= peak[s] /\ booked[s] <= peak[s]
             /\ IsFiniteSet(Plates(Eating(s)))
             /\ booked[s] = Cardinality(Plates(Eating(s)))
  <2>1. Eating(s) = {}
    BY DEF Init, Eating
  <2>2. Plates(Eating(s)) = {}
    BY <2>1 DEF Plates
  <2>3. capacity[s] \in Nat /\ peak[s] = capacity[s] /\ booked[s] = 0
    BY DEF Init
  <2> QED
    BY <2>2, <2>3, FS_EmptySet
<1>2. SessionInv
  BY <1>1 DEF SessionInv
<1>3. RequestInv
  BY DEF Init, Idle, RequestInv, WorksOn
<1> QED
  BY <1>2, <1>3 DEF SeatInv

\* Steps that move no booking keep the count, whatever becomes contested.
LEMMA SessionsKept ==
  ASSUME TypeOK, TypeOK', SessionInv,
         UNCHANGED <<booked, dining>>, contested \subseteq contested',
         \A s \in Slot : capacity'[s] <= peak'[s] /\ peak[s] <= peak'[s]
  PROVE  SessionInv'
<1> SUFFICES ASSUME NEW s \in Slot, Calm(s)'
             PROVE  /\ IsFiniteSet(Plates(Eating(s)'))
                    /\ booked'[s] = Cardinality(Plates(Eating(s)'))
                    /\ booked'[s] <= peak'[s]
  BY DEF SessionInv, Plates
<1>1. Calm(s) /\ Eating(s)' = Eating(s)
  BY DEF Calm, Eating
<1>2. booked[s] \in Int /\ peak[s] \in Int /\ peak'[s] \in Int
  BY DEF TypeOK
<1> QED
  BY <1>1, <1>2 DEF SessionInv

\* Steps that neither start nor end a request on a booking, nor move one.
LEMMA RequestsKept ==
  ASSUME TypeOK, TypeOK', RequestInv,
         UNCHANGED <<dining, contested>>, \A s \in Slot : peak[s] <= peak'[s],
         \A p \in Worker : req'[p] = req[p] \/ req'[p].op \in {"idle", "order", "record"}
  PROVE  RequestInv'
<1>1. ASSUME NEW p \in Worker, req'[p].op = "book"
      PROVE  req'[p].seen <= peak'[SlotOf[req'[p].b]]
  <2>1. req'[p] = req[p]
    BY <1>1
  <2>2. req[p].seen \in Nat /\ SlotOf[req[p].b] \in Slot
    BY <1>1, <2>1, RequestParts
  <2>3. peak[SlotOf[req[p].b]] \in Nat /\ peak'[SlotOf[req[p].b]] \in Nat
    BY <2>2 DEF TypeOK
  <2> QED
    BY <1>1, <2>1, <2>2, <2>3 DEF RequestInv
<1> QED
  BY <1>1 DEF RequestInv, WorksOn, Cancellable, Admissible

\* The step of a request that read a booking.
LEMMA RequestBegins ==
  ASSUME TypeOK, RequestInv, NEW p \in Worker, NEW b \in Booking, NEW q \in Request,
         q.op \in {"book", "cancel", "checkIn"}, q.b = b,
         q.op = "book" => q.seen <= peak[SlotOf[b]] /\ ~\E w \in Worker : WorksOn(w, b),
         q.op = "cancel" => Cancellable(b), q.op = "checkIn" => Admissible(b),
         req' = [req EXCEPT ![p] = q],
         Contest(b) \/ (q.op = "book" /\ UNCHANGED contested), UNCHANGED <<dining, peak>>
  PROVE  RequestInv'
<1>1. \A w \in Worker : req'[w] = IF w = p THEN q ELSE req[w]
  BY DEF TypeOK
<1>2. contested \subseteq contested'
  BY DEF Contest
<1>3. ASSUME NEW v \in Worker, NEW w \in Worker, NEW c \in Booking, WorksOn(v, c)',
             WorksOn(w, c)', v # w
      PROVE  c \in contested'
  <2>1. CASE v # p /\ w # p
    BY <1>1, <1>2, <1>3, <2>1 DEF RequestInv, WorksOn
  <2>2. CASE v = p \/ w = p
    <3>1. c = b /\ \E u \in Worker : WorksOn(u, b)
      BY <1>1, <1>3, <2>2 DEF WorksOn
    <3> QED
      BY <3>1 DEF Contest
  <2> QED
    BY <2>1, <2>2
<1>4. ASSUME NEW w \in Worker
      PROVE  /\ req'[w].op = "book" => req'[w].seen <= peak'[SlotOf[req'[w].b]]
             /\ req'[w].op = "cancel" /\ req'[w].b \notin contested' => Cancellable(req[w].b)'
             /\ req'[w].op = "checkIn" /\ req'[w].b \notin contested' => Admissible(req[w].b)'
  BY <1>1, <1>2 DEF RequestInv, Cancellable, Admissible
<1> QED
  BY <1>3, <1>4 DEF RequestInv

\* The step of a request that commits: nobody else may count on its booking.
LEMMA RequestEnds ==
  ASSUME TypeOK, RequestInv, NEW p \in Worker, req[p].op \in {"book", "cancel", "checkIn"},
         Finish(p), UNCHANGED <<contested, peak>>,
         \A c \in Booking : c # req[p].b => dining'[c] = dining[c]
  PROVE  RequestInv'
<1>1. \A w \in Worker : req'[w] = IF w = p THEN Idle ELSE req[w]
  BY DEF Finish, TypeOK
<1>2. ASSUME NEW w \in Worker, req'[w].op \in {"cancel", "checkIn"}, req'[w].b \notin contested'
      PROVE  req[w] = req'[w] /\ req[w].b \in Booking /\ dining'[req[w].b] = dining[req[w].b]
  <2>1. w # p /\ req[w] = req'[w]
    BY <1>1, <1>2 DEF Idle
  <2>2. req[w].b \in Booking /\ req[p].b \in Booking
    BY <1>2, <2>1, RequestParts
  <2>3. req[w].b # req[p].b
    BY <1>2, <2>1, <2>2 DEF RequestInv, WorksOn
  <2> QED
    BY <2>1, <2>2, <2>3
<1>3. ASSUME NEW w \in Worker
      PROVE  /\ req'[w].op = "book" => req'[w].seen <= peak'[SlotOf[req'[w].b]]
             /\ req'[w].op = "cancel" /\ req'[w].b \notin contested' => Cancellable(req[w].b)'
             /\ req'[w].op = "checkIn" /\ req'[w].b \notin contested' => Admissible(req[w].b)'
  BY <1>1, <1>2 DEF RequestInv, Cancellable, Admissible, Idle
<1>4. \A v, w \in Worker : \A c \in Booking :
        WorksOn(v, c)' /\ WorksOn(w, c)' => v = w \/ c \in contested'
  BY <1>1 DEF RequestInv, WorksOn, Idle
<1> QED
  BY <1>3, <1>4 DEF RequestInv

LEMMA ReadsSeatInv ==
  ASSUME TypeOK, TypeOK', SeatInv, NEW p \in Worker, NEW b \in Booking,
         BookRead(p, b) \/ CancelRead(p, b) \/ CheckInRead(p, b)
  PROVE  SeatInv'
<1> USE DEF SeatInv
<1>1. UNCHANGED <<booked, dining, capacity, peak>> /\ contested \subseteq contested'
  BY DEF BookRead, CancelRead, CheckInRead, slotVars, mealVars, Contest
<1>2. SessionInv'
  <2>1. \A s \in Slot : capacity'[s] <= peak'[s] /\ peak[s] <= peak'[s]
    BY <1>1 DEF SessionInv, TypeOK
  <2> QED
    BY <1>1, <2>1, SessionsKept
<1>3. CASE BookRead(p, b)
  <2> DEFINE q == [op |-> "book", b |-> b, seen |-> capacity[SlotOf[b]]]
  <2>1. q.op = "book" /\ q.b = b /\ q.seen <= peak[SlotOf[b]] /\ q \in Request
    BY DEF SessionInv, Request, TypeOK
  <2>2. req' = [req EXCEPT ![p] = q] /\ UNCHANGED contested /\ ~\E w \in Worker : WorksOn(w, b)
    BY <1>3 DEF BookRead, Begin, mealVars
  <2> HIDE DEF q
  <2>3. RequestInv'
    BY <1>1, <2>1, <2>2, RequestBegins
  <2> QED
    BY <1>2, <2>3
<1>4. CASE CancelRead(p, b)
  <2> DEFINE q == [op |-> "cancel", b |-> b]
  <2>1. q.op = "cancel" /\ q.b = b /\ q \in Request
    BY DEF Request
  <2>2. req' = [req EXCEPT ![p] = q] /\ Contest(b) /\ Cancellable(b)
    BY <1>4 DEF CancelRead, Begin
  <2> HIDE DEF q
  <2>3. RequestInv'
    BY <1>1, <2>1, <2>2, RequestBegins
  <2> QED
    BY <1>2, <2>3
<1>5. CASE CheckInRead(p, b)
  <2> DEFINE q == [op |-> "checkIn", b |-> b]
  <2>1. q.op = "checkIn" /\ q.b = b /\ q \in Request
    BY DEF Request
  <2>2. req' = [req EXCEPT ![p] = q] /\ Contest(b) /\ Admissible(b)
    BY <1>5 DEF CheckInRead, Begin
  <2> HIDE DEF q
  <2>3. RequestInv'
    BY <1>1, <2>1, <2>2, RequestBegins
  <2> QED
    BY <1>2, <2>3
<1> QED
  BY <1>3, <1>4, <1>5

LEMMA CommitsSeatInv ==
  ASSUME TypeOK, TypeOK', MealInv, SeatInv, NEW p \in Worker,
         (\E free \in BOOLEAN : BookCommit(p, free)) \/ CancelCommit(p) \/ CheckInCommit(p)
  PROVE  SeatInv'
<1> DEFINE b == req[p].b
<1>0. b \in Booking /\ req[p].op \in {"book", "cancel", "checkIn"}
  BY RequestParts DEF BookCommit, CancelCommit, CheckInCommit, Running
<1>1. UNCHANGED <<capacity, peak, contested>> /\ Finish(p)
  BY DEF BookCommit, CancelCommit, CheckInCommit, slotVars
<1>2. \A c \in Booking : c # b => dining'[c] = dining[c]
  BY <1>0 DEF BookCommit, CancelCommit, CheckInCommit, TypeOK
<1>3. RequestInv'
  BY <1>0, <1>1, <1>2, RequestEnds DEF SeatInv
<1>4. ASSUME NEW s \in Slot, Calm(s)
      PROVE  /\ IsFiniteSet(Plates(Eating(s)'))
             /\ booked'[s] = Cardinality(Plates(Eating(s)'))
             /\ booked'[s] <= peak[s]
  <2>1. /\ IsFiniteSet(Plates(Eating(s))) /\ booked[s] = Cardinality(Plates(Eating(s)))
        /\ booked[s] <= peak[s] /\ booked[s] \in Int /\ peak[s] \in Nat
    BY <1>4 DEF SeatInv, SessionInv, TypeOK
  <2>2. CASE SlotOf[b] # s
    <3>1. Eating(s)' = Eating(s)
      BY <1>0, <1>2, <2>2 DEF Eating
    <3>2. booked'[s] = booked[s]
      BY <1>0, <2>2 DEF BookCommit, CancelCommit, CheckInCommit, TypeOK
    <3> QED
      BY <2>1, <3>1, <3>2
  <2>3. CASE SlotOf[b] = s
    <3>1. b \notin contested
      BY <1>4, <2>3 DEF Calm
    <3>2. ASSUME NEW free \in BOOLEAN, BookCommit(p, free)
          PROVE  /\ IsFiniteSet(Plates(Eating(s)'))
                 /\ booked'[s] = Cardinality(Plates(Eating(s)'))
                 /\ booked'[s] <= peak[s]
      <4>1. dining[b] = "ABSENT" /\ dining'[b] \in {"CONFIRMED", "PENDING_PAYMENT"}
        BY <1>0, <3>2 DEF BookCommit, Running, MealInv, TypeOK
      <4>2. Eating(s)' = Eating(s) \cup {b} /\ b \in Booking \ Eating(s)
        BY <1>0, <1>2, <2>3, <4>1 DEF Eating
      <4>3. /\ booked'[s] = booked[s] + People[b]
            /\ booked[s] <= req[p].seen - People[b] /\ req[p].seen <= peak[s]
            /\ req[p].seen \in Nat /\ People[b] \in Nat
        BY <1>0, <2>3, <3>2, RequestParts
           DEF BookCommit, Running, SeatInv, RequestInv, TypeOK
      <4>4. Eating(s) \in SUBSET Booking
        BY DEF Eating
      <4>5. /\ IsFiniteSet(Plates(Eating(s) \cup {b}))
            /\ Cardinality(Plates(Eating(s) \cup {b})) = Cardinality(Plates(Eating(s))) + People[b]
        BY <2>1, <4>2, <4>4, PlatesAdded
      <4> QED
        BY <2>1, <4>2, <4>3, <4>5
    <3>3. CASE CancelCommit(p)
      <4>1. Cancellable(b) /\ dining'[b] = "CANCELLED"
        BY <1>0, <3>1, <3>3 DEF CancelCommit, Running, SeatInv, RequestInv, TypeOK
      <4>2. Eating(s)' = Eating(s) \ {b} /\ b \in Eating(s)
        BY <1>0, <1>2, <2>3, <4>1 DEF Eating, Cancellable
      <4>3. booked'[s] = booked[s] - People[b] /\ People[b] \in Nat
        BY <1>0, <2>3, <3>3 DEF CancelCommit, TypeOK
      <4>4. Eating(s) \in SUBSET Booking
        BY DEF Eating
      <4>5. /\ IsFiniteSet(Plates(Eating(s) \ {b}))
            /\ Cardinality(Plates(Eating(s) \ {b})) = Cardinality(Plates(Eating(s))) - People[b]
        BY <2>1, <4>2, <4>4, PlatesRemoved
      <4> QED
        BY <2>1, <4>2, <4>3, <4>5
    <3>4. CASE CheckInCommit(p)
      <4>1. Admissible(b) /\ dining'[b] = "COMPLETED"
        BY <1>0, <3>1, <3>4 DEF CheckInCommit, Running, SeatInv, RequestInv, TypeOK
      <4>2. Eating(s)' = Eating(s)
        BY <1>0, <1>2, <2>3, <4>1 DEF Eating, Admissible
      <4>3. booked'[s] = booked[s]
        BY <3>4 DEF CheckInCommit
      <4> QED
        BY <2>1, <4>2, <4>3
    <3> QED
      BY <3>2, <3>3, <3>4
  <2> QED
    BY <2>2, <2>3
<1>5. SessionInv'
  BY <1>1, <1>4 DEF SeatInv, SessionInv, Calm, Plates
<1> QED
  BY <1>3, <1>5 DEF SeatInv

LEMMA NextSeatInv == TypeOK /\ TypeOK' /\ MealInv /\ SeatInv /\ [Next]_vars => SeatInv'
<1> SUFFICES ASSUME TypeOK, TypeOK', MealInv, SeatInv, [Next]_vars PROVE SeatInv'
  OBVIOUS
<1> USE DEF SeatInv
<1>0. \A s \in Slot : capacity[s] <= peak[s] /\ peak[s] <= peak[s]
  BY DEF SessionInv, TypeOK
<1>1. ASSUME NEW p \in Worker, MealStep(p) PROVE SeatInv'
  <2>1. CASE \E b \in Booking : BookRead(p, b) \/ CancelRead(p, b) \/ CheckInRead(p, b)
    BY <2>1, ReadsSeatInv
  <2>2. CASE (\E free \in BOOLEAN : BookCommit(p, free)) \/ CancelCommit(p) \/ CheckInCommit(p)
    BY <2>2, CommitsSeatInv
  <2> QED
    BY <1>1, <2>1, <2>2 DEF MealStep
<1>2. ASSUME NEW p \in Worker, GiftStep(p) \/ Abort(p) PROVE SeatInv'
  <2>1. UNCHANGED <<booked, dining, contested, capacity, peak>>
    BY <1>2 DEF GiftStep, DonateOnline, OrderCreated, RecordPayment, Abort, mealVars, slotVars
  <2>2. \A q \in Worker : req'[q] = req[q] \/ req'[q].op \in {"idle", "order", "record"}
    BY <1>2 DEF GiftStep, DonateOnline, OrderCreated, RecordPayment, Abort, Begin, Finish,
      Idle, TypeOK
  <2> QED
    BY <1>0, <2>1, <2>2, SessionsKept, RequestsKept
<1>3. ASSUME NEW s \in Slot, UpdateSlot(s) PROVE SeatInv'
  <2>1. PICK c \in Capacities :
          /\ capacity' = [capacity EXCEPT ![s] = c]
          /\ peak' = [peak EXCEPT ![s] = IF c > @ THEN c ELSE @]
    BY <1>3 DEF UpdateSlot
  <2>2. \A t \in Slot : capacity'[t] <= peak'[t] /\ peak[t] <= peak'[t]
    BY <1>0, <2>1 DEF TypeOK
  <2>3. UNCHANGED <<booked, dining, contested, req>>
    BY <1>3 DEF UpdateSlot, mealVars
  <2> QED
    BY <2>2, <2>3, SessionsKept, RequestsKept
<1>4. CASE \/ \E d \in Donation : DonateDirect(d)
           \/ \E x \in Donation \cup Booking : PaymentStep(x)
           \/ UNCHANGED vars
  <2>1. UNCHANGED <<booked, dining, contested, capacity, peak, req>>
    BY <1>4 DEF DonateDirect, PaymentStep, Capture, ClosePayment, RefundPayment, vars,
      mealVars, slotVars
  <2> QED
    BY <1>0, <2>1, SessionsKept, RequestsKept
<1> QED
  BY <1>1, <1>2, <1>3, <1>4 DEF Next

(* bookedCount is the number of people whose booking stands and never      *)
(* exceeds a capacity the session had, for any sessions, bookings and      *)
(* numbers of people and any number of requests, wherever no booking of    *)
(* the session was cancelled or admitted by two requests at once           *)
(* (bookSlot, adminCancelBooking, adminCheckIn): SeatsExplained.           *)
THEOREM SeatsAreExplained == Spec => []SeatsExplained
<1>1. SeatInv => SeatsExplained
  BY DEF SeatInv, SessionInv, SeatsExplained, Calm
<1>2. Spec => []MealInv
  BY InitMealInv, NextMealInv, TypeCorrect, PTL DEF Spec
<1> QED
  BY <1>1, <1>2, InitSeatInv, NextSeatInv, TypeCorrect, PTL DEF Spec
=============================================================================
