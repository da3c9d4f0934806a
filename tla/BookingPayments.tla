-------------------------- MODULE BookingPayments --------------------------
(***************************************************************************)
(* SlotBooking together with the payments of its bookings: PaymentService  *)
(* (order creation, webhook handler, reconciliation, refund) and, as its   *)
(* environment, the Cashfree gateway, which knows whether an order was     *)
(* paid and delivers one webhook event per payment attempt, again and      *)
(* again until it is answered with 2xx.                                    *)
(*                                                                         *)
(* A payment has one gateway order.  An order whose payment row was never  *)
(* committed is not modelled: its session id reached no client, so nobody  *)
(* can pay it.                                                             *)
(***************************************************************************)
EXTENDS SlotBooking

CONSTANTS
  Handler,     \* payment requests and webhook deliveries in flight
  Attempt,     \* payment attempts; the gateway's id of one is the event id
  AttemptOf,   \* the booking whose order an attempt tries to pay
  MaxRefunds   \* bound: refunds the gateway executes for one order

ASSUME PaymentAssumption ==
  /\ AttemptOf \in [Attempt -> Booking]
  /\ MaxRefunds \in Nat
  /\ LateCapture = TRUE
  /\ Closings = {"FAILED", "CANCELLED", "REFUNDED"}

VARIABLES
  order,       \* the gateway's order of each booking's payment
  outcome,     \* how each attempt ended, "OPEN" until it did
  refunds,     \* refunds the gateway executed for each order
  recorded,    \* attempts whose event has a PaymentEvent row
  acked,       \* attempts whose event was answered with 2xx
  applied,     \* history: fulfilments each event caused
  job          \* what each handler is doing

gatewayVars == <<order, outcome, refunds>>
eventVars == <<recorded, acked, applied>>
systemVars == <<vars, gatewayVars, eventVars, job>>

Unemployed == [op |-> "idle"]
SeenStatus == PaymentStatus \cup {"NONE"}
Job ==
  {Unemployed}
    \cup [op : {"pay", "lookup", "settle", "fail", "refund", "refunded"},
          b : Booking]
    \cup [op : {"hook", "recorded"}, e : Attempt, seen : SeenStatus]

SystemTypeOK ==
  /\ TypeOK
  /\ order \in [Booking -> {"NONE", "ACTIVE", "PAID", "EXPIRED"}]
  /\ outcome \in [Attempt -> {"OPEN", "SUCCESS", "FAILED", "USER_DROPPED"}]
  /\ refunds \in [Booking -> 0..MaxRefunds]
  /\ recorded \subseteq Attempt /\ acked \subseteq Attempt
  /\ applied \in [Attempt -> Nat]
  /\ job \in [Handler -> Job]

SystemInit ==
  /\ Init
  /\ order = [b \in Booking |-> "NONE"]
  /\ outcome = [e \in Attempt |-> "OPEN"]
  /\ refunds = [b \in Booking |-> 0]
  /\ recorded = {} /\ acked = {}
  /\ applied = [e \in Attempt |-> 0]
  /\ job = [h \in Handler |-> Unemployed]

Take(h, j) == job[h] = Unemployed /\ job' = [job EXCEPT ![h] = j]
Continue(h, op) == job' = [job EXCEPT ![h] = [job[h] EXCEPT !.op = op]]
Complete(h) == job' = [job EXCEPT ![h] = Unemployed]
Doing(h, op) == job[h].op = op

\* Mutant: the booking is left to a later transaction.
FulfilPaymentOnly(b) ==
  /\ payment' = [payment EXCEPT ![b] = "SUCCESS"]
  /\ UNCHANGED <<slotVars, status, qr, overdue, checkIns, req>>

\* The transaction of a successful payment: the payment row and the booking.
Fulfil(b) == PaymentCaptured(b)

ClosePayment(b, s) ==
  /\ payment' = [payment EXCEPT ![b] = s]
  /\ UNCHANGED <<slotVars, status, qr, overdue, checkIns, req>>

----------------------------------------------------------------------------
(* createPaymentForBooking                                                 *)

PayRead(h, b) ==
  /\ status[b] \notin {"ABSENT", "CONFIRMED"}
  /\ SlotOf[b] \notin DarshanSlot
  /\ Take(h, [op |-> "pay", b |-> b])
  /\ UNCHANGED <<vars, gatewayVars, eventVars>>

PayCommit(h) ==
  /\ Doing(h, "pay")
  /\ PaymentOpened(job[h].b)
  /\ order' = [order EXCEPT ![job[h].b] = "ACTIVE"]
  /\ Complete(h)
  /\ UNCHANGED <<outcome, refunds, eventVars>>

\* The booking has a payment row: a PENDING one is returned, and for any
\* other the insert violates the uniqueness of Payment.bookingId.
PayExisting(h) ==
  /\ Doing(h, "pay")
  /\ payment[job[h].b] # "NONE"
  /\ Complete(h)
  /\ UNCHANGED <<vars, gatewayVars, eventVars>>

----------------------------------------------------------------------------
(* The gateway.                                                            *)

AttemptEnds(e, o) ==
  /\ order[AttemptOf[e]] = "ACTIVE"
  /\ outcome[e] = "OPEN"
  /\ outcome' = [outcome EXCEPT ![e] = o]
  /\ order' = IF o = "SUCCESS" THEN [order EXCEPT ![AttemptOf[e]] = "PAID"] ELSE order
  /\ UNCHANGED <<vars, refunds, eventVars, job>>

OrderExpires(b) ==
  /\ order[b] = "ACTIVE"
  /\ order' = [order EXCEPT ![b] = "EXPIRED"]
  /\ UNCHANGED <<vars, outcome, refunds, eventVars, job>>

----------------------------------------------------------------------------
(* handleWebhook: look the event up and read the payment, record the       *)
(* event, then act on the payment status read before.                      *)

\* Mutant: an event is taken up although it has a PaymentEvent row.
NewAnyway(e) == TRUE

New(e) == e \notin recorded

\* Mutant: a known event is answered with 409 instead of 200.
HookKnownConflict(h, e) ==
  /\ job[h] = Unemployed
  /\ outcome[e] # "OPEN"
  /\ ~New(e)
  /\ UNCHANGED systemVars

HookKnown(h, e) ==
  /\ job[h] = Unemployed
  /\ outcome[e] # "OPEN"
  /\ e \notin acked
  /\ ~New(e)
  /\ acked' = acked \cup {e}
  /\ UNCHANGED <<vars, gatewayVars, recorded, applied, job>>

HookRead(h, e) ==
  /\ outcome[e] # "OPEN"
  /\ New(e)
  /\ Take(h, [op |-> "hook", e |-> e, seen |-> payment[AttemptOf[e]]])
  /\ UNCHANGED <<vars, gatewayVars, eventVars>>

\* PaymentEvent.razorpayEventId is unique; this insert commits on its own.
HookRecord(h) ==
  /\ Doing(h, "hook")
  /\ New(job[h].e)
  /\ recorded' = recorded \cup {job[h].e}
  /\ Continue(h, "recorded")
  /\ UNCHANGED <<vars, gatewayVars, acked, applied>>

HookDuplicate(h) ==
  /\ Doing(h, "hook")
  /\ ~New(job[h].e)
  /\ Complete(h)
  /\ UNCHANGED <<vars, gatewayVars, eventVars>>

\* Mutant: a failed attempt counts as a payment.
AnyOutcome(h) == TRUE

ReportsSuccess(h) == outcome[job[h].e] = "SUCCESS"

\* Mutant: the gateway's word is stored as it is.
ClosedAsReported(e) == outcome[e]

ClosedAs(e) == IF outcome[e] = "FAILED" THEN "FAILED" ELSE "CANCELLED"

HookFulfil(h) ==
  /\ Doing(h, "recorded")
  /\ ReportsSuccess(h)
  /\ job[h].seen # "SUCCESS"
  /\ Fulfil(AttemptOf[job[h].e])
  /\ applied' = [applied EXCEPT ![job[h].e] = @ + 1]
  /\ acked' = acked \cup {job[h].e}
  /\ Complete(h)
  /\ UNCHANGED <<gatewayVars, recorded>>

HookClose(h) ==
  /\ Doing(h, "recorded")
  /\ ~ReportsSuccess(h)
  /\ job[h].seen # "SUCCESS"
  /\ ClosePayment(AttemptOf[job[h].e], ClosedAs(job[h].e))
  /\ acked' = acked \cup {job[h].e}
  /\ Complete(h)
  /\ UNCHANGED <<gatewayVars, recorded, applied>>

HookNothing(h) ==
  /\ Doing(h, "recorded")
  /\ job[h].seen = "SUCCESS"
  /\ acked' = acked \cup {job[h].e}
  /\ Complete(h)
  /\ UNCHANGED <<vars, gatewayVars, recorded, applied>>

----------------------------------------------------------------------------
(* reconcilePayment: read the payment, ask the gateway, act.               *)

\* Mutant: only a PENDING payment is looked up.
StillPending(b) == payment[b] = "PENDING"

Unsettled(b) == payment[b] \notin {"NONE", "SUCCESS"}

ReconcileRead(h, b) ==
  /\ Unsettled(b)
  /\ Take(h, [op |-> "lookup", b |-> b])
  /\ UNCHANGED <<vars, gatewayVars, eventVars>>

ReconcileFetch(h) ==
  /\ Doing(h, "lookup")
  /\ CASE order[job[h].b] = "PAID" -> Continue(h, "settle")
       [] order[job[h].b] = "EXPIRED" -> Continue(h, "fail")
       [] OTHER -> Complete(h)
  /\ UNCHANGED <<vars, gatewayVars, eventVars>>

ReconcileSettle(h) ==
  /\ Doing(h, "settle")
  /\ Fulfil(job[h].b)
  /\ Complete(h)
  /\ UNCHANGED <<gatewayVars, eventVars>>

ReconcileFail(h) ==
  /\ Doing(h, "fail")
  /\ ClosePayment(job[h].b, "FAILED")
  /\ Complete(h)
  /\ UNCHANGED <<gatewayVars, eventVars>>

----------------------------------------------------------------------------
(* refundPayment: check, refund at the gateway, record.                    *)

RefundRead(h, b) ==
  /\ payment[b] = "SUCCESS"
  /\ Take(h, [op |-> "refund", b |-> b])
  /\ UNCHANGED <<vars, gatewayVars, eventVars>>

\* Mutant: a refund the gateway did not execute is taken for one.
RefundAssumed(h) ==
  /\ Doing(h, "refund")
  /\ Continue(h, "refunded")
  /\ UNCHANGED <<vars, gatewayVars, eventVars>>

RefundIssue(h) ==
  /\ Doing(h, "refund")
  /\ refunds[job[h].b] < MaxRefunds
  /\ refunds' = [refunds EXCEPT ![job[h].b] = @ + 1]
  /\ Continue(h, "refunded")
  /\ UNCHANGED <<vars, order, outcome, eventVars>>

RefundRecord(h) ==
  /\ Doing(h, "refunded")
  /\ ClosePayment(job[h].b, "REFUNDED")
  /\ Complete(h)
  /\ UNCHANGED <<gatewayVars, eventVars>>

\* A crash, an aborted transaction or a failed gateway call.
Fail(h) ==
  /\ job[h] # Unemployed
  /\ Complete(h)
  /\ UNCHANGED <<vars, gatewayVars, eventVars>>

----------------------------------------------------------------------------
WebhookStep(h) ==
  \/ \E e \in Attempt : HookKnown(h, e) \/ HookRead(h, e)
  \/ HookRecord(h) \/ HookDuplicate(h)
  \/ HookFulfil(h) \/ HookClose(h) \/ HookNothing(h)

RequestStep(h) ==
  \/ \E b \in Booking : PayRead(h, b) \/ ReconcileRead(h, b) \/ RefundRead(h, b)
  \/ PayCommit(h) \/ PayExisting(h)
  \/ ReconcileFetch(h) \/ ReconcileSettle(h) \/ ReconcileFail(h)
  \/ RefundIssue(h) \/ RefundRecord(h)

GatewayStep ==
  \/ \E e \in Attempt, o \in {"SUCCESS", "FAILED", "USER_DROPPED"} :
       AttemptEnds(e, o)
  \/ \E b \in Booking : OrderExpires(b)

SystemNext ==
  \/ /\ BookingServiceStep \/ Environment
     /\ UNCHANGED <<gatewayVars, eventVars, job>>
  \/ \E h \in Handler : WebhookStep(h) \/ RequestStep(h) \/ Fail(h)
  \/ GatewayStep

SystemSpec == SystemInit /\ [][SystemNext]_systemVars

(* No request hangs for ever: it goes on or it fails.                      *)
RequestsEnd ==
  \A h \in Handler :
    WF_systemVars(/\ job[h] # Unemployed
                  /\ WebhookStep(h) \/ RequestStep(h) \/ Fail(h))

(* The gateway delivers an event until it is answered, to an instance that *)
(* is not always busy, and not every delivery fails between recording the  *)
(* event and answering.                                                    *)
WebhookFairness ==
  \A e \in Attempt :
    /\ SF_systemVars(\E h \in Handler : HookKnown(h, e))
    /\ SF_systemVars(\E h \in Handler : HookRead(h, e))
    /\ SF_systemVars(\E h \in Handler : HookRecord(h) /\ job[h].e = e)

(* A client that left the checkout page polls the status of its payment    *)
(* until it is told the outcome, and not every poll fails half way.        *)
PollingFairness ==
  \A b \in Booking :
    /\ SF_systemVars(\E h \in Handler : ReconcileRead(h, b))
    /\ SF_systemVars(\E h \in Handler : ReconcileFetch(h) /\ job[h].b = b)
    /\ SF_systemVars(\E h \in Handler : ReconcileSettle(h) /\ job[h].b = b)

FairSystemSpec ==
  SystemSpec /\ RequestsEnd /\ WebhookFairness /\ PollingFairness

----------------------------------------------------------------------------
(* Properties.                                                             *)

(* Payment and booking change together: no reader ever finds a payment     *)
(* that succeeded (or was refunded since) and a booking that still waits   *)
(* for it, whatever crashes, refunds and expiries come in between.         *)
CapturedMeansConfirmed ==
  \A b \in Booking :
    payment[b] \in {"SUCCESS", "REFUNDED"} => status[b] # "PENDING_PAYMENT"

(* Nobody holds a confirmed paid booking, or a payment recorded as         *)
(* successful, whose gateway order was not paid.                           *)
NothingForFree ==
  \A b \in Booking :
    \/ payment[b] \in {"SUCCESS", "REFUNDED"}
    \/ status[b] = "CONFIRMED" /\ SlotOf[b] \notin DarshanSlot
    => order[b] = "PAID"

(* One webhook event fulfils at most once, however often it is delivered,  *)
(* to however many instances at once, and across restarts.                 *)
(* docs/FINAL_ADVERSARIAL_AUDIT.md:144 claims it of replays.               *)
OneFulfilmentPerEvent == \A e \in Attempt : applied[e] <= 1

(* A payment recorded as refunded was refunded at the gateway, although    *)
(* the two are separate steps that can fail in between.                    *)
RefundedMeansReturned ==
  \A b \in Booking : payment[b] = "REFUNDED" => refunds[b] > 0

(* Every webhook event is answered in the end: redelivery terminates even  *)
(* when instances crash and deliveries overlap.                            *)
EveryEventAnswered ==
  \A e \in Attempt : outcome[e] # "OPEN" ~> e \in acked

(* A client that keeps polling sees its paid order become SUCCESS, even if *)
(* the webhook was lost, a late failure overwrote it or the clean-up       *)
(* cancelled the payment meanwhile.                                        *)
PaidIsSettledByPolling ==
  \A b \in Booking : order[b] = "PAID" ~> payment[b] = "SUCCESS"
=============================================================================
