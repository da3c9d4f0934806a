----------------------------- MODULE PrasadShop -----------------------------
(***************************************************************************)
(* The prasad shop: products with a stock and a reservedStock, orders that *)
(* reserve what they want, payments that take it from stock, and the       *)
(* clean-up that releases what nobody paid for.                            *)
(*                                                                         *)
(* Steps are those of PostgreSQL at READ COMMITTED, as in SlotBooking.  An *)
(* order is placed by conditional UPDATEs that keep their row locks until  *)
(* the commit, so placing is one step, whatever the number of its items.   *)
(* A fulfilment first updates, and so locks, the payment row, then reads   *)
(* the order, then commits: fulfilments of one payment exclude each other  *)
(* and any other write to that row.                                        *)
(***************************************************************************)
EXTENDS Integers, FiniteSets

CONSTANTS
  Product,      \* product rows
  Order,        \* identifiers of orders, fresh until placed
  Items,        \* how many of each product an order wants, 0 for none
  Stocks,       \* the stock levels an administrator may enter
  StatusEdits,  \* the statuses an administrator may ask for
  Desk,         \* payment handlers and stock administrators at work
  Cleaner,      \* clean-up passes at work
  Closings,     \* the statuses a payment may be closed with
  MaxReopenings \* bound: how often each order is set back to PLACED

ASSUME ShopAssumption ==
  /\ Items \in [Order -> [Product -> Nat]]
  /\ Stocks \subseteq Nat
  /\ MaxReopenings \in [Order -> Nat]

ASSUME ClosingsAssumption == Closings \subseteq {"FAILED", "CANCELLED", "REFUNDED"}

VARIABLES
  stock,        \* stock of each product
  reserved,     \* its reservedStock
  onSale,       \* the products whose isActive is true
  status,       \* status of each order, "ABSENT" before it is placed
  payment,      \* status of each order's payment row, "NONE" without one
  overdue,      \* orders older than the clean-up's cutoff
  taken,        \* history: how often the items of an order left the stock
  freed,        \* history: how often a clean-up pass released an order
  reopened,     \* history: how often an order was set back to PLACED
  entered,      \* history: the products whose stock was entered by hand
  req           \* what each desk and each cleaner is doing

shelfVars == <<stock, reserved, onSale, entered>>
orderVars == <<status, payment, overdue, taken, freed, reopened>>
vars == <<shelfVars, orderVars, req>>

OrderStatus == {"PLACED", "CONFIRMED", "PACKED", "SHIPPED", "DELIVERED", "CANCELLED"}
PaymentStatus == {"PENDING", "SUCCESS", "FAILED", "CANCELLED", "REFUNDED"}

Idle == [op |-> "idle"]
Request ==
  {Idle}
    \cup [op : {"fulfil"}, o : Order, placed : BOOLEAN]
    \cup [op : {"stock"}, p : Product, level : Stocks]
    \cup [op : {"expiring"}, todo : SUBSET Order, unpaid : SUBSET Order]
    \cup [op : {"expire"}, o : Order, todo : SUBSET Order, unpaid : SUBSET Order]

TypeOK ==
  /\ stock \in [Product -> Int] /\ reserved \in [Product -> Int]
  /\ onSale \subseteq Product /\ entered \subseteq Product
  /\ status \in [Order -> OrderStatus \cup {"ABSENT"}]
  /\ payment \in [Order -> PaymentStatus \cup {"NONE"}]
  /\ overdue \subseteq Order
  /\ taken \in [Order -> Nat] /\ freed \in [Order -> Nat] /\ reopened \in [Order -> Nat]
  /\ req \in [Desk \cup Cleaner -> Request]

Init ==
  /\ stock \in [Product -> Stocks]
  /\ reserved = [p \in Product |-> 0]
  /\ onSale = Product
  /\ status = [o \in Order |-> "ABSENT"]
  /\ payment = [o \in Order |-> "NONE"]
  /\ overdue = {} /\ entered = {}
  /\ taken = [o \in Order |-> 0] /\ freed = [o \in Order |-> 0]
  /\ reopened = [o \in Order |-> 0]
  /\ req = [d \in Desk \cup Cleaner |-> Idle]

Begin(d, r) == req[d] = Idle /\ req' = [req EXCEPT ![d] = r]
Finish(d) == req' = [req EXCEPT ![d] = Idle]
Running(d, op) == req[d].op = op

----------------------------------------------------------------------------
(* createOrder                                                             *)

\* Mutant: what is promised to other orders counts as available.
AvailableOnShelf(o, p) == p \in onSale /\ stock[p] >= Items[o][p]

\* WHERE isActive AND stock - reservedStock >= quantity
Available(o, p) == p \in onSale /\ stock[p] - reserved[p] >= Items[o][p]

PlaceOrder(o) ==
  /\ status[o] = "ABSENT"
  /\ \A p \in Product : Items[o][p] > 0 => Available(o, p)
  /\ reserved' = [p \in Product |-> reserved[p] + Items[o][p]]
  /\ status' = [status EXCEPT ![o] = "PLACED"]
  /\ UNCHANGED <<stock, onSale, entered, payment, overdue, taken, freed, reopened, req>>

\* createPaymentForPrasadOrder, which the same request calls once the order
\* is committed, long before the clean-up's cutoff.
OpenPayment(o) ==
  /\ status[o] # "ABSENT"
  /\ o \notin overdue
  /\ payment[o] = "NONE"
  /\ payment' = [payment EXCEPT ![o] = "PENDING"]
  /\ UNCHANGED <<shelfVars, status, overdue, taken, freed, reopened, req>>

----------------------------------------------------------------------------
(* Fulfilment, by the webhook or by reconciliation: each decided to fulfil *)
(* on a payment status it read before, so any payment may be fulfilled.    *)

\* Mutant: the payment row is written last, so nothing is locked.
NeverLocked(o) == FALSE

PaymentLocked(o) == \E d \in Desk : Running(d, "fulfil") /\ req[d].o = o

\* Mutant: only an order whose payment was never closed is confirmed.
PlacedAndPending(o) == status[o] = "PLACED" /\ payment[o] = "PENDING"

ToConfirm(o) == status[o] = "PLACED"

FulfilRead(d, o) ==
  /\ payment[o] # "NONE"
  /\ ~PaymentLocked(o)
  /\ Begin(d, [op |-> "fulfil", o |-> o, placed |-> ToConfirm(o)])
  /\ UNCHANGED <<shelfVars, orderVars>>

Take(o) ==
  /\ stock' = [p \in Product |-> stock[p] - Items[o][p]]
  /\ reserved' = [p \in Product |-> reserved[p] - Items[o][p]]
  /\ taken' = [taken EXCEPT ![o] = @ + 1]

FulfilCommit(d) ==
  /\ Running(d, "fulfil")
  /\ LET o == req[d].o
     IN  /\ payment' = [payment EXCEPT ![o] = "SUCCESS"]
         /\ IF req[d].placed
              THEN /\ status' = [status EXCEPT ![o] = "CONFIRMED"]
                   /\ Take(o)
              ELSE UNCHANGED <<status, stock, reserved, taken>>
  /\ Finish(d)
  /\ UNCHANGED <<onSale, entered, overdue, freed, reopened>>

\* Failed and dropped attempts, written over any status because the one they
\* decided on may be out of date; refunds of what succeeded.
ClosePayment(o) ==
  /\ payment[o] # "NONE"
  /\ ~PaymentLocked(o)
  /\ \E s \in Closings :
       /\ s = "REFUNDED" => payment[o] = "SUCCESS"
       /\ payment' = [payment EXCEPT ![o] = s]
  /\ UNCHANGED <<shelfVars, status, overdue, taken, freed, reopened, req>>

----------------------------------------------------------------------------
(* adjustStock and updateStock: the new level is computed from, and held   *)
(* against, a row read before; updateProduct writes any level unasked, or  *)
(* leaves the stock alone.                                                 *)

StockRead(d, p, n) ==
  /\ n >= reserved[p]
  /\ Begin(d, [op |-> "stock", p |-> p, level |-> n])
  /\ UNCHANGED <<shelfVars, orderVars>>

StockCommit(d) ==
  /\ Running(d, "stock")
  /\ stock' = [stock EXCEPT ![req[d].p] = req[d].level]
  /\ entered' = entered \cup {req[d].p}
  /\ Finish(d)
  /\ UNCHANGED <<reserved, onSale, orderVars>>

UpdateProduct(p, n, active) ==
  /\ stock' = [stock EXCEPT ![p] = n]
  /\ entered' = IF n = stock[p] THEN entered ELSE entered \cup {p}
  /\ onSale' = IF active THEN onSale \cup {p} ELSE onSale \ {p}
  /\ UNCHANGED <<reserved, orderVars, req>>

\* Mutant: the service's list of statuses is not held against the schema's.
OfferedStatus ==
  {"PLACED", "CONFIRMED", "PREPARING", "READY", "OUT_FOR_DELIVERY", "DELIVERED", "CANCELLED"}

\* Three statuses of validStatuses are not in the database's enum, which
\* rejects them; two of the enum are not in the list.
SettableStatus ==
  {"PLACED", "CONFIRMED", "PREPARING", "READY", "OUT_FOR_DELIVERY", "DELIVERED", "CANCELLED"}
    \cap OrderStatus

\* updateOrderStatus: any status from any other, and nothing else.  An order
\* set back to PLACED can be fulfilled, and expired, once more.
UpdateOrderStatus(o, s) ==
  /\ status[o] # "ABSENT"
  /\ s \in SettableStatus
  /\ status' = [status EXCEPT ![o] = s]
  /\ IF s = "PLACED" /\ status[o] # "PLACED"
       THEN /\ reopened[o] < MaxReopenings[o]
            /\ reopened' = [reopened EXCEPT ![o] = @ + 1]
       ELSE UNCHANGED reopened
  /\ UNCHANGED <<shelfVars, payment, overdue, taken, freed, req>>

----------------------------------------------------------------------------
(* expirePendingOrders                                                     *)

Overdue == {o \in overdue : status[o] = "PLACED"}

ExpireScan(c) ==
  /\ Overdue # {}
  /\ Begin(c, [op |-> "expiring",
               todo |-> {o \in Overdue : payment[o] # "SUCCESS"},
               unpaid |-> {o \in Overdue : payment[o] = "PENDING"}])
  /\ UNCHANGED <<shelfVars, orderVars>>

Expirable(o) == status[o] = "PLACED" /\ payment[o] # "SUCCESS"

ExpireRead(c, o) ==
  /\ Running(c, "expiring")
  /\ o \in req[c].todo
  /\ LET rest == [op |-> "expiring", todo |-> req[c].todo \ {o},
                  unpaid |-> req[c].unpaid]
     IN  req' = [req EXCEPT ![c] =
           IF Expirable(o)
             THEN [op |-> "expire", o |-> o,
                   todo |-> rest.todo, unpaid |-> rest.unpaid]
             ELSE rest]
  /\ UNCHANGED <<shelfVars, orderVars>>

\* Mutant: one unit per item, whatever the quantity.
ReleaseOne(o) ==
  [p \in Product |-> IF Items[o][p] > 0 /\ reserved[p] > 0
                       THEN reserved[p] - 1 ELSE reserved[p]]

\* Per item: SET reservedStock - quantity WHERE reservedStock >= quantity
Release(o) ==
  [p \in Product |-> IF reserved[p] >= Items[o][p]
                       THEN reserved[p] - Items[o][p] ELSE reserved[p]]

\* The payment seen PENDING is cancelled in the same transaction, which
\* therefore waits for, or deadlocks with, a fulfilment that holds it.
ExpireCommit(c) ==
  /\ Running(c, "expire")
  /\ LET o == req[c].o
     IN  /\ o \in req[c].unpaid => ~PaymentLocked(o)
         /\ status' = [status EXCEPT ![o] = "CANCELLED"]
         /\ reserved' = Release(o)
         /\ payment' = IF o \in req[c].unpaid
                         THEN [payment EXCEPT ![o] = "CANCELLED"] ELSE payment
         /\ freed' = [freed EXCEPT ![o] = @ + 1]
  /\ req' = [req EXCEPT ![c] = [op |-> "expiring", todo |-> req[c].todo,
                                unpaid |-> req[c].unpaid]]
  /\ UNCHANGED <<stock, onSale, entered, overdue, taken, reopened>>

ExpireDone(c) ==
  /\ Running(c, "expiring")
  /\ req[c].todo = {}
  /\ Finish(c)
  /\ UNCHANGED <<shelfVars, orderVars>>

\* A crash, a deadlock PostgreSQL resolves, or another failure.
Abort(d) ==
  /\ req[d] # Idle
  /\ Finish(d)
  /\ UNCHANGED <<shelfVars, orderVars>>

GrowOld(o) ==
  /\ status[o] = "PLACED"
  /\ o \notin overdue
  /\ overdue' = overdue \cup {o}
  /\ UNCHANGED <<shelfVars, status, payment, taken, freed, reopened, req>>

----------------------------------------------------------------------------
OrderStep(o) ==
  \/ PlaceOrder(o) \/ OpenPayment(o) \/ ClosePayment(o) \/ GrowOld(o)
  \/ \E s \in StatusEdits : UpdateOrderStatus(o, s)

DeskStep(d) ==
  \/ \E o \in Order : FulfilRead(d, o)
  \/ FulfilCommit(d)
  \/ \E p \in Product, n \in Stocks : StockRead(d, p, n)
  \/ StockCommit(d)

CleanerStep(c) ==
  \/ ExpireScan(c)
  \/ \E o \in Order : ExpireRead(c, o)
  \/ ExpireCommit(c)
  \/ ExpireDone(c)

ProductStep ==
  \E p \in Product, active \in BOOLEAN :
    \E n \in Stocks \cup {stock[p]} : UpdateProduct(p, n, active)

Next ==
  \/ \E o \in Order : OrderStep(o)
  \/ \E d \in Desk : DeskStep(d)
  \/ \E c \in Cleaner : CleanerStep(c)
  \/ \E d \in Desk \cup Cleaner : Abort(d)
  \/ ProductStep

Spec == Init /\ [][Next]_vars

----------------------------------------------------------------------------
(* Properties                                                              *)

\* The orders that still have their reservation, and what it amounts to: one
\* element per unit of the product.
Holding == {o \in Order : status[o] # "ABSENT" /\ taken[o] = 0 /\ freed[o] = 0}
Units(S, p) == UNION {{o} \X (1 .. Items[o][p]) : o \in S}

\* How often each order was taken or released.
GivenUp == [o \in Order |-> taken[o] + freed[o]]

\* What was taken or released of a product although its order had given it up
\* before: one element per unit and time.
Repeated(p) ==
  UNION {(1 .. GivenUp[o] - 1) \X Units({o}, p) : o \in Order}

(* However fulfilments, expiries and orders interleave, the stock covers   *)
(* what the orders still have reserved: the conditional UPDATE of          *)
(* createOrder decides, and later steps take from both sides or free.  It  *)
(* falls short by what one order gave up twice, expired and then paid for, *)
(* and no further.  Stocks entered by hand are another matter.             *)
NeverOversold ==
  \A p \in Product \ entered :
    Cardinality(Units(Holding, p)) <= stock[p] + Cardinality(Repeated(p))

(* The items of an order leave the stock once, although webhooks are       *)
(* redelivered and reconciliation runs beside them: the payment row, which *)
(* fulfilment locks before it looks at the order, serialises them.  They   *)
(* leave once more each time somebody sets the order back to PLACED.       *)
TakenOnce == \A o \in Order : taken[o] <= 1 + reopened[o]

(* A payment that succeeded never leaves its order PLACED, where the       *)
(* clean-up would look for it, unless somebody set it back.                *)
PaidLeavesPlaced ==
  \A o \in Order :
    payment[o] = "SUCCESS" /\ reopened[o] = 0 => status[o] # "PLACED"

(* reservedStock is what the orders hold, and so never negative, as long   *)
(* as every order of the product is taken or released once.  An order that *)
(* is paid while a pass expires it, or expired by two passes, or set back  *)
(* to PLACED when it was done, is how it drifts.                           *)
ReservedExact ==
  \A p \in Product :
    (\A o \in Order : Items[o][p] > 0 => taken[o] + freed[o] <= 1) =>
      reserved[p] = Cardinality(Units(Holding, p))
=============================================================================
