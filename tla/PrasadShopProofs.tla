-------------------------- MODULE PrasadShopProofs --------------------------
(***************************************************************************)
(* Theorems about PrasadShop, for any products, orders, quantities, stock  *)
(* levels and numbers of handlers and clean-up passes.                     *)
(***************************************************************************)
EXTENDS PrasadShop, FiniteSetTheorems, TLAPS

USE ShopAssumption

LEMMA LevelsAreIntegers == \A n \in Stocks : n \in Int
<1>1. \A n \in Stocks : n \in Nat
  OBVIOUS
<1> QED
  BY <1>1

----------------------------------------------------------------------------
(* Type correctness.                                                       *)

LEMMA InitTypeOK == Init => TypeOK
<1> SUFFICES ASSUME Init PROVE TypeOK
  OBVIOUS
<1>1. stock \in [Product -> Int]
  BY LevelsAreIntegers DEF Init
<1> QED
  BY <1>1 DEF Init, TypeOK, Request, Idle

LEMMA OrderTypeOK ==
  ASSUME NEW o \in Order, TypeOK, OrderStep(o)
  PROVE  TypeOK'
<1> USE DEF TypeOK
<1>1. ASSUME PlaceOrder(o) PROVE TypeOK'
  BY <1>1 DEF PlaceOrder, OrderStatus
<1>2. ASSUME OpenPayment(o) PROVE TypeOK'
  BY <1>2 DEF OpenPayment, PaymentStatus, shelfVars
<1>3. ASSUME ClosePayment(o) PROVE TypeOK'
  BY <1>3, ClosingsAssumption DEF ClosePayment, PaymentStatus, shelfVars
<1>4. ASSUME GrowOld(o) PROVE TypeOK'
  BY <1>4 DEF GrowOld, shelfVars
<1>5. ASSUME NEW s \in StatusEdits, UpdateOrderStatus(o, s) PROVE TypeOK'
  BY <1>5 DEF UpdateOrderStatus, SettableStatus, shelfVars
<1> QED
  BY <1>1, <1>2, <1>3, <1>4, <1>5 DEF OrderStep

LEMMA DeskTypeOK ==
  ASSUME NEW d \in Desk, TypeOK, DeskStep(d)
  PROVE  TypeOK'
<1> USE DEF TypeOK
<1>1. ASSUME NEW o \in Order, FulfilRead(d, o) PROVE TypeOK'
  <2>1. [op |-> "fulfil", o |-> o, placed |-> ToConfirm(o)] \in Request
    BY DEF Request, ToConfirm
  <2> QED
    BY <1>1, <2>1 DEF FulfilRead, Begin, shelfVars, orderVars
<1>2. ASSUME FulfilCommit(d) PROVE TypeOK'
  <2>1. req[d].o \in Order
    BY <1>2 DEF FulfilCommit, Running, Request, Idle
  <2>2. req' \in [Desk \cup Cleaner -> Request]
    BY <1>2 DEF FulfilCommit, Finish, Request
  <2>3. /\ payment' \in [Order -> PaymentStatus \cup {"NONE"}]
        /\ status' \in [Order -> OrderStatus \cup {"ABSENT"}]
    BY <1>2, <2>1 DEF FulfilCommit, PaymentStatus, OrderStatus
  <2>4. /\ stock' \in [Product -> Int] /\ reserved' \in [Product -> Int]
        /\ taken' \in [Order -> Nat]
    <3>1. \A p \in Product : Items[req[d].o][p] \in Int
      BY <2>1
    <3>2. CASE req[d].placed
      BY <1>2, <2>1, <3>1, <3>2 DEF FulfilCommit, Take
    <3>3. CASE ~req[d].placed
      BY <1>2, <3>3 DEF FulfilCommit
    <3> QED
      BY <3>2, <3>3
  <2> QED
    BY <1>2, <2>2, <2>3, <2>4 DEF FulfilCommit
<1>3. ASSUME NEW p \in Product, NEW n \in Stocks, StockRead(d, p, n) PROVE TypeOK'
  BY <1>3 DEF StockRead, Begin, Request, shelfVars, orderVars
<1>4. ASSUME StockCommit(d) PROVE TypeOK'
  <2>0. req[d].p \in Product /\ req[d].level \in Stocks
    BY <1>4 DEF StockCommit, Running, Request, Idle
  <2>1. req[d].p \in Product /\ req[d].level \in Int
    BY <2>0, LevelsAreIntegers
  <2> QED
    BY <1>4, <2>1 DEF StockCommit, Finish, Request, orderVars
<1> QED
  BY <1>1, <1>2, <1>3, <1>4 DEF DeskStep

LEMMA CleanerTypeOK ==
  ASSUME NEW c \in Cleaner, TypeOK, CleanerStep(c)
  PROVE  TypeOK'
<1> USE DEF TypeOK
<1>1. ASSUME ExpireScan(c) PROVE TypeOK'
  <2>1. req'[c] \in Request
    BY <1>1 DEF ExpireScan, Begin, Request, Overdue
  <2> QED
    BY <1>1, <2>1 DEF ExpireScan, Begin, shelfVars, orderVars
<1>2. ASSUME NEW o \in Order, ExpireRead(c, o) PROVE TypeOK'
  <2>1. req[c].todo \subseteq Order /\ req[c].unpaid \subseteq Order
    BY <1>2 DEF ExpireRead, Running, Request, Idle
  <2>2. req'[c] \in Request
    BY <1>2, <2>1 DEF ExpireRead, Request
  <2> QED
    BY <1>2, <2>2 DEF ExpireRead, shelfVars, orderVars
<1>3. ASSUME ExpireCommit(c) PROVE TypeOK'
  <2>1. /\ req[c].o \in Order
        /\ req[c].todo \subseteq Order
        /\ req[c].unpaid \subseteq Order
    BY <1>3 DEF ExpireCommit, Running, Request, Idle
  <2>2. req'[c] \in Request
    BY <1>3, <2>1 DEF ExpireCommit, Request
  <2>3. reserved' \in [Product -> Int]
    BY <1>3, <2>1 DEF ExpireCommit, Release
  <2>4. /\ status' \in [Order -> OrderStatus \cup {"ABSENT"}]
        /\ payment' \in [Order -> PaymentStatus \cup {"NONE"}]
    BY <1>3, <2>1 DEF ExpireCommit, OrderStatus, PaymentStatus
  <2> QED
    BY <1>3, <2>1, <2>2, <2>3, <2>4 DEF ExpireCommit
<1>4. ASSUME ExpireDone(c) PROVE TypeOK'
  BY <1>4 DEF ExpireDone, Finish, Request, shelfVars, orderVars
<1> QED
  BY <1>1, <1>2, <1>3, <1>4 DEF CleanerStep

LEMMA NextTypeOK == TypeOK /\ [Next]_vars => TypeOK'
<1> SUFFICES ASSUME TypeOK, [Next]_vars PROVE TypeOK'
  OBVIOUS
<1>1. ASSUME NEW d \in Desk \cup Cleaner, Abort(d) PROVE TypeOK'
  BY <1>1 DEF TypeOK, Abort, Finish, Request, shelfVars, orderVars
<1>2. ASSUME NEW p \in Product, NEW active \in BOOLEAN,
             NEW n \in Stocks \cup {stock[p]}, UpdateProduct(p, n, active)
      PROVE  TypeOK'
  <2>1. n \in Int
    BY LevelsAreIntegers DEF TypeOK
  <2> QED
    BY <1>2, <2>1 DEF TypeOK, UpdateProduct, orderVars
<1>3. CASE UNCHANGED vars
  BY <1>3 DEF TypeOK, vars, shelfVars, orderVars
<1> QED
  BY <1>1, <1>2, <1>3, OrderTypeOK, DeskTypeOK, CleanerTypeOK DEF Next, ProductStep

(* Every product, order and payment row, and every request, keeps its type. *)
THEOREM TypeCorrect == Spec => []TypeOK
BY InitTypeOK, NextTypeOK, PTL DEF Spec

----------------------------------------------------------------------------
(* reservedStock and stock.  createOrder reserves under the condition,     *)
(* fulfilment takes from both sides, expiry only frees.                    *)

WithinStock == \A p \in Product \ entered : reserved[p] <= stock[p]

LEMMA NextWithinStock == TypeOK /\ WithinStock /\ [Next]_vars => WithinStock'
<1> SUFFICES ASSUME TypeOK, WithinStock, [Next]_vars,
                    NEW p \in Product, p \notin entered'
             PROVE  reserved'[p] <= stock'[p]
  BY DEF WithinStock
<1> USE DEF TypeOK
<1>1. \A o \in Order : Items[o][p] \in Nat
  OBVIOUS
<1>2. p \notin entered => reserved[p] <= stock[p]
  BY DEF WithinStock
<1>3. ASSUME NEW o \in Order, OrderStep(o) PROVE reserved'[p] <= stock'[p]
  <2>1. ASSUME PlaceOrder(o) PROVE reserved'[p] <= stock'[p]
    <3>1. CASE Items[o][p] = 0
      BY <2>1, <3>1, <1>2 DEF PlaceOrder
    <3>2. CASE Items[o][p] > 0
      BY <2>1, <3>2, <1>1 DEF PlaceOrder, Available
    <3> QED
      BY <1>1, <3>1, <3>2
  <2>2. ASSUME \/ OpenPayment(o) \/ ClosePayment(o) \/ GrowOld(o)
               \/ \E s \in StatusEdits : UpdateOrderStatus(o, s)
        PROVE  reserved'[p] <= stock'[p]
    BY <2>2, <1>2 DEF OpenPayment, ClosePayment, GrowOld, UpdateOrderStatus, shelfVars
  <2> QED
    BY <1>3, <2>1, <2>2 DEF OrderStep
<1>4. ASSUME NEW d \in Desk, DeskStep(d) PROVE reserved'[p] <= stock'[p]
  <2>1. ASSUME FulfilCommit(d) PROVE reserved'[p] <= stock'[p]
    <3>1. req[d].o \in Order
      BY <2>1 DEF FulfilCommit, Running, Request, Idle
    <3> QED
      BY <2>1, <3>1, <1>1, <1>2 DEF FulfilCommit, Take
  <2>2. ASSUME StockCommit(d) PROVE reserved'[p] <= stock'[p]
    <3>1. p # req[d].p /\ p \notin entered
      BY <2>2 DEF StockCommit
    <3> QED
      BY <2>2, <3>1, <1>2 DEF StockCommit
  <2>3. ASSUME \/ \E o \in Order : FulfilRead(d, o)
               \/ \E q \in Product, n \in Stocks : StockRead(d, q, n)
        PROVE  reserved'[p] <= stock'[p]
    BY <2>3, <1>2 DEF FulfilRead, StockRead, shelfVars
  <2> QED
    BY <1>4, <2>1, <2>2, <2>3 DEF DeskStep
<1>5. ASSUME NEW c \in Cleaner, CleanerStep(c) PROVE reserved'[p] <= stock'[p]
  <2>1. ASSUME ExpireCommit(c) PROVE reserved'[p] <= stock'[p]
    <3>1. req[c].o \in Order
      BY <2>1 DEF ExpireCommit, Running, Request, Idle
    <3>2. reserved'[p] <= reserved[p] /\ stock' = stock /\ entered' = entered
      BY <2>1, <3>1, <1>1 DEF ExpireCommit, Release
    <3>3. reserved'[p] \in Int
      BY <2>1, <3>1, <1>1 DEF ExpireCommit, Release
    <3> QED
      BY <3>2, <3>3, <1>2
  <2>2. ASSUME \/ ExpireScan(c) \/ (\E o \in Order : ExpireRead(c, o)) \/ ExpireDone(c)
        PROVE  reserved'[p] <= stock'[p]
    BY <2>2, <1>2 DEF ExpireScan, ExpireRead, ExpireDone, shelfVars
  <2> QED
    BY <1>5, <2>1, <2>2 DEF CleanerStep
<1>6. ASSUME NEW d \in Desk \cup Cleaner, Abort(d) PROVE reserved'[p] <= stock'[p]
  BY <1>6, <1>2 DEF Abort, shelfVars
<1>7. ASSUME NEW q \in Product, NEW active \in BOOLEAN,
             NEW n \in Stocks \cup {stock[q]}, UpdateProduct(q, n, active)
      PROVE  reserved'[p] <= stock'[p]
  <2>1. p \notin entered /\ (p = q => n = stock[q])
    BY <1>7 DEF UpdateProduct
  <2> QED
    BY <1>7, <2>1, <1>2 DEF UpdateProduct
<1>8. CASE UNCHANGED vars
  BY <1>8, <1>2 DEF vars, shelfVars
<1> QED
  BY <1>3, <1>4, <1>5, <1>6, <1>7, <1>8 DEF Next, ProductStep

----------------------------------------------------------------------------
(* Taking once.  What fulfilment knows at its commit is what it read while *)
(* it held the payment row: that nobody else fulfils the order, and that   *)
(* the order waited to be confirmed or had left PLACED for good.           *)

Waiting(o) == status[o] \in {"ABSENT", "PLACED"}
Fulfilling(d) == Running(d, "fulfil")

OrderInv ==
  /\ \A o \in Order : Waiting(o) => taken[o] <= reopened[o]
  /\ \A o \in Order :
       status[o] = "ABSENT" => payment[o] = "NONE" /\ taken[o] = 0 /\ reopened[o] = 0
  /\ TakenOnce
  /\ PaidLeavesPlaced

\* What a fulfilment in flight may rely on, whether it is to confirm or not.
Sound(o, placed) ==
  /\ status[o] # "ABSENT"
  /\ IF placed THEN taken[o] <= reopened[o] ELSE reopened[o] = 0 => ~Waiting(o)

FulfilInv ==
  /\ \A d \in Desk : Fulfilling(d) =>
       Sound(req[d].o, req[d].placed)
  /\ \A d, e \in Desk :
       Fulfilling(d) /\ Fulfilling(e) /\ req[d].o = req[e].o => d = e

ShopInv == TypeOK /\ OrderInv /\ FulfilInv

LEMMA FulfilsAnOrder ==
  ASSUME TypeOK, NEW d \in Desk, Fulfilling(d)
  PROVE  req[d].o \in Order /\ req[d].placed \in BOOLEAN
BY DEF TypeOK, Fulfilling, Running, Request, Idle

\* A step that starts no fulfilment, takes nothing and sends no order back
\* to where it waits, unless it counts that, keeps what the fulfilments in
\* flight know.
LEMMA FulfilmentsUndisturbed ==
  ASSUME ShopInv, taken' = taken,
         \A d \in Desk : Fulfilling(d)' => Fulfilling(d) /\ req'[d] = req[d],
         \A o \in Order : status[o] # "ABSENT" => status'[o] # "ABSENT",
         \A o \in Order : reopened[o] <= reopened'[o],
         \A o \in Order : ~Waiting(o) /\ reopened'[o] = 0 => ~Waiting(o)',
         reopened' \in [Order -> Nat]
  PROVE  FulfilInv'
<1>1. ASSUME NEW d \in Desk, Fulfilling(d)'
      PROVE  Sound(req[d].o, req[d].placed)'
  <2>1. /\ Fulfilling(d) /\ req'[d] = req[d]
        /\ req[d].o \in Order /\ req[d].placed \in BOOLEAN
    BY <1>1, FulfilsAnOrder DEF ShopInv
  <2>2. Sound(req[d].o, req[d].placed)
    BY <2>1 DEF ShopInv, FulfilInv
  <2>3. status'[req[d].o] # "ABSENT"
    BY <2>1, <2>2 DEF Sound
  <2>4. /\ taken'[req[d].o] = taken[req[d].o]
        /\ taken[req[d].o] \in Nat
        /\ reopened[req[d].o] \in Nat /\ reopened'[req[d].o] \in Nat
        /\ reopened[req[d].o] <= reopened'[req[d].o]
    BY <2>1 DEF ShopInv, TypeOK
  <2>5. CASE req[d].placed
    BY <2>1, <2>2, <2>3, <2>4, <2>5 DEF Sound
  <2>6. CASE ~req[d].placed
    BY <2>1, <2>2, <2>3, <2>4, <2>6 DEF Sound
  <2> QED
    BY <2>5, <2>6
<1>2. \A d, e \in Desk :
        (Fulfilling(d) /\ Fulfilling(e) /\ req[d].o = req[e].o)' => d = e
  BY DEF ShopInv, FulfilInv
<1> QED
  BY <1>1, <1>2 DEF FulfilInv, Sound, Waiting

\* The steps of desks and cleaners that write nothing but their own request,
\* and start no fulfilment.
LEMMA RequestsKeepInv ==
  ASSUME ShopInv, TypeOK', UNCHANGED orderVars,
         \A d \in Desk : Fulfilling(d)' => Fulfilling(d) /\ req'[d] = req[d]
  PROVE  ShopInv'
<1>1. OrderInv'
  BY DEF ShopInv, OrderInv, TakenOnce, PaidLeavesPlaced, Waiting, orderVars
<1>2. FulfilInv'
  BY FulfilmentsUndisturbed DEF ShopInv, TypeOK, Waiting, orderVars
<1> QED
  BY <1>1, <1>2 DEF ShopInv

LEMMA OrderShopInv ==
  ASSUME NEW o \in Order, ShopInv, TypeOK', OrderStep(o)
  PROVE  ShopInv'
<1> USE DEF ShopInv, TypeOK
<1>1. ASSUME PlaceOrder(o) PROVE ShopInv'
  <2>1. OrderInv'
    BY <1>1 DEF PlaceOrder, OrderInv, TakenOnce, PaidLeavesPlaced, Waiting
  <2>2. FulfilInv'
    BY <1>1, FulfilmentsUndisturbed DEF PlaceOrder, Waiting, Fulfilling, Running
  <2> QED
    BY <2>1, <2>2
<1>2. ASSUME OpenPayment(o) \/ ClosePayment(o) PROVE ShopInv'
  <2>1. OrderInv'
    BY <1>2, ClosingsAssumption
    DEF OpenPayment, ClosePayment, OrderInv, TakenOnce, PaidLeavesPlaced, Waiting
  <2>2. FulfilInv'
    BY <1>2, FulfilmentsUndisturbed
    DEF OpenPayment, ClosePayment, Waiting, Fulfilling, Running
  <2> QED
    BY <2>1, <2>2
<1>3. ASSUME GrowOld(o) PROVE ShopInv'
  <2>1. OrderInv'
    BY <1>3 DEF GrowOld, OrderInv, TakenOnce, PaidLeavesPlaced, Waiting
  <2>2. FulfilInv'
    BY <1>3, FulfilmentsUndisturbed DEF GrowOld, Waiting, Fulfilling, Running
  <2> QED
    BY <2>1, <2>2
<1>4. ASSUME NEW s \in StatusEdits, UpdateOrderStatus(o, s) PROVE ShopInv'
  <2>1. s # "ABSENT" /\ status[o] # "ABSENT" /\ UNCHANGED <<payment, taken, req>>
    BY <1>4 DEF UpdateOrderStatus, SettableStatus, OrderStatus
  <2>2. /\ \A q \in Order : status'[q] = IF q = o THEN s ELSE status[q]
        /\ \A q \in Order \ {o} : reopened'[q] = reopened[q]
    BY <1>4 DEF UpdateOrderStatus
  <2>3. CASE s = "PLACED" /\ status[o] # "PLACED"
    <3>1. reopened'[o] = reopened[o] + 1
      BY <1>4, <2>3 DEF UpdateOrderStatus
    <3>2. ASSUME NEW q \in Order
          PROVE  /\ Waiting(q)' => taken'[q] <= reopened'[q]
                 /\ status'[q] = "ABSENT"
                      => payment'[q] = "NONE" /\ taken'[q] = 0 /\ reopened'[q] = 0
                 /\ taken'[q] <= 1 + reopened'[q]
                 /\ payment'[q] = "SUCCESS" /\ reopened'[q] = 0 => status'[q] # "PLACED"
                 /\ reopened[q] <= reopened'[q]
                 /\ reopened'[q] = 0 => status'[q] = status[q]
      BY <2>1, <2>2, <2>3, <3>1 DEF OrderInv, TakenOnce, PaidLeavesPlaced, Waiting
    <3>3. OrderInv'
      BY <3>2 DEF OrderInv, TakenOnce, PaidLeavesPlaced, Waiting
    <3>4. FulfilInv'
      BY <2>1, <2>2, <3>2, FulfilmentsUndisturbed DEF Waiting, Fulfilling, Running
    <3> QED
      BY <3>3, <3>4
  <2>4. CASE ~(s = "PLACED" /\ status[o] # "PLACED")
    <3>1. UNCHANGED reopened
      BY <1>4, <2>4 DEF UpdateOrderStatus
    <3>2. OrderInv'
      BY <2>1, <2>2, <2>4, <3>1 DEF OrderInv, TakenOnce, PaidLeavesPlaced, Waiting
    <3>3. FulfilInv'
      BY <2>1, <2>2, <2>4, <3>1, FulfilmentsUndisturbed DEF Waiting, Fulfilling, Running
    <3> QED
      BY <3>2, <3>3
  <2> QED
    BY <2>3, <2>4
<1> QED
  BY <1>1, <1>2, <1>3, <1>4 DEF OrderStep

LEMMA FulfilShopInv ==
  ASSUME NEW d \in Desk, ShopInv, TypeOK', FulfilCommit(d)
  PROVE  ShopInv'
<1> USE DEF ShopInv, TypeOK
<1> DEFINE o == req[d].o
<1>1. o \in Order /\ req[d].placed \in BOOLEAN
  BY FulfilsAnOrder DEF FulfilCommit, Fulfilling
<1>2. \A e \in Desk : Fulfilling(e)' => /\ e # d /\ Fulfilling(e)
                                       /\ req'[e] = req[e] /\ req[e].o # o
  BY DEF FulfilCommit, Finish, Fulfilling, Running, Idle, FulfilInv
<1>3. OrderInv'
  <2>1. CASE req[d].placed
    <3>1. taken[o] <= reopened[o] /\ reopened' = reopened
      BY <2>1 DEF FulfilCommit, FulfilInv, Sound, Fulfilling
    <3>2. status'[o] = "CONFIRMED" /\ taken'[o] = taken[o] + 1
      BY <1>1, <2>1 DEF FulfilCommit, Take
    <3>3. ASSUME NEW q \in Order, q # o
          PROVE  status'[q] = status[q] /\ taken'[q] = taken[q] /\ payment'[q] = payment[q]
      BY <1>1, <2>1, <3>3 DEF FulfilCommit, Take
    <3> HIDE DEF o
    <3>4. ASSUME NEW q \in Order
          PROVE  /\ status'[q] \in {"ABSENT", "PLACED"} => taken'[q] <= reopened'[q]
                 /\ status'[q] = "ABSENT"
                      => payment'[q] = "NONE" /\ taken'[q] = 0 /\ reopened'[q] = 0
                 /\ taken'[q] <= 1 + reopened'[q]
                 /\ payment'[q] = "SUCCESS" /\ reopened'[q] = 0 => status'[q] # "PLACED"
      <4>1. CASE q = o
        BY <1>1, <3>1, <3>2, <4>1
      <4>2. CASE q # o
        BY <3>1, <3>3, <4>2 DEF OrderInv, TakenOnce, PaidLeavesPlaced, Waiting
      <4> QED
        BY <4>1, <4>2
    <3> QED
      BY <3>4 DEF OrderInv, TakenOnce, PaidLeavesPlaced, Waiting
  <2>2. CASE ~req[d].placed
    <3>1. status[o] # "ABSENT" /\ (reopened[o] = 0 => ~Waiting(o))
      BY <2>2 DEF FulfilCommit, FulfilInv, Sound, Fulfilling
    <3>2. /\ UNCHANGED <<status, taken, reopened>>
          /\ payment' = [payment EXCEPT ![o] = "SUCCESS"]
      BY <2>2 DEF FulfilCommit
    <3>3. \A q \in Order : q # o => payment'[q] = payment[q]
      BY <1>1, <3>2
    <3> QED
      BY <3>1, <3>2, <3>3 DEF OrderInv, TakenOnce, PaidLeavesPlaced, Waiting
  <2> QED
    BY <2>1, <2>2
<1>4. ASSUME NEW e \in Desk, Fulfilling(e)'
      PROVE  /\ req'[e] = req[e] /\ Fulfilling(e) /\ req[e].o \in Order
             /\ taken'[req[e].o] = taken[req[e].o]
             /\ status'[req[e].o] = status[req[e].o]
             /\ reopened'[req[e].o] = reopened[req[e].o]
  <2>1. req[e].o \in Order /\ req[e].o # o
    BY <1>2, <1>4, FulfilsAnOrder
  <2> QED
    BY <1>1, <1>2, <1>4, <2>1 DEF FulfilCommit, Take
<1>5. FulfilInv'
  BY <1>2, <1>4 DEF FulfilInv, Sound, Waiting
<1> QED
  BY <1>3, <1>5

LEMMA DeskShopInv ==
  ASSUME NEW d \in Desk, ShopInv, TypeOK', DeskStep(d)
  PROVE  ShopInv'
<1> USE DEF ShopInv, TypeOK
<1>1. ASSUME NEW o \in Order, FulfilRead(d, o) PROVE ShopInv'
  <2>1. OrderInv'
    BY <1>1 DEF FulfilRead, OrderInv, TakenOnce, PaidLeavesPlaced, Waiting, orderVars
  <2>2. \A e \in Desk : e # d /\ Fulfilling(e)' =>
          Fulfilling(e) /\ req'[e] = req[e] /\ req[e].o # o
    BY <1>1 DEF FulfilRead, Begin, Fulfilling, Running, PaymentLocked
  <2>3. /\ req'[d].o = o
        /\ status[o] # "ABSENT"
        /\ IF req'[d].placed THEN status[o] = "PLACED" ELSE ~Waiting(o)
    BY <1>1 DEF FulfilRead, Begin, ToConfirm, Waiting, OrderInv
  <2>4. ASSUME NEW e \in Desk, Fulfilling(e)'
        PROVE  /\ status[req'[e].o] # "ABSENT"
               /\ IF req'[e].placed
                    THEN taken[req'[e].o] <= reopened[req'[e].o]
                    ELSE reopened[req'[e].o] = 0
                           => status[req'[e].o] \notin {"ABSENT", "PLACED"}
    <3>1. CASE e = d
      BY <2>3, <3>1 DEF OrderInv, Waiting
    <3>2. CASE e # d
      BY <2>2, <2>4, <3>2 DEF FulfilInv, Sound, Waiting
    <3> QED
      BY <3>1, <3>2
  <2>5. \A e, f \in Desk :
          Fulfilling(e)' /\ Fulfilling(f)' /\ req'[e].o = req'[f].o => e = f
    BY <2>2, <2>3 DEF FulfilInv
  <2>6. FulfilInv'
    BY <1>1, <2>4, <2>5 DEF FulfilInv, Sound, Waiting, FulfilRead, orderVars
  <2> QED
    BY <2>1, <2>6
<1>2. ASSUME NEW p \in Product, NEW n \in Stocks, StockRead(d, p, n) PROVE ShopInv'
  <2>1. \A e \in Desk : Fulfilling(e)' => Fulfilling(e) /\ req'[e] = req[e]
    BY <1>2 DEF StockRead, Begin, Fulfilling, Running
  <2> QED
    BY <1>2, <2>1, RequestsKeepInv DEF StockRead
<1>3. ASSUME StockCommit(d) PROVE ShopInv'
  <2>1. \A e \in Desk : Fulfilling(e)' => Fulfilling(e) /\ req'[e] = req[e]
    BY <1>3 DEF StockCommit, Finish, Fulfilling, Running, Idle
  <2> QED
    BY <1>3, <2>1, RequestsKeepInv DEF StockCommit
<1> QED
  BY <1>1, <1>2, <1>3, FulfilShopInv DEF DeskStep

LEMMA CleanerShopInv ==
  ASSUME NEW c \in Cleaner, ShopInv, TypeOK', CleanerStep(c)
  PROVE  ShopInv'
<1> USE DEF ShopInv, TypeOK
<1>1. ASSUME \A d \in Desk : Fulfilling(d)' => Fulfilling(d) /\ req'[d] = req[d]
      PROVE  UNCHANGED orderVars => ShopInv'
  BY <1>1, RequestsKeepInv
<1>2. \A d \in Desk : Fulfilling(d)' => Fulfilling(d) /\ req'[d] = req[d]
  BY DEF CleanerStep, ExpireScan, ExpireRead, ExpireCommit, ExpireDone,
         Begin, Finish, Fulfilling, Running, Idle
<1>3. ASSUME ExpireCommit(c) PROVE ShopInv'
  <2>1. req[c].o \in Order
    BY <1>3 DEF ExpireCommit, Running, Request, Idle
  <2>2. OrderInv'
    BY <1>3, <2>1 DEF ExpireCommit, OrderInv, TakenOnce, PaidLeavesPlaced, Waiting
  <2>3. FulfilInv'
    BY <1>2, <1>3, <2>1, FulfilmentsUndisturbed DEF ExpireCommit, Waiting
  <2> QED
    BY <2>2, <2>3
<1>4. ASSUME ExpireScan(c) \/ (\E o \in Order : ExpireRead(c, o)) \/ ExpireDone(c)
      PROVE  UNCHANGED orderVars
  BY <1>4 DEF ExpireScan, ExpireRead, ExpireDone
<1> QED
  BY <1>1, <1>2, <1>3, <1>4 DEF CleanerStep

LEMMA NextShopInv == ShopInv /\ [Next]_vars => ShopInv'
<1> SUFFICES ASSUME ShopInv, [Next]_vars PROVE ShopInv'
  OBVIOUS
<1>0. TypeOK'
  BY NextTypeOK DEF ShopInv
<1>1. ASSUME NEW d \in Desk \cup Cleaner, Abort(d) PROVE ShopInv'
  <2>1. \A e \in Desk : Fulfilling(e)' => Fulfilling(e) /\ req'[e] = req[e]
    BY <1>1 DEF Abort, Finish, Fulfilling, Running, Idle, ShopInv, TypeOK
  <2> QED
    BY <1>0, <1>1, <2>1, RequestsKeepInv DEF Abort
<1>2. ASSUME ProductStep PROVE ShopInv'
  <2>1. UNCHANGED <<orderVars, req>>
    BY <1>2 DEF ProductStep, UpdateProduct
  <2> QED
    BY <1>0, <2>1, RequestsKeepInv DEF Fulfilling, Running
<1>3. CASE UNCHANGED vars
  <2>1. UNCHANGED <<orderVars, req>>
    BY <1>3 DEF vars
  <2> QED
    BY <1>0, <2>1, RequestsKeepInv DEF Fulfilling, Running
<1> QED
  BY <1>0, <1>1, <1>2, <1>3, OrderShopInv, DeskShopInv, CleanerShopInv DEF Next

LEMMA ShopInvHolds == Spec => []ShopInv
<1>1. Init => ShopInv
  <2> SUFFICES ASSUME Init PROVE OrderInv /\ FulfilInv
    BY InitTypeOK DEF ShopInv
  <2> QED
    BY DEF Init, OrderInv, FulfilInv, TakenOnce, PaidLeavesPlaced, Fulfilling,
           Running, Idle
<1> QED
  BY <1>1, NextShopInv, PTL DEF Spec

(* However often its payment is fulfilled, and by whom, the items of an    *)
(* order leave the stock at most once, and once more each time somebody    *)
(* set it back to PLACED.                                                  *)
THEOREM StockTakenOnce == Spec => []TakenOnce
BY ShopInvHolds, PTL DEF ShopInv, OrderInv

(* No order that nobody set back stays PLACED under a successful payment.  *)
THEOREM PaidOrdersMoveOn == Spec => []PaidLeavesPlaced
BY ShopInvHolds, PTL DEF ShopInv, OrderInv
----------------------------------------------------------------------------
(* Reservations.  What one order adds to, or takes from, what is held.     *)

LEMMA UnitsOfOne ==
  ASSUME NEW o \in Order, NEW p \in Product
  PROVE  /\ IsFiniteSet({o} \X (1 .. Items[o][p]))
         /\ Cardinality({o} \X (1 .. Items[o][p])) = Items[o][p]
<1> DEFINE k == Items[o][p]
<1>1. IsFiniteSet({o}) /\ Cardinality({o}) = 1
  BY FS_Singleton
<1>2. k \in Nat
  OBVIOUS
<1> HIDE DEF k
<1>3. IsFiniteSet(1 .. k) /\ Cardinality(1 .. k) = k
  <2>1. Cardinality(1 .. k) = IF 1 > k THEN 0 ELSE k - 1 + 1
    BY <1>2, FS_Interval
  <2> QED
    BY <1>2, <2>1, FS_Interval
<1>4. /\ IsFiniteSet({o} \X (1 .. k))
      /\ Cardinality({o} \X (1 .. k)) = 1 * Cardinality(1 .. k)
  BY <1>1, <1>3, FS_Product
<1>5. Cardinality({o} \X (1 .. k)) = k
  BY <1>2, <1>3, <1>4
<1> QED
  BY <1>4, <1>5 DEF k

LEMMA UnitsAdded ==
  ASSUME NEW S \in SUBSET Order, NEW o \in Order \ S, NEW p \in Product,
         IsFiniteSet(Units(S, p))
  PROVE  /\ IsFiniteSet(Units(S \cup {o}, p))
         /\ Cardinality(Units(S \cup {o}, p)) = Cardinality(Units(S, p)) + Items[o][p]
<1> DEFINE U == {o} \X (1 .. Items[o][p])
<1>1. Units(S \cup {o}, p) = Units(S, p) \cup U
  BY DEF Units
<1>2. Units(S, p) \cap U = {}
  BY DEF Units
<1>3. IsFiniteSet(U) /\ Cardinality(U) = Items[o][p]
  BY UnitsOfOne
<1> HIDE DEF U
<1>4. Cardinality(Units(S, p)) \in Nat /\ Items[o][p] \in Nat
  BY FS_CardinalityType
<1>5. Cardinality(Units(S, p) \cap U) = 0
  BY <1>2, FS_EmptySet
<1>6. /\ IsFiniteSet(Units(S, p) \cup U)
      /\ Cardinality(Units(S, p) \cup U)
           = Cardinality(Units(S, p)) + Cardinality(U) - Cardinality(Units(S, p) \cap U)
  BY <1>3, FS_Union
<1>7. Cardinality(Units(S, p) \cup U) = Cardinality(Units(S, p)) + Items[o][p]
  BY <1>3, <1>4, <1>5, <1>6
<1> QED
  BY <1>1, <1>6, <1>7

LEMMA UnitsRemoved ==
  ASSUME NEW S \in SUBSET Order, NEW o \in S, NEW p \in Product, IsFiniteSet(Units(S, p))
  PROVE  /\ IsFiniteSet(Units(S \ {o}, p))
         /\ Cardinality(Units(S \ {o}, p)) = Cardinality(Units(S, p)) - Items[o][p]
         /\ Cardinality(Units(S, p)) >= Items[o][p]
<1> DEFINE R == S \ {o}
<1>1. Units(R, p) \subseteq Units(S, p)
  BY DEF Units
<1>2. IsFiniteSet(Units(R, p))
  BY <1>1, FS_Subset
<1>3. R \cup {o} = S /\ R \in SUBSET Order /\ o \in Order \ R
  OBVIOUS
<1> HIDE DEF R
<1>4. Cardinality(Units(S, p)) = Cardinality(Units(R, p)) + Items[o][p]
  BY <1>2, <1>3, UnitsAdded
<1>5. Cardinality(Units(R, p)) \in Nat /\ Items[o][p] \in Nat
  BY <1>2, <1>3, FS_CardinalityType
<1>6. /\ Cardinality(Units(R, p)) = Cardinality(Units(S, p)) - Items[o][p]
      /\ Cardinality(Units(S, p)) >= Items[o][p]
  BY <1>4, <1>5
<1> QED
  BY <1>2, <1>6 DEF R

\* Every order of the product was taken or released at most once.
Settled(p) == \A o \in Order : Items[o][p] > 0 => taken[o] + freed[o] <= 1

Exact(p) ==
  IsFiniteSet(Units(Holding, p)) /\ reserved[p] = Cardinality(Units(Holding, p))

HoldInv ==
  /\ \A p \in Product : Settled(p) => Exact(p)
  /\ \A o \in Order : status[o] = "ABSENT" => freed[o] = 0
  /\ \A c \in Cleaner : Running(c, "expire") => status[req[c].o] # "ABSENT"

LEMMA InitHoldInv == Init => HoldInv
<1> SUFFICES ASSUME Init PROVE HoldInv
  OBVIOUS
<1>1. ASSUME NEW p \in Product PROVE Exact(p)
  <2>1. Units(Holding, p) = {}
    BY DEF Init, Holding, Units
  <2> QED
    BY <2>1, FS_EmptySet DEF Exact, Init
<1> QED
  BY <1>1 DEF HoldInv, Init, Running, Idle

\* A step that reserves, takes and releases nothing.
LEMMA ReservationsKept ==
  ASSUME ShopInv, HoldInv, UNCHANGED <<reserved, taken, freed>>,
         \A o \in Order : status'[o] = "ABSENT" <=> status[o] = "ABSENT",
         \A c \in Cleaner :
           Running(c, "expire")' => \/ req'[c] = req[c]
                                    \/ req'[c].o \in Order /\ status[req'[c].o] # "ABSENT"
  PROVE  HoldInv'
<1>1. Holding' = Holding
  BY DEF Holding
<1>2. \A p \in Product : Settled(p)' => Exact(p)'
  BY <1>1 DEF HoldInv, Settled, Exact, Units
<1>3. \A c \in Cleaner : Running(c, "expire") => req[c].o \in Order
  BY DEF ShopInv, TypeOK, Running, Request, Idle
<1>4. \A c \in Cleaner : Running(c, "expire")' => status'[req'[c].o] # "ABSENT"
  BY <1>3 DEF HoldInv, Running
<1> QED
  BY <1>2, <1>4 DEF HoldInv

\* The item counts the reservation moves by, when the order leaves Holding.
LEMMA OrderLeaves ==
  ASSUME ShopInv, HoldInv, NEW p \in Product, NEW o \in Order, Settled(p), Exact(p),
         Holding' = Holding \ {o}, Items[o][p] > 0 => o \in Holding
  PROVE  /\ IsFiniteSet(Units(Holding', p))
         /\ Cardinality(Units(Holding', p)) = reserved[p] - Items[o][p]
         /\ reserved[p] >= Items[o][p]
<1>1. Holding \in SUBSET Order /\ reserved[p] \in Int /\ Items[o][p] \in Nat
  BY DEF Holding, ShopInv, TypeOK
<1>2. CASE o \in Holding
  BY <1>1, <1>2, UnitsRemoved DEF Exact
<1>3. CASE o \notin Holding
  <2>1. Holding' = Holding /\ Items[o][p] = 0
    BY <1>1, <1>3
  <2>2. IsFiniteSet(Units(Holding, p)) /\ reserved[p] = Cardinality(Units(Holding, p))
    BY DEF Exact
  <2>3. reserved[p] \in Nat
    BY <2>2, FS_CardinalityType
  <2>4. reserved[p] - Items[o][p] = reserved[p] /\ reserved[p] >= Items[o][p]
    BY <2>1, <2>3
  <2> QED
    BY <2>1, <2>2, <2>4
<1> QED
  BY <1>2, <1>3

LEMMA PlaceHoldInv ==
  ASSUME ShopInv, HoldInv, NEW o \in Order, PlaceOrder(o)
  PROVE  HoldInv'
<1>1. /\ status[o] = "ABSENT" /\ taken[o] = 0 /\ freed[o] = 0
      /\ status' = [status EXCEPT ![o] = "PLACED"] /\ UNCHANGED <<taken, freed, req>>
      /\ reserved' = [p \in Product |-> reserved[p] + Items[o][p]]
  BY DEF PlaceOrder, ShopInv, OrderInv, Waiting, HoldInv
<1>2. \A q \in Order : status'[q] = IF q = o THEN "PLACED" ELSE status[q]
  BY <1>1 DEF ShopInv, TypeOK
<1>3. Holding' = Holding \cup {o} /\ o \in Order \ Holding /\ Holding \in SUBSET Order
  BY <1>1, <1>2 DEF Holding
<1>4. ASSUME NEW p \in Product, Settled(p)' PROVE Exact(p)'
  <2>1. Exact(p)
    BY <1>1, <1>4 DEF HoldInv, Settled
  <2>2. /\ IsFiniteSet(Units(Holding \cup {o}, p))
        /\ Cardinality(Units(Holding \cup {o}, p)) = Cardinality(Units(Holding, p)) + Items[o][p]
    BY <1>3, <2>1, UnitsAdded DEF Exact
  <2>3. /\ IsFiniteSet(Units(Holding', p))
        /\ reserved'[p] = Cardinality(Units(Holding', p))
    BY <1>1, <1>3, <2>1, <2>2 DEF Exact
  <2> QED
    BY <2>3 DEF Exact, Units
<1>5. \A q \in Order : status'[q] = "ABSENT" => freed'[q] = 0
  BY <1>1, <1>2 DEF HoldInv
<1>6. \A c \in Cleaner : Running(c, "expire")' => status'[req'[c].o] # "ABSENT"
  BY <1>1 DEF HoldInv, Running, ShopInv, TypeOK
<1> QED
  BY <1>4, <1>5, <1>6 DEF HoldInv

LEMMA FulfilHoldInv ==
  ASSUME ShopInv, HoldInv, NEW d \in Desk, FulfilCommit(d), req[d].placed
  PROVE  HoldInv'
<1> DEFINE o == req[d].o
<1>1. o \in Order /\ status[o] # "ABSENT"
  BY FulfilsAnOrder DEF FulfilCommit, ShopInv, FulfilInv, Sound, Fulfilling
<1>2. /\ status' = [status EXCEPT ![o] = "CONFIRMED"] /\ UNCHANGED freed
      /\ taken' = [taken EXCEPT ![o] = @ + 1]
      /\ reserved' = [p \in Product |-> reserved[p] - Items[o][p]]
      /\ req' = [req EXCEPT ![d] = Idle]
  BY DEF FulfilCommit, Take, Finish
<1> HIDE DEF o
<1>3. \A q \in Order : /\ status'[q] = IF q = o THEN "CONFIRMED" ELSE status[q]
                       /\ taken'[q] = IF q = o THEN taken[q] + 1 ELSE taken[q]
                       /\ taken[q] \in Nat /\ freed[q] \in Nat
  BY <1>1, <1>2 DEF ShopInv, TypeOK
<1>4. Holding' = Holding \ {o}
  BY <1>1, <1>2, <1>3 DEF Holding
<1>5. ASSUME NEW p \in Product, Settled(p)' PROVE Exact(p)'
  <2>1. \A q \in Order : taken[q] \in Nat /\ freed[q] \in Nat /\ taken'[q] >= taken[q]
    <3>1. \A a \in Nat : a + 1 >= a /\ a >= a
      OBVIOUS
    <3> QED
      BY <1>3, <3>1
  <2>2. Settled(p)
    <3>1. ASSUME NEW q \in Order, Items[q][p] > 0 PROVE taken[q] + freed[q] <= 1
      <4>1. taken'[q] + freed[q] <= 1 /\ taken'[q] \in Nat
        BY <1>2, <1>3, <1>5, <3>1 DEF Settled
      <4> QED
        BY <2>1, <4>1
    <3> QED
      BY <3>1 DEF Settled
  <2>3. ASSUME Items[o][p] > 0 PROVE o \in Holding
    <3>1. (taken[o] + 1) + freed[o] <= 1
      <4>1. taken'[o] + freed'[o] <= 1
        BY <1>1, <1>5, <2>3 DEF Settled
      <4> QED
        BY <1>1, <1>2, <1>3, <4>1
    <3>2. \A a, b \in Nat : (a + 1) + b <= 1 => a = 0 /\ b = 0
      OBVIOUS
    <3>3. taken[o] \in Nat /\ freed[o] \in Nat
      BY <1>1, <1>3
    <3>4. taken[o] = 0 /\ freed[o] = 0
      BY <3>1, <3>2, <3>3
    <3> QED
      BY <1>1, <3>4 DEF Holding
  <2>4. Exact(p)
    BY <2>2 DEF HoldInv
  <2>5. /\ IsFiniteSet(Units(Holding', p))
        /\ reserved'[p] = Cardinality(Units(Holding', p))
    BY <1>1, <1>2, <1>4, <2>2, <2>3, <2>4, OrderLeaves
  <2> QED
    BY <2>5 DEF Exact, Units
<1>6. \A q \in Order : status'[q] = "ABSENT" => freed'[q] = 0
  BY <1>2, <1>3 DEF HoldInv
<1>7. ASSUME NEW c \in Cleaner, Running(c, "expire")'
      PROVE  status'[req'[c].o] # "ABSENT"
  <2>1. req'[c] = req[c]
    BY <1>2, <1>7 DEF ShopInv, TypeOK, Running, Idle
  <2>2. req[c].o \in Order /\ status[req[c].o] # "ABSENT"
    BY <1>7, <2>1 DEF HoldInv, ShopInv, TypeOK, Running, Request, Idle
  <2> QED
    BY <1>3, <2>1, <2>2
<1> QED
  BY <1>5, <1>6, <1>7 DEF HoldInv

LEMMA ExpireHoldInv ==
  ASSUME ShopInv, HoldInv, NEW c \in Cleaner, ExpireCommit(c)
  PROVE  HoldInv'
<1> DEFINE o == req[c].o
<1>1. o \in Order /\ status[o] # "ABSENT"
  BY DEF ExpireCommit, Running, ShopInv, TypeOK, Request, Idle, HoldInv
<1>2. /\ status' = [status EXCEPT ![o] = "CANCELLED"] /\ UNCHANGED taken
      /\ freed' = [freed EXCEPT ![o] = @ + 1]
      /\ reserved' = Release(o)
  BY DEF ExpireCommit
<1>2a. \A e \in Cleaner : Running(e, "expire")' => e # c /\ req'[e] = req[e]
  BY DEF ExpireCommit, ShopInv, TypeOK, Running
<1> HIDE DEF o
<1>3. \A q \in Order : /\ status'[q] = IF q = o THEN "CANCELLED" ELSE status[q]
                       /\ freed'[q] = IF q = o THEN freed[q] + 1 ELSE freed[q]
                       /\ freed[q] \in Nat /\ taken[q] \in Nat
  BY <1>1, <1>2 DEF ShopInv, TypeOK
<1>4. Holding' = Holding \ {o}
  BY <1>1, <1>2, <1>3 DEF Holding
<1>5. ASSUME NEW p \in Product, Settled(p)' PROVE Exact(p)'
  <2>1. \A q \in Order : taken'[q] = taken[q] /\ freed'[q] >= freed[q]
    BY <1>2, <1>3
  <2>2. Settled(p)
    <3>1. ASSUME NEW q \in Order, Items[q][p] > 0 PROVE taken[q] + freed[q] <= 1
      <4>1. taken'[q] + freed'[q] <= 1 /\ freed'[q] \in Nat
        BY <1>3, <1>5, <3>1 DEF Settled
      <4> QED
        BY <1>3, <2>1, <4>1
    <3> QED
      BY <3>1 DEF Settled
  <2>3. ASSUME Items[o][p] > 0 PROVE o \in Holding
    <3>1. taken[o] + (freed[o] + 1) <= 1
      <4>1. taken'[o] + freed'[o] <= 1
        BY <1>1, <1>5, <2>3 DEF Settled
      <4> QED
        BY <1>1, <1>2, <1>3, <4>1
    <3>2. \A a, b \in Nat : a + (b + 1) <= 1 => a = 0 /\ b = 0
      OBVIOUS
    <3>3. taken[o] \in Nat /\ freed[o] \in Nat
      BY <1>1, <1>3
    <3>4. taken[o] = 0 /\ freed[o] = 0
      BY <3>1, <3>2, <3>3
    <3> QED
      BY <1>1, <3>4 DEF Holding
  <2>4. Exact(p)
    BY <2>2 DEF HoldInv
  <2>5. /\ IsFiniteSet(Units(Holding', p))
        /\ Cardinality(Units(Holding', p)) = reserved[p] - Items[o][p]
        /\ reserved[p] >= Items[o][p]
    BY <1>1, <1>4, <2>2, <2>3, <2>4, OrderLeaves
  <2>6. reserved'[p] = reserved[p] - Items[o][p]
    BY <1>2, <2>5 DEF Release
  <2> QED
    BY <2>5, <2>6 DEF Exact, Units
<1>6. \A q \in Order : status'[q] = "ABSENT" => freed'[q] = 0
  BY <1>3 DEF HoldInv
<1>7. ASSUME NEW e \in Cleaner, Running(e, "expire")'
      PROVE  status'[req'[e].o] # "ABSENT"
  <2>1. req'[e] = req[e]
    BY <1>2a, <1>7
  <2>2. req[e].o \in Order /\ status[req[e].o] # "ABSENT"
    BY <1>7, <2>1 DEF HoldInv, ShopInv, TypeOK, Running, Request, Idle
  <2> QED
    BY <1>3, <2>1, <2>2
<1> QED
  BY <1>5, <1>6, <1>7 DEF HoldInv

LEMMA NextHoldInv == ShopInv /\ HoldInv /\ [Next]_vars => HoldInv'
<1> SUFFICES ASSUME ShopInv, HoldInv, [Next]_vars PROVE HoldInv'
  OBVIOUS
<1>1. ASSUME NEW o \in Order, OrderStep(o) PROVE HoldInv'
  <2>1. CASE OpenPayment(o) \/ ClosePayment(o) \/ GrowOld(o)
    <3>1. UNCHANGED <<reserved, taken, freed, status, req>>
      BY <2>1 DEF OpenPayment, ClosePayment, GrowOld, shelfVars
    <3> QED
      BY <3>1, ReservationsKept
  <2>2. ASSUME NEW s \in StatusEdits, UpdateOrderStatus(o, s) PROVE HoldInv'
    <3>1. s # "ABSENT" /\ status[o] # "ABSENT"
      BY <2>2 DEF UpdateOrderStatus, SettableStatus, OrderStatus
    <3>2. \A q \in Order : status'[q] = "ABSENT" <=> status[q] = "ABSENT"
      BY <2>2, <3>1 DEF UpdateOrderStatus, ShopInv, TypeOK
    <3> QED
      BY <2>2, <3>2, ReservationsKept DEF UpdateOrderStatus, shelfVars
  <2> QED
    BY <1>1, <2>1, <2>2, PlaceHoldInv DEF OrderStep
<1>2. ASSUME NEW d \in Desk, DeskStep(d) PROVE HoldInv'
  <2>1. CASE \/ \E o \in Order : FulfilRead(d, o)
             \/ \E p \in Product, n \in Stocks : StockRead(d, p, n)
             \/ StockCommit(d)
    <3>1. UNCHANGED <<reserved, taken, freed, status>>
      BY <2>1 DEF FulfilRead, StockRead, StockCommit, shelfVars, orderVars
    <3>2. \A c \in Cleaner : Running(c, "expire")' => req'[c] = req[c]
      BY <2>1 DEF FulfilRead, StockRead, StockCommit, Begin, Finish, Running, Idle, ShopInv,
        TypeOK
    <3> QED
      BY <3>1, <3>2, ReservationsKept
  <2>2. CASE FulfilCommit(d) /\ ~req[d].placed
    <3>1. /\ UNCHANGED <<reserved, taken, freed, status>>
          /\ req' = [req EXCEPT ![d] = Idle]
      BY <2>2 DEF FulfilCommit, Finish
    <3>2. \A c \in Cleaner : Running(c, "expire")' => req'[c] = req[c]
      BY <3>1 DEF Running, Idle, ShopInv, TypeOK
    <3> QED
      BY <3>1, <3>2, ReservationsKept
  <2>3. CASE FulfilCommit(d) /\ req[d].placed
    BY <2>3, FulfilHoldInv
  <2> QED
    BY <1>2, <2>1, <2>2, <2>3 DEF DeskStep
<1>3. ASSUME NEW c \in Cleaner, CleanerStep(c) PROVE HoldInv'
  <2>1. CASE ExpireScan(c) \/ ExpireDone(c)
    <3>1. UNCHANGED <<reserved, taken, freed, status>>
      BY <2>1 DEF ExpireScan, ExpireDone, shelfVars, orderVars
    <3>2. \A e \in Cleaner : Running(e, "expire")' => req'[e] = req[e]
      BY <2>1 DEF ExpireScan, ExpireDone, Begin, Finish, Running, Idle, ShopInv, TypeOK
    <3> QED
      BY <3>1, <3>2, ReservationsKept
  <2>2. ASSUME NEW o \in Order, ExpireRead(c, o) PROVE HoldInv'
    <3>1. UNCHANGED <<reserved, taken, freed, status>>
      BY <2>2 DEF ExpireRead, shelfVars, orderVars
    <3>2. \A e \in Cleaner : e # c => req'[e] = req[e]
      BY <2>2 DEF ExpireRead, ShopInv, TypeOK
    <3>3. Running(c, "expire")' => req'[c].o = o /\ status[o] = "PLACED"
      BY <2>2 DEF ExpireRead, Running, Expirable, ShopInv, TypeOK
    <3> QED
      BY <3>1, <3>2, <3>3, ReservationsKept
  <2>3. CASE ExpireCommit(c)
    BY <2>3, ExpireHoldInv
  <2> QED
    BY <1>3, <2>1, <2>2, <2>3 DEF CleanerStep
<1>4. ASSUME NEW d \in Desk \cup Cleaner, Abort(d) PROVE HoldInv'
  <2>1. UNCHANGED <<reserved, taken, freed, status>>
    BY <1>4 DEF Abort, shelfVars, orderVars
  <2>2. \A c \in Cleaner : Running(c, "expire")' => req'[c] = req[c]
    BY <1>4 DEF Abort, Finish, Running, Idle, ShopInv, TypeOK
  <2> QED
    BY <2>1, <2>2, ReservationsKept
<1>5. CASE ProductStep \/ UNCHANGED vars
  <2>1. UNCHANGED <<reserved, taken, freed, status, req>>
    BY <1>5 DEF ProductStep, UpdateProduct, orderVars, vars, shelfVars
  <2> QED
    BY <2>1, ReservationsKept
<1> QED
  BY <1>1, <1>2, <1>3, <1>4, <1>5 DEF Next

(* reservedStock is what the orders hold of a product, for any orders,     *)
(* quantities and numbers of fulfilments and clean-up passes, wherever no  *)
(* order of the product was both taken and released or released twice      *)
(* (createOrder, the fulfilment of a prasad payment,                       *)
(* expirePendingOrders): ReservedExact.                                    *)
THEOREM ReservationsAreExact == Spec => []ReservedExact
<1>1. HoldInv => ReservedExact
  BY DEF HoldInv, ReservedExact, Settled, Exact
<1> QED
  BY <1>1, InitHoldInv, NextHoldInv, ShopInvHolds, PTL DEF Spec
----------------------------------------------------------------------------
(* Overselling: what the orders hold is reserved, but for what one of them *)
(* gave up more than once.                                                 *)

Again(f, p) == UNION {(1 .. f[o] - 1) \X Units({o}, p) : o \in Order}

LEMMA AgainGrows ==
  ASSUME NEW f \in [Order -> Nat], NEW o \in Order, NEW p \in Product,
         IsFiniteSet(Again(f, p)), f[o] > 0
  PROVE  LET g == [f EXCEPT ![o] = @ + 1]
         IN  /\ IsFiniteSet(Again(g, p))
             /\ Cardinality(Again(g, p)) = Cardinality(Again(f, p)) + Items[o][p]
<1> DEFINE g == [f EXCEPT ![o] = @ + 1]
           A == Again(f, p)
           U == {f[o]} \X Units({o}, p)
<1>1. \A q \in Order : f[q] \in Nat /\ g[q] = IF q = o THEN f[o] + 1 ELSE f[q]
  OBVIOUS
<1>2. Again(g, p) = A \cup U
  <2>1. 1 .. g[o] - 1 = (1 .. f[o] - 1) \cup {f[o]}
    <3>1. f[o] \in Nat /\ f[o] > 0 /\ g[o] - 1 = f[o]
      BY <1>1
    <3>2. ASSUME NEW k \in Nat, k > 0 PROVE 1 .. k = (1 .. k - 1) \cup {k}
      <4>1. ASSUME NEW x \in 1 .. k PROVE x \in (1 .. k - 1) \cup {k}
        OBVIOUS
      <4>2. ASSUME NEW x \in 1 .. k - 1 PROVE x \in 1 .. k
        OBVIOUS
      <4>3. k \in 1 .. k
        BY <3>2
      <4> DEFINE I == 1 .. k
                 J == 1 .. k - 1
      <4> HIDE DEF I, J
      <4>4. I = J \cup {k}
        BY <4>1, <4>2, <4>3 DEF I, J
      <4> QED
        BY <4>4 DEF I, J
    <3> HIDE DEF g
    <3> QED
      BY <3>1, <3>2
  <2>2. \A q \in Order \ {o} : g[q] = f[q]
    BY <1>1
  <2> HIDE DEF g
  <2>3. (1 .. g[o] - 1) \X Units({o}, p) = ((1 .. f[o] - 1) \X Units({o}, p)) \cup U
    <3>1. \A S, T, V : (S \cup T) \X V = (S \X V) \cup (T \X V)
      OBVIOUS
    <3> QED
      BY <2>1, <3>1
  <2> DEFINE P(h, q) == (1 .. h[q] - 1) \X Units({q}, p)
  <2>4. P(g, o) = P(f, o) \cup U /\ \A q \in Order \ {o} : P(g, q) = P(f, q)
    BY <2>2, <2>3
  <2>5. Again(g, p) = UNION {P(g, q) : q \in Order} /\ A = UNION {P(f, q) : q \in Order}
    BY DEF Again
  <2> HIDE DEF P, A, U
  <2> QED
    BY <2>4, <2>5
<1>3. A \cap U = {}
  <2> SUFFICES ASSUME NEW x \in A, x \in U PROVE FALSE
    OBVIOUS
  <2>1. PICK q \in Order : x \in (1 .. f[q] - 1) \X Units({q}, p)
    BY DEF Again
  <2>2. x[1] \in 1 .. f[q] - 1 /\ x[2] \in Units({q}, p)
    BY <2>1
  <2>3. x[1] = f[o] /\ x[2] \in Units({o}, p)
    OBVIOUS
  <2>4. q = o
    BY <2>2, <2>3 DEF Units
  <2> QED
    BY <1>1, <2>2, <2>3, <2>4
<1>4. IsFiniteSet(U) /\ Cardinality(U) = Items[o][p]
  <2>1. Units({o}, p) = {o} \X (1 .. Items[o][p])
    BY DEF Units
  <2>2. /\ IsFiniteSet(Units({o}, p)) /\ Cardinality(Units({o}, p)) = Items[o][p]
        /\ Items[o][p] \in Nat
    BY <2>1, UnitsOfOne
  <2>3. IsFiniteSet({f[o]}) /\ Cardinality({f[o]}) = 1
    BY FS_Singleton
  <2> DEFINE V == Units({o}, p)
             K == {f[o]}
  <2> HIDE DEF V, K
  <2>4. IsFiniteSet(K \X V) /\ Cardinality(K \X V) = Cardinality(K) * Cardinality(V)
    <3>1. IsFiniteSet(K) /\ IsFiniteSet(V)
      BY <2>2, <2>3 DEF K, V
    <3> QED
      BY <3>1, FS_Product
  <2>5. U = K \X V
    BY DEF K, V
  <2>6. Cardinality(K) = 1 /\ Cardinality(V) = Items[o][p]
    BY <2>2, <2>3 DEF K, V
  <2>7. \A n \in Nat : 1 * n = n
    OBVIOUS
  <2>8. Cardinality(K) * Cardinality(V) = Items[o][p]
    BY <2>2, <2>6, <2>7
  <2> QED
    BY <2>4, <2>5, <2>8
<1> HIDE DEF g, A, U
<1>5. IsFiniteSet(A) /\ Cardinality(A) \in Nat /\ Items[o][p] \in Nat
  BY FS_CardinalityType DEF A
<1>6. Cardinality(A \cap U) = 0
  BY <1>3, FS_EmptySet
<1>7. /\ IsFiniteSet(A \cup U)
      /\ Cardinality(A \cup U) = Cardinality(A) + Cardinality(U) - Cardinality(A \cap U)
  BY <1>4, <1>5, FS_Union
<1>8. Cardinality(A \cup U) = Cardinality(A) + Items[o][p]
  BY <1>4, <1>5, <1>6, <1>7
<1> QED
  BY <1>2, <1>7, <1>8 DEF g, A

\* The first time changes nothing.
LEMMA AgainStarts ==
  ASSUME NEW f \in [Order -> Nat], NEW o \in Order, NEW p \in Product, f[o] = 0
  PROVE  Again([f EXCEPT ![o] = @ + 1], p) = Again(f, p)
<1> DEFINE g == [f EXCEPT ![o] = @ + 1]
<1>1. g[o] = 1 /\ \A q \in Order \ {o} : g[q] = f[q]
  OBVIOUS
<1> HIDE DEF g
<1>2. 1 .. g[o] - 1 = {} /\ 1 .. f[o] - 1 = {}
  BY <1>1
<1>3. \A q \in Order :
        (1 .. g[q] - 1) \X Units({q}, p) = (1 .. f[q] - 1) \X Units({q}, p)
  BY <1>1, <1>2
<1>4. Again(g, p) = Again(f, p)
  <2> DEFINE P(h, q) == (1 .. h[q] - 1) \X Units({q}, p)
  <2>1. Again(g, p) = UNION {P(g, q) : q \in Order}
    BY DEF Again
  <2>2. Again(f, p) = UNION {P(f, q) : q \in Order}
    BY DEF Again
  <2>3. \A q \in Order : P(g, q) = P(f, q)
    BY <1>3
  <2> HIDE DEF P
  <2> QED
    BY <2>1, <2>2, <2>3
<1> QED
  BY <1>4 DEF g

Covered(p) ==
  /\ IsFiniteSet(Units(Holding, p)) /\ IsFiniteSet(Again(GivenUp, p))
  /\ Cardinality(Units(Holding, p)) <= reserved[p] + Cardinality(Again(GivenUp, p))

HeldInv == \A p \in Product : Covered(p)

\* An order that is taken or released gives up what it holds, or adds to what
\* was given up again; reservedStock falls by no more than its items.
LEMMA GivesUp ==
  ASSUME ShopInv, HeldInv, NEW o \in Order, status[o] # "ABSENT",
         GivenUp' = [GivenUp EXCEPT ![o] = @ + 1],
         Holding' = Holding \ {o},
         \A p \in Product : reserved'[p] \in Int /\ reserved'[p] >= reserved[p] - Items[o][p]
  PROVE  HeldInv'
<1> SUFFICES ASSUME NEW p \in Product PROVE Covered(p)'
  BY DEF HeldInv
<1> DEFINE G == GivenUp
           H == Holding
           m == Cardinality(Units(H, p))
           r == Cardinality(Again(G, p))
<1>1. G \in [Order -> Nat] /\ G[o] = taken[o] + freed[o] /\ taken[o] \in Nat /\ freed[o] \in Nat
  BY DEF GivenUp, ShopInv, TypeOK
<1>2. IsFiniteSet(Units(H, p)) /\ IsFiniteSet(Again(G, p)) /\ m <= reserved[p] + r
  BY DEF HeldInv, Covered
<1>3. /\ reserved[p] \in Int /\ reserved'[p] \in Int
      /\ Items[o][p] \in Nat /\ H \in SUBSET Order
      /\ reserved'[p] >= reserved[p] - Items[o][p]
  BY DEF ShopInv, TypeOK, Holding
<1>4. o \in H <=> G[o] = 0
  <2>1. G[o] = taken[o] + freed[o] /\ taken[o] \in Nat /\ freed[o] \in Nat
    BY <1>1
  <2> HIDE DEF G
  <2> QED
    BY <2>1 DEF Holding
<1>5. Covered(p)' <=>
        /\ IsFiniteSet(Units(H \ {o}, p))
        /\ IsFiniteSet(Again([G EXCEPT ![o] = @ + 1], p))
        /\ Cardinality(Units(H \ {o}, p))
             <= reserved'[p] + Cardinality(Again([G EXCEPT ![o] = @ + 1], p))
  BY DEF Covered, Units, Again
<1> HIDE DEF G, H
<1>6. m \in Nat /\ r \in Nat
  BY <1>2, FS_CardinalityType
<1>7. CASE G[o] = 0
  <2>1. Again([G EXCEPT ![o] = @ + 1], p) = Again(G, p)
    BY <1>1, <1>7, AgainStarts
  <2>2. /\ IsFiniteSet(Units(H \ {o}, p))
        /\ Cardinality(Units(H \ {o}, p)) = m - Items[o][p]
    BY <1>2, <1>3, <1>4, <1>7, UnitsRemoved
  <2>3. m - Items[o][p] <= reserved'[p] + r
    BY <1>2, <1>3, <1>6
  <2> QED
    BY <1>2, <1>5, <2>1, <2>2, <2>3
<1>8. CASE G[o] # 0
  <2>1. H \ {o} = H
    BY <1>4, <1>8
  <2>2. G[o] > 0
    BY <1>1, <1>8
  <2>3. /\ IsFiniteSet(Again([G EXCEPT ![o] = @ + 1], p))
        /\ Cardinality(Again([G EXCEPT ![o] = @ + 1], p)) = r + Items[o][p]
    BY <1>1, <1>2, <2>2, AgainGrows
  <2>4. m <= reserved'[p] + (r + Items[o][p])
    BY <1>2, <1>3, <1>6
  <2> QED
    BY <1>2, <1>5, <2>1, <2>3, <2>4
<1> QED
  BY <1>7, <1>8

LEMMA HeldKept ==
  ASSUME HeldInv, UNCHANGED <<reserved, taken, freed>>,
         \A o \in Order : status'[o] = "ABSENT" <=> status[o] = "ABSENT"
  PROVE  HeldInv'
<1>1. Holding' = Holding /\ GivenUp' = GivenUp
  BY DEF Holding, GivenUp
<1>2. ASSUME NEW p \in Product PROVE Covered(p)'
  <2>1. Units(Holding, p)' = Units(Holding, p)
    BY <1>1 DEF Units
  <2>2. Again(GivenUp, p)' = Again(GivenUp, p)
    BY <1>1 DEF Again
  <2> QED
    BY <2>1, <2>2 DEF HeldInv, Covered
<1> QED
  BY <1>2 DEF HeldInv

LEMMA PlaceHeldInv ==
  ASSUME ShopInv, HoldInv, HeldInv, NEW o \in Order, PlaceOrder(o)
  PROVE  HeldInv'
<1>1. /\ status[o] = "ABSENT" /\ taken[o] = 0 /\ freed[o] = 0
      /\ status' = [status EXCEPT ![o] = "PLACED"] /\ UNCHANGED <<taken, freed>>
      /\ reserved' = [p \in Product |-> reserved[p] + Items[o][p]]
  BY DEF PlaceOrder, ShopInv, OrderInv, HoldInv
<1>2. \A q \in Order : status'[q] = IF q = o THEN "PLACED" ELSE status[q]
  BY <1>1 DEF ShopInv, TypeOK
<1>3. Holding' = Holding \cup {o} /\ o \in Order \ Holding /\ Holding \in SUBSET Order
  BY <1>1, <1>2 DEF Holding
<1>4. GivenUp' = GivenUp
  BY <1>1 DEF GivenUp
<1>5. ASSUME NEW p \in Product PROVE Covered(p)'
  <2>1. Covered(p)
    BY DEF HeldInv
  <2>2. /\ IsFiniteSet(Units(Holding \cup {o}, p))
        /\ Cardinality(Units(Holding \cup {o}, p)) = Cardinality(Units(Holding, p)) + Items[o][p]
    BY <1>3, <2>1, UnitsAdded DEF Covered
  <2>3. /\ Cardinality(Units(Holding, p)) \in Nat
        /\ Cardinality(Again(GivenUp, p)) \in Nat
        /\ reserved[p] \in Int /\ Items[o][p] \in Nat
    BY <2>1, FS_CardinalityType DEF Covered, ShopInv, TypeOK
  <2>4. reserved'[p] = reserved[p] + Items[o][p]
    BY <1>1
  <2>5. Cardinality(Units(Holding \cup {o}, p))
          <= reserved'[p] + Cardinality(Again(GivenUp, p))
    BY <2>1, <2>2, <2>3, <2>4 DEF Covered
  <2> QED
    BY <1>3, <1>4, <2>1, <2>2, <2>5 DEF Covered, Units, Again
<1> QED
  BY <1>5 DEF HeldInv

LEMMA FulfilHeldInv ==
  ASSUME ShopInv, HeldInv, NEW d \in Desk, FulfilCommit(d), req[d].placed
  PROVE  HeldInv'
<1> DEFINE o == req[d].o
<1>1. o \in Order /\ status[o] # "ABSENT"
  BY FulfilsAnOrder DEF FulfilCommit, ShopInv, FulfilInv, Sound, Fulfilling
<1>2. /\ status' = [status EXCEPT ![o] = "CONFIRMED"] /\ UNCHANGED freed
      /\ taken' = [taken EXCEPT ![o] = @ + 1]
      /\ reserved' = [p \in Product |-> reserved[p] - Items[o][p]]
  BY DEF FulfilCommit, Take
<1> HIDE DEF o
<1>3. \A q \in Order : /\ status'[q] = IF q = o THEN "CONFIRMED" ELSE status[q]
                       /\ taken'[q] = IF q = o THEN taken[q] + 1 ELSE taken[q]
                       /\ taken[q] \in Nat /\ freed[q] \in Nat
  BY <1>1, <1>2 DEF ShopInv, TypeOK
<1>4. Holding' = Holding \ {o}
  BY <1>1, <1>2, <1>3 DEF Holding
<1>5. GivenUp' = [GivenUp EXCEPT ![o] = @ + 1]
  <2>1. ASSUME NEW q \in Order
        PROVE  taken'[q] + freed[q] = IF q = o THEN (taken[q] + freed[q]) + 1 ELSE taken[q] + freed[q]
    <3>1. taken[q] \in Nat /\ freed[q] \in Nat
      BY <1>3
    <3>2. \A a, b \in Nat : (a + 1) + b = (a + b) + 1
      OBVIOUS
    <3>3. CASE q = o
      <4>1. taken'[q] = taken[q] + 1 /\ freed'[q] = freed[q]
        BY <1>2, <1>3, <3>3
      <4> QED
        BY <3>1, <3>2, <3>3, <4>1
    <3>4. CASE q # o
      <4>1. taken'[q] = taken[q] /\ freed'[q] = freed[q]
        BY <1>2, <1>3, <3>4
      <4> QED
        BY <3>4, <4>1
    <3> QED
      BY <3>3, <3>4
  <2> QED
    BY <1>2, <2>1 DEF GivenUp
<1>6. \A p \in Product : reserved'[p] \in Int /\ reserved'[p] >= reserved[p] - Items[o][p]
  BY <1>1, <1>2 DEF ShopInv, TypeOK
<1> QED
  BY <1>1, <1>4, <1>5, <1>6, GivesUp

LEMMA ExpireHeldInv ==
  ASSUME ShopInv, HoldInv, HeldInv, NEW c \in Cleaner, ExpireCommit(c)
  PROVE  HeldInv'
<1> DEFINE o == req[c].o
<1>1. o \in Order /\ status[o] # "ABSENT"
  BY DEF ExpireCommit, Running, ShopInv, TypeOK, Request, Idle, HoldInv
<1>2. /\ status' = [status EXCEPT ![o] = "CANCELLED"] /\ UNCHANGED taken
      /\ freed' = [freed EXCEPT ![o] = @ + 1]
      /\ reserved' = Release(o)
  BY DEF ExpireCommit
<1> HIDE DEF o
<1>3. \A q \in Order : /\ status'[q] = IF q = o THEN "CANCELLED" ELSE status[q]
                       /\ freed'[q] = IF q = o THEN freed[q] + 1 ELSE freed[q]
                       /\ freed[q] \in Nat /\ taken[q] \in Nat
  BY <1>1, <1>2 DEF ShopInv, TypeOK
<1>4. Holding' = Holding \ {o}
  BY <1>1, <1>2, <1>3 DEF Holding
<1>5. GivenUp' = [GivenUp EXCEPT ![o] = @ + 1]
  <2>1. ASSUME NEW q \in Order
        PROVE  taken[q] + freed'[q] = IF q = o THEN (taken[q] + freed[q]) + 1 ELSE taken[q] + freed[q]
    <3>1. taken[q] \in Nat /\ freed[q] \in Nat
      BY <1>3
    <3>2. \A a, b \in Nat : a + (b + 1) = (a + b) + 1
      OBVIOUS
    <3>3. CASE q = o
      <4>1. freed'[q] = freed[q] + 1 /\ taken'[q] = taken[q]
        BY <1>2, <1>3, <3>3
      <4> QED
        BY <3>1, <3>2, <3>3, <4>1
    <3>4. CASE q # o
      <4>1. taken'[q] = taken[q] /\ freed'[q] = freed[q]
        BY <1>2, <1>3, <3>4
      <4> QED
        BY <3>4, <4>1
    <3> QED
      BY <3>3, <3>4
  <2> QED
    BY <1>2, <2>1 DEF GivenUp
<1>6. \A p \in Product : reserved'[p] \in Int /\ reserved'[p] >= reserved[p] - Items[o][p]
  BY <1>1, <1>2 DEF Release, ShopInv, TypeOK
<1> QED
  BY <1>1, <1>4, <1>5, <1>6, GivesUp

LEMMA NextHeldInv == ShopInv /\ HoldInv /\ HeldInv /\ [Next]_vars => HeldInv'
<1> SUFFICES ASSUME ShopInv, HoldInv, HeldInv, [Next]_vars PROVE HeldInv'
  OBVIOUS
<1>1. ASSUME NEW o \in Order, OrderStep(o) PROVE HeldInv'
  <2>1. CASE OpenPayment(o) \/ ClosePayment(o) \/ GrowOld(o)
    BY <2>1, HeldKept DEF OpenPayment, ClosePayment, GrowOld, shelfVars
  <2>2. ASSUME NEW s \in StatusEdits, UpdateOrderStatus(o, s) PROVE HeldInv'
    <3>1. s # "ABSENT" /\ status[o] # "ABSENT"
      BY <2>2 DEF UpdateOrderStatus, SettableStatus, OrderStatus
    <3>2. \A q \in Order : status'[q] = "ABSENT" <=> status[q] = "ABSENT"
      BY <2>2, <3>1 DEF UpdateOrderStatus, ShopInv, TypeOK
    <3> QED
      BY <2>2, <3>2, HeldKept DEF UpdateOrderStatus, shelfVars
  <2> QED
    BY <1>1, <2>1, <2>2, PlaceHeldInv DEF OrderStep
<1>2. ASSUME NEW d \in Desk, DeskStep(d) PROVE HeldInv'
  <2>1. CASE \/ \E o \in Order : FulfilRead(d, o)
             \/ \E p \in Product, n \in Stocks : StockRead(d, p, n)
             \/ StockCommit(d)
             \/ FulfilCommit(d) /\ ~req[d].placed
    <3>1. UNCHANGED <<reserved, taken, freed, status>>
      BY <2>1 DEF FulfilRead, StockRead, StockCommit, FulfilCommit, shelfVars, orderVars
    <3> QED
      BY <3>1, HeldKept
  <2> QED
    BY <1>2, <2>1, FulfilHeldInv DEF DeskStep
<1>3. ASSUME NEW c \in Cleaner, CleanerStep(c) PROVE HeldInv'
  <2>1. CASE ExpireScan(c) \/ ExpireDone(c) \/ \E o \in Order : ExpireRead(c, o)
    <3>1. UNCHANGED <<reserved, taken, freed, status>>
      BY <2>1 DEF ExpireScan, ExpireDone, ExpireRead, shelfVars, orderVars
    <3> QED
      BY <3>1, HeldKept
  <2> QED
    BY <1>3, <2>1, ExpireHeldInv DEF CleanerStep
<1>4. ASSUME NEW d \in Desk \cup Cleaner, Abort(d) PROVE HeldInv'
  BY <1>4, HeldKept DEF Abort, shelfVars, orderVars
<1>5. CASE ProductStep \/ UNCHANGED vars
  <2>1. UNCHANGED <<reserved, taken, freed, status>>
    BY <1>5 DEF ProductStep, UpdateProduct, orderVars, vars, shelfVars
  <2> QED
    BY <2>1, HeldKept
<1> QED
  BY <1>1, <1>2, <1>3, <1>4, <1>5 DEF Next

LEMMA InitHeldInv == Init => HeldInv /\ WithinStock
<1> SUFFICES ASSUME Init PROVE HeldInv /\ WithinStock
  OBVIOUS
<1>1. ASSUME NEW p \in Product PROVE Covered(p)
  <2>1. Units(Holding, p) = {}
    BY DEF Init, Holding, Units
  <2>2. \A o \in Order : GivenUp[o] = 0
    BY DEF Init, GivenUp
  <2>3. 1 .. 0 - 1 = {}
    OBVIOUS
  <2>4. \A o \in Order : (1 .. GivenUp[o] - 1) \X Units({o}, p) = {}
    BY <2>2, <2>3
  <2>5. Again(GivenUp, p) = {}
    BY <2>4 DEF Again
  <2>6. IsFiniteSet({}) /\ Cardinality({}) = 0
    BY FS_EmptySet
  <2>7. reserved[p] = 0
    BY DEF Init
  <2> QED
    BY <2>1, <2>5, <2>6, <2>7 DEF Covered
<1>2. \A p \in Product : stock[p] \in Nat /\ reserved[p] = 0
  BY DEF Init
<1>3. \A p \in Product : reserved[p] <= stock[p]
  BY <1>2
<1> QED
  BY <1>1, <1>3 DEF HeldInv, WithinStock

(* What the orders still have reserved of a product is on the shelf, but   *)
(* for what was given up twice, by fulfilment and expiry of one order or   *)
(* by two expiries, in any interleaving, as long as nobody enters its      *)
(* stock by hand (createOrder, the fulfilment of a prasad payment,         *)
(* expirePendingOrders): NeverOversold.                                    *)
THEOREM ShelfCoversOrders == Spec => []NeverOversold
<1>1. ASSUME TypeOK, HeldInv, WithinStock PROVE NeverOversold
  <2> SUFFICES ASSUME NEW p \in Product \ entered
               PROVE  Cardinality(Units(Holding, p)) <= stock[p] + Cardinality(Repeated(p))
    BY DEF NeverOversold
  <2>1. Repeated(p) = Again(GivenUp, p)
    BY DEF Repeated, Again
  <2>2. /\ Cardinality(Units(Holding, p)) \in Nat /\ Cardinality(Again(GivenUp, p)) \in Nat
        /\ Cardinality(Units(Holding, p)) <= reserved[p] + Cardinality(Again(GivenUp, p))
    BY <1>1, FS_CardinalityType DEF HeldInv, Covered
  <2>3. reserved[p] <= stock[p] /\ reserved[p] \in Int /\ stock[p] \in Int
    BY <1>1 DEF WithinStock, TypeOK
  <2> QED
    BY <2>1, <2>2, <2>3
<1>2. TypeOK /\ WithinStock /\ [Next]_vars => WithinStock'
  BY NextWithinStock
<1>3. Spec => []HoldInv
  BY InitHoldInv, NextHoldInv, ShopInvHolds, PTL DEF Spec
<1> QED
  BY <1>1, <1>2, <1>3, InitHeldInv, NextHeldInv, ShopInvHolds, TypeCorrect, PTL DEF Spec
=============================================================================
