--------------------------- MODULE LodgingProofs ---------------------------
(***************************************************************************)
(* Theorems about Lodging, for any rooms, stays, nights and numbers of     *)
(* requests and clean-up passes.                                           *)
(***************************************************************************)
EXTENDS Lodging, TLAPS

USE LodgingAssumption

----------------------------------------------------------------------------
(* Type correctness.                                                       *)

LEMMA InitTypeOK == Init => TypeOK
BY DEF Init, TypeOK, Request, Idle

\* Writing a status keeps the rows well typed.
LEMMA SetStatusTyped ==
  ASSUME TypeOK, NEW b \in Stay, NEW s \in StayStatus, SetStatus(b, s)
  PROVE  /\ status' \in [Stay -> StayStatus \cup {"ABSENT"}]
         /\ revived' \subseteq Stay
BY DEF TypeOK, SetStatus

LEMMA WorkerTypeOK ==
  ASSUME NEW p \in Worker, TypeOK, WorkerStep(p)
  PROVE  TypeOK'
<1> USE DEF TypeOK
<1>1. ASSUME NEW b \in Stay, CreateRead(p, b) PROVE TypeOK'
  <2>1. Creating \subseteq Stay
    BY DEF Creating, Running, Request, Idle
  <2>2. raced' \subseteq SUBSET Stay
    BY <1>1, <2>1 DEF CreateRead
  <2> QED
    BY <1>1, <2>2 DEF CreateRead, Begin, Request
<1>2. ASSUME NEW b \in Stay,
             CheckInRead(p, b) \/ QrVerify(p, b) \/ CancelRead(p, b)
      PROVE  TypeOK'
  BY <1>2 DEF CheckInRead, QrVerify, CancelRead, Begin, Request, stayVars
<1>3. ASSUME NEW b \in Stay, NEW s \in {"COMPLETED", "CHECKED_OUT"},
             CheckOutRead(p, b, s)
      PROVE  TypeOK'
  BY <1>3 DEF CheckOutRead, Begin, Request, stayVars
<1>4. ASSUME CreateCommit(p) PROVE TypeOK'
  <2>1. req[p].b \in Stay
    BY <1>4 DEF CreateCommit, Running, Request, Idle
  <2> QED
    BY <1>4, <2>1, SetStatusTyped
    DEF CreateCommit, Finish, Request, StayStatus, PaymentStatus
<1>5. ASSUME QrRead(p) PROVE TypeOK'
  <2>1. req[p].b \in Stay
    BY <1>5 DEF QrRead, Running, Request, Idle
  <2>2. [op |-> "checkIn", b |-> req[p].b] \in Request
    BY <2>1 DEF Request
  <2> QED
    BY <1>5, <2>2 DEF QrRead, Request, stayVars
<1>6. ASSUME CheckInCommit(p) PROVE TypeOK'
  <2>1. req[p].b \in Stay
    BY <1>6 DEF CheckInCommit, Running, Request, Idle
  <2> QED
    BY <1>6, <2>1, SetStatusTyped DEF CheckInCommit, Finish, Request, StayStatus
<1>7. ASSUME CheckOutCommit(p) PROVE TypeOK'
  <2>1. req[p].b \in Stay /\ req[p].to \in StayStatus
    BY <1>7 DEF CheckOutCommit, Running, Request, Idle, StayStatus
  <2> QED
    BY <1>7, <2>1, SetStatusTyped DEF CheckOutCommit, Finish, Request
<1>8. ASSUME CancelCommit(p) PROVE TypeOK'
  <2>1. req[p].b \in Stay
    BY <1>8 DEF CancelCommit, Running, Request, Idle
  <2> QED
    BY <1>8, <2>1, SetStatusTyped DEF CancelCommit, Finish, Request, StayStatus
<1> QED
  BY <1>1, <1>2, <1>3, <1>4, <1>5, <1>6, <1>7, <1>8 DEF WorkerStep

\* What a clean-up pass remembers.
LEMMA PassParts ==
  ASSUME TypeOK, NEW c \in Cleaner
  PROVE  /\ Running(c, "expiring") \/ Running(c, "expire") =>
              req[c].todo \subseteq Stay /\ req[c].unpaid \subseteq Stay
         /\ Running(c, "expire") => req[c].b \in Stay
BY DEF TypeOK, Running, Request, Idle

LEMMA CleanerTypeOK ==
  ASSUME NEW c \in Cleaner, TypeOK, CleanerStep(c)
  PROVE  TypeOK'
<1> USE DEF TypeOK
<1>1. ASSUME ExpireScan(c) PROVE TypeOK'
  <2>1. req'[c] \in Request
    BY <1>1 DEF ExpireScan, Begin, Request, Overdue
  <2> QED
    BY <1>1, <2>1 DEF ExpireScan, Begin, stayVars
<1>2. ASSUME NEW b \in Stay, ExpireRead(c, b) PROVE TypeOK'
  <2>1. req'[c] \in Request
    BY <1>2, PassParts DEF ExpireRead, Request
  <2> QED
    BY <1>2, <2>1 DEF ExpireRead, stayVars
<1>3. ASSUME ExpireCommit(c) PROVE TypeOK'
  <2>1. req[c].b \in Stay
    BY <1>3, PassParts DEF ExpireCommit
  <2>2. req'[c] \in Request
    BY <1>3, PassParts DEF ExpireCommit, Request
  <2>3. payment' \in [Stay -> PaymentStatus \cup {"NONE"}]
    BY <1>3, <2>1 DEF ExpireCommit, PaymentStatus
  <2>4. SetStatus(req[c].b, "CANCELLED") /\ "CANCELLED" \in StayStatus
    BY <1>3 DEF ExpireCommit, ExpiredStatus, StayStatus
  <2> QED
    BY <1>3, <2>1, <2>2, <2>3, <2>4, SetStatusTyped DEF ExpireCommit
<1>4. ASSUME ExpireDone(c) PROVE TypeOK'
  BY <1>4 DEF ExpireDone, Finish, Request, stayVars
<1> QED
  BY <1>1, <1>2, <1>3, <1>4 DEF CleanerStep

LEMMA NextTypeOK == TypeOK /\ [Next]_vars => TypeOK'
<1> SUFFICES ASSUME TypeOK, [Next]_vars PROVE TypeOK'
  OBVIOUS
<1>1. ASSUME NEW p \in Worker \cup Cleaner, Abort(p) PROVE TypeOK'
  BY <1>1 DEF TypeOK, Abort, Finish, Request, stayVars
<1>2. ASSUME NEW b \in Stay, Capture(b) PROVE TypeOK'
  BY <1>2, SetStatusTyped DEF TypeOK, Capture, StayStatus, PaymentStatus
<1>3. ASSUME NEW b \in Stay, ClosePayment(b) \/ GrowOld(b) PROVE TypeOK'
  BY <1>3 DEF TypeOK, ClosePayment, GrowOld, PaymentStatus
<1>4. ASSUME NEW r \in Room, UpdateRoom(r) PROVE TypeOK'
  BY <1>4 DEF TypeOK, UpdateRoom, stayVars
<1>5. CASE UNCHANGED vars
  BY <1>5 DEF TypeOK, vars, stayVars
<1> QED
  BY <1>1, <1>2, <1>3, <1>4, <1>5, WorkerTypeOK, CleanerTypeOK DEF Next, StayStep

(* Every room, stay and payment row, and every request, keeps its type.    *)
THEOREM TypeCorrect == Spec => []TypeOK
BY InitTypeOK, NextTypeOK, PTL DEF Spec
----------------------------------------------------------------------------
(* Who works on which stay.  A creation works on an identifier that is not *)
(* in use; everything else on a stay that exists.                          *)

Actor == Worker \cup Cleaner

Creates(p, b) == Running(p, "create") /\ req[p].b = b

Handles(p, b) ==
  \/ req[p].op \in {"cancel", "verified", "checkIn", "checkOut", "expire"} /\ req[p].b = b
  \/ req[p].op \in {"expiring", "expire"} /\ b \in req[p].todo

RowInv ==
  /\ \A b \in Stay : payment[b] # "NONE" => status[b] # "ABSENT"
  /\ \A p \in Actor, b \in Stay : Handles(p, b) => status[b] # "ABSENT"
  /\ \A p \in Actor, b \in Stay :
       Creates(p, b) => /\ status[b] = "ABSENT"
                        /\ p \in Worker
                        /\ \A q \in Worker : Creates(q, b) => q = p

\* What the overlap query knows while its insert is outstanding.
NightsInv ==
  /\ DoubleStaysExplained
  /\ \A p \in Worker, a, b \in Stay :
       Creates(p, b) /\ Clash(a, b) /\ Holds(status[a]) =>
         {a, b} \in raced \/ a \in revived
  /\ \A p, q \in Worker, a, b \in Stay :
       Creates(p, a) /\ Creates(q, b) /\ a # b => {a, b} \in raced

\* A step other than a creation: no stay starts to hold a room unless it is
\* recorded as revived, and nothing is forgotten.
Gentle ==
  /\ \A a \in Stay :
       \/ status'[a] = status[a]
       \/ /\ status[a] # "ABSENT" /\ status'[a] # "ABSENT"
          /\ Holds(status'[a]) => Holds(status[a]) \/ a \in revived'
  /\ revived \subseteq revived' /\ raced \subseteq raced'
  /\ \A a \in Stay : payment'[a] # "NONE" => payment[a] # "NONE" \/ status[a] # "ABSENT"
  /\ \A p \in Actor, a \in Stay :
       Handles(p, a)' => Handles(p, a) \/ status[a] # "ABSENT"
  /\ \A p \in Actor, a \in Stay : Creates(p, a)' => Creates(p, a)

LEMMA ClashIsMutual == \A a, b \in Stay : Clash(a, b) => Clash(b, a)
BY DEF Clash

LEMMA GentleStep ==
  ASSUME RowInv, NightsInv, Gentle
  PROVE  RowInv' /\ NightsInv'
<1>1. \A a \in Stay : status[a] # "ABSENT" => status'[a] # "ABSENT"
  BY DEF Gentle
<1>2. RowInv'
  <2>1. ASSUME NEW p \in Actor, NEW b \in Stay, Creates(p, b)'
        PROVE  /\ status'[b] = "ABSENT" /\ p \in Worker
               /\ \A q \in Worker : Creates(q, b)' => q = p
    BY <2>1 DEF RowInv, Gentle, Actor
  <2>2. \A b \in Stay : payment'[b] # "NONE" => status'[b] # "ABSENT"
    BY <1>1 DEF RowInv, Gentle
  <2>3. \A p \in Actor, b \in Stay : Handles(p, b)' => status'[b] # "ABSENT"
    BY <1>1 DEF RowInv, Gentle
  <2> QED
    BY <2>1, <2>2, <2>3 DEF RowInv
<1>3. \A a \in Stay : Holds(status'[a]) => Holds(status[a]) \/ a \in revived'
  BY DEF Gentle
<1>4. \A p \in Worker, a \in Stay : Creates(p, a)' => Creates(p, a)
  BY DEF Gentle, Actor
<1>5. ASSUME NEW a \in Stay, NEW b \in Stay, Clash(a, b),
             Holds(status'[a]), Holds(status'[b])
      PROVE  {a, b} \in raced' \/ a \in revived' \/ b \in revived'
  BY <1>3, <1>5 DEF NightsInv, DoubleStaysExplained, Gentle
<1>6. ASSUME NEW p \in Worker, NEW a \in Stay, NEW b \in Stay,
             Creates(p, b)', Clash(a, b), Holds(status'[a])
      PROVE  {a, b} \in raced' \/ a \in revived'
  BY <1>3, <1>4, <1>6 DEF NightsInv, Gentle
<1>7. ASSUME NEW p \in Worker, NEW q \in Worker, NEW a \in Stay, NEW b \in Stay,
             Creates(p, a)', Creates(q, b)', a # b
      PROVE  {a, b} \in raced'
  BY <1>4, <1>7 DEF NightsInv, Gentle
<1>8. NightsInv'
  BY <1>5, <1>6, <1>7 DEF NightsInv, DoubleStaysExplained, Clash
<1> QED
  BY <1>2, <1>8

LEMMA CreateReadStep ==
  ASSUME TypeOK, RowInv, NightsInv, NEW p \in Worker, NEW n \in Stay, CreateRead(p, n)
  PROVE  RowInv' /\ NightsInv'
<1> USE DEF TypeOK
<1>1. \A q \in Actor : q # p => req'[q] = req[q]
  BY DEF CreateRead, Begin, Actor
<1>2. req[p] = Idle /\ req'[p] = [op |-> "create", b |-> n]
  BY DEF CreateRead, Begin
<1>3. \A q \in Actor, b \in Stay : Handles(q, b)' => Handles(q, b)
  BY <1>1, <1>2 DEF Handles, Idle
<1>4. \A q \in Actor, b \in Stay :
        Creates(q, b)' <=> Creates(q, b) \/ (q = p /\ b = n)
  BY <1>1, <1>2 DEF Creates, Running, Idle, Actor
<1>5. \A q \in Worker : ~Creates(q, n)
  BY DEF CreateRead, Creating, Creates
<1>6. RowInv'
  <2>1. \A b \in Stay : payment'[b] # "NONE" => status'[b] # "ABSENT"
    BY DEF RowInv, CreateRead
  <2>2. \A q \in Actor, b \in Stay : Handles(q, b)' => status'[b] # "ABSENT"
    BY <1>3 DEF RowInv, CreateRead
  <2>3. ASSUME NEW q \in Actor, NEW b \in Stay, Creates(q, b)'
        PROVE  /\ status'[b] = "ABSENT" /\ q \in Worker
               /\ \A r \in Worker : Creates(r, b)' => r = q
    BY <1>4, <1>5, <2>3 DEF RowInv, CreateRead, Actor
  <2> QED
    BY <2>1, <2>2, <2>3 DEF RowInv
<1>7. /\ raced \subseteq raced'
      /\ \A q \in Worker, a \in Stay : Creates(q, a) => {a, n} \in raced'
  BY DEF CreateRead, Creating, Creates
<1>8. UNCHANGED <<status, revived>>
  BY DEF CreateRead
<1>9. ASSUME NEW q \in Worker, NEW a \in Stay, NEW b \in Stay,
             Creates(q, b)', Clash(a, b), Holds(status[a])
      PROVE  {a, b} \in raced' \/ a \in revived
  <2>1. CASE b = n
    BY <1>9, <2>1 DEF CreateRead, HoldsRoom
  <2>2. CASE b # n
    BY <1>4, <1>7, <1>9, <2>2 DEF NightsInv, Actor
  <2> QED
    BY <2>1, <2>2
<1>10. ASSUME NEW q \in Worker, NEW r \in Worker, NEW a \in Stay, NEW b \in Stay,
              Creates(q, a)', Creates(r, b)', a # b
       PROVE  {a, b} \in raced'
  <2>1. CASE b = n
    BY <1>4, <1>7, <1>10, <2>1 DEF Actor
  <2>2. CASE a = n
    <3>1. Creates(r, b) /\ {b, a} = {a, b}
      BY <1>4, <1>10, <2>2 DEF Actor
    <3> QED
      BY <1>7, <2>2, <3>1
  <2>3. CASE a # n /\ b # n
    BY <1>4, <1>7, <1>10, <2>3 DEF NightsInv, Actor
  <2> QED
    BY <2>1, <2>2, <2>3
<1>11. NightsInv'
  BY <1>7, <1>8, <1>9, <1>10 DEF NightsInv, DoubleStaysExplained, Clash
<1> QED
  BY <1>6, <1>11

LEMMA CreateCommitStep ==
  ASSUME TypeOK, RowInv, NightsInv, NEW p \in Worker, CreateCommit(p)
  PROVE  RowInv' /\ NightsInv'
<1> USE DEF TypeOK
<1> DEFINE n == req[p].b
<1>0. n \in Stay /\ Creates(p, n)
  BY DEF CreateCommit, Creates, Running, Request, Idle
<1>1. \A q \in Actor : q # p => req'[q] = req[q]
  BY DEF CreateCommit, Finish, Actor
<1>2. req'[p] = Idle
  BY DEF CreateCommit, Finish
<1>3. \A q \in Actor, b \in Stay : Handles(q, b)' => Handles(q, b)
  BY <1>1, <1>2 DEF Handles, Idle
<1>4. \A q \in Actor, b \in Stay : Creates(q, b)' => Creates(q, b) /\ q # p
  BY <1>1, <1>2 DEF Creates, Running, Idle
<1>5. status[n] = "ABSENT"
  BY <1>0 DEF RowInv, Actor
<1>6. /\ status'[n] = "PENDING_PAYMENT"
      /\ \A b \in Stay : b # n => status'[b] = status[b] /\ payment'[b] = payment[b]
      /\ revived' = revived /\ raced' = raced
  BY <1>0, <1>5 DEF CreateCommit, SetStatus
<1>7. \A q \in Actor, b \in Stay : Creates(q, b)' => b # n
  BY <1>0, <1>4 DEF RowInv, Actor
<1> HIDE DEF n
<1>8. RowInv'
  <2>1. \A b \in Stay : payment'[b] # "NONE" => status'[b] # "ABSENT"
    BY <1>6 DEF RowInv
  <2>2. \A q \in Actor, b \in Stay : Handles(q, b)' => status'[b] # "ABSENT"
    BY <1>3, <1>6 DEF RowInv
  <2>3. ASSUME NEW q \in Actor, NEW b \in Stay, Creates(q, b)'
        PROVE  /\ status'[b] = "ABSENT" /\ q \in Worker
               /\ \A r \in Worker : Creates(r, b)' => r = q
    BY <1>4, <1>6, <1>7, <2>3 DEF RowInv, Actor
  <2> QED
    BY <2>1, <2>2, <2>3 DEF RowInv
<1>9. ASSUME NEW a \in Stay, NEW b \in Stay, Clash(a, b),
             Holds(status'[a]), Holds(status'[b])
      PROVE  {a, b} \in raced \/ a \in revived \/ b \in revived
  <2>1. a # b
    BY <1>9 DEF Clash
  <2>2. CASE a # n /\ b # n
    BY <1>6, <1>9, <2>2 DEF NightsInv, DoubleStaysExplained
  <2>3. CASE b = n
    BY <1>0, <1>6, <1>9, <2>1, <2>3 DEF NightsInv
  <2>4. CASE a = n
    <3>1. Clash(b, a) /\ Holds(status[b]) /\ {b, a} = {a, b}
      BY <1>6, <1>9, <2>1, <2>4, ClashIsMutual
    <3> QED
      BY <1>0, <2>4, <3>1 DEF NightsInv
  <2> QED
    BY <2>2, <2>3, <2>4
<1>10. ASSUME NEW q \in Worker, NEW a \in Stay, NEW b \in Stay,
              Creates(q, b)', Clash(a, b), Holds(status'[a])
       PROVE  {a, b} \in raced \/ a \in revived
  <2>1. Creates(q, b) /\ b # n
    BY <1>4, <1>7, <1>10 DEF Actor
  <2>2. CASE a = n
    BY <1>0, <2>1, <2>2 DEF NightsInv
  <2>3. CASE a # n
    BY <1>6, <1>10, <2>1, <2>3 DEF NightsInv
  <2> QED
    BY <2>2, <2>3
<1>11. ASSUME NEW q \in Worker, NEW r \in Worker, NEW a \in Stay, NEW b \in Stay,
              Creates(q, a)', Creates(r, b)', a # b
       PROVE  {a, b} \in raced
  BY <1>4, <1>11 DEF NightsInv, Actor
<1>12. NightsInv'
  BY <1>6, <1>9, <1>10, <1>11 DEF NightsInv, DoubleStaysExplained, Clash
<1> QED
  BY <1>8, <1>12

\* A transaction that writes the status of a stay it handled.
LEMMA StatusStep ==
  ASSUME TypeOK, RowInv, NEW n \in Stay, NEW s \in StayStatus, SetStatus(n, s),
         status[n] # "ABSENT", raced' = raced,
         \A a \in Stay : payment'[a] # "NONE" => payment[a] # "NONE" \/ status[a] # "ABSENT",
         \A p \in Actor, a \in Stay : Handles(p, a)' => Handles(p, a),
         \A p \in Actor, a \in Stay : Creates(p, a)' => Creates(p, a)
  PROVE  Gentle
<1>1. /\ status'[n] = s /\ s # "ABSENT"
      /\ \A a \in Stay : a # n => status'[a] = status[a]
  BY DEF TypeOK, SetStatus, StayStatus
<1>2. Holds(s) => Holds(status[n]) \/ n \in revived'
  BY DEF SetStatus
<1>3. revived \subseteq revived'
  BY DEF SetStatus
<1> QED
  BY <1>1, <1>2, <1>3 DEF Gentle

LEMMA WorkerGentle ==
  ASSUME TypeOK, RowInv, NEW p \in Worker, WorkerStep(p),
         ~(\E b \in Stay : CreateRead(p, b)), ~CreateCommit(p)
  PROVE  Gentle
<1> USE DEF TypeOK, Actor
<1>1. \A q \in Actor : q # p => req'[q] = req[q]
  BY DEF WorkerStep, CheckInRead, QrVerify, CancelRead, CheckOutRead, QrRead,
         CheckInCommit, CheckOutCommit, CancelCommit, Begin, Finish
<1>2. ASSUME NEW b \in Stay,
             \/ CheckInRead(p, b) \/ QrVerify(p, b) \/ CancelRead(p, b)
             \/ \E s \in {"COMPLETED", "CHECKED_OUT"} : CheckOutRead(p, b, s)
      PROVE  Gentle
  <2>1. status[b] # "ABSENT" /\ UNCHANGED stayVars
    BY <1>2 DEF CheckInRead, AdmissibleAtDesk, QrVerify, CancelRead, CheckOutRead
  <2>2. req'[p].b = b /\ req'[p].op \in {"cancel", "verified", "checkIn", "checkOut"}
    BY <1>2 DEF CheckInRead, QrVerify, CancelRead, CheckOutRead, Begin
  <2> QED
    BY <1>1, <2>1, <2>2 DEF Gentle, stayVars, Handles, Creates, Running
<1>3. ASSUME QrRead(p) PROVE Gentle
  <2>1. UNCHANGED stayVars
    BY <1>3 DEF QrRead
  <2>2. req'[p] = Idle \/ req'[p] = [op |-> "checkIn", b |-> req[p].b]
    BY <1>3 DEF QrRead
  <2>3. req[p].op = "verified"
    BY <1>3 DEF QrRead, Running
  <2> QED
    BY <1>1, <2>1, <2>2, <2>3 DEF Gentle, stayVars, Handles, Creates, Running, Idle
<1>4. ASSUME CheckInCommit(p) \/ CheckOutCommit(p) \/ CancelCommit(p)
      PROVE  Gentle
  <2>1. req[p].b \in Stay /\ Handles(p, req[p].b)
    BY <1>4 DEF CheckInCommit, CheckOutCommit, CancelCommit, Running, Handles, Request, Idle
  <2>2. \E s \in StayStatus : SetStatus(req[p].b, s)
    BY <1>4 DEF CheckInCommit, CheckOutCommit, CancelCommit, Running, StayStatus, Request, Idle
  <2>3. req'[p] = Idle
    BY <1>4 DEF CheckInCommit, CheckOutCommit, CancelCommit, Finish
  <2>4. /\ \A q \in Actor, a \in Stay : Handles(q, a)' => Handles(q, a)
        /\ \A q \in Actor, a \in Stay : Creates(q, a)' => Creates(q, a)
    BY <1>1, <2>3 DEF Handles, Creates, Running, Idle
  <2>5. UNCHANGED <<payment, raced>>
    BY <1>4 DEF CheckInCommit, CheckOutCommit, CancelCommit
  <2>6. status[req[p].b] # "ABSENT"
    BY <2>1 DEF RowInv
  <2> QED
    BY <2>1, <2>2, <2>4, <2>5, <2>6, StatusStep
<1> QED
  BY <1>2, <1>3, <1>4 DEF WorkerStep

LEMMA CleanerGentle ==
  ASSUME TypeOK, RowInv, NEW c \in Cleaner, CleanerStep(c)
  PROVE  Gentle
<1> USE DEF TypeOK, Actor
<1>1. \A q \in Actor : q # c => req'[q] = req[q]
  BY DEF CleanerStep, ExpireScan, ExpireRead, ExpireCommit, ExpireDone, Begin, Finish
<1>2. ASSUME ExpireScan(c) PROVE Gentle
  <2>1. /\ req'[c].op = "expiring" /\ UNCHANGED stayVars
        /\ \A b \in req'[c].todo : status[b] # "ABSENT"
    BY <1>2 DEF ExpireScan, Begin, Overdue
  <2> QED
    BY <1>1, <2>1 DEF Gentle, stayVars, Handles, Creates, Running
<1>3. ASSUME NEW b \in Stay, ExpireRead(c, b) PROVE Gentle
  <2>1. UNCHANGED stayVars /\ req[c].op = "expiring" /\ b \in req[c].todo
    BY <1>3 DEF ExpireRead, Running
  <2>2. /\ req'[c].op \in {"expiring", "expire"}
        /\ req'[c].todo \subseteq req[c].todo
        /\ req'[c].op = "expire" => req'[c].b = b
    BY <1>3 DEF ExpireRead
  <2> QED
    BY <1>1, <2>1, <2>2 DEF Gentle, stayVars, Handles, Creates, Running
<1>4. ASSUME ExpireCommit(c) PROVE Gentle
  <2>1. req[c].b \in Stay /\ Handles(c, req[c].b)
    BY <1>4, PassParts DEF ExpireCommit, Running, Handles
  <2>2. SetStatus(req[c].b, "CANCELLED") /\ "CANCELLED" \in StayStatus
    BY <1>4 DEF ExpireCommit, ExpiredStatus, StayStatus
  <2>3. /\ req'[c].op = "expiring" /\ req'[c].todo = req[c].todo
        /\ req[c].op = "expire"
    BY <1>4 DEF ExpireCommit, Running
  <2>4. /\ \A q \in Actor, a \in Stay : Handles(q, a)' => Handles(q, a)
        /\ \A q \in Actor, a \in Stay : Creates(q, a)' => Creates(q, a)
    BY <1>1, <2>3 DEF Handles, Creates, Running
  <2>5. raced' = raced
    BY <1>4 DEF ExpireCommit
  <2>6. status[req[c].b] # "ABSENT"
    BY <2>1 DEF RowInv
  <2>7. \A a \in Stay : payment'[a] # "NONE" => payment[a] # "NONE" \/ status[a] # "ABSENT"
    BY <1>4, <2>1, <2>6 DEF ExpireCommit
  <2> QED
    BY <2>1, <2>2, <2>4, <2>5, <2>6, <2>7, StatusStep
<1>5. ASSUME ExpireDone(c) PROVE Gentle
  BY <1>1, <1>5 DEF ExpireDone, Finish, Gentle, stayVars, Handles, Creates, Running, Idle
<1> QED
  BY <1>2, <1>3, <1>4, <1>5 DEF CleanerStep

\* Every other step that is not a creation.
LEMMA OtherGentle ==
  ASSUME TypeOK, RowInv,
         \/ \E p \in Actor : Abort(p)
         \/ \E b \in Stay : StayStep(b)
         \/ \E r \in Room : UpdateRoom(r)
         \/ UNCHANGED vars
  PROVE  Gentle
<1> USE DEF TypeOK, Actor
<1>1. ASSUME NEW p \in Actor, Abort(p) PROVE Gentle
  <2>1. /\ \A q \in Actor : q # p => req'[q] = req[q]
        /\ req'[p] = Idle /\ UNCHANGED stayVars
    BY <1>1 DEF Abort, Finish
  <2> QED
    BY <2>1 DEF Gentle, stayVars, Handles, Creates, Running, Idle
<1>2. ASSUME NEW b \in Stay, Capture(b) PROVE Gentle
  <2>1. status[b] # "ABSENT"
    BY <1>2 DEF Capture, RowInv
  <2>2. SetStatus(b, "CONFIRMED") /\ "CONFIRMED" \in StayStatus
    BY <1>2 DEF Capture, StayStatus
  <2>3. /\ \A a \in Stay :
             payment'[a] # "NONE" => payment[a] # "NONE" \/ status[a] # "ABSENT"
        /\ UNCHANGED <<raced, req>>
    BY <1>2 DEF Capture
  <2>4. /\ \A q \in Actor, a \in Stay : Handles(q, a)' => Handles(q, a)
        /\ \A q \in Actor, a \in Stay : Creates(q, a)' => Creates(q, a)
    BY <2>3 DEF Handles, Creates, Running
  <2> QED
    BY <2>1, <2>2, <2>3, <2>4, StatusStep
<1>3. ASSUME NEW b \in Stay, ClosePayment(b) PROVE Gentle
  <2>1. /\ \A a \in Stay : payment'[a] # "NONE" => payment[a] # "NONE"
        /\ UNCHANGED <<status, revived, raced, req>>
    BY <1>3 DEF ClosePayment
  <2> QED
    BY <2>1 DEF Gentle, Handles, Creates, Running
<1>4. ASSUME \/ \E b \in Stay : GrowOld(b)
             \/ \E r \in Room : UpdateRoom(r)
             \/ UNCHANGED vars
      PROVE  Gentle
  <2>1. UNCHANGED <<status, payment, revived, raced, req>>
    BY <1>4 DEF GrowOld, UpdateRoom, vars, stayVars
  <2> QED
    BY <2>1 DEF Gentle, Handles, Creates, Running
<1> QED
  BY <1>1, <1>2, <1>3, <1>4 DEF StayStep

----------------------------------------------------------------------------
(* The rooms.                                                              *)

LEMMA InitNights == Init => RowInv /\ NightsInv
<1> SUFFICES ASSUME Init PROVE RowInv /\ NightsInv
  OBVIOUS
<1>1. \A p \in Actor : req[p].op = "idle"
  BY DEF Init, Actor, Idle
<1>2. RowInv
  BY <1>1 DEF Init, RowInv, Handles, Creates, Running, Actor
<1>3. NightsInv
  BY <1>1 DEF Init, NightsInv, DoubleStaysExplained, Holds, Creates, Running, Actor
<1> QED
  BY <1>2, <1>3

LEMMA NextNights ==
  TypeOK /\ RowInv /\ NightsInv /\ [Next]_vars => RowInv' /\ NightsInv'
<1> SUFFICES ASSUME TypeOK, RowInv, NightsInv, [Next]_vars
             PROVE  RowInv' /\ NightsInv'
  OBVIOUS
<1>1. ASSUME NEW p \in Worker, WorkerStep(p) PROVE RowInv' /\ NightsInv'
  BY <1>1, CreateReadStep, CreateCommitStep, WorkerGentle, GentleStep
<1>2. ASSUME NEW c \in Cleaner, CleanerStep(c) PROVE RowInv' /\ NightsInv'
  BY <1>2, CleanerGentle, GentleStep
<1>3. ASSUME \/ \E p \in Actor : Abort(p)
             \/ \E b \in Stay : StayStep(b)
             \/ \E r \in Room : UpdateRoom(r)
             \/ UNCHANGED vars
      PROVE  RowInv' /\ NightsInv'
  BY <1>3, OtherGentle, GentleStep
<1> QED
  BY <1>1, <1>2, <1>3 DEF Next, Actor

(* Two stays hold one room for one night only past a race of their         *)
(* creations or a revival of one of them.                                  *)
THEOREM NightsKept == Spec => []DoubleStaysExplained
<1>1. TypeOK /\ RowInv /\ NightsInv /\ [Next]_vars => (TypeOK /\ RowInv /\ NightsInv)'
  BY NextTypeOK, NextNights
<1>2. NightsInv => DoubleStaysExplained
  BY DEF NightsInv
<1> QED
  BY InitTypeOK, InitNights, <1>1, <1>2, PTL DEF Spec

----------------------------------------------------------------------------
(* The guests.                                                             *)

\* What a request read about a stay stays true of it while it is carried out.
PaidInv ==
  /\ GuestsPaid
  /\ \A p \in Actor :
       /\ req[p].op \in {"verified", "checkIn", "checkOut"} => req[p].b \in paid
       /\ req[p].op = "checkOut" => req[p].b \in qr

LEMMA WorkerPaid ==
  ASSUME TypeOK, PaidInv, NEW p \in Worker, WorkerStep(p)
  PROVE  PaidInv'
<1> USE DEF TypeOK, Actor
<1>1. \A q \in Actor : q # p => req'[q] = req[q]
  BY DEF WorkerStep, CreateRead, CreateCommit, CheckInRead, QrVerify, CancelRead,
         CheckOutRead, QrRead, CheckInCommit, CheckOutCommit, CancelCommit, Begin, Finish
<1>2. ASSUME NEW b \in Stay, CreateRead(p, b) \/ CancelRead(p, b) PROVE PaidInv'
  <2>1. req'[p].op \in {"create", "cancel"} /\ UNCHANGED <<status, paid, qr>>
    BY <1>2 DEF CreateRead, CancelRead, Begin, stayVars
  <2> QED
    BY <1>1, <2>1 DEF PaidInv, GuestsPaid
<1>3. ASSUME NEW b \in Stay,
             \/ CheckInRead(p, b) \/ QrVerify(p, b)
             \/ \E s \in {"COMPLETED", "CHECKED_OUT"} : CheckOutRead(p, b, s)
      PROVE  PaidInv'
  <2>1. req'[p].b = b /\ UNCHANGED <<status, paid, qr>>
    BY <1>3 DEF CheckInRead, QrVerify, CheckOutRead, Begin, stayVars
  <2>2. b \in paid /\ b \in qr
    BY <1>3 DEF PaidInv, GuestsPaid, CheckInRead, AdmissibleAtDesk, QrVerify, CheckOutRead
  <2> QED
    BY <1>1, <2>1, <2>2 DEF PaidInv, GuestsPaid
<1>4. ASSUME QrRead(p) PROVE PaidInv'
  <2>1. /\ req[p].op = "verified"
        /\ req'[p] = Idle \/ req'[p] = [op |-> "checkIn", b |-> req[p].b]
        /\ UNCHANGED <<status, paid, qr>>
    BY <1>4 DEF QrRead, Running, stayVars
  <2> QED
    BY <1>1, <2>1 DEF PaidInv, GuestsPaid, Idle
<1>5. ASSUME CreateCommit(p) \/ CancelCommit(p) PROVE PaidInv'
  <2>1. /\ \A b \in Stay : \/ status'[b] = status[b]
                           \/ status'[b] \in {"PENDING_PAYMENT", "CANCELLED"}
        /\ UNCHANGED <<paid, qr>> /\ req'[p] = Idle
    BY <1>5 DEF CreateCommit, CancelCommit, SetStatus, Finish
  <2> QED
    BY <1>1, <2>1 DEF PaidInv, GuestsPaid, Idle
<1>6. ASSUME CheckInCommit(p) PROVE PaidInv'
  <2>1. req[p].b \in paid
    BY <1>6 DEF CheckInCommit, Running, PaidInv
  <2>2. /\ \A b \in Stay : b # req[p].b => status'[b] = status[b]
        /\ qr' = qr \cup {req[p].b} /\ UNCHANGED paid /\ req'[p] = Idle
    BY <1>6 DEF CheckInCommit, SetStatus, Finish
  <2> QED
    BY <1>1, <2>1, <2>2 DEF PaidInv, GuestsPaid, Idle
<1>7. ASSUME CheckOutCommit(p) PROVE PaidInv'
  <2>1. req[p].b \in paid /\ req[p].b \in qr
    BY <1>7 DEF CheckOutCommit, Running, PaidInv
  <2>2. /\ \A b \in Stay : b # req[p].b => status'[b] = status[b]
        /\ UNCHANGED <<qr, paid>> /\ req'[p] = Idle
    BY <1>7 DEF CheckOutCommit, SetStatus, Finish
  <2> QED
    BY <1>1, <2>1, <2>2 DEF PaidInv, GuestsPaid, Idle
<1> QED
  BY <1>2, <1>3, <1>4, <1>5, <1>6, <1>7 DEF WorkerStep

LEMMA NextPaid == TypeOK /\ PaidInv /\ [Next]_vars => PaidInv'
<1> SUFFICES ASSUME TypeOK, PaidInv, [Next]_vars PROVE PaidInv'
  OBVIOUS
<1> USE DEF TypeOK, Actor
<1>1. ASSUME NEW c \in Cleaner, CleanerStep(c) PROVE PaidInv'
  <2>1. /\ \A q \in Actor : q # c => req'[q] = req[q]
        /\ req'[c].op \in {"idle", "expiring", "expire"}
        /\ UNCHANGED <<paid, qr>>
    BY <1>1 DEF CleanerStep, ExpireScan, ExpireRead, ExpireCommit, ExpireDone,
                Begin, Finish, Idle, stayVars
  <2>2. \A b \in Stay : status'[b] = status[b] \/ status'[b] = "CANCELLED"
    BY <1>1 DEF CleanerStep, ExpireScan, ExpireRead, ExpireCommit, ExpireDone,
                SetStatus, ExpiredStatus, stayVars
  <2> QED
    BY <2>1, <2>2 DEF PaidInv, GuestsPaid
<1>2. ASSUME NEW p \in Actor, Abort(p) PROVE PaidInv'
  <2>1. /\ \A q \in Actor : q # p => req'[q] = req[q]
        /\ req'[p] = Idle /\ UNCHANGED stayVars
    BY <1>2 DEF Abort, Finish
  <2> QED
    BY <2>1 DEF PaidInv, GuestsPaid, stayVars, Idle
<1>3. ASSUME NEW b \in Stay, Capture(b) PROVE PaidInv'
  <2>1. /\ \A a \in Stay : a # b => status'[a] = status[a]
        /\ paid' = paid \cup {b} /\ qr' = qr \cup {b} /\ req' = req
    BY <1>3 DEF Capture, SetStatus
  <2> QED
    BY <2>1 DEF PaidInv, GuestsPaid
<1>4. ASSUME \/ \E b \in Stay : ClosePayment(b) \/ GrowOld(b)
             \/ \E r \in Room : UpdateRoom(r)
             \/ UNCHANGED vars
      PROVE  PaidInv'
  <2>1. UNCHANGED <<status, paid, qr, req>>
    BY <1>4 DEF ClosePayment, GrowOld, UpdateRoom, vars, stayVars
  <2> QED
    BY <2>1 DEF PaidInv, GuestsPaid
<1> QED
  BY <1>1, <1>2, <1>3, <1>4, WorkerPaid DEF Next, StayStep

(* A stay is confirmed, entered, left or completed only once its payment   *)
(* was captured, and then it has a token.                                  *)
THEOREM GuestsHavePaid == Spec => []GuestsPaid
<1>1. Init => PaidInv
  BY DEF Init, PaidInv, GuestsPaid, Actor, Idle
<1>2. TypeOK /\ PaidInv /\ [Next]_vars => (TypeOK /\ PaidInv)'
  BY NextTypeOK, NextPaid
<1>3. PaidInv => GuestsPaid
  BY DEF PaidInv
<1> QED
  BY InitTypeOK, <1>1, <1>2, <1>3, PTL DEF Spec
=============================================================================
