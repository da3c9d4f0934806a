-------------------------- MODULE PublishingProofs --------------------------
(***************************************************************************)
(* What administrators publish, for every set of rows, schedules and days  *)
(* and every number of requests: darshan slots agree with their schedules, *)
(* deletions keep the records of money, the deletion of a temple takes no  *)
(* booking of another, and no deletion leaves a reference dangling.        *)
(***************************************************************************)
EXTENDS Catalogue, DarshanSchedules, TLAPS

----------------------------------------------------------------------------
(* Deletions keep the records of money.  A row is taken only by a cascade  *)
(* of one of its keys: those of Payment do not cascade, and the one of     *)
(* PaymentEvent refers to a payment, which stays.                          *)

\* An event of a payment refers to a payment.
EventsOfPayments(rows) ==
  \A x \in DOMAIN rows : Table[x] = "paymentEvent" =>
    rows[x].payment \in Row /\ Table[rows[x].payment] = "payment"

LedgerInv ==
  /\ DOMAIN data \subseteq Row
  /\ write = [w \in Writer |-> write[w]]
  /\ EventsOfPayments(data)
  /\ \A w \in Writer : DOMAIN write[w] \subseteq Row /\ EventsOfPayments(write[w])

LEMMA InitLedger == CatalogueInit => LedgerInv
  BY DEF CatalogueInit, LedgerInv, NoWrite, EventsOfPayments

LEMMA PaymentsKeyless == \A k \in DOMAIN PaymentKeys : PaymentKeys[k].deletion = "set null"
<1>1. DOMAIN PaymentKeys =
        {"booking", "donation", "prasadOrder", "accommodation", "mahaprasad"}
  BY DEF PaymentKeys
<1>2. /\ PaymentKeys["booking"] = SetNull("booking")
      /\ PaymentKeys["donation"] = SetNull("donation")
      /\ PaymentKeys["prasadOrder"] = SetNull("prasadOrder")
      /\ PaymentKeys["accommodation"] = SetNull("accommodationBooking")
      /\ PaymentKeys["mahaprasad"] = SetNull("mahaprasadBooking")
  BY DEF PaymentKeys
<1>3. \A t : SetNull(t).deletion = "set null"
  BY DEF SetNull
<1>. QED  BY <1>1, <1>2, <1>3

\* A deletion of rows that are no records of money takes none.
LEMMA ReferringKept ==
  ASSUME LedgerInv, NEW rows, rows \subseteq Row,
         \A x \in rows : Table[x] \notin Ledger
  PROVE  /\ WithReferring(rows) \subseteq Row
         /\ \A x \in WithReferring(rows) : Table[x] \notin Ledger
<1>1. ASSUME NEW x \in WithReferring(rows), x \notin rows
      PROVE  x \in Row /\ Table[x] \notin Ledger
  <2>1. PICK k \in KeyNames(x) : x \in DOMAIN data /\ Refers(x, k, rows, "cascade")
    BY <1>1 DEF WithReferring
  <2>2. x \in Row /\ Table[x] \in DOMAIN KeysOf
    BY <2>1, CatalogueAssumption DEF LedgerInv
  <2>3. Table[x] # "payment"
    <3>1. SUFFICES ASSUME Table[x] = "payment" PROVE FALSE
      OBVIOUS
    <3>2. KeysOf[Table[x]] = PaymentKeys
      BY <3>1 DEF KeysOf
    <3>3. PaymentKeys[k].deletion = "cascade" /\ k \in DOMAIN PaymentKeys
      BY <2>1, <3>2 DEF Refers, KeyNames
    <3>. QED  BY <3>3, PaymentsKeyless
  <2>4. Table[x] # "paymentEvent"
    <3>1. SUFFICES ASSUME Table[x] = "paymentEvent" PROVE FALSE
      OBVIOUS
    <3>2. KeysOf[Table[x]] = PaymentEventKeys
      BY <3>1 DEF KeysOf
    <3>3. k = "payment"
      BY <2>1, <3>2 DEF KeyNames, PaymentEventKeys
    <3>4. data[x].payment \in rows
      BY <2>1, <3>3 DEF Refers
    <3>5. Table[data[x].payment] = "payment"
      BY <2>1, <3>1 DEF LedgerInv, EventsOfPayments
    <3>. QED  BY <3>4, <3>5 DEF Ledger
  <2>. QED  BY <2>2, <2>3, <2>4 DEF Ledger
<1>. QED  BY <1>1

LEMMA TakenKept ==
  ASSUME LedgerInv, NEW x \in DOMAIN data, Table[x] \notin Ledger
  PROVE  \A y \in Taken(x) : Table[y] \notin Ledger
<1>1. {x} \subseteq Row /\ \A y \in {x} : Table[y] \notin Ledger
  BY DEF LedgerInv
<1>2. /\ WithReferring({x}) \subseteq Row
      /\ \A y \in WithReferring({x}) : Table[y] \notin Ledger
  BY <1>1, ReferringKept
<1>3. /\ WithReferring(WithReferring({x})) \subseteq Row
      /\ \A y \in WithReferring(WithReferring({x})) : Table[y] \notin Ledger
  BY <1>2, ReferringKept
<1>4. \A y \in WithReferring(WithReferring(WithReferring({x}))) : Table[y] \notin Ledger
  BY <1>3, ReferringKept
<1>. QED  BY <1>4 DEF Taken

----------------------------------------------------------------------------
(* Insertions                                                              *)

LEMMA AsksKept ==
  ASSUME LedgerInv, NEW w \in Writer, NEW new, Asks(w, new),
         DOMAIN new \subseteq Row, EventsOfPayments(new)
  PROVE  LedgerInv' /\ UNCHANGED data
<1>1. data' = data /\ write' = [write EXCEPT ![w] = new]
  BY DEF Asks
<1>2. \A v \in Writer : write'[v] = IF v = w THEN new ELSE write[v]
  BY <1>1 DEF LedgerInv
<1>3. \A v \in Writer : DOMAIN write'[v] \subseteq Row /\ EventsOfPayments(write'[v])
  BY <1>2 DEF LedgerInv
<1>4. write' = [v \in Writer |-> write'[v]]
  BY <1>1 DEF LedgerInv
<1>. QED  BY <1>1, <1>3, <1>4 DEF LedgerInv, EventsOfPayments

LEMMA ForKept ==
  ASSUME LedgerInv, NEW w \in Writer, NEW table, NEW key, NEW t,
         For(w, table, key, t), table # "paymentEvent"
  PROVE  LedgerInv' /\ UNCHANGED data
<1>1. PICK x \in Fresh(table), p \in Rows(t) : Asks(w, Alone(x, [k \in {key} |-> p]))
  BY DEF For
<1>2. DOMAIN (Alone(x, [k \in {key} |-> p])) = {x}
  BY DEF Alone
<1>3. x \in Row /\ Table[x] # "paymentEvent"
  BY DEF Fresh
<1>4. EventsOfPayments(Alone(x, [k \in {key} |-> p]))
  BY <1>2, <1>3 DEF EventsOfPayments
<1>. QED  BY <1>1, <1>2, <1>3, <1>4, AsksKept

LEMMA RecordEventKept ==
  ASSUME LedgerInv, NEW w \in Writer, RecordPaymentEvent(w)
  PROVE  LedgerInv' /\ UNCHANGED data
<1>1. PICK x \in Fresh("paymentEvent"), p \in Rows("payment") :
         Asks(w, Alone(x, [k \in {"payment"} |-> p]))
  BY DEF RecordPaymentEvent, For
<1> DEFINE new == Alone(x, [k \in {"payment"} |-> p])
<1>2. DOMAIN new = {x} /\ new[x] = [k \in {"payment"} |-> p]
  BY DEF Alone
<1>3. [k \in {"payment"} |-> p].payment = p
  BY DEF Alone
<1>4. p \in Row /\ Table[p] = "payment"
  BY DEF LedgerInv, Rows
<1>5. EventsOfPayments(new)
  BY <1>2, <1>3, <1>4 DEF EventsOfPayments
<1>6. DOMAIN new \subseteq Row
  BY <1>2 DEF Fresh
<1>. QED  BY <1>1, <1>5, <1>6, AsksKept

\* An insertion without a payment event asks for nothing else.
LEMMA OthersKept ==
  ASSUME LedgerInv, NEW w \in Writer, NEW new, Asks(w, new),
         \A x \in DOMAIN new : x \in Row /\ Table[x] # "paymentEvent"
  PROVE  LedgerInv' /\ UNCHANGED data
<1>1. DOMAIN new \subseteq Row /\ EventsOfPayments(new)
  BY DEF EventsOfPayments
<1>. QED  BY <1>1, AsksKept

LEMMA AloneKept ==
  ASSUME LedgerInv, NEW w \in Writer, NEW x, NEW keys, Asks(w, Alone(x, keys)),
         x \in Row, Table[x] # "paymentEvent"
  PROVE  LedgerInv' /\ UNCHANGED data
<1>1. DOMAIN Alone(x, keys) = {x}
  BY DEF Alone
<1>. QED  BY <1>1, OthersKept

LEMMA PairKept ==
  ASSUME LedgerInv, NEW w \in Writer, NEW x, NEW y, NEW k, NEW l,
         Asks(w, Joined(Alone(x, k), Alone(y, l))),
         x \in Row, Table[x] # "paymentEvent", y \in Row, Table[y] # "paymentEvent"
  PROVE  LedgerInv' /\ UNCHANGED data
<1>1. DOMAIN Joined(Alone(x, k), Alone(y, l)) = {x, y}
  BY DEF Alone, Joined
<1>. QED  BY <1>1, OthersKept

LEMMA FreshRows == \A t : \A x \in Fresh(t) : x \in Row /\ Table[x] = t
  BY DEF Fresh

LEMMA CreateKept ==
  ASSUME LedgerInv, NEW w \in Writer, Create(w)
  PROVE  LedgerInv' /\ UNCHANGED data
<1>1. CASE \/ AssignStaff(w) \/ CreateInformation(w) \/ CreateDeity(w)
           \/ CreateDarshanSchedule(w) \/ GenerateSlot(w) \/ CreateAarti(w)
           \/ CreatePujaSlot(w) \/ CreateSevaSlot(w) \/ MarkCheckedIn(w)
           \/ CreateCause(w) \/ CreateReceipt(w) \/ CreateEvent(w) \/ Register(w)
           \/ CreateProduct(w) \/ CreateRoom(w) \/ CreateAnnouncement(w)
           \/ SeedGurukul(w) \/ CreateGurukulSchedule(w) \/ CreateMahaprasadSlot(w)
  <2>1. PICK table, key, t : For(w, table, key, t) /\ table # "paymentEvent"
    BY <1>1 DEF AssignStaff, CreateInformation, CreateDeity, CreateDarshanSchedule,
         GenerateSlot, CreateAarti, CreatePujaSlot, CreateSevaSlot, MarkCheckedIn,
         CreateCause, CreateReceipt, CreateEvent, Register, CreateProduct, CreateRoom,
         CreateAnnouncement, SeedGurukul, CreateGurukulSchedule, CreateMahaprasadSlot
  <2>. QED  BY <2>1, ForKept
<1>2. CASE RecordPaymentEvent(w)
  BY <1>2, RecordEventKept
<1>3. CASE \/ CreateTemple(w) \/ CreateMedia(w) \/ CreateGalleryItem(w)
           \/ CreatePuja(w) \/ CreateSeva(w) \/ AddAddress(w)
           \/ CreatePujaBooking(w) \/ CreateSevaBooking(w) \/ CreateDarshanBooking(w)
           \/ CreatePayment(w) \/ CreatePaath(w) \/ CreateAdmission(w)
  <2>1. CASE CreateTemple(w) \/ AddAddress(w)
    <3>1. PICK x \in Fresh("temple") \cup Fresh("address") : Asks(w, Alone(x, <<>>))
      BY <2>1 DEF CreateTemple, AddAddress
    <3>. QED  BY <3>1, AloneKept, FreshRows
  <2>2. CASE CreateMedia(w)
    <3>1. PICK x \in Fresh("media") : \E t, d : Asks(w, Alone(x, [temple |-> t, deity |-> d]))
      BY <2>2 DEF CreateMedia
    <3>. QED  BY <3>1, AloneKept, FreshRows
  <2>3. CASE CreateGalleryItem(w)
    <3>1. PICK x \in Fresh("galleryItem") : \E t, m :
            Asks(w, Alone(x, [temple |-> t, media |-> m]))
      BY <2>3 DEF CreateGalleryItem
    <3>. QED  BY <3>1, AloneKept, FreshRows
  <2>4. CASE CreatePuja(w) \/ CreateSeva(w)
    <3>1. PICK x \in Fresh("puja") \cup Fresh("seva") : \E t, d :
            Asks(w, Alone(x, [temple |-> t, deity |-> d]))
      BY <2>4 DEF CreatePuja, CreateSeva, Rite
    <3>. QED  BY <3>1, AloneKept, FreshRows
  <2>5. CASE CreatePujaBooking(w) \/ CreateSevaBooking(w) \/ CreateDarshanBooking(w)
    <3>1. PICK x \in Fresh("booking") : \E s, t : Asks(w, Alone(x, [temple |-> t, slot |-> s]))
      BY <2>5 DEF CreatePujaBooking, CreateSevaBooking, CreateDarshanBooking, BookSlot
    <3>. QED  BY <3>1, AloneKept, FreshRows
  <2>6. CASE CreatePayment(w)
    <3>1. PICK x \in Fresh("payment") : \E k, e : Asks(w, Alone(x, PaidFor(k, e)))
      BY <2>6 DEF CreatePayment
    <3>. QED  BY <3>1, AloneKept, FreshRows
  <2>7. CASE CreatePaath(w)
    <3>1. PICK x \in Fresh("paath") : \E t : Asks(w, Alone(x, [temple |-> t]))
      BY <2>7 DEF CreatePaath
    <3>. QED  BY <3>1, AloneKept, FreshRows
  <2>8. CASE CreateAdmission(w)
    <3>1. PICK x \in Fresh("gurukulAdmission") : \E g : Asks(w, Alone(x, [gurukul |-> g]))
      BY <2>8 DEF CreateAdmission
    <3>. QED  BY <3>1, AloneKept, FreshRows
  <2>. QED  BY <1>3, <2>1, <2>2, <2>3, <2>4, <2>5, <2>6, <2>7, <2>8
<1>4. CASE CreateOrder(w)
  <2>1. PICK x \in Fresh("prasadOrder"), y \in Fresh("prasadOrderItem") : \E k, l :
          Asks(w, Joined(Alone(x, k), Alone(y, l)))
    BY <1>4 DEF CreateOrder
  <2>. QED  BY <2>1, PairKept, FreshRows
<1>5. CASE CreateStay(w)
  <2>1. PICK x \in Fresh("accommodationBooking"), y \in Fresh("payment") : \E k, l :
          Asks(w, Joined(Alone(x, k), Alone(y, l)))
    BY <1>5 DEF CreateStay
  <2>. QED  BY <2>1, PairKept, FreshRows
<1>6. CASE BookMahaprasad(w)
  <2>1. PICK x \in Fresh("mahaprasadBooking"), s \in Rows("mahaprasadSlot") :
          \/ Asks(w, Alone(x, [slot |-> s]))
          \/ \E p \in Fresh("payment") :
               Asks(w, Joined(Alone(x, [slot |-> s]), Alone(p, PaidFor("mahaprasad", x))))
    BY <1>6 DEF BookMahaprasad
  <2>2. CASE Asks(w, Alone(x, [slot |-> s]))
    BY <2>2, AloneKept, FreshRows
  <2>3. ASSUME NEW p \in Fresh("payment"),
               Asks(w, Joined(Alone(x, [slot |-> s]), Alone(p, PaidFor("mahaprasad", x))))
        PROVE  LedgerInv' /\ UNCHANGED data
    BY <2>3, PairKept, FreshRows
  <2>. QED  BY <2>1, <2>2, <2>3
<1>7. CASE CreateDonation(w)
  <2>1. PICK x \in Fresh("donation") : \E k :
          \/ Asks(w, Alone(x, k))
          \/ \E p \in Fresh("payment"), r \in Fresh("donationReceipt") : \E l, j :
               Asks(w, Joined(Alone(x, k), Joined(Alone(p, l), Alone(r, j))))
    BY <1>7 DEF CreateDonation
  <2>2. PICK k :
          \/ Asks(w, Alone(x, k))
          \/ \E p \in Fresh("payment"), r \in Fresh("donationReceipt") : \E l, j :
               Asks(w, Joined(Alone(x, k), Joined(Alone(p, l), Alone(r, j))))
    BY <2>1
  <2>3. CASE Asks(w, Alone(x, k))
    BY <2>3, AloneKept, FreshRows
  <2>4. ASSUME NEW p \in Fresh("payment"), NEW r \in Fresh("donationReceipt"), NEW l, NEW j,
               Asks(w, Joined(Alone(x, k), Joined(Alone(p, l), Alone(r, j))))
        PROVE  LedgerInv' /\ UNCHANGED data
    <3>1. DOMAIN Joined(Alone(x, k), Joined(Alone(p, l), Alone(r, j))) = {x, p, r}
      BY DEF Alone, Joined
    <3>2. /\ x \in Row /\ Table[x] # "paymentEvent"
          /\ p \in Row /\ Table[p] # "paymentEvent"
          /\ r \in Row /\ Table[r] # "paymentEvent"
      BY FreshRows
    <3>. QED  BY <2>4, <3>1, <3>2, OthersKept
  <2>. QED  BY <2>2, <2>3, <2>4
<1>. QED  BY <1>1, <1>2, <1>3, <1>4, <1>5, <1>6, <1>7 DEF Create

LEMMA InsertKept ==
  ASSUME LedgerInv, NEW w \in Writer, Insert(w)
  PROVE  LedgerInv' /\ DOMAIN data \subseteq DOMAIN data'
<1>1. /\ data' = Joined(write[w], data)
      /\ write' = [write EXCEPT ![w] = NoWrite]
  BY DEF Insert
<1>2. DOMAIN data' = DOMAIN write[w] \cup DOMAIN data
  BY <1>1 DEF Joined
<1>3. \A x \in DOMAIN data' :
        data'[x] = IF x \in DOMAIN write[w] THEN write[w][x] ELSE data[x]
  BY <1>1 DEF Joined
<1>4. EventsOfPayments(data')
  BY <1>2, <1>3 DEF LedgerInv, EventsOfPayments
<1>5. \A v \in Writer : write'[v] = IF v = w THEN NoWrite ELSE write[v]
  BY <1>1 DEF LedgerInv
<1>6. DOMAIN NoWrite = {}
  BY DEF NoWrite
<1>7. \A v \in Writer : DOMAIN write'[v] \subseteq Row /\ EventsOfPayments(write'[v])
  BY <1>5, <1>6 DEF LedgerInv, EventsOfPayments
<1>8. write' = [v \in Writer |-> write'[v]]
  BY <1>1 DEF LedgerInv
<1>. QED  BY <1>2, <1>4, <1>7, <1>8 DEF LedgerInv, EventsOfPayments

LEMMA InsertFailsKept ==
  ASSUME LedgerInv, NEW w \in Writer, InsertFails(w)
  PROVE  LedgerInv' /\ UNCHANGED data
<1>1. data' = data /\ write' = [write EXCEPT ![w] = NoWrite]
  BY DEF InsertFails
<1>2. \A v \in Writer : write'[v] = IF v = w THEN NoWrite ELSE write[v]
  BY <1>1 DEF LedgerInv
<1>3. DOMAIN NoWrite = {}
  BY DEF NoWrite
<1>4. \A v \in Writer : DOMAIN write'[v] \subseteq Row /\ EventsOfPayments(write'[v])
  BY <1>2, <1>3 DEF LedgerInv, EventsOfPayments
<1>5. write' = [v \in Writer |-> write'[v]]
  BY <1>1 DEF LedgerInv
<1>. QED  BY <1>1, <1>4, <1>5 DEF LedgerInv, EventsOfPayments

----------------------------------------------------------------------------
(* Deletions and changes of keys                                           *)

Kept == \A x \in Lost : Table[x] \notin Ledger

LEMMA DeleteKept ==
  ASSUME LedgerInv, NEW t, t \notin Ledger, Delete(t)
  PROVE  LedgerInv' /\ Kept
<1>1. PICK x \in Rows(t) :
        data' = [y \in DOMAIN data \ Taken(x) |->
                  [k \in KeyNames(y) |->
                     IF Refers(y, k, Taken(x), "set null") THEN Null ELSE data[y][k]]]
  BY DEF Delete
<1>2. x \in DOMAIN data /\ Table[x] \notin Ledger
  BY DEF Rows
<1>3. \A y \in Taken(x) : Table[y] \notin Ledger
  BY <1>2, TakenKept
<1>4. DOMAIN data' = DOMAIN data \ Taken(x)
  BY <1>1
<1>5. Kept
  BY <1>3, <1>4 DEF Kept, Lost
<1>6. ASSUME NEW y \in DOMAIN data', Table[y] = "paymentEvent"
      PROVE  data'[y].payment = data[y].payment
  <2>1. KeysOf[Table[y]] = PaymentEventKeys
    BY <1>6 DEF KeysOf
  <2>2. KeyNames(y) = {"payment"}
    BY <2>1 DEF KeyNames, PaymentEventKeys
  <2>3. ~Refers(y, "payment", Taken(x), "set null")
    <3>1. KeysOf[Table[y]]["payment"] = Cascade("payment")
      BY <2>1 DEF PaymentEventKeys
    <3>2. KeysOf[Table[y]]["payment"].deletion = "cascade"
      BY <3>1 DEF Cascade
    <3>. QED  BY <3>2 DEF Refers
  <2>4. data'[y] = [k \in KeyNames(y) |->
                     IF Refers(y, k, Taken(x), "set null") THEN Null ELSE data[y][k]]
    BY <1>1, <1>4
  <2>. QED  BY <2>2, <2>3, <2>4
<1>7. EventsOfPayments(data')
  BY <1>4, <1>6 DEF LedgerInv, EventsOfPayments
<1>8. write' = write
  BY DEF Delete
<1>. QED  BY <1>4, <1>5, <1>7, <1>8 DEF LedgerInv, EventsOfPayments

LEMMA RelinkKept ==
  ASSUME LedgerInv, NEW t, t # "paymentEvent", Relink(t)
  PROVE  LedgerInv' /\ Kept
<1>1. PICK x \in Rows(t) : \E f \in Relinked(x) : data' = [data EXCEPT ![x] = f]
  BY DEF Relink
<1>2. DOMAIN data' = DOMAIN data
  BY <1>1
<1>3. Table[x] # "paymentEvent"
  BY DEF Rows
<1>4. \A y \in DOMAIN data' : Table[y] = "paymentEvent" => data'[y] = data[y]
  BY <1>1, <1>2, <1>3
<1>5. EventsOfPayments(data')
  BY <1>2, <1>4 DEF LedgerInv, EventsOfPayments
<1>6. write' = write
  BY DEF Relink
<1>. QED  BY <1>2, <1>5, <1>6 DEF LedgerInv, EventsOfPayments, Kept, Lost

LEMMA NextKept ==
  ASSUME LedgerInv, [CatalogueNext]_catalogueVars
  PROVE  LedgerInv' /\ Kept
<1>1. ASSUME NEW w \in Writer, Create(w) \/ InsertFails(w)
      PROVE  LedgerInv' /\ Kept
  BY <1>1, CreateKept, InsertFailsKept DEF Kept, Lost
<1>2. ASSUME NEW w \in Writer, Insert(w)
      PROVE  LedgerInv' /\ Kept
  BY <1>2, InsertKept DEF Kept, Lost
<1>3. CASE DeleteSome
  <2>1. PICK t : Delete(t) /\ t \notin Ledger
    BY <1>3 DEF DeleteSome, Ledger, DeleteTemple, RemoveStaff, DeleteInformation, DeleteDeity,
         DeleteGalleryItem, DeleteDarshanSchedule, DeleteAarti, DeletePuja, DeleteSeva,
         DeleteCause, DeleteEvent, DeleteAddress, DeleteProduct, DeleteRoom,
         DeleteAnnouncement, DeletePaath, DeleteGurukulSchedule
  <2>. QED  BY <2>1, DeleteKept
<1>4. CASE UpdateSome
  <2>1. PICK t : Relink(t) /\ t # "paymentEvent"
    BY <1>4 DEF UpdateSome, UpdateInformation, UpdateDeity, UpdateGalleryItem, UpdateDarshanSchedule,
         UpdateScheduleSlot, UpdateAarti, UpdatePuja, UpdateSeva, UpdatePujaSlot,
         UpdateSevaSlot, UpdateCause, UpdateEvent, UpdateProduct, UpdateRoom,
         UpdateAnnouncement, UpdatePaath, UpdateGurukul, UpdateGurukulSchedule,
         UpdateMahaprasadSlot
  <2>. QED  BY <2>1, RelinkKept
<1>5. CASE UNCHANGED catalogueVars
  BY <1>5 DEF catalogueVars, LedgerInv, EventsOfPayments, Kept, Lost
<1>. QED  BY <1>1, <1>2, <1>3, <1>4, <1>5 DEF CatalogueNext

(* Whatever services insert, delete and relink, in whatever order and with *)
(* however many requests at once, no row of Payment or PaymentEvent is     *)
(* ever deleted: no chain of the schema's cascades ends in one.            *)
THEOREM MoneyIsRemembered == CatalogueSpec => PaymentsOutlive
<1>1. LedgerInv /\ [CatalogueNext]_catalogueVars => LedgerInv'
  BY NextKept
<1>2. LedgerInv /\ [CatalogueNext]_catalogueVars
        => [\A x \in Lost : Table[x] \notin Ledger]_catalogueVars
  BY NextKept DEF Kept
<1>. QED  BY InitLedger, <1>1, <1>2, PTL DEF CatalogueSpec, PaymentsOutlive

----------------------------------------------------------------------------
(* The slots of darshan schedules.                                         *)

\* No slot to come can be booked.
NoneAhead(s) ==
  \A d \in Day, t \in Start : d >= today => slot[s][d][t].status # "ACTIVE"

\* Those to come that can be booked are as the schedule was when an update
\* last counted as a change.
AheadAgree(s) ==
  \A d \in Day, t \in Start :
    d >= today /\ slot[s][d][t].status = "ACTIVE" =>
      heeded[s] = [start |-> t, terms |-> slot[s][d][t].terms]

\* One request at a time: from the moment the slots to come are INACTIVE, and
\* until new ones are inserted, none can be booked and the schedule stays.
Orderly(s) ==
  /\ plan[s] = NoPlan => ~InFlight(s) /\ NoneAhead(s)
  /\ \A e, f \in Editor : Changing(e, s) /\ Changing(f, s) => e = f
  /\ \A e \in Editor :
       /\ Changing(e, s) /\ edit[e].step \in {"read", "insert"} => NoneAhead(s)
       /\ Changing(e, s) /\ edit[e].step = "insert" => edit[e].p = plan[s]
  /\ InFlight(s) => heeded[s] = Offer(plan[s])
  /\ ~InFlight(s) => AheadAgree(s)

ScheduleInv == SchedulesTypeOK /\ \A s \in Schedule \ tampered : Orderly(s)

LEMMA SchedulesTyped ==
  ASSUME SchedulesTypeOK, [SchedulesNext]_schedulesVars
  PROVE  SchedulesTypeOK'
<1> USE SchedulesAssumption DEF SchedulesTypeOK
<1>1. ASSUME NEW e \in Editor, NEW s \in Schedule, CreateSchedule(e, s) \/ UpdateSchedule(e, s)
      PROVE  SchedulesTypeOK'
  <2>1. PICK p \in Plan : Heed(s, p)
    <3>1. \A t \in Start, m \in Terms, days \in Recurrence :
            [start |-> t, terms |-> m, days |-> days, on |-> TRUE] \in Plan
      BY DEF Plan
    <3> QED
      BY <1>1, <3>1 DEF CreateSchedule, UpdateSchedule
  <2>3. plan' = [plan EXCEPT ![s] = p] /\ heeded' = [heeded EXCEPT ![s] = Offer(p)]
    BY <2>1 DEF Heed
  <2>4. Offer(p) \in [start : Start \cup {"none"}, terms : Terms \cup {"none"}]
    BY DEF Offer, Plan
  <2>2. edit' \in [Editor -> EditSteps \cup {NoEdit}]
    BY <1>1 DEF CreateSchedule, UpdateSchedule, EditBegins, EditSteps
  <2> QED
    BY <1>1, <2>2, <2>3, <2>4 DEF CreateSchedule, UpdateSchedule, Overlap
<1>2. ASSUME NEW e \in Editor, Deactivate(e) PROVE SchedulesTypeOK'
  <2>1. edit[e].s \in Schedule
    BY <1>2 DEF Deactivate, EditSteps, NoEdit
  <2>2. edit' \in [Editor -> EditSteps \cup {NoEdit}]
    BY <1>2, <2>1 DEF Deactivate, EditSteps
  <2>3. \A x \in Slots \cup {NoSlot} : Retired(x) \in Slots \cup {NoSlot}
    BY DEF Retired, Slots, NoSlot
  <2>4. [d \in Day |-> [t \in Start |-> IF Ahead(d) THEN Retired(slot[edit[e].s][d][t])
                                                    ELSE slot[edit[e].s][d][t]]]
          \in [Day -> [Start -> Slots \cup {NoSlot}]]
    BY <2>1, <2>3
  <2>5. slot' \in [Schedule -> [Day -> [Start -> Slots \cup {NoSlot}]]]
    BY <1>2, <2>1, <2>4 DEF Deactivate
  <2> QED
    BY <1>2, <2>2, <2>5 DEF Deactivate
<1>3. ASSUME NEW e \in Editor, ReadPlan(e) PROVE SchedulesTypeOK'
  <2>1. edit[e].s \in Schedule
    BY <1>3 DEF ReadPlan, EditSteps, NoEdit
  <2>2. edit' \in [Editor -> EditSteps \cup {NoEdit}]
    BY <1>3, <2>1 DEF ReadPlan, EditSteps
  <2> QED
    BY <1>3, <2>2 DEF ReadPlan
<1>4. ASSUME NEW e \in Editor, InsertSlots(e) PROVE SchedulesTypeOK'
  <2>1. edit[e].s \in Schedule /\ edit[e].p \in Plan \cup {NoPlan}
    <3>1. edit[e].step = "insert"
      BY <1>4 DEF InsertSlots
    <3> QED
      BY <3>1 DEF EditSteps, NoEdit
  <2>2. edit' \in [Editor -> EditSteps \cup {NoEdit}]
    <3>1. edit' = [edit EXCEPT ![e] = NoEdit]
      BY <1>4 DEF InsertSlots, EditEnds
    <3> QED
      BY <3>1
  <2>3. ASSUME NEW d, d \in edit[e].p.days
        PROVE  [status |-> "ACTIVE", terms |-> edit[e].p.terms] \in Slots \cup {NoSlot}
    <3>1. edit[e].p \in Plan
      BY <2>1, <2>3 DEF NoPlan
    <3> QED
      BY <3>1 DEF Plan, Slots
  <2> DEFINE s == edit[e].s
             p == edit[e].p
             row == [d \in Day |-> [t \in Start |->
                      IF t = p.start /\ d \in p.days \cap Coming /\ slot[s][d][t] = NoSlot
                        THEN [status |-> "ACTIVE", terms |-> p.terms]
                        ELSE slot[s][d][t]]]
  <2>4. row \in [Day -> [Start -> Slots \cup {NoSlot}]]
    BY <2>1, <2>3
  <2>5. slot' = IF plan[s] = NoPlan THEN slot ELSE [slot EXCEPT ![s] = row]
    BY <1>4 DEF InsertSlots
  <2>6. slot' \in [Schedule -> [Day -> [Start -> Slots \cup {NoSlot}]]]
    BY <2>1, <2>4, <2>5
  <2> QED
    BY <1>4, <2>2, <2>6 DEF InsertSlots
<1>5. ASSUME NEW e \in Editor, EditFails(e) PROVE SchedulesTypeOK'
  <2>1. edit[e].s \in Schedule
    BY <1>5 DEF EditFails, EditSteps
  <2> QED
    BY <1>5, <2>1 DEF EditFails, EditEnds
<1>6. ASSUME NEW s \in Schedule, UpdateOthers(s) PROVE SchedulesTypeOK'
  <2>1. plan[s] \in Plan
    BY <1>6 DEF UpdateOthers
  <2>2. \A t \in Start, m \in Terms, days \in Recurrence, on \in {plan[s].on, TRUE} :
          [start |-> t, terms |-> m, days |-> days, on |-> on] \in Plan
    BY <2>1 DEF Plan
  <2>3. PICK p \in Plan : plan' = [plan EXCEPT ![s] = p]
    <3>1. plan[s].start \in Start /\ plan[s].terms \in Terms
      BY <2>1 DEF Plan
    <3> QED
      BY <1>6, <2>2, <3>1 DEF UpdateOthers
  <2> QED
    BY <1>6, <2>3 DEF UpdateOthers, Overlap
<1>7. ASSUME NEW s \in Schedule, DeleteSchedule(s) PROVE SchedulesTypeOK'
  BY <1>7 DEF DeleteSchedule
<1>8. ASSUME NEW s \in Schedule, NEW d \in Day, NEW t \in Start, UpdateDarshanSlot(s, d, t)
      PROVE  SchedulesTypeOK'
  BY <1>8 DEF UpdateDarshanSlot
<1>9. ASSUME DayPasses PROVE SchedulesTypeOK'
  BY <1>9 DEF DayPasses
<1>10. ASSUME UNCHANGED schedulesVars PROVE SchedulesTypeOK'
  BY <1>10 DEF schedulesVars
<1> QED
  BY <1>1, <1>2, <1>3, <1>4, <1>5, <1>6, <1>7, <1>8, <1>9, <1>10
  DEF SchedulesNext, EditStep

\* A step that leaves a schedule, its slots and the requests on it alone.
LEMMA OrderlyElsewhere ==
  ASSUME NEW s \in Schedule, Orderly(s), UNCHANGED today,
         plan'[s] = plan[s], slot'[s] = slot[s], heeded'[s] = heeded[s],
         \A e \in Editor : edit'[e] = edit[e] \/ (~Changing(e, s) /\ ~Changing(e, s)')
  PROVE  Orderly(s)'
<1>1. \A e \in Editor :
        /\ Changing(e, s)' <=> Changing(e, s)
        /\ Changing(e, s) => edit'[e] = edit[e]
  BY DEF Changing
<1>2. InFlight(s)' <=> InFlight(s)
  BY <1>1 DEF InFlight
<1>3. NoneAhead(s)' <=> NoneAhead(s)
  BY DEF NoneAhead, Day
<1>4. AheadAgree(s)' <=> AheadAgree(s)
  BY DEF AheadAgree, Day
<1> QED
  BY <1>1, <1>2, <1>3, <1>4 DEF Orderly, Offer

\* A request on c begins: no other one is on it, or c is tampered with.
LEMMA OrderlyBegin ==
  ASSUME ScheduleInv, NEW e \in Editor, NEW c \in Schedule,
         CreateSchedule(e, c) \/ UpdateSchedule(e, c),
         NEW s \in Schedule, s \notin tampered'
  PROVE  Orderly(s)'
<1> USE DEF ScheduleInv, SchedulesTypeOK
<1>1. s \notin tampered /\ Orderly(s)
  BY DEF CreateSchedule, UpdateSchedule, Overlap
<1>2. PICK step \in {"read", "deactivate"} :
        /\ edit[e] = NoEdit
        /\ edit' = [edit EXCEPT ![e] = [step |-> step, s |-> c]]
  BY DEF CreateSchedule, UpdateSchedule, EditBegins
<1>3. CASE s = c
  <2>1. ~InFlight(s) /\ (step = "read" => NoneAhead(s))
    <3>1. CASE CreateSchedule(e, c)
      BY <1>1, <1>3, <3>1 DEF CreateSchedule, Orderly
    <3>2. CASE UpdateSchedule(e, c)
      BY <1>2, <1>3, <3>2 DEF UpdateSchedule, EditBegins, Overlap
    <3> QED
      BY <3>1, <3>2
  <2>2. \A f \in Editor : Changing(f, s)' <=> f = e
    BY <1>2, <1>3, <2>1 DEF Changing, InFlight, NoEdit
  <2>3. edit'[e].step = step
    BY <1>2
  <2>4. NoneAhead(s)' <=> NoneAhead(s)
    <3>1. slot' = slot /\ today' = today
      BY DEF CreateSchedule, UpdateSchedule
    <3> QED
      BY <3>1 DEF NoneAhead, Day
  <2>8. PICK p \in Plan : Heed(c, p) /\ p.terms \in Terms
    <3>1. CASE CreateSchedule(e, c)
      <4>1. PICK t \in Start, m \in Terms, days \in Recurrence :
              Heed(c, [start |-> t, terms |-> m, days |-> days, on |-> TRUE])
        BY <3>1 DEF CreateSchedule
      <4>2. [start |-> t, terms |-> m, days |-> days, on |-> TRUE] \in Plan
        BY DEF Plan
      <4> QED
        BY <4>1, <4>2
    <3>2. CASE UpdateSchedule(e, c)
      BY <3>2 DEF UpdateSchedule, Plan
    <3> QED
      BY <3>1, <3>2
  <2>9. plan'[s] = p /\ heeded'[s] = Offer(p)
    BY <1>3, <2>8 DEF Heed
  <2>5. plan'[s] # NoPlan
    BY <2>8, <2>9, SchedulesAssumption DEF NoPlan
  <2>6. InFlight(s)'
    BY <2>2 DEF InFlight
  <2>7. heeded'[s] = Offer(plan'[s])
    BY <2>9
  <2> QED
    BY <2>1, <2>2, <2>3, <2>4, <2>5, <2>6, <2>7 DEF Orderly
<1>4. CASE s # c
  <2>1. plan'[s] = plan[s] /\ heeded'[s] = heeded[s] /\ slot' = slot /\ today' = today
    BY <1>4 DEF CreateSchedule, UpdateSchedule, Heed
  <2>2. \A f \in Editor : edit'[f] = edit[f] \/ (~Changing(f, s) /\ ~Changing(f, s)')
    BY <1>2, <1>4 DEF Changing
  <2> QED
    BY <1>1, <2>1, <2>2, OrderlyElsewhere
<1> QED
  BY <1>3, <1>4

\* The request e on a schedule goes on to its next step.
LEMMA OrderlyDeactivate ==
  ASSUME ScheduleInv, NEW e \in Editor, Deactivate(e),
         NEW s \in Schedule, s \notin tampered
  PROVE  Orderly(s)'
<1> USE DEF ScheduleInv, SchedulesTypeOK
<1>1. edit[e].step = "deactivate" /\ edit[e].s \in Schedule /\ edit[e] # NoEdit
  BY DEF Deactivate, EditSteps, NoEdit
<1> DEFINE c == edit[e].s
<1>2. edit' = [edit EXCEPT ![e] = [step |-> "read", s |-> c]]
  BY DEF Deactivate
<1>3. CASE s = c
  <2>1. Changing(e, s)
    BY <1>1, <1>3 DEF Changing
  <2>2. \A f \in Editor : Changing(f, s)' <=> f = e
    BY <1>2, <1>3, <2>1 DEF Changing, NoEdit, Orderly
  <2>3. \A d \in Day, t \in Start :
          slot'[s][d][t] = IF Ahead(d) THEN Retired(slot[s][d][t]) ELSE slot[s][d][t]
    <3> DEFINE row == [d \in Day |-> [t \in Start |->
                        IF Ahead(d) THEN Retired(slot[s][d][t]) ELSE slot[s][d][t]]]
    <3>1. slot' = [slot EXCEPT ![s] = row]
      BY <1>3 DEF Deactivate
    <3>2. slot'[s] = row
      BY <3>1
    <3> QED
      BY <3>2
  <2>4. \A x \in Slots \cup {NoSlot} : Retired(x).status # "ACTIVE"
    BY DEF Retired, Slots, NoSlot
  <2>5. ASSUME NEW d \in Day, NEW t \in Start, d >= today'
        PROVE  slot'[s][d][t].status # "ACTIVE"
    <3>1. Ahead(d)
      BY <2>5 DEF Ahead, Deactivate
    <3>2. slot[s][d][t] \in Slots \cup {NoSlot}
      OBVIOUS
    <3> QED
      BY <2>3, <2>4, <3>1, <3>2
  <2>6. /\ plan'[s] # NoPlan /\ InFlight(s)' /\ edit'[e].step = "read"
        /\ heeded'[s] = Offer(plan'[s])
    BY <1>2, <2>1, <2>2 DEF Deactivate, Orderly, InFlight
  <2>7. NoneAhead(s)'
    BY <2>5 DEF NoneAhead, Day
  <2> QED
    BY <2>2, <2>6, <2>7 DEF Orderly
<1>4. CASE s # c
  <2>1. /\ plan'[s] = plan[s] /\ slot'[s] = slot[s]
        /\ heeded'[s] = heeded[s] /\ today' = today
    BY <1>1, <1>4 DEF Deactivate
  <2>2. \A f \in Editor : edit'[f] = edit[f] \/ (~Changing(f, s) /\ ~Changing(f, s)')
    BY <1>2, <1>4 DEF Changing
  <2> QED
    BY <2>1, <2>2, OrderlyElsewhere
<1> QED
  BY <1>3, <1>4

LEMMA OrderlyRead ==
  ASSUME ScheduleInv, NEW e \in Editor, ReadPlan(e),
         NEW s \in Schedule, s \notin tampered
  PROVE  Orderly(s)'
<1> USE DEF ScheduleInv, SchedulesTypeOK
<1>1. edit[e].step = "read" /\ edit[e].s \in Schedule /\ edit[e] # NoEdit
  BY DEF ReadPlan, EditSteps, NoEdit
<1> DEFINE c == edit[e].s
<1>2. edit' = [edit EXCEPT ![e] = [step |-> "insert", s |-> c, p |-> plan[c]]]
  BY DEF ReadPlan
<1>3. CASE s = c
  <2>1. Changing(e, s)
    BY <1>1, <1>3 DEF Changing
  <2>2. \A f \in Editor : Changing(f, s)' <=> f = e
    BY <1>2, <1>3, <2>1 DEF Changing, NoEdit, Orderly
  <2>3. NoneAhead(s)
    BY <1>1, <2>1 DEF Orderly
  <2>4. NoneAhead(s)'
    BY <2>3 DEF NoneAhead, Day, ReadPlan
  <2>5. /\ plan'[s] # NoPlan /\ InFlight(s)' /\ edit'[e].p = plan'[s]
        /\ heeded'[s] = Offer(plan'[s])
    BY <1>2, <1>3, <2>1, <2>2 DEF ReadPlan, Orderly, InFlight
  <2> QED
    BY <2>2, <2>4, <2>5 DEF Orderly
<1>4. CASE s # c
  <2>1. /\ plan'[s] = plan[s] /\ slot'[s] = slot[s]
        /\ heeded'[s] = heeded[s] /\ today' = today
    BY DEF ReadPlan
  <2>2. \A f \in Editor : edit'[f] = edit[f] \/ (~Changing(f, s) /\ ~Changing(f, s)')
    BY <1>2, <1>4 DEF Changing
  <2> QED
    BY <2>1, <2>2, OrderlyElsewhere
<1> QED
  BY <1>3, <1>4

LEMMA OrderlyInsert ==
  ASSUME ScheduleInv, NEW e \in Editor, InsertSlots(e),
         NEW s \in Schedule, s \notin tampered
  PROVE  Orderly(s)'
<1> USE DEF ScheduleInv, SchedulesTypeOK
<1>1. edit[e].step = "insert" /\ edit[e].s \in Schedule /\ edit[e] # NoEdit
  <2>1. edit[e].step = "insert"
    BY DEF InsertSlots
  <2> QED
    BY <2>1 DEF EditSteps, NoEdit
<1> DEFINE c == edit[e].s
<1>2. /\ edit' = [edit EXCEPT ![e] = NoEdit]
      /\ plan' = plan /\ today' = today /\ heeded' = heeded
  BY DEF InsertSlots, EditEnds
<1>3. CASE s = c
  <2>1. Changing(e, s)
    BY <1>1, <1>3 DEF Changing
  <2>2. \A f \in Editor : ~Changing(f, s)'
    BY <1>2, <2>1 DEF Changing, Orderly
  <2>3. /\ NoneAhead(s) /\ edit[e].p = plan[s] /\ plan[s] # NoPlan
        /\ heeded[s] = Offer(plan[s])
    BY <1>1, <2>1 DEF Orderly, InFlight
  <2>4. \A d \in Day, t \in Start :
          \/ slot'[s][d][t] = slot[s][d][t]
          \/ t = plan[s].start /\ slot'[s][d][t].terms = plan[s].terms
    <3> DEFINE p == plan[s]
               row == [d \in Day |-> [t \in Start |->
                        IF t = p.start /\ d \in p.days \cap Coming /\ slot[s][d][t] = NoSlot
                          THEN [status |-> "ACTIVE", terms |-> p.terms]
                          ELSE slot[s][d][t]]]
    <3>1. slot' = [slot EXCEPT ![s] = row]
      BY <1>3, <2>3 DEF InsertSlots
    <3>2. slot'[s] = row
      BY <3>1
    <3> QED
      BY <3>2
  <2>5. AheadAgree(s)'
    BY <1>2, <2>3, <2>4 DEF AheadAgree, NoneAhead, Day, Offer
  <2>6. ~InFlight(s)'
    BY <2>2 DEF InFlight
  <2> QED
    BY <1>2, <2>2, <2>3, <2>5, <2>6 DEF Orderly
<1>4. CASE s # c
  <2>1. slot'[s] = slot[s]
    BY <1>1, <1>4 DEF InsertSlots
  <2>2. \A f \in Editor : edit'[f] = edit[f] \/ (~Changing(f, s) /\ ~Changing(f, s)')
    BY <1>2, <1>4 DEF Changing
  <2> QED
    BY <1>2, <2>1, <2>2, OrderlyElsewhere
<1> QED
  BY <1>3, <1>4

\* An update that counts as no change meets no request on the schedule.
LEMMA OrderlyOthers ==
  ASSUME ScheduleInv, NEW c \in Schedule, UpdateOthers(c),
         NEW s \in Schedule, s \notin tampered'
  PROVE  Orderly(s)'
<1> USE DEF ScheduleInv, SchedulesTypeOK
<1>1. s \notin tampered /\ Orderly(s)
  BY DEF UpdateOthers, Overlap
<1>2. slot' = slot /\ today' = today /\ edit' = edit /\ heeded' = heeded
  BY DEF UpdateOthers
<1>3. CASE s = c
  <2>1. ~InFlight(s)
    BY <1>3 DEF UpdateOthers, Overlap
  <2>2. plan[s] \in Plan
    BY <1>3 DEF UpdateOthers
  <2>3. plan'[s].terms \in Terms
    BY <1>3, <2>2 DEF UpdateOthers, Plan
  <2>4. plan'[s] # NoPlan
    BY <2>3, SchedulesAssumption DEF NoPlan
  <2>5. \A f \in Editor : ~Changing(f, s)'
    BY <1>2, <2>1 DEF InFlight, Changing
  <2>6. AheadAgree(s)'
    BY <1>1, <1>2, <2>1 DEF Orderly, AheadAgree, Day
  <2>7. ~InFlight(s)'
    BY <2>5 DEF InFlight
  <2> QED
    BY <2>4, <2>5, <2>6, <2>7 DEF Orderly
<1>4. CASE s # c
  <2>1. plan'[s] = plan[s]
    BY <1>4 DEF UpdateOthers
  <2> QED
    BY <1>1, <1>2, <2>1, OrderlyElsewhere
<1> QED
  BY <1>3, <1>4

\* A request that fails, a slot edited alone and a deletion concern a schedule
\* that counts as tampered with afterwards.
LEMMA OrderlyTampered ==
  ASSUME ScheduleInv,
         \/ \E e \in Editor : EditFails(e)
         \/ \E c \in Schedule : DeleteSchedule(c)
         \/ \E c \in Schedule, d \in Day, t \in Start : UpdateDarshanSlot(c, d, t),
         NEW s \in Schedule, s \notin tampered'
  PROVE  Orderly(s)'
<1> USE DEF ScheduleInv, SchedulesTypeOK
<1>1. CASE \E e \in Editor : EditFails(e)
  <2>1. PICK e \in Editor : EditFails(e)
    BY <1>1
  <2>2. s \notin tampered /\ s # edit[e].s /\ edit' = [edit EXCEPT ![e] = NoEdit]
    BY <2>1 DEF EditFails, EditEnds
  <2>3. \A f \in Editor : edit'[f] = edit[f] \/ (~Changing(f, s) /\ ~Changing(f, s)')
    BY <2>2 DEF Changing
  <2>4. Orderly(s)
    BY <2>2
  <2> QED
    BY <2>1, <2>3, <2>4, OrderlyElsewhere DEF EditFails
<1>2. CASE \E c \in Schedule : DeleteSchedule(c)
  <2>1. PICK c \in Schedule : DeleteSchedule(c)
    BY <1>2
  <2>2. s \notin tampered /\ s # c
    BY <2>1 DEF DeleteSchedule
  <2>3. /\ plan'[s] = plan[s] /\ slot'[s] = slot[s] /\ heeded' = heeded
        /\ today' = today /\ edit' = edit
    BY <2>1, <2>2 DEF DeleteSchedule
  <2> QED
    BY <2>2, <2>3, OrderlyElsewhere
<1>3. CASE \E c \in Schedule, d \in Day, t \in Start : UpdateDarshanSlot(c, d, t)
  <2>1. PICK c \in Schedule, d \in Day, t \in Start : UpdateDarshanSlot(c, d, t)
    BY <1>3
  <2>2. s \notin tampered /\ s # c
    BY <2>1 DEF UpdateDarshanSlot
  <2>3. /\ plan'[s] = plan[s] /\ slot'[s] = slot[s] /\ heeded' = heeded
        /\ today' = today /\ edit' = edit
    BY <2>1, <2>2 DEF UpdateDarshanSlot
  <2> QED
    BY <2>2, <2>3, OrderlyElsewhere
<1> QED
  BY <1>1, <1>2, <1>3

\* The slots to come get fewer.
LEMMA OrderlyTomorrow ==
  ASSUME ScheduleInv, DayPasses, NEW s \in Schedule, s \notin tampered
  PROVE  Orderly(s)'
<1>1. /\ today \in Nat /\ today' = today + 1 /\ plan' = plan /\ slot' = slot
      /\ edit' = edit /\ heeded' = heeded
  BY SchedulesAssumption DEF DayPasses, ScheduleInv, SchedulesTypeOK
<1>2. \A d \in Day : d >= today' => d >= today
  BY <1>1 DEF Day
<1>3. NoneAhead(s) => NoneAhead(s)'
  BY <1>1, <1>2 DEF NoneAhead, Day
<1>4. AheadAgree(s) => AheadAgree(s)'
  BY <1>1, <1>2 DEF AheadAgree, Day
<1>5. \A e \in Editor : Changing(e, s)' <=> Changing(e, s)
  BY <1>1 DEF Changing
<1>6. InFlight(s)' <=> InFlight(s)
  BY <1>5 DEF InFlight
<1>7. Orderly(s)
  BY DEF ScheduleInv
<1> QED
  BY <1>1, <1>3, <1>4, <1>5, <1>6, <1>7 DEF Orderly

LEMMA ScheduleInvariant == SchedulesSpec => []ScheduleInv
<1>1. SchedulesInit => ScheduleInv
  <2>1. SUFFICES ASSUME SchedulesInit PROVE ScheduleInv
    OBVIOUS
  <2>2. SchedulesTypeOK
    BY <2>1, SchedulesAssumption DEF SchedulesInit, SchedulesTypeOK, Offer, NoPlan
  <2>3. ASSUME NEW s \in Schedule PROVE Orderly(s)
    BY <2>1 DEF SchedulesInit, Orderly, NoneAhead, AheadAgree, InFlight, Changing, NoSlot
  <2> QED
    BY <2>2, <2>3 DEF ScheduleInv
<1>2. ASSUME ScheduleInv, [SchedulesNext]_schedulesVars
      PROVE  ScheduleInv'
  <2>1. SchedulesTypeOK'
    BY <1>2, SchedulesTyped DEF ScheduleInv
  <2>2. ASSUME NEW s \in Schedule, s \notin tampered'
        PROVE  Orderly(s)'
    <3>1. ASSUME NEW e \in Editor, Deactivate(e) \/ ReadPlan(e) \/ InsertSlots(e)
          PROVE  Orderly(s)'
      <4>1. s \notin tampered
        BY <2>2, <3>1 DEF Deactivate, ReadPlan, InsertSlots
      <4> QED
        BY <1>2, <3>1, <4>1, OrderlyDeactivate, OrderlyRead, OrderlyInsert
    <3>2. ASSUME DayPasses PROVE Orderly(s)'
      BY <1>2, <2>2, <3>2, OrderlyTomorrow DEF DayPasses
    <3>3. ASSUME UNCHANGED schedulesVars PROVE Orderly(s)'
      BY <1>2, <2>2, <3>3, OrderlyElsewhere DEF schedulesVars, ScheduleInv
    <3> QED
      BY <1>2, <2>2, <3>1, <3>2, <3>3, OrderlyBegin, OrderlyOthers, OrderlyTampered
      DEF SchedulesNext, EditStep
  <2> QED
    BY <2>1, <2>2 DEF ScheduleInv
<1> QED
  BY <1>1, <1>2, PTL DEF SchedulesSpec

(* Whatever an administrator changes in a schedule, and as the days pass,  *)
(* a slot to come that can be booked is at the start, of the end and of    *)
(* the capacity its schedule had when an update last counted as a change:  *)
(* such an update takes the old slots out before it inserts new ones, and  *)
(* today's count as slots to come (updateSchedule): ActiveSlotsAgree.      *)
THEOREM SlotsFollowSchedules == SchedulesSpec => []ActiveSlotsAgree
<1>1. ScheduleInv => ActiveSlotsAgree
  BY DEF ScheduleInv, Orderly, AheadAgree, ActiveSlotsAgree, Settled
<1> QED
  BY <1>1, ScheduleInvariant, PTL

----------------------------------------------------------------------------
(* The deletion of a temple.  A donation, an item of an order and a stay   *)
(* can be taken along two ways, and both lead to the same temple unless    *)
(* what it is for has moved.                                               *)

\* What has a key to its temple, among what a devotee booked and what for.
Owned == Booked \cup Offers
Watched == Owned \cup {"prasadOrderItem"}

\* What goes with a cause, a product or a room as well.
Sold == {"donation", "prasadOrderItem", "accommodationBooking"}

\* The rows that are where they always were.
Unmoved == [x \in DOMAIN data \ moved |-> data[x]]

\* The keys of such rows refer to what the schema says.
KeysInOrder(rows) ==
  \A x \in DOMAIN rows :
    /\ Table[x] \in Owned => Table[rows[x].temple] = "temple"
    /\ Table[x] = "donation" => Table[rows[x].cause] = "donationCause"
    /\ Table[x] = "prasadOrder" => Table[rows[x].address] = "address"
    /\ Table[x] = "prasadOrderItem" =>
         Table[rows[x].order] = "prasadOrder" /\ Table[rows[x].product] = "prasadProduct"
    /\ Table[x] = "accommodationBooking" => Table[rows[x].room] = "room"

\* Row y was inserted once, into data d, and is of temple t if it is there still.
KnownOf(d, b, y, t) == y \in b /\ (y \in DOMAIN d => d[y].temple = t)

\* Rows for something of a temple are of the same temple.
TemplesMatch(d, b, rows) ==
  \A x \in DOMAIN rows :
    /\ Table[x] = "donation" => KnownOf(d, b, rows[x].cause, rows[x].temple)
    /\ Table[x] = "accommodationBooking" => KnownOf(d, b, rows[x].room, rows[x].temple)
    /\ Table[x] = "prasadOrderItem" =>
         /\ rows[x].order \in DOMAIN rows
         /\ KnownOf(d, b, rows[x].product, rows[rows[x].order].temple)

OwnInv ==
  /\ DOMAIN data \subseteq born /\ born \subseteq Row
  /\ write = [w \in Writer |-> write[w]]
  /\ KeysInOrder(data) /\ TemplesMatch(Unmoved, born, data)
  /\ \A w \in Writer :
       /\ DOMAIN write[w] \subseteq Row \ born
       /\ KeysInOrder(write[w]) /\ TemplesMatch(Unmoved, born, write[w])
       /\ \A v \in Writer \ {w} : DOMAIN write[v] \cap DOMAIN write[w] = {}

LEMMA InitOwn == CatalogueInit => OwnInv
BY CatalogueAssumption
DEF CatalogueInit, OwnInv, NoWrite, KeysInOrder, TemplesMatch

\* The keys of the schema that matter here.
LEMMA WatchedKeys ==
  /\ DOMAIN KeysOf["temple"] = {} /\ DOMAIN KeysOf["address"] = {}
  /\ KeysOf["booking"] = BookingKeys
  /\ KeysOf["donationCause"] = CauseKeys
  /\ KeysOf["donation"] = DonationKeys
  /\ KeysOf["prasadProduct"] = ProductKeys
  /\ KeysOf["prasadOrder"] = OrderKeys
  /\ KeysOf["prasadOrderItem"] = ItemKeys
  /\ KeysOf["room"] = RoomKeys
  /\ KeysOf["accommodationBooking"] = StayKeys
BY DEF KeysOf, TempleKeys, AddressKeys

LEMMA WatchedNames ==
  ASSUME NEW x
  PROVE  /\ Table[x] \in {"temple", "address"} => KeyNames(x) = {}
         /\ Table[x] = "booking" => KeyNames(x) = {"temple", "slot"}
         /\ Table[x] \in {"donationCause", "prasadProduct", "room"} => KeyNames(x) = {"temple"}
         /\ Table[x] = "donation" => KeyNames(x) = {"temple", "cause"}
         /\ Table[x] = "prasadOrder" => KeyNames(x) = {"temple", "address"}
         /\ Table[x] = "prasadOrderItem" => KeyNames(x) = {"order", "product"}
         /\ Table[x] = "accommodationBooking" => KeyNames(x) = {"temple", "room"}
BY WatchedKeys
DEF KeyNames, BookingKeys, CauseKeys, DonationKeys, ProductKeys, OrderKeys, ItemKeys,
    RoomKeys, StayKeys

\* None of their keys is cleared; all but the slot of a booking cascade.
LEMMA WatchedDeletion ==
  ASSUME NEW x, Table[x] \in Watched, NEW k \in KeyNames(x)
  PROVE  KeysOf[Table[x]][k].deletion =
           IF Table[x] = "booking" /\ k = "slot" THEN "nothing" ELSE "cascade"
BY WatchedKeys, WatchedNames
DEF Watched, Owned, Booked, Offers, Cascade, SlotId, BookingKeys, CauseKeys, DonationKeys,
    ProductKeys, OrderKeys, ItemKeys, RoomKeys, StayKeys

\* A row is taken because of one of its keys.
LEMMA ReferringBy ==
  ASSUME NEW S, NEW x \in WithReferring(S), x \notin S
  PROVE  x \in DOMAIN data /\ \E k \in KeyNames(x) : Refers(x, k, S, "cascade")
BY DEF WithReferring

\* Temples and addresses are taken only themselves.
LEMMA KeylessTaken ==
  ASSUME NEW S, NEW x \in WithReferring(S), Table[x] \in {"temple", "address"}
  PROVE  x \in S
BY ReferringBy, WatchedNames

\* What a row of S has of a temple is of temple t.
OwnedBy(S, t) ==
  \A x \in S : /\ Table[x] # "address"
               /\ Table[x] = "temple" => x = t
               /\ Table[x] \in Watched \ Sold => HeldAt(x) = t
               /\ Table[x] \in Sold => t \in {HeldAt(x)} \cup MovedTo(x)

\* The next cascade stays with the temple.
LEMMA ReferringOwned ==
  ASSUME OwnInv, NEW t, NEW S, S \subseteq DOMAIN data, OwnedBy(S, t)
  PROVE  WithReferring(S) \subseteq DOMAIN data /\ OwnedBy(WithReferring(S), t)
<1>1. WithReferring(S) \subseteq DOMAIN data
  BY DEF WithReferring
<1>2. ASSUME NEW x \in WithReferring(S), x \notin S
      PROVE  /\ Table[x] \notin {"temple", "address"}
             /\ Table[x] \in Watched \ Sold => HeldAt(x) = t
             /\ Table[x] \in Sold => t \in {HeldAt(x)} \cup MovedTo(x)
  <2>1. PICK k \in KeyNames(x) : x \in DOMAIN data /\ Refers(x, k, S, "cascade")
    BY <1>2, ReferringBy
  <2>2. data[x][k] \in S /\ KeysOf[Table[x]][k].deletion = "cascade"
    BY <2>1 DEF Refers
  <2>3. Table[x] \notin {"temple", "address"}
    BY <2>1, WatchedNames
  <2>4. ASSUME Table[x] \in Owned
        PROVE  data[x].temple = t \/ (Table[x] \in Sold /\ t \in MovedTo(x))
    <3>1. CASE k = "temple"
      BY <2>1, <2>2, <2>4, <3>1 DEF OwnInv, KeysInOrder, OwnedBy
    <3>2. CASE k # "temple"
      <4>1. \/ Table[x] = "donation" /\ k = "cause"
            \/ Table[x] = "prasadOrder" /\ k = "address"
            \/ Table[x] = "accommodationBooking" /\ k = "room"
        BY <2>1, <2>2, <2>4, <3>2, WatchedNames, WatchedDeletion
        DEF Watched, Owned, Booked, Offers
      <4>2. CASE Table[x] = "donation" /\ k = "cause"
        <5>1. data[x].cause \in S /\ Table[data[x].cause] = "donationCause"
          BY <2>1, <2>2, <4>2 DEF OwnInv, KeysInOrder
        <5>2. data[data[x].cause].temple = t
          BY <5>1 DEF OwnedBy, HeldAt, Watched, Owned, Offers, Sold
        <5>3. CASE data[x].cause \in moved
          BY <2>1, <4>2, <5>2, <5>3 DEF MovedTo, Sold
        <5>4. CASE data[x].cause \notin moved
          BY <2>1, <4>2, <5>1, <5>2, <5>4 DEF OwnInv, TemplesMatch, KnownOf, Unmoved
        <5> QED
          BY <5>3, <5>4
      <4>3. CASE Table[x] = "prasadOrder" /\ k = "address"
        BY <2>1, <2>2, <4>3 DEF OwnInv, KeysInOrder, OwnedBy
      <4>4. CASE Table[x] = "accommodationBooking" /\ k = "room"
        <5>1. data[x].room \in S /\ Table[data[x].room] = "room"
          BY <2>1, <2>2, <4>4 DEF OwnInv, KeysInOrder
        <5>2. data[data[x].room].temple = t
          BY <5>1 DEF OwnedBy, HeldAt, Watched, Owned, Offers, Sold
        <5>3. CASE data[x].room \in moved
          BY <2>1, <4>4, <5>2, <5>3 DEF MovedTo, Sold
        <5>4. CASE data[x].room \notin moved
          BY <2>1, <4>4, <5>1, <5>2, <5>4 DEF OwnInv, TemplesMatch, KnownOf, Unmoved
        <5> QED
          BY <5>3, <5>4
      <4> QED
        BY <4>1, <4>2, <4>3, <4>4
    <3> QED
      BY <3>1, <3>2
  <2>5. ASSUME Table[x] = "prasadOrderItem" PROVE t \in {HeldAt(x)} \cup MovedTo(x)
    <3>1. k \in {"order", "product"}
      BY <2>1, <2>5, WatchedNames
    <3>2. CASE k = "order"
      <4>1. data[x].order \in S /\ Table[data[x].order] = "prasadOrder"
        BY <2>1, <2>2, <2>5, <3>2 DEF OwnInv, KeysInOrder
      <4> QED
        BY <2>5, <4>1 DEF OwnedBy, HeldAt, Watched, Owned, Booked, Sold
    <3>3. CASE k = "product"
      <4>1. data[x].product \in S /\ Table[data[x].product] = "prasadProduct"
        BY <2>1, <2>2, <2>5, <3>3 DEF OwnInv, KeysInOrder
      <4>2. data[data[x].product].temple = t
        BY <4>1 DEF OwnedBy, HeldAt, Watched, Owned, Offers, Sold
      <4>3. CASE data[x].product \in moved
        BY <2>1, <3>3, <4>2, <4>3 DEF MovedTo
      <4>4. CASE data[x].product \notin moved
        <5>1. data[data[x].order].temple = t
          BY <2>1, <2>5, <4>1, <4>2, <4>4 DEF OwnInv, TemplesMatch, KnownOf, Unmoved
        <5> QED
          BY <2>5, <5>1 DEF HeldAt
      <4> QED
        BY <4>3, <4>4
    <3> QED
      BY <3>1, <3>2, <3>3
  <2> QED
    BY <2>3, <2>4, <2>5 DEF Watched, Owned, Booked, Offers, Sold, HeldAt
<1> QED
  BY <1>1, <1>2 DEF OwnedBy

\* Three cascades deep.
LEMMA TempleTakes ==
  ASSUME OwnInv, NEW t \in Rows("temple")
  PROVE  OwnedBy(Taken(t), t)
<1>1. {t} \subseteq DOMAIN data /\ OwnedBy({t}, t)
  BY DEF Rows, OwnedBy, Watched, Owned, Booked, Offers, Sold
<1>2. WithReferring({t}) \subseteq DOMAIN data /\ OwnedBy(WithReferring({t}), t)
  BY <1>1, ReferringOwned
<1> DEFINE S == WithReferring(WithReferring({t}))
<1>3. S \subseteq DOMAIN data /\ OwnedBy(S, t)
  BY <1>2, ReferringOwned
<1>4. OwnedBy(WithReferring(S), t)
  BY <1>3, ReferringOwned
<1> QED
  BY <1>4 DEF Taken

\* Whatever is deleted, it takes no temple but itself.
LEMMA TemplesTaken ==
  ASSUME NEW x, NEW y \in Taken(x), Table[y] \in {"temple", "address"}
  PROVE  y = x
BY KeylessTaken DEF Taken

\* An order comes with the temple or the address that is deleted, so its items
\* come one cascade later.
LEMMA ItemsTaken ==
  ASSUME OwnInv, NEW x \in DOMAIN data, NEW i \in DOMAIN data,
         Table[i] = "prasadOrderItem", data[i].order \in Taken(x), data[i].order # x
  PROVE  i \in Taken(x)
<1> DEFINE o == data[i].order
           S1 == WithReferring({x})
           S2 == WithReferring(S1)
<1>1. Table[o] = "prasadOrder" /\ o \in DOMAIN data
  BY DEF OwnInv, KeysInOrder, TemplesMatch
<1>2. KeyNames(o) = {"temple", "address"}
  BY <1>1, WatchedNames
<1>3. /\ Table[data[o].temple] = "temple"
      /\ Table[data[o].address] = "address"
  BY <1>1 DEF OwnInv, KeysInOrder, Owned, Booked
<1>4. \A k \in KeyNames(o) : Table[data[o][k]] \in {"temple", "address"}
  BY <1>2, <1>3
<1>5. \A S : \A k \in KeyNames(o) :
        data[o][k] \in WithReferring(S) => data[o][k] \in S
  BY <1>4, KeylessTaken
<1>6. o \in S1
  <2>1. \A S : o \in WithReferring(WithReferring(S)) => o \in WithReferring(S)
    <3>1. SUFFICES ASSUME NEW S, o \in WithReferring(WithReferring(S)),
                          o \notin WithReferring(S)
                   PROVE  FALSE
      OBVIOUS
    <3>2. PICK k \in KeyNames(o) : Refers(o, k, WithReferring(S), "cascade")
      BY <3>1, ReferringBy
    <3>3. Refers(o, k, S, "cascade")
      BY <1>5, <3>2 DEF Refers
    <3> QED
      BY <1>1, <3>1, <3>3 DEF WithReferring
  <2>2. o \in WithReferring(S2)
    BY DEF Taken
  <2>3. o \in S2
    BY <2>1, <2>2
  <2> QED
    BY <2>1, <2>3
<1>7. "order" \in KeyNames(i) /\ Refers(i, "order", S1, "cascade")
  <2>1. "order" \in KeyNames(i)
    BY WatchedNames
  <2>2. KeysOf[Table[i]]["order"].deletion = "cascade"
    BY <2>1, WatchedDeletion DEF Watched
  <2> QED
    BY <1>6, <2>1, <2>2 DEF Refers
<1>8. i \in S2
  BY <1>7 DEF WithReferring
<1>9. i \in WithReferring(S2)
  BY <1>8 DEF WithReferring
<1> QED
  BY <1>9 DEF Taken

\* A deletion leaves the keys of the other rows watched as they are.
LEMMA DeletedKeys ==
  ASSUME NEW x \in DOMAIN data,
         data' = [y \in DOMAIN data \ Taken(x) |->
                   [k \in KeyNames(y) |->
                     IF Refers(y, k, Taken(x), "set null") THEN Null ELSE data[y][k]]],
         NEW y \in DOMAIN data', Table[y] \in Watched
  PROVE  y \in DOMAIN data /\ \A k \in KeyNames(y) : data'[y][k] = data[y][k]
<1>1. y \in DOMAIN data \ Taken(x)
  OBVIOUS
<1>2. ASSUME NEW k \in KeyNames(y) PROVE ~Refers(y, k, Taken(x), "set null")
  BY <1>2, WatchedDeletion DEF Refers
<1>3. data'[y] = [k \in KeyNames(y) |->
                   IF Refers(y, k, Taken(x), "set null") THEN Null ELSE data[y][k]]
  BY <1>1
<1> QED
  BY <1>1, <1>2, <1>3

\* What is known of rows stays known while those rows stay as they are.
LEMMA MatchStays ==
  ASSUME NEW d, NEW e, NEW b, NEW c, NEW rows,
         KeysInOrder(rows), TemplesMatch(d, b, rows), b \subseteq c,
         \A y \in b \cap DOMAIN e : Table[y] \in Watched =>
           y \in DOMAIN d /\ (Table[y] \in Owned => e[y].temple = d[y].temple)
  PROVE  TemplesMatch(e, c, rows)
<1>1. \A y, t : KnownOf(d, b, y, t) /\ Table[y] \in Owned => KnownOf(e, c, y, t)
  BY DEF KnownOf, Watched
<1> QED
  BY <1>1 DEF KeysInOrder, TemplesMatch, Owned, Offers

\* Rows with the same keys match alike.
LEMMA SameKeys ==
  ASSUME NEW d, NEW b, NEW rows, NEW new, DOMAIN new \subseteq DOMAIN rows,
         KeysInOrder(rows), TemplesMatch(d, b, rows),
         \A y \in DOMAIN new : Table[y] \in Watched =>
           \A k \in KeyNames(y) : new[y][k] = rows[y][k],
         \A y \in DOMAIN new : Table[y] = "prasadOrderItem" => rows[y].order \in DOMAIN new
  PROVE  KeysInOrder(new) /\ TemplesMatch(d, b, new)
<1>1. ASSUME NEW y \in DOMAIN new
      PROVE  /\ Table[y] \in Owned => new[y].temple = rows[y].temple
             /\ Table[y] = "donation" => new[y].cause = rows[y].cause
             /\ Table[y] = "prasadOrder" => new[y].address = rows[y].address
             /\ Table[y] = "accommodationBooking" => new[y].room = rows[y].room
             /\ Table[y] = "prasadOrderItem" =>
                  new[y].order = rows[y].order /\ new[y].product = rows[y].product
  BY <1>1, WatchedNames DEF Watched, Owned, Booked, Offers
<1>2. KeysInOrder(new)
  BY <1>1 DEF KeysInOrder
<1>3. ASSUME NEW y \in DOMAIN new, Table[y] = "prasadOrderItem"
      PROVE  /\ new[y].order \in DOMAIN new
             /\ KnownOf(d, b, new[y].product, new[new[y].order].temple)
  <2>1. new[y].order \in DOMAIN new /\ Table[new[y].order] = "prasadOrder"
    BY <1>1, <1>3 DEF KeysInOrder
  <2>2. new[new[y].order].temple = rows[rows[y].order].temple
    BY <1>1, <1>3, <2>1 DEF Owned, Booked
  <2> QED
    BY <1>1, <1>3, <2>1, <2>2 DEF TemplesMatch
<1> QED
  BY <1>1, <1>2, <1>3 DEF TemplesMatch, Owned, Booked

\* No row watched that did not move changes its temple, and none is new.
TemplesStay ==
  \A y \in DOMAIN Unmoved' : Table[y] \in Watched =>
    y \in DOMAIN Unmoved /\ (Table[y] \in Owned => Unmoved'[y].temple = Unmoved[y].temple)

LEMMA WritesStay ==
  ASSUME OwnInv, TemplesStay, UNCHANGED <<born, write>>, DOMAIN data' \subseteq DOMAIN data,
         KeysInOrder(data'), TemplesMatch(Unmoved', born, data')
  PROVE  OwnInv'
<1>1. ASSUME NEW w \in Writer PROVE TemplesMatch(Unmoved', born, write[w])
  BY MatchStays DEF OwnInv, TemplesStay
<1> QED
  BY <1>1 DEF OwnInv

\* A temple takes its own; nothing else takes a temple.
OwnTaken ==
  \A x \in Lost : Table[x] \in Booked \cup {"prasadOrderItem"} =>
    Rows("temple") \cap Lost \subseteq {HeldAt(x)} \cup MovedTo(x)

LEMMA DeleteOwn ==
  ASSUME OwnInv, NEW t, Delete(t), t # "prasadOrder"
  PROVE  OwnInv' /\ OwnTaken
<1>1. PICK x \in Rows(t) :
        data' = [y \in DOMAIN data \ Taken(x) |->
                  [k \in KeyNames(y) |->
                     IF Refers(y, k, Taken(x), "set null") THEN Null ELSE data[y][k]]]
  BY DEF Delete
<1>2. /\ x \in DOMAIN data /\ Table[x] = t
      /\ DOMAIN data' = DOMAIN data \ Taken(x)
      /\ UNCHANGED <<born, write, moved>>
  BY <1>1 DEF Rows, Delete
<1>3. \A y \in DOMAIN data' : Table[y] \in Watched =>
        y \in DOMAIN data /\ \A k \in KeyNames(y) : data'[y][k] = data[y][k]
  BY <1>1, <1>2, DeletedKeys
<1>4. ASSUME NEW y \in DOMAIN data', Table[y] = "prasadOrderItem"
      PROVE  data[y].order \in DOMAIN data'
  <2>1. y \in DOMAIN data /\ y \notin Taken(x)
    BY <1>2
  <2>2. data[y].order \in DOMAIN data /\ Table[data[y].order] = "prasadOrder"
    BY <1>4, <2>1 DEF OwnInv, TemplesMatch, KeysInOrder
  <2> QED
    BY <1>2, <1>4, <2>1, <2>2, ItemsTaken
<1>5. TemplesStay
  <2>1. \A y \in DOMAIN data' : Table[y] \in Owned => data'[y].temple = data[y].temple
    BY <1>3, WatchedNames DEF Watched, Owned, Booked, Offers
  <2> QED
    BY <1>2, <1>3, <2>1 DEF TemplesStay, Unmoved
<1>6. KeysInOrder(data') /\ TemplesMatch(Unmoved, born, data')
  BY <1>2, <1>3, <1>4, SameKeys DEF OwnInv
<1>7. TemplesMatch(Unmoved', born, data')
  BY <1>5, <1>6, MatchStays DEF TemplesStay
<1>8. OwnInv'
  BY <1>2, <1>5, <1>6, <1>7, WritesStay
<1>9. OwnTaken
  <2>1. SUFFICES ASSUME NEW y \in Lost, Table[y] \in Booked \cup {"prasadOrderItem"},
                        NEW z \in Rows("temple"), z \in Lost
                 PROVE  z \in {HeldAt(y)} \cup MovedTo(y)
    BY DEF OwnTaken
  <2>2. z = x
    BY <1>2, <2>1, TemplesTaken DEF Lost, Rows
  <2>3. OwnedBy(Taken(x), x)
    BY <2>1, <2>2, TempleTakes
  <2> QED
    BY <1>2, <2>1, <2>2, <2>3 DEF Lost, OwnedBy, Watched, Owned
<1> QED
  BY <1>8, <1>9

\* A row that moved is known of no more; the others stay where they are.
LEMMA RelinkOwn ==
  ASSUME OwnInv, NEW t, t \notin Booked \cup {"prasadOrderItem"}, Relink(t)
  PROVE  OwnInv' /\ OwnTaken
<1>0. PICK x \in Rows(t) : \E f \in Relinked(x) :
        /\ data' = [data EXCEPT ![x] = f]
        /\ moved' = moved \cup {y \in {x} : Moves(y, f)}
  BY DEF Relink
<1>1. PICK f \in Relinked(x) :
        /\ data' = [data EXCEPT ![x] = f]
        /\ moved' = moved \cup {y \in {x} : Moves(y, f)}
  BY <1>0
<1>2. /\ x \in DOMAIN data /\ Table[x] = t
      /\ DOMAIN data' = DOMAIN data /\ UNCHANGED <<born, write>>
      /\ data'[x] = f /\ \A y \in DOMAIN data \ {x} : data'[y] = data[y]
  BY <1>1 DEF Rows, Relink
<1>3. TemplesStay
  <2>1. ASSUME NEW y \in DOMAIN Unmoved'
        PROVE  y \in DOMAIN Unmoved /\ Unmoved[y] = data[y] /\ Unmoved'[y] = data'[y]
    BY <1>1, <1>2, <2>1 DEF Unmoved
  <2>2. ASSUME x \in DOMAIN Unmoved', t \in Owned PROVE data'[x].temple = data[x].temple
    <3>1. t \in Offers /\ ~Moves(x, f)
      BY <1>1, <2>2 DEF Unmoved, Owned
    <3> QED
      BY <1>2, <3>1 DEF Moves
  <2>3. ASSUME NEW y \in DOMAIN Unmoved', Table[y] \in Owned
        PROVE  Unmoved'[y].temple = Unmoved[y].temple
    <3>1. CASE y = x
      BY <1>2, <2>1, <2>2, <2>3, <3>1
    <3>2. CASE y # x
      <4>1. data'[y] = data[y]
        BY <1>2, <2>1, <3>2 DEF Unmoved
      <4> QED
        BY <2>1, <2>3, <4>1
    <3> QED
      BY <3>1, <3>2
  <2> QED
    BY <2>1, <2>3 DEF TemplesStay
<1>4. ASSUME Table[x] \in Offers PROVE Table[data'[x].temple] = "temple"
  <2>1. "temple" \in KeyNames(x) /\ Table[x] \in Watched /\ Table[x] # "booking"
    BY <1>4, WatchedNames DEF Offers, Watched, Owned
  <2>2. KeysOf[Table[x]]["temple"] = Cascade("temple")
    BY <1>4, WatchedKeys DEF Offers, CauseKeys, ProductKeys, RoomKeys
  <2>3. /\ f["temple"] = Null => Cascade("temple").deletion = "set null"
        /\ f["temple"] # Null => Table[f["temple"]] \in Cascade("temple").to
    BY <2>1, <2>2 DEF Relinked
  <2>4. Cascade("temple").deletion = "cascade" /\ Cascade("temple").to = {"temple"}
    BY DEF Cascade
  <2> QED
    BY <1>2, <2>3, <2>4
<1>5. \A y \in DOMAIN data : Table[y] \in Booked \cup {"prasadOrderItem"} => data'[y] = data[y]
  BY <1>2
<1>6. KeysInOrder(data')
  <2>1. ASSUME NEW y \in DOMAIN data', Table[y] \in Owned
        PROVE  Table[data'[y].temple] = "temple"
    <3>1. CASE y = x
      BY <1>2, <1>4, <2>1, <3>1 DEF Owned
    <3>2. CASE y # x
      BY <1>2, <2>1, <3>2 DEF OwnInv, KeysInOrder
    <3> QED
      BY <3>1, <3>2
  <2> QED
    BY <1>2, <1>5, <2>1 DEF OwnInv, KeysInOrder, Booked
<1>7. TemplesMatch(Unmoved, born, data')
  <2>1. ASSUME NEW y \in DOMAIN data', Table[y] = "prasadOrderItem"
        PROVE  /\ data'[y].order \in DOMAIN data'
               /\ KnownOf(Unmoved, born, data'[y].product, data'[data'[y].order].temple)
    <3>1. /\ data'[y] = data[y] /\ data[y].order \in DOMAIN data
          /\ Table[data[y].order] = "prasadOrder"
      BY <1>2, <1>5, <2>1 DEF OwnInv, TemplesMatch, KeysInOrder
    <3>2. data'[data[y].order] = data[data[y].order]
      BY <1>5, <3>1 DEF Booked
    <3> QED
      BY <1>2, <2>1, <3>1, <3>2 DEF OwnInv, TemplesMatch
  <2> QED
    BY <1>2, <1>5, <2>1 DEF OwnInv, TemplesMatch, Booked
<1>8. TemplesMatch(Unmoved', born, data')
  BY <1>3, <1>6, <1>7, MatchStays DEF TemplesStay
<1> QED
  BY <1>2, <1>3, <1>6, <1>8, WritesStay DEF OwnTaken, Lost

----------------------------------------------------------------------------
(* Insertions, once more.                                                  *)

Unborn(x) == x \in Row \ born /\ \A v \in Writer : x \notin DOMAIN write[v]

LEMMA FreshUnborn == \A t : \A x \in Fresh(t) : Unborn(x) /\ Table[x] = t
BY DEF Fresh, Unborn

LEMMA AsksOwn ==
  ASSUME OwnInv, NEW w \in Writer, NEW new, Asks(w, new),
         \A x \in DOMAIN new : Unborn(x),
         KeysInOrder(new), TemplesMatch(Unmoved, born, new)
  PROVE  OwnInv' /\ UNCHANGED data
<1>1. data' = data /\ born' = born /\ moved' = moved /\ write' = [write EXCEPT ![w] = new]
  BY DEF Asks
<1>2. \A v \in Writer : write'[v] = IF v = w THEN new ELSE write[v]
  BY <1>1 DEF OwnInv
<1>3. write' = [v \in Writer |-> write'[v]]
  BY <1>1 DEF OwnInv
<1>4. ASSUME NEW v \in Writer
      PROVE  /\ DOMAIN write'[v] \subseteq Row \ born
             /\ KeysInOrder(write'[v]) /\ TemplesMatch(Unmoved, born, write'[v])
  BY <1>2 DEF OwnInv, Unborn
<1>5. ASSUME NEW v \in Writer, NEW u \in Writer \ {v}
      PROVE  DOMAIN write'[u] \cap DOMAIN write'[v] = {}
  BY <1>2 DEF OwnInv, Unborn
<1> QED
  BY <1>1, <1>3, <1>4, <1>5 DEF OwnInv, Unmoved

\* An insertion without a row watched.
LEMMA OthersOwn ==
  ASSUME OwnInv, NEW w \in Writer, NEW new, Asks(w, new),
         \A x \in DOMAIN new : Unborn(x) /\ Table[x] \notin Watched
  PROVE  OwnInv' /\ UNCHANGED data
<1>1. KeysInOrder(new) /\ TemplesMatch(Unmoved, born, new)
  BY DEF KeysInOrder, TemplesMatch, Watched, Owned, Booked, Offers
<1> QED
  BY <1>1, AsksOwn

LEMMA AloneOwn ==
  ASSUME OwnInv, NEW w \in Writer, NEW x, NEW keys, Asks(w, Alone(x, keys)),
         Unborn(x), Table[x] \notin Watched
  PROVE  OwnInv' /\ UNCHANGED data
<1>1. DOMAIN Alone(x, keys) = {x}
  BY DEF Alone
<1> QED
  BY <1>1, OthersOwn

LEMMA ForOwn ==
  ASSUME OwnInv, NEW w \in Writer, NEW table, NEW key, NEW t,
         For(w, table, key, t), table \notin Watched
  PROVE  OwnInv' /\ UNCHANGED data
<1>1. PICK x \in Fresh(table), p \in Rows(t) : Asks(w, Alone(x, [k \in {key} |-> p]))
  BY DEF For
<1> QED
  BY <1>1, FreshUnborn, AloneOwn

\* A cause, a product or a room of a temple.
LEMMA OfferOwn ==
  ASSUME OwnInv, NEW w \in Writer, CreateCause(w) \/ CreateProduct(w) \/ CreateRoom(w)
  PROVE  OwnInv' /\ UNCHANGED data
<1>1. PICK table \in {"donationCause", "prasadProduct", "room"} :
        For(w, table, "temple", "temple")
  BY DEF CreateCause, CreateProduct, CreateRoom
<1>2. PICK x \in Fresh(table), p \in Rows("temple") :
        Asks(w, Alone(x, [k \in {"temple"} |-> p]))
  BY <1>1 DEF For
<1> DEFINE new == Alone(x, [k \in {"temple"} |-> p])
<1>3. DOMAIN new = {x} /\ new[x] = [k \in {"temple"} |-> p]
  BY DEF Alone
<1>4. new[x].temple = p /\ Table[p] = "temple"
  BY <1>3 DEF Rows
<1>5. Unborn(x) /\ Table[x] = table
  BY FreshUnborn
<1>6. KeysInOrder(new) /\ TemplesMatch(Unmoved, born, new)
  BY <1>3, <1>4, <1>5 DEF KeysInOrder, TemplesMatch
<1> QED
  BY <1>2, <1>3, <1>5, <1>6, AsksOwn

LEMMA BookOwn ==
  ASSUME OwnInv, NEW w \in Writer, NEW table, NEW key, BookSlot(w, table, key)
  PROVE  OwnInv' /\ UNCHANGED data
<1>1. PICK x \in Fresh("booking"), s \in Rows(table), t \in Rows("temple") :
        Asks(w, Alone(x, [temple |-> t, slot |-> s]))
  BY DEF BookSlot
<1> DEFINE new == Alone(x, [temple |-> t, slot |-> s])
<1>2. DOMAIN new = {x} /\ new[x] = [temple |-> t, slot |-> s]
  BY DEF Alone
<1>3. Unborn(x) /\ Table[x] = "booking" /\ Table[t] = "temple"
  BY FreshUnborn DEF Rows
<1>4. KeysInOrder(new) /\ TemplesMatch(Unmoved, born, new)
  BY <1>2, <1>3 DEF KeysInOrder, TemplesMatch
<1> QED
  BY <1>1, <1>2, <1>3, <1>4, AsksOwn

\* A row that was looked up.
LEMMA LookedUp ==
  ASSUME OwnInv, NEW u, NEW y \in Rows(u), NEW t, OfTemple(y, t)
  PROVE  KnownOf(Unmoved, born, y, t) /\ Table[y] = u
BY DEF OwnInv, Rows, OfTemple, KnownOf, Unmoved

LEMMA DonationOwn ==
  ASSUME OwnInv, NEW w \in Writer, CreateDonation(w)
  PROVE  OwnInv' /\ UNCHANGED data
<1>1. PICK x \in Fresh("donation"), t \in Rows("temple"), c \in Rows("donationCause") :
        /\ OfTemple(c, t)
        /\ \/ Asks(w, Alone(x, [temple |-> t, cause |-> c]))
           \/ \E p \in Fresh("payment"), r \in Fresh("donationReceipt") :
                Asks(w, Joined(Alone(x, [temple |-> t, cause |-> c]),
                               Joined(Alone(p, PaidFor("donation", x)),
                                      Alone(r, [donation |-> x]))))
  BY DEF CreateDonation
<1>2. /\ Unborn(x) /\ Table[x] = "donation" /\ Table[t] = "temple"
      /\ Table[c] = "donationCause" /\ KnownOf(Unmoved, born, c, t)
  BY <1>1, FreshUnborn, LookedUp DEF Rows
<1>3. ASSUME NEW new, Asks(w, new), x \in DOMAIN new,
             new[x] = [temple |-> t, cause |-> c],
             \A y \in DOMAIN new \ {x} : Unborn(y) /\ Table[y] \notin Watched
      PROVE  OwnInv' /\ UNCHANGED data
  <2>1. new[x].temple = t /\ new[x].cause = c
    BY <1>3
  <2>2. KeysInOrder(new) /\ TemplesMatch(Unmoved, born, new)
    BY <1>2, <1>3, <2>1 DEF KeysInOrder, TemplesMatch, Watched, Owned, Booked, Offers
  <2> QED
    BY <1>2, <1>3, <2>2, AsksOwn
<1>4. CASE Asks(w, Alone(x, [temple |-> t, cause |-> c]))
  BY <1>3, <1>4 DEF Alone
<1>5. ASSUME NEW p \in Fresh("payment"), NEW r \in Fresh("donationReceipt"),
             Asks(w, Joined(Alone(x, [temple |-> t, cause |-> c]),
                            Joined(Alone(p, PaidFor("donation", x)),
                                   Alone(r, [donation |-> x]))))
      PROVE  OwnInv' /\ UNCHANGED data
  <2> DEFINE new == Joined(Alone(x, [temple |-> t, cause |-> c]),
                           Joined(Alone(p, PaidFor("donation", x)),
                                  Alone(r, [donation |-> x])))
  <2>1. DOMAIN new = {x, p, r} /\ new[x] = [temple |-> t, cause |-> c]
    BY DEF Joined, Alone
  <2>2. /\ Unborn(p) /\ Table[p] \notin Watched
        /\ Unborn(r) /\ Table[r] \notin Watched
    BY FreshUnborn DEF Watched, Owned, Booked, Offers
  <2> HIDE DEF new
  <2> QED
    BY <1>3, <1>5, <2>1, <2>2 DEF new
<1> QED
  BY <1>1, <1>4, <1>5

LEMMA OrderOwn ==
  ASSUME OwnInv, NEW w \in Writer, CreateOrder(w)
  PROVE  OwnInv' /\ UNCHANGED data
<1>1. PICK o \in Fresh("prasadOrder"), i \in Fresh("prasadOrderItem"),
           t \in Rows("temple"), a \in Rows("address"), p \in Rows("prasadProduct") :
        /\ OfTemple(p, t)
        /\ Asks(w, Joined(Alone(o, [temple |-> t, address |-> a]),
                          Alone(i, [order |-> o, product |-> p])))
  BY DEF CreateOrder
<1> DEFINE new == Joined(Alone(o, [temple |-> t, address |-> a]),
                         Alone(i, [order |-> o, product |-> p]))
<1>2. /\ Unborn(o) /\ Table[o] = "prasadOrder" /\ Unborn(i) /\ Table[i] = "prasadOrderItem"
      /\ Table[t] = "temple" /\ Table[a] = "address" /\ Table[p] = "prasadProduct"
      /\ KnownOf(Unmoved, born, p, t)
  BY <1>1, FreshUnborn, LookedUp DEF Rows
<1>3. /\ DOMAIN new = {o, i}
      /\ new[o] = [temple |-> t, address |-> a]
      /\ new[i] = [order |-> o, product |-> p]
  BY <1>2 DEF Joined, Alone
<1> HIDE DEF new
<1>4. KeysInOrder(new)
  BY <1>2, <1>3 DEF KeysInOrder, Owned, Booked, Offers
<1>5. TemplesMatch(Unmoved, born, new)
  BY <1>2, <1>3 DEF TemplesMatch
<1> QED
  BY <1>1, <1>2, <1>3, <1>4, <1>5, AsksOwn DEF new

LEMMA StayOwn ==
  ASSUME OwnInv, NEW w \in Writer, CreateStay(w)
  PROVE  OwnInv' /\ UNCHANGED data
<1>1. PICK s \in Fresh("accommodationBooking"), p \in Fresh("payment"),
           t \in Rows("temple"), r \in Rows("room") :
        /\ OfTemple(r, t)
        /\ Asks(w, Joined(Alone(s, [temple |-> t, room |-> r]),
                          Alone(p, PaidFor("accommodation", s))))
  BY DEF CreateStay
<1> DEFINE new == Joined(Alone(s, [temple |-> t, room |-> r]),
                         Alone(p, PaidFor("accommodation", s)))
<1>2. /\ Unborn(s) /\ Table[s] = "accommodationBooking" /\ Unborn(p) /\ Table[p] = "payment"
      /\ Table[t] = "temple" /\ Table[r] = "room" /\ KnownOf(Unmoved, born, r, t)
  BY <1>1, FreshUnborn, LookedUp DEF Rows
<1>3. DOMAIN new = {s, p} /\ new[s] = [temple |-> t, room |-> r]
  BY DEF Joined, Alone
<1> HIDE DEF new
<1>4. KeysInOrder(new) /\ TemplesMatch(Unmoved, born, new)
  BY <1>2, <1>3 DEF KeysInOrder, TemplesMatch, Owned, Booked, Offers
<1> QED
  BY <1>1, <1>2, <1>3, <1>4, AsksOwn DEF new

LEMMA CreateOwn ==
  ASSUME OwnInv, NEW w \in Writer, Create(w)
  PROVE  OwnInv' /\ UNCHANGED data
<1> USE DEF Watched, Owned, Booked, Offers
<1>1. CASE \/ AssignStaff(w) \/ CreateInformation(w) \/ CreateDeity(w)
           \/ CreateDarshanSchedule(w) \/ GenerateSlot(w) \/ CreateAarti(w)
           \/ CreatePujaSlot(w) \/ CreateSevaSlot(w) \/ MarkCheckedIn(w)
           \/ CreateReceipt(w) \/ CreateEvent(w) \/ Register(w) \/ CreateAnnouncement(w)
           \/ SeedGurukul(w) \/ CreateGurukulSchedule(w) \/ CreateMahaprasadSlot(w)
           \/ RecordPaymentEvent(w)
  <2>1. PICK table, key, t : For(w, table, key, t) /\ table \notin Watched
    BY <1>1 DEF AssignStaff, CreateInformation, CreateDeity, CreateDarshanSchedule,
         GenerateSlot, CreateAarti, CreatePujaSlot, CreateSevaSlot, MarkCheckedIn,
         CreateReceipt, CreateEvent, Register, CreateAnnouncement, SeedGurukul,
         CreateGurukulSchedule, CreateMahaprasadSlot, RecordPaymentEvent
  <2> QED
    BY <2>1, ForOwn
<1>2. CASE \/ CreateTemple(w) \/ AddAddress(w) \/ CreateMedia(w) \/ CreateGalleryItem(w)
           \/ CreatePuja(w) \/ CreateSeva(w) \/ CreatePayment(w) \/ CreatePaath(w)
           \/ CreateAdmission(w)
  <2>1. ASSUME NEW table \in {"temple", "address", "media", "galleryItem", "puja", "seva",
                              "payment", "paath", "gurukulAdmission"},
               NEW x \in Fresh(table), NEW keys, Asks(w, Alone(x, keys))
        PROVE  OwnInv' /\ UNCHANGED data
    BY <2>1, AloneOwn, FreshUnborn
  <2>2. CASE CreateTemple(w) \/ AddAddress(w)
    BY <2>1, <2>2 DEF CreateTemple, AddAddress
  <2>3. CASE CreateMedia(w) \/ CreateGalleryItem(w)
    BY <2>1, <2>3 DEF CreateMedia, CreateGalleryItem
  <2>4. CASE CreatePuja(w) \/ CreateSeva(w)
    BY <2>1, <2>4 DEF CreatePuja, CreateSeva, Rite
  <2>5. CASE CreatePayment(w)
    BY <2>1, <2>5 DEF CreatePayment
  <2>6. CASE CreatePaath(w) \/ CreateAdmission(w)
    BY <2>1, <2>6 DEF CreatePaath, CreateAdmission
  <2> QED
    BY <1>2, <2>2, <2>3, <2>4, <2>5, <2>6
<1>3. CASE CreateCause(w) \/ CreateProduct(w) \/ CreateRoom(w)
  BY <1>3, OfferOwn
<1>4. CASE CreatePujaBooking(w) \/ CreateSevaBooking(w) \/ CreateDarshanBooking(w)
  BY <1>4, BookOwn DEF CreatePujaBooking, CreateSevaBooking, CreateDarshanBooking
<1>5. CASE CreateDonation(w) \/ CreateOrder(w) \/ CreateStay(w)
  BY <1>5, DonationOwn, OrderOwn, StayOwn
<1>6. CASE BookMahaprasad(w)
  <2>1. PICK x \in Fresh("mahaprasadBooking"), s \in Rows("mahaprasadSlot") :
          \/ Asks(w, Alone(x, [slot |-> s]))
          \/ \E p \in Fresh("payment") :
               Asks(w, Joined(Alone(x, [slot |-> s]), Alone(p, PaidFor("mahaprasad", x))))
    BY <1>6 DEF BookMahaprasad
  <2>2. CASE Asks(w, Alone(x, [slot |-> s]))
    BY <2>2, AloneOwn, FreshUnborn
  <2>3. ASSUME NEW p \in Fresh("payment"),
               Asks(w, Joined(Alone(x, [slot |-> s]), Alone(p, PaidFor("mahaprasad", x))))
        PROVE  OwnInv' /\ UNCHANGED data
    <3>1. DOMAIN Joined(Alone(x, [slot |-> s]), Alone(p, PaidFor("mahaprasad", x))) = {x, p}
      BY DEF Joined, Alone
    <3>2. Unborn(x) /\ Table[x] \notin Watched /\ Unborn(p) /\ Table[p] \notin Watched
      BY FreshUnborn
    <3> QED
      BY <2>3, <3>1, <3>2, OthersOwn
  <2> QED
    BY <2>1, <2>2, <2>3
<1> QED
  BY <1>1, <1>2, <1>3, <1>4, <1>5, <1>6 DEF Create

\* The rows asked for are new, and what they were looked up for is old: it is
\* in data still, or gone for ever.
LEMMA InsertOwn ==
  ASSUME OwnInv, NEW w \in Writer, Insert(w)
  PROVE  OwnInv' /\ DOMAIN data \subseteq DOMAIN data'
<1> DEFINE new == write[w]
<1>1. /\ data' = Joined(new, data) /\ born' = born \cup DOMAIN new /\ moved' = moved
      /\ write' = [write EXCEPT ![w] = NoWrite]
  BY DEF Insert
<1>2. DOMAIN new \cap born = {} /\ DOMAIN new \subseteq Row /\ DOMAIN data \subseteq born
  BY DEF OwnInv
<1>3. DOMAIN data' = DOMAIN new \cup DOMAIN data
  BY <1>1 DEF Joined
<1>4. \A x \in DOMAIN data' : data'[x] = IF x \in DOMAIN new THEN new[x] ELSE data[x]
  BY <1>1 DEF Joined
<1>5. ASSUME NEW rows, KeysInOrder(rows), TemplesMatch(Unmoved, born, rows)
      PROVE  TemplesMatch(Unmoved', born', rows)
  <2>1. \A y \in born \cap DOMAIN Unmoved' : y \in DOMAIN Unmoved /\ Unmoved'[y] = Unmoved[y]
    BY <1>1, <1>2, <1>3, <1>4 DEF Unmoved
  <2> QED
    BY <1>1, <1>5, <2>1, MatchStays
<1>6. KeysInOrder(data')
  BY <1>3, <1>4 DEF OwnInv, KeysInOrder
<1>7. TemplesMatch(Unmoved', born', data')
  <2>1. TemplesMatch(Unmoved', born', new) /\ TemplesMatch(Unmoved', born', data)
    BY <1>5 DEF OwnInv
  <2>2. ASSUME NEW x \in DOMAIN new, Table[x] = "prasadOrderItem"
        PROVE  data'[data'[x].order] = new[new[x].order] /\ new[x].order \in DOMAIN new
    BY <1>3, <1>4, <2>1, <2>2 DEF TemplesMatch
  <2>3. ASSUME NEW x \in DOMAIN data, Table[x] = "prasadOrderItem"
        PROVE  data'[data'[x].order] = data[data[x].order] /\ data[x].order \in DOMAIN data
    BY <1>2, <1>3, <1>4, <2>1, <2>3 DEF TemplesMatch
  <2> QED
    BY <1>2, <1>3, <1>4, <2>1, <2>2, <2>3 DEF TemplesMatch
<1>8. \A v \in Writer : write'[v] = IF v = w THEN NoWrite ELSE write[v]
  BY <1>1 DEF OwnInv
<1>9. write' = [v \in Writer |-> write'[v]]
  BY <1>1 DEF OwnInv
<1>10. DOMAIN NoWrite = {} /\ KeysInOrder(NoWrite) /\ TemplesMatch(Unmoved', born', NoWrite)
  BY DEF NoWrite, KeysInOrder, TemplesMatch
<1>11. ASSUME NEW v \in Writer
       PROVE  /\ DOMAIN write'[v] \subseteq Row \ born'
              /\ KeysInOrder(write'[v]) /\ TemplesMatch(Unmoved', born', write'[v])
              /\ \A u \in Writer \ {v} : DOMAIN write'[u] \cap DOMAIN write'[v] = {}
  <2>1. CASE v = w
    BY <1>8, <1>10, <2>1
  <2>2. CASE v # w
    <3>1. /\ write'[v] = write[v] /\ DOMAIN write[v] \subseteq Row \ born
          /\ DOMAIN write[v] \cap DOMAIN new = {}
      BY <1>8, <2>2 DEF OwnInv
    <3>2. KeysInOrder(write[v]) /\ TemplesMatch(Unmoved', born', write[v])
      BY <1>5 DEF OwnInv
    <3>3. \A u \in Writer \ {v} : DOMAIN write'[u] \cap DOMAIN write'[v] = {}
      BY <1>8, <1>10, <3>1 DEF OwnInv
    <3> QED
      BY <1>1, <3>1, <3>2, <3>3
  <2> QED
    BY <2>1, <2>2
<1> QED
  BY <1>1, <1>2, <1>3, <1>6, <1>7, <1>9, <1>11 DEF OwnInv

LEMMA InsertFailsOwn ==
  ASSUME OwnInv, NEW w \in Writer, InsertFails(w)
  PROVE  OwnInv' /\ UNCHANGED data
<1>1. /\ data' = data /\ born' = born /\ moved' = moved
      /\ write' = [write EXCEPT ![w] = NoWrite]
  BY DEF InsertFails
<1>2. \A v \in Writer : write'[v] = IF v = w THEN NoWrite ELSE write[v]
  BY <1>1 DEF OwnInv
<1>3. write' = [v \in Writer |-> write'[v]]
  BY <1>1 DEF OwnInv
<1>4. DOMAIN NoWrite = {} /\ KeysInOrder(NoWrite) /\ TemplesMatch(Unmoved, born, NoWrite)
  BY DEF NoWrite, KeysInOrder, TemplesMatch
<1>5. ASSUME NEW v \in Writer
      PROVE  /\ DOMAIN write'[v] \subseteq Row \ born
             /\ KeysInOrder(write'[v]) /\ TemplesMatch(Unmoved, born, write'[v])
             /\ \A u \in Writer \ {v} : DOMAIN write'[u] \cap DOMAIN write'[v] = {}
  BY <1>2, <1>4 DEF OwnInv
<1> QED
  BY <1>1, <1>3, <1>5 DEF OwnInv, Unmoved

LEMMA NextOwn ==
  ASSUME OwnInv, [CatalogueNext]_catalogueVars
  PROVE  OwnInv' /\ OwnTaken
<1>1. ASSUME NEW w \in Writer, Create(w) \/ Insert(w) \/ InsertFails(w)
      PROVE  OwnInv' /\ OwnTaken
  BY <1>1, CreateOwn, InsertOwn, InsertFailsOwn DEF OwnTaken, Lost
<1>2. CASE DeleteSome
  <2>1. PICK t : Delete(t) /\ t # "prasadOrder"
    BY <1>2 DEF DeleteSome, DeleteTemple, RemoveStaff, DeleteInformation, DeleteDeity,
         DeleteGalleryItem, DeleteDarshanSchedule, DeleteAarti, DeletePuja, DeleteSeva,
         DeleteCause, DeleteEvent, DeleteAddress, DeleteProduct, DeleteRoom,
         DeleteAnnouncement, DeletePaath, DeleteGurukulSchedule
  <2> QED
    BY <2>1, DeleteOwn
<1>3. CASE UpdateSome
  <2>1. PICK t : Relink(t) /\ t \notin Booked \cup {"prasadOrderItem"}
    BY <1>3 DEF Booked, UpdateSome, UpdateInformation, UpdateDeity, UpdateGalleryItem, UpdateDarshanSchedule,
         UpdateScheduleSlot, UpdateAarti, UpdatePuja, UpdateSeva, UpdatePujaSlot,
         UpdateSevaSlot, UpdateCause, UpdateEvent, UpdateProduct, UpdateRoom,
         UpdateAnnouncement, UpdatePaath, UpdateGurukul, UpdateGurukulSchedule,
         UpdateMahaprasadSlot
  <2> QED
    BY <2>1, RelinkOwn
<1>4. CASE UNCHANGED catalogueVars
  BY <1>4 DEF catalogueVars, OwnInv, OwnTaken, Lost, Unmoved
<1> QED
  BY <1>1, <1>2, <1>3, <1>4 DEF CatalogueNext

(* However requests to insert, update and delete overlap, the deletion of  *)
(* a temple takes only its own bookings, donations, orders, items and      *)
(* stays, and those whose cause, product or room was moved to it: a        *)
(* looked-up cause, product or room never comes back once it is deleted,   *)
(* so unless it moved the lookup still holds at the insertion.             *)
THEOREM TemplesKeepTheirOwn == CatalogueSpec => TempleTakesItsOwn
<1>1. OwnInv /\ [CatalogueNext]_catalogueVars => OwnInv'
  BY NextOwn
<1>2. OwnInv /\ [CatalogueNext]_catalogueVars
        => [\A x \in Lost : Table[x] \in Booked \cup {"prasadOrderItem"} =>
              Rows("temple") \cap Lost \subseteq {HeldAt(x)} \cup MovedTo(x)]_catalogueVars
  BY NextOwn DEF OwnTaken
<1> QED
  BY InitOwn, <1>1, <1>2, PTL DEF CatalogueSpec, TempleTakesItsOwn

----------------------------------------------------------------------------
(* References.  A deletion goes three keys far; no chain of cascades in    *)
(* the schema is longer, so that nothing that stays refers to a row that   *)
(* went.                                                                   *)

\* The longest chain of cascades a row of the table may hang on.
Depth(t) ==
  IF t \in {"galleryItem", "donationReceipt"} THEN 3
  ELSE IF t \in {"media", "darshanSlot", "pujaSlot", "sevaSlot", "checkIn", "donation",
                 "eventRegistration", "prasadOrderItem", "accommodationBooking",
                 "mahaprasadBooking"} THEN 2
  ELSE IF t \in {"temple", "payment", "address", "paath", "gurukul", "gurukulAdmission"} THEN 0
  ELSE 1

\* The table has one key, and the key is as given.
KeyedBy(t, key, to) == DOMAIN KeysOf[t] = {key} /\ KeysOf[t][key] = to

OfOneTemple ==
  {"staffAssignment", "templeInformation", "deity", "darshanSchedule", "aartiSchedule",
   "donationCause", "event", "prasadProduct", "room", "announcement", "mahaprasadSlot"}

LEMMA TempleKeyed == \A t \in OfOneTemple : KeyedBy(t, "temple", Cascade("temple"))
BY DEF OfOneTemple, KeyedBy, KeysOf, StaffKeys, InformationKeys, DeityKeys, ScheduleKeys,
       AartiKeys, CauseKeys, EventKeys, ProductKeys, RoomKeys, AnnouncementKeys,
       MahaprasadSlotKeys

LEMMA OtherwiseKeyed ==
  /\ KeyedBy("darshanSlot", "schedule", Cascade("darshanSchedule"))
  /\ KeyedBy("pujaSlot", "puja", Cascade("puja")) /\ KeyedBy("sevaSlot", "seva", Cascade("seva"))
  /\ KeyedBy("checkIn", "booking", Cascade("booking"))
  /\ KeyedBy("paymentEvent", "payment", Cascade("payment"))
  /\ KeyedBy("donationReceipt", "donation", Cascade("donation"))
  /\ KeyedBy("eventRegistration", "event", Cascade("event"))
  /\ KeyedBy("gurukulSchedule", "gurukul", Cascade("gurukul"))
  /\ KeyedBy("gurukulAdmission", "gurukul", SetNull("gurukul"))
  /\ KeyedBy("mahaprasadBooking", "slot", Cascade("mahaprasadSlot"))
  /\ KeyedBy("paath", "temple", SetNull("temple"))
  /\ KeyedBy("gurukul", "temple", SetNull("temple"))
BY DEF KeyedBy, KeysOf, DarshanSlotKeys, PujaSlotKeys, SevaSlotKeys, CheckInKeys,
       PaymentEventKeys, ReceiptKeys, RegistrationKeys, GurukulScheduleKeys, AdmissionKeys,
       MahaprasadKeys, PaathKeys, GurukulKeys

\* The table has two keys.
TwoKeys(t, k, to, l, lto) ==
  DOMAIN KeysOf[t] = {k, l} /\ KeysOf[t][k] = to /\ KeysOf[t][l] = lto

LEMMA TwiceKeyed ==
  /\ TwoKeys("media", "temple", Cascade("temple"), "deity", Cascade("deity"))
  /\ TwoKeys("galleryItem", "temple", Cascade("temple"), "media", Cascade("media"))
  /\ TwoKeys("puja", "temple", Cascade("temple"), "deity", SetNull("deity"))
  /\ TwoKeys("seva", "temple", Cascade("temple"), "deity", SetNull("deity"))
  /\ TwoKeys("booking", "temple", Cascade("temple"), "slot", SlotId)
  /\ TwoKeys("donation", "temple", Cascade("temple"), "cause", Cascade("donationCause"))
  /\ TwoKeys("prasadOrder", "temple", Cascade("temple"), "address", Cascade("address"))
  /\ TwoKeys("prasadOrderItem", "order", Cascade("prasadOrder"),
                                "product", Cascade("prasadProduct"))
  /\ TwoKeys("accommodationBooking", "temple", Cascade("temple"), "room", Cascade("room"))
BY DEF TwoKeys, KeysOf, MediaKeys, GalleryKeys, PujaKeys, SevaKeys, BookingKeys, DonationKeys,
       OrderKeys, ItemKeys, StayKeys

LEMMA PaymentKeyed ==
  /\ KeysOf["payment"] = PaymentKeys
  /\ DOMAIN PaymentKeys =
       {"booking", "donation", "prasadOrder", "accommodation", "mahaprasad"}
  /\ PaymentKeys["booking"] = SetNull("booking")
  /\ PaymentKeys["donation"] = SetNull("donation")
  /\ PaymentKeys["prasadOrder"] = SetNull("prasadOrder")
  /\ PaymentKeys["accommodation"] = SetNull("accommodationBooking")
  /\ PaymentKeys["mahaprasad"] = SetNull("mahaprasadBooking")
BY DEF KeysOf, PaymentKeys

LEMMA Keyless == DOMAIN KeysOf["temple"] = {} /\ DOMAIN KeysOf["address"] = {}
BY DEF KeysOf, TempleKeys, AddressKeys

LEMMA Tables ==
  DOMAIN KeysOf =
    OfOneTemple \cup {"temple", "address", "payment"}
    \cup {"darshanSlot", "pujaSlot", "sevaSlot", "checkIn", "paymentEvent", "donationReceipt",
          "eventRegistration", "gurukulSchedule", "gurukulAdmission", "mahaprasadBooking",
          "paath", "gurukul"}
    \cup {"media", "galleryItem", "puja", "seva", "booking", "donation", "prasadOrder",
          "prasadOrderItem", "accommodationBooking"}
BY DEF KeysOf, OfOneTemple

LEMMA KeyKinds ==
  ASSUME NEW u
  PROVE  /\ Cascade(u).to = {u} /\ Cascade(u).deletion = "cascade"
         /\ SetNull(u).to = {u} /\ SetNull(u).deletion = "set null"
         /\ SlotId.to = {"pujaSlot", "sevaSlot", "darshanSlot"} /\ SlotId.deletion = "nothing"
BY DEF Cascade, SetNull, SlotId

\* Every key either cascades, to tables that are less deep, or leads to no deletion.
KeyInOrder(t, k) ==
  \/ KeysOf[t][k].deletion \in {"set null", "nothing"}
  \/ KeysOf[t][k].deletion = "cascade" /\ \A u \in KeysOf[t][k].to : Depth(u) < Depth(t)

LEMMA CascadeInOrder ==
  ASSUME NEW t, NEW k, NEW u, KeysOf[t][k] = Cascade(u), Depth(u) < Depth(t)
  PROVE  KeyInOrder(t, k)
<1>1. KeysOf[t][k].to = {u} /\ KeysOf[t][k].deletion = "cascade"
  BY KeyKinds
<1> QED
  BY <1>1 DEF KeyInOrder

LEMMA OtherInOrder ==
  ASSUME NEW t, NEW k, NEW u, KeysOf[t][k] = SetNull(u) \/ KeysOf[t][k] = SlotId
  PROVE  KeyInOrder(t, k)
BY KeyKinds DEF KeyInOrder

LEMMA Depths ==
  /\ \A t : Depth(t) \in 0..3
  /\ Depth("temple") = 0 /\ \A t \in OfOneTemple : Depth(t) = 1
BY DEF Depth, OfOneTemple

LEMMA Schema == \A t \in DOMAIN KeysOf : \A k \in DOMAIN KeysOf[t] : KeyInOrder(t, k)
<1> DEFINE Ordered(t) == \A k \in DOMAIN KeysOf[t] : KeyInOrder(t, k)
<1>1. ASSUME NEW t, NEW key, NEW u,
             \/ KeyedBy(t, key, Cascade(u)) /\ Depth(u) < Depth(t)
             \/ KeyedBy(t, key, SetNull(u))
      PROVE  Ordered(t)
  BY <1>1, CascadeInOrder, OtherInOrder DEF KeyedBy
<1>0. ASSUME NEW t, NEW k, NEW u, NEW l, NEW v,
             \/ TwoKeys(t, k, Cascade(u), l, Cascade(v)) /\ Depth(v) < Depth(t)
             \/ TwoKeys(t, k, Cascade(u), l, SetNull(v))
             \/ TwoKeys(t, k, Cascade(u), l, SlotId),
             Depth(u) < Depth(t)
      PROVE  Ordered(t)
  <2>1. KeyInOrder(t, k)
    BY <1>0, CascadeInOrder DEF TwoKeys
  <2>2. KeyInOrder(t, l)
    BY <1>0, CascadeInOrder, OtherInOrder DEF TwoKeys
  <2> QED
    BY <1>0, <2>1, <2>2 DEF TwoKeys
<1> HIDE DEF Ordered
<1>2. \A t \in OfOneTemple : Ordered(t)
  BY <1>1, TempleKeyed, Depths
<1>3. Ordered("temple") /\ Ordered("address")
  BY Keyless DEF Ordered
<1>4. Ordered("payment")
  BY PaymentKeyed, OtherInOrder DEF Ordered
<1>5. /\ Ordered("darshanSlot") /\ Ordered("pujaSlot") /\ Ordered("sevaSlot")
      /\ Ordered("checkIn") /\ Ordered("paymentEvent") /\ Ordered("donationReceipt")
  <2>1. /\ Depth("darshanSchedule") = 1 /\ Depth("puja") = 1 /\ Depth("seva") = 1
        /\ Depth("booking") = 1 /\ Depth("payment") = 0 /\ Depth("donation") = 2
        /\ Depth("darshanSlot") = 2 /\ Depth("pujaSlot") = 2 /\ Depth("sevaSlot") = 2
        /\ Depth("checkIn") = 2 /\ Depth("paymentEvent") = 1 /\ Depth("donationReceipt") = 3
    BY DEF Depth
  <2> QED
    BY <1>1, <2>1, OtherwiseKeyed
<1>6. /\ Ordered("eventRegistration") /\ Ordered("gurukulSchedule")
      /\ Ordered("gurukulAdmission") /\ Ordered("mahaprasadBooking")
      /\ Ordered("paath") /\ Ordered("gurukul")
  <2>1. /\ Depth("event") = 1 /\ Depth("gurukul") = 0 /\ Depth("mahaprasadSlot") = 1
        /\ Depth("eventRegistration") = 2 /\ Depth("gurukulSchedule") = 1
        /\ Depth("mahaprasadBooking") = 2
    BY DEF Depth
  <2> QED
    BY <1>1, <2>1, OtherwiseKeyed
<1>7. /\ Ordered("media") /\ Ordered("galleryItem") /\ Ordered("puja") /\ Ordered("seva")
      /\ Ordered("booking")
  <2>1. /\ Depth("temple") = 0 /\ Depth("deity") = 1 /\ Depth("media") = 2
        /\ Depth("galleryItem") = 3 /\ Depth("puja") = 1 /\ Depth("seva") = 1
        /\ Depth("booking") = 1
    BY DEF Depth
  <2> QED
    BY <1>0, <2>1, TwiceKeyed
<1>8. /\ Ordered("donation") /\ Ordered("prasadOrder") /\ Ordered("prasadOrderItem")
      /\ Ordered("accommodationBooking")
  <2>1. /\ Depth("temple") = 0 /\ Depth("donationCause") = 1 /\ Depth("donation") = 2
        /\ Depth("address") = 0 /\ Depth("prasadOrder") = 1 /\ Depth("prasadProduct") = 1
        /\ Depth("prasadOrderItem") = 2 /\ Depth("room") = 1 /\ Depth("accommodationBooking") = 2
    BY DEF Depth
  <2> QED
    BY <1>0, <2>1, TwiceKeyed
<1>9. \A t \in DOMAIN KeysOf : Ordered(t)
  BY <1>2, <1>3, <1>4, <1>5, <1>6, <1>7, <1>8, Tables
<1> QED
  BY <1>9 DEF Ordered

----------------------------------------------------------------------------
(* Cascades                                                                *)

\* What a key of a row refers to is a row there is, of a table the schema says.
LEMMA KeyOfRow ==
  ASSUME CatalogueTypeOK, NEW y \in DOMAIN data, NEW k \in KeyNames(y)
  PROVE  /\ y \in Row /\ Table[y] \in DOMAIN KeysOf
         /\ k \in DOMAIN KeysOf[Table[y]]
         /\ data[y][k] \in Row \cup {Null}
         /\ data[y][k] # Null => Table[data[y][k]] \in KeysOf[Table[y]][k].to
<1>1. y \in Row
  BY DEF CatalogueTypeOK
<1>2. data[y] \in Links(y)
  BY DEF CatalogueTypeOK
<1> QED
  BY <1>1, <1>2, CatalogueAssumption DEF Links, KeyNames

\* A row that is taken next is deeper than one taken before.
LEMMA Deeper ==
  ASSUME CatalogueTypeOK, NEW S, S \subseteq DOMAIN data,
         NEW y \in WithReferring(S), y \notin S
  PROVE  /\ y \in DOMAIN data
         /\ \E z \in S : /\ Depth(Table[z]) < Depth(Table[y])
                        /\ \A R : z \in R => y \in WithReferring(R)
<1>1. PICK k \in KeyNames(y) : y \in DOMAIN data /\ Refers(y, k, S, "cascade")
  BY DEF WithReferring
<1> DEFINE z == data[y][k]
<1>2. z \in S /\ KeysOf[Table[y]][k].deletion = "cascade"
  BY <1>1 DEF Refers
<1>3. z # Null
  BY <1>2, CatalogueAssumption DEF CatalogueTypeOK
<1>4. Table[z] \in KeysOf[Table[y]][k].to
  BY <1>1, <1>3, KeyOfRow
<1>5. KeyInOrder(Table[y], k)
  BY <1>1, KeyOfRow, Schema
<1>6. Depth(Table[z]) < Depth(Table[y])
  BY <1>2, <1>4, <1>5 DEF KeyInOrder
<1>7. ASSUME NEW R, z \in R PROVE y \in WithReferring(R)
  BY <1>1, <1>2, <1>7 DEF WithReferring, Refers
<1> QED
  BY <1>1, <1>2, <1>6, <1>7

LEMMA ReferringGrows ==
  ASSUME NEW S, S \subseteq DOMAIN data
  PROVE  S \subseteq WithReferring(S) /\ WithReferring(S) \subseteq DOMAIN data
BY DEF WithReferring

\* The rows taken are all: a fourth round adds none.
LEMMA TakenIsClosed ==
  ASSUME CatalogueTypeOK, NEW x \in DOMAIN data
  PROVE  WithReferring(Taken(x)) = Taken(x)
<1> DEFINE R1 == WithReferring({x})
           R2 == WithReferring(R1)
           R3 == WithReferring(R2)
<1>1. /\ {x} \subseteq R1 /\ R1 \subseteq R2 /\ R2 \subseteq R3
      /\ {x} \subseteq DOMAIN data /\ R1 \subseteq DOMAIN data
      /\ R2 \subseteq DOMAIN data /\ R3 \subseteq DOMAIN data
  <2>1. {x} \subseteq R1 /\ R1 \subseteq DOMAIN data
    BY ReferringGrows
  <2>2. R1 \subseteq R2 /\ R2 \subseteq DOMAIN data
    BY <2>1, ReferringGrows
  <2>3. R2 \subseteq R3 /\ R3 \subseteq DOMAIN data
    BY <2>2, ReferringGrows
  <2> QED
    BY <2>1, <2>2, <2>3
<1>2. ASSUME NEW y \in WithReferring(R3), y \notin R3 PROVE FALSE
  <2>1. PICK z3 \in R3 : /\ Depth(Table[z3]) < Depth(Table[y])
                         /\ \A R : z3 \in R => y \in WithReferring(R)
    BY <1>1, <1>2, Deeper
  <2>2. z3 \notin R2
    BY <1>2, <2>1
  <2>3. PICK z2 \in R2 : /\ Depth(Table[z2]) < Depth(Table[z3])
                         /\ \A R : z2 \in R => z3 \in WithReferring(R)
    BY <1>1, <2>2, Deeper
  <2>4. z2 \notin R1
    BY <2>2, <2>3
  <2>5. PICK z1 \in R1 : /\ Depth(Table[z1]) < Depth(Table[z2])
                         /\ \A R : z1 \in R => z2 \in WithReferring(R)
    BY <1>1, <2>4, Deeper
  <2>6. z1 \notin {x}
    BY <2>4, <2>5
  <2>7. Depth(Table[x]) < Depth(Table[z1])
    BY <1>1, <2>6, Deeper
  <2> QED
    BY <2>1, <2>3, <2>5, <2>7, Depths
<1>3. R3 = Taken(x)
  BY DEF Taken
<1> QED
  BY <1>1, <1>2, <1>3, ReferringGrows

----------------------------------------------------------------------------
(* No step leaves a key dangling.                                          *)

RefInv == CatalogueTypeOK /\ write = [w \in Writer |-> write[w]]

Linked(rows) == \A x \in DOMAIN rows : x \in Row /\ rows[x] \in Links(x)

LEMMA InitRef == CatalogueInit => RefInv
BY CatalogueAssumption DEF CatalogueInit, RefInv, CatalogueTypeOK, NoWrite

LEMMA DeleteRef ==
  ASSUME RefInv, NEW t, Delete(t)
  PROVE  RefInv'
<1>1. PICK x \in Rows(t) :
        data' = [y \in DOMAIN data \ Taken(x) |->
                  [k \in KeyNames(y) |->
                     IF Refers(y, k, Taken(x), "set null") THEN Null ELSE data[y][k]]]
  BY DEF Delete
<1>2. x \in DOMAIN data /\ CatalogueTypeOK
  BY DEF Rows, RefInv
<1>3. DOMAIN data' = DOMAIN data \ Taken(x) /\ UNCHANGED <<born, write, moved>>
  BY <1>1 DEF Delete
<1>4. ASSUME NEW y \in DOMAIN data', NEW k \in KeyNames(y)
      PROVE  /\ data'[y][k] = IF Refers(y, k, Taken(x), "set null") THEN Null ELSE data[y][k]
             /\ data'[y][k] \in Row \cup {Null}
             /\ data'[y][k] # Null => Table[data'[y][k]] \in KeysOf[Table[y]][k].to
  <2>1. y \in DOMAIN data
    BY <1>3
  <2>2. data'[y][k] = IF Refers(y, k, Taken(x), "set null") THEN Null ELSE data[y][k]
    BY <1>1, <1>3
  <2> QED
    BY <1>2, <2>1, <2>2, KeyOfRow
<1>5. ASSUME NEW y \in DOMAIN data' PROVE data'[y] \in Links(y)
  <2>1. data'[y] = [k \in KeyNames(y) |->
                     IF Refers(y, k, Taken(x), "set null") THEN Null ELSE data[y][k]]
    BY <1>1, <1>3
  <2>2. data'[y] \in [KeyNames(y) -> Row \cup {Null}]
    BY <1>4, <2>1
  <2> QED
    BY <1>4, <2>2 DEF Links
<1>6. ASSUME NEW y \in DOMAIN data', NEW k \in KeyNames(y),
             KeysOf[Table[y]][k].deletion # "nothing"
      PROVE  data'[y][k] \in DOMAIN data' \cup {Null}
  <2>1. y \in DOMAIN data /\ y \notin Taken(x)
    BY <1>3
  <2>2. data[y][k] \in DOMAIN data \cup {Null}
    BY <1>2, <1>6, <2>1 DEF CatalogueTypeOK
  <2>3. KeysOf[Table[y]][k].deletion \in {"cascade", "set null"}
    BY <1>2, <1>6, <2>1, KeyOfRow, Schema DEF KeyInOrder
  <2>4. CASE KeysOf[Table[y]][k].deletion = "cascade"
    <3>1. ~Refers(y, k, Taken(x), "cascade")
      BY <1>2, <2>1, TakenIsClosed DEF WithReferring
    <3> QED
      BY <1>3, <1>4, <2>2, <2>4, <3>1 DEF Refers
  <2>5. CASE KeysOf[Table[y]][k].deletion = "set null"
    BY <1>3, <1>4, <2>2, <2>5 DEF Refers
  <2> QED
    BY <2>3, <2>4, <2>5
<1> QED
  BY <1>2, <1>3, <1>5, <1>6 DEF RefInv, CatalogueTypeOK, Links, KeyNames

LEMMA RelinkRef ==
  ASSUME RefInv, NEW t, Relink(t)
  PROVE  RefInv'
<1>0. PICK x \in Rows(t) : \E f \in Relinked(x) :
        /\ data' = [data EXCEPT ![x] = f]
        /\ moved' = moved \cup {y \in {x} : Moves(y, f)}
  BY DEF Relink
<1>1. PICK f \in Relinked(x) :
        /\ data' = [data EXCEPT ![x] = f]
        /\ moved' = moved \cup {y \in {x} : Moves(y, f)}
  BY <1>0
<1>2. /\ x \in DOMAIN data /\ DOMAIN data \subseteq Row /\ DOMAIN data \subseteq born
      /\ DOMAIN data' = DOMAIN data /\ UNCHANGED <<born, write>>
  BY <1>1 DEF Rows, Relink, RefInv, CatalogueTypeOK
<1>3. moved' \subseteq born
  BY <1>1, <1>2 DEF RefInv, CatalogueTypeOK
<1>4. data'[x] = f /\ \A y \in DOMAIN data \ {x} : data'[y] = data[y]
  BY <1>1, <1>2
<1>5. f \in [KeyNames(x) -> DOMAIN data \cup {Null}]
  BY DEF Relinked
<1>6. f \in [KeyNames(x) -> Row \cup {Null}]
  BY <1>2, <1>5
<1>7. f \in Links(x)
  BY <1>6 DEF Links, Relinked
<1>8. \A y \in DOMAIN data' : data'[y] \in Links(y)
  BY <1>2, <1>4, <1>7 DEF RefInv, CatalogueTypeOK
<1>9. ASSUME NEW y \in DOMAIN data', NEW k \in KeyNames(y),
             KeysOf[Table[y]][k].deletion # "nothing"
      PROVE  data'[y][k] \in DOMAIN data' \cup {Null}
  <2>1. data[y][k] \in DOMAIN data \cup {Null}
    BY <1>2, <1>9 DEF RefInv, CatalogueTypeOK
  <2> QED
    BY <1>2, <1>4, <1>5, <2>1
<1> QED
  BY <1>2, <1>3, <1>8, <1>9 DEF RefInv, CatalogueTypeOK, Links, KeyNames

LEMMA InsertRef ==
  ASSUME RefInv, NEW w \in Writer, Insert(w)
  PROVE  RefInv'
<1>1. /\ data' = Joined(write[w], data) /\ born' = born \cup DOMAIN write[w]
      /\ write' = [write EXCEPT ![w] = NoWrite] /\ KeysMet(write[w])
      /\ moved' = moved
  BY DEF Insert
<1>2. /\ DOMAIN data' = DOMAIN write[w] \cup DOMAIN data
      /\ \A x \in DOMAIN data' :
           data'[x] = IF x \in DOMAIN write[w] THEN write[w][x] ELSE data[x]
  BY <1>1 DEF Joined
<1>3. \A x \in DOMAIN data' : data'[x] \in Links(x)
  BY <1>2 DEF RefInv, CatalogueTypeOK
<1>4. ASSUME NEW x \in DOMAIN data', NEW k \in KeyNames(x),
             KeysOf[Table[x]][k].deletion # "nothing"
      PROVE  data'[x][k] \in DOMAIN data' \cup {Null}
  <2>1. CASE x \in DOMAIN write[w]
    <3>1. k \in DOMAIN write[w][x]
      BY <2>1 DEF RefInv, CatalogueTypeOK, Links
    <3> QED
      BY <1>1, <1>2, <2>1, <3>1 DEF KeysMet
  <2>2. CASE x \notin DOMAIN write[w]
    BY <1>2, <1>4, <2>2 DEF RefInv, CatalogueTypeOK
  <2> QED
    BY <2>1, <2>2
<1>5. \A v \in Writer : write'[v] = IF v = w THEN NoWrite ELSE write[v]
  BY <1>1 DEF RefInv
<1>6. DOMAIN NoWrite = {} /\ write' = [v \in Writer |-> write'[v]]
  BY <1>1 DEF NoWrite, RefInv
<1>7. \A v \in Writer :
        DOMAIN write'[v] \subseteq Row /\ \A x \in DOMAIN write'[v] : write'[v][x] \in Links(x)
  BY <1>5, <1>6 DEF RefInv, CatalogueTypeOK
<1>8. DOMAIN data' \subseteq born' /\ born' \subseteq Row /\ moved' \subseteq born'
  BY <1>1, <1>2 DEF RefInv, CatalogueTypeOK
<1> QED
  BY <1>3, <1>4, <1>6, <1>7, <1>8 DEF RefInv, CatalogueTypeOK, Links, KeyNames

LEMMA AsksRef ==
  ASSUME RefInv, NEW w \in Writer, NEW new, Linked(new),
         Asks(w, new) \/ (InsertFails(w) /\ new = NoWrite)
  PROVE  RefInv'
<1>1. /\ data' = data /\ born' = born /\ moved' = moved
      /\ write' = [write EXCEPT ![w] = new]
  BY DEF Asks, InsertFails
<1>2. \A v \in Writer : write'[v] = IF v = w THEN new ELSE write[v]
  BY <1>1 DEF RefInv
<1>3. \A v \in Writer :
        DOMAIN write'[v] \subseteq Row /\ \A x \in DOMAIN write'[v] : write'[v][x] \in Links(x)
  BY <1>2 DEF RefInv, CatalogueTypeOK, Linked
<1>4. write' = [v \in Writer |-> write'[v]]
  BY <1>1 DEF RefInv
<1> QED
  BY <1>1, <1>3, <1>4 DEF RefInv, CatalogueTypeOK, Links, KeyNames

----------------------------------------------------------------------------
(* Insertions, for the keys they set.                                      *)

LEMMA RowsFound ==
  ASSUME RefInv
  PROVE  \A t : \A x \in Rows(t) : x \in Row /\ Table[x] = t
BY DEF RefInv, CatalogueTypeOK, Rows

LEMMA AloneLinked ==
  ASSUME NEW x \in Row, NEW keys \in Links(x)
  PROVE  Linked(Alone(x, keys))
BY DEF Linked, Alone

LEMMA JoinedLinked ==
  ASSUME NEW rows, NEW more, Linked(rows), Linked(more)
  PROVE  Linked(Joined(rows, more))
BY DEF Linked, Joined

\* A key may be null, or lead to a row of a table it is meant for.
MayLead(p, to) == p = Null \/ (p \in Row /\ Table[p] \in to.to)

\* A record of one field.
Single(f, k, p) == DOMAIN f = {k} /\ f = [i \in DOMAIN f |-> f[i]] /\ f[k] = p

LEMMA OneLink ==
  ASSUME NEW x \in Row, NEW k, NEW to, KeyedBy(Table[x], k, to),
         NEW f, NEW p, Single(f, k, p), MayLead(p, to)
  PROVE  f \in Links(x)
<1>1. KeyNames(x) = {k} /\ KeysOf[Table[x]][k] = to
  BY DEF KeyedBy, KeyNames
<1>2. f \in [{k} -> Row \cup {Null}]
  BY DEF MayLead, Single
<1> QED
  BY <1>1, <1>2 DEF Links, MayLead, Single

\* A record of two fields.
Pair(f, k, p, l, q) ==
  DOMAIN f = {k, l} /\ f = [i \in DOMAIN f |-> f[i]] /\ f[k] = p /\ f[l] = q

LEMMA TwoLinks ==
  ASSUME NEW x \in Row, NEW k, NEW to, NEW l, NEW lto, TwoKeys(Table[x], k, to, l, lto),
         NEW f, NEW p, NEW q, Pair(f, k, p, l, q), MayLead(p, to), MayLead(q, lto)
  PROVE  f \in Links(x)
<1>1. KeyNames(x) = {k, l} /\ KeysOf[Table[x]][k] = to /\ KeysOf[Table[x]][l] = lto
  BY DEF TwoKeys, KeyNames
<1>2. \A i \in {k, l} : f[i] \in Row \cup {Null}
  BY DEF MayLead, Pair
<1>3. f \in [{k, l} -> Row \cup {Null}]
  BY <1>2 DEF Pair
<1> QED
  BY <1>1, <1>3 DEF Links, MayLead, Pair

LEMMA PaidForLinks ==
  ASSUME NEW p \in Row, Table[p] = "payment", NEW key \in DOMAIN PaymentKeys, NEW e \in Row,
         PaymentKeys[key] = SetNull(Table[e])
  PROVE  PaidFor(key, e) \in Links(p)
<1>1. KeyNames(p) = DOMAIN PaymentKeys /\ KeysOf[Table[p]] = PaymentKeys
  BY PaymentKeyed DEF KeyNames
<1>2. PaidFor(key, e) \in [DOMAIN PaymentKeys -> Row \cup {Null}]
  BY DEF PaidFor
<1>3. \A k \in DOMAIN PaymentKeys :
        PaidFor(key, e)[k] # Null => k = key /\ PaidFor(key, e)[k] = e
  BY DEF PaidFor
<1>4. Table[e] \in PaymentKeys[key].to
  <2>1. SetNull(Table[e]).to = {Table[e]}
    BY DEF SetNull
  <2> QED
    BY <2>1
<1> QED
  BY <1>1, <1>2, <1>3, <1>4 DEF Links

LEMMA AloneRef ==
  ASSUME RefInv, NEW w \in Writer, NEW x \in Row, NEW keys \in Links(x), Asks(w, Alone(x, keys))
  PROVE  RefInv'
BY AloneLinked, AsksRef

LEMMA ForRef ==
  ASSUME RefInv, NEW w \in Writer, NEW table, NEW key, NEW t, For(w, table, key, t),
         KeyedBy(table, key, Cascade(t)) \/ KeyedBy(table, key, SetNull(t))
  PROVE  RefInv'
<1>1. PICK x \in Fresh(table), p \in Rows(t) : Asks(w, Alone(x, [k \in {key} |-> p]))
  BY DEF For
<1>2. x \in Row /\ Table[x] = table /\ p \in Row /\ Table[p] = t
  BY FreshRows, RowsFound
<1>3. MayLead(p, Cascade(t)) /\ MayLead(p, SetNull(t))
  BY <1>2 DEF MayLead, Cascade, SetNull
<1>4. [k \in {key} |-> p] \in Links(x)
  <2>1. Single([k \in {key} |-> p], key, p)
    BY DEF Single
  <2> QED
    BY <1>2, <1>3, <2>1, OneLink
<1> QED
  BY <1>1, <1>2, <1>4, AloneRef

LEMMA EmptyKeys ==
  ASSUME NEW x \in Row, Table[x] \in {"temple", "address"}
  PROVE  <<>> \in Links(x)
<1>1. KeyNames(x) = {}
  BY Keyless DEF KeyNames
<1>2. <<>> \in [{} -> Row \cup {Null}]
  OBVIOUS
<1> QED
  BY <1>1, <1>2 DEF Links

LEMMA Leads ==
  ASSUME NEW p \in Row
  PROVE  MayLead(p, Cascade(Table[p])) /\ MayLead(p, SetNull(Table[p]))
<1>1. Cascade(Table[p]).to = {Table[p]} /\ SetNull(Table[p]).to = {Table[p]}
  BY DEF Cascade, SetNull
<1> QED
  BY <1>1 DEF MayLead

LEMMA LeadsNowhere == \A leads : MayLead(Null, leads)
BY DEF MayLead

\* The records the services make.
LEMMA Records ==
  ASSUME NEW p, NEW q
  PROVE  /\ Pair([temple |-> p, deity |-> q], "temple", p, "deity", q)
         /\ Pair([temple |-> p, media |-> q], "temple", p, "media", q)
         /\ Pair([temple |-> p, slot |-> q], "temple", p, "slot", q)
         /\ Pair([temple |-> p, cause |-> q], "temple", p, "cause", q)
         /\ Pair([temple |-> p, address |-> q], "temple", p, "address", q)
         /\ Pair([order |-> p, product |-> q], "order", p, "product", q)
         /\ Pair([temple |-> p, room |-> q], "temple", p, "room", q)
BY DEF Pair

LEMMA SingleRecords ==
  ASSUME NEW p
  PROVE  /\ Single([temple |-> p], "temple", p) /\ Single([gurukul |-> p], "gurukul", p)
         /\ Single([slot |-> p], "slot", p) /\ Single([donation |-> p], "donation", p)
BY DEF Single

LEMMA CreateRef ==
  ASSUME RefInv, NEW w \in Writer, Create(w)
  PROVE  RefInv'
<1> USE FreshRows, RowsFound
<1>1. CASE \/ AssignStaff(w) \/ CreateInformation(w) \/ CreateDeity(w)
           \/ CreateDarshanSchedule(w) \/ CreateAarti(w) \/ CreateCause(w) \/ CreateEvent(w)
           \/ CreateProduct(w) \/ CreateRoom(w) \/ CreateAnnouncement(w)
           \/ CreateMahaprasadSlot(w)
  <2>1. PICK table \in OfOneTemple : For(w, table, "temple", "temple")
    BY <1>1 DEF OfOneTemple, AssignStaff, CreateInformation, CreateDeity,
         CreateDarshanSchedule, CreateAarti, CreateCause, CreateEvent, CreateProduct,
         CreateRoom, CreateAnnouncement, CreateMahaprasadSlot
  <2> QED
    BY <2>1, TempleKeyed, ForRef
<1>2. CASE \/ GenerateSlot(w) \/ CreatePujaSlot(w) \/ CreateSevaSlot(w) \/ MarkCheckedIn(w)
           \/ RecordPaymentEvent(w)
  BY <1>2, OtherwiseKeyed, ForRef
  DEF GenerateSlot, CreatePujaSlot, CreateSevaSlot, MarkCheckedIn, RecordPaymentEvent
<1>3. CASE CreateReceipt(w) \/ Register(w) \/ SeedGurukul(w) \/ CreateGurukulSchedule(w)
  BY <1>3, OtherwiseKeyed, ForRef
  DEF CreateReceipt, Register, SeedGurukul, CreateGurukulSchedule
<1>4. CASE CreateTemple(w) \/ AddAddress(w)
  <2>1. PICK x \in Fresh("temple") \cup Fresh("address") : Asks(w, Alone(x, <<>>))
    BY <1>4 DEF CreateTemple, AddAddress
  <2>2. x \in Row /\ Table[x] \in {"temple", "address"}
    OBVIOUS
  <2> QED
    BY <2>1, <2>2, EmptyKeys, AloneRef
<1>5. CASE CreateMedia(w)
  <2>1. PICK x \in Fresh("media"), t \in Rows("temple"), d \in Rows("deity") \cup {Null} :
          Asks(w, Alone(x, [temple |-> t, deity |-> d]))
    BY <1>5 DEF CreateMedia
  <2>2. MayLead(t, Cascade("temple")) /\ MayLead(d, Cascade("deity"))
    BY Leads, LeadsNowhere
  <2>3. [temple |-> t, deity |-> d] \in Links(x)
    <3>1. x \in Row /\ TwoKeys(Table[x], "temple", Cascade("temple"), "deity", Cascade("deity"))
      BY TwiceKeyed
    <3>2. Pair([temple |-> t, deity |-> d], "temple", t, "deity", d)
      BY Records
    <3> QED
      BY <2>2, <3>1, <3>2, TwoLinks
  <2> QED
    BY <2>1, <2>3, AloneRef
<1>6. CASE CreateGalleryItem(w)
  <2>1. PICK x \in Fresh("galleryItem"), t \in Rows("temple"), m \in Rows("media") :
          Asks(w, Alone(x, [temple |-> t, media |-> m]))
    BY <1>6 DEF CreateGalleryItem
  <2>2. MayLead(t, Cascade("temple")) /\ MayLead(m, Cascade("media"))
    BY Leads
  <2>3. [temple |-> t, media |-> m] \in Links(x)
    <3>1. x \in Row /\ TwoKeys(Table[x], "temple", Cascade("temple"), "media", Cascade("media"))
      BY TwiceKeyed
    <3>2. Pair([temple |-> t, media |-> m], "temple", t, "media", m)
      BY Records
    <3> QED
      BY <2>2, <3>1, <3>2, TwoLinks
  <2> QED
    BY <2>1, <2>3, AloneRef
<1>7. CASE CreatePuja(w) \/ CreateSeva(w)
  <2>1. PICK x \in Fresh("puja") \cup Fresh("seva"), t \in Rows("temple"),
             d \in Rows("deity") \cup {Null} : Asks(w, Alone(x, [temple |-> t, deity |-> d]))
    BY <1>7 DEF CreatePuja, CreateSeva, Rite
  <2>2. MayLead(t, Cascade("temple")) /\ MayLead(d, SetNull("deity"))
    BY Leads, LeadsNowhere
  <2>3. [temple |-> t, deity |-> d] \in Links(x)
    <3>1. x \in Row /\ TwoKeys(Table[x], "temple", Cascade("temple"), "deity", SetNull("deity"))
      BY TwiceKeyed
    <3>2. Pair([temple |-> t, deity |-> d], "temple", t, "deity", d)
      BY Records
    <3> QED
      BY <2>2, <3>1, <3>2, TwoLinks
  <2> QED
    BY <2>1, <2>3, AloneRef
<1>8. CASE CreatePujaBooking(w) \/ CreateSevaBooking(w) \/ CreateDarshanBooking(w)
  <2>1. PICK x \in Fresh("booking"), s \in Rows("pujaSlot") \cup Rows("sevaSlot") \cup
             Rows("darshanSlot"), t \in Rows("temple") :
               Asks(w, Alone(x, [temple |-> t, slot |-> s]))
    BY <1>8 DEF CreatePujaBooking, CreateSevaBooking, CreateDarshanBooking, BookSlot
  <2>2. MayLead(t, Cascade("temple")) /\ MayLead(s, SlotId)
    BY Leads DEF MayLead, SlotId
  <2>3. [temple |-> t, slot |-> s] \in Links(x)
    <3>1. x \in Row /\ TwoKeys(Table[x], "temple", Cascade("temple"), "slot", SlotId)
      BY TwiceKeyed
    <3>2. Pair([temple |-> t, slot |-> s], "temple", t, "slot", s)
      BY Records
    <3> QED
      BY <2>2, <3>1, <3>2, TwoLinks
  <2> QED
    BY <2>1, <2>3, AloneRef
<1>9. CASE CreatePayment(w)
  <2>1. PICK p \in Fresh("payment"), key \in DOMAIN PaymentKeys, e \in Row :
          PaymentKeys[key] = SetNull(Table[e]) /\ Asks(w, Alone(p, PaidFor(key, e)))
    BY <1>9, PaymentKeyed DEF CreatePayment
  <2>2. PaidFor(key, e) \in Links(p)
    BY <2>1, PaidForLinks
  <2> QED
    BY <2>1, <2>2, AloneRef
<1>10. CASE CreatePaath(w)
  <2>1. PICK x \in Fresh("paath"), t \in Rows("temple") \cup {Null} :
          Asks(w, Alone(x, [temple |-> t]))
    BY <1>10 DEF CreatePaath
  <2>2. MayLead(t, SetNull("temple"))
    BY Leads, LeadsNowhere
  <2>3. [temple |-> t] \in Links(x)
    <3>1. x \in Row /\ KeyedBy(Table[x], "temple", SetNull("temple"))
      BY OtherwiseKeyed
    <3> QED
      BY <2>2, <3>1, SingleRecords, OneLink
  <2> QED
    BY <2>1, <2>3, AloneRef
<1>11. CASE CreateAdmission(w)
  <2>1. PICK x \in Fresh("gurukulAdmission"), g \in Rows("gurukul") \cup {Null} :
          Asks(w, Alone(x, [gurukul |-> g]))
    BY <1>11 DEF CreateAdmission
  <2>2. MayLead(g, SetNull("gurukul"))
    BY Leads, LeadsNowhere
  <2>3. [gurukul |-> g] \in Links(x)
    <3>1. x \in Row /\ KeyedBy(Table[x], "gurukul", SetNull("gurukul"))
      BY OtherwiseKeyed
    <3> QED
      BY <2>2, <3>1, SingleRecords, OneLink
  <2> QED
    BY <2>1, <2>3, AloneRef
<1>12. CASE CreateDonation(w)
  <2>1. PICK x \in Fresh("donation"), t \in Rows("temple"), c \in Rows("donationCause") :
          LET new == Alone(x, [temple |-> t, cause |-> c]) IN
          \/ Asks(w, new)
          \/ \E p \in Fresh("payment"), r \in Fresh("donationReceipt") :
               Asks(w, Joined(new, Joined(Alone(p, PaidFor("donation", x)),
                                          Alone(r, [donation |-> x]))))
    BY <1>12 DEF CreateDonation
  <2> DEFINE new == Alone(x, [temple |-> t, cause |-> c])
  <2>2. MayLead(t, Cascade("temple")) /\ MayLead(c, Cascade("donationCause"))
    BY Leads
  <2>3. [temple |-> t, cause |-> c] \in Links(x)
    <3>1. x \in Row /\ TwoKeys(Table[x], "temple", Cascade("temple"), "cause", Cascade("donationCause"))
      BY TwiceKeyed
    <3>2. Pair([temple |-> t, cause |-> c], "temple", t, "cause", c)
      BY Records
    <3> QED
      BY <2>2, <3>1, <3>2, TwoLinks
  <2>4. Linked(new)
    BY <2>3, AloneLinked
  <2>5. ASSUME NEW p \in Fresh("payment"), NEW r \in Fresh("donationReceipt")
        PROVE  Linked(Joined(new, Joined(Alone(p, PaidFor("donation", x)),
                                         Alone(r, [donation |-> x]))))
    <3>1. PaidFor("donation", x) \in Links(p)
      BY PaymentKeyed, PaidForLinks
    <3>2. MayLead(x, Cascade("donation"))
      BY Leads
    <3>3. [donation |-> x] \in Links(r)
      <4>1. r \in Row /\ KeyedBy(Table[r], "donation", Cascade("donation"))
        BY OtherwiseKeyed
      <4> QED
        BY <3>2, <4>1, SingleRecords, OneLink
    <3>4. Linked(Joined(Alone(p, PaidFor("donation", x)), Alone(r, [donation |-> x])))
      BY <3>1, <3>3, AloneLinked, JoinedLinked
    <3> QED
      BY <2>4, <3>4, JoinedLinked
  <2> HIDE DEF new
  <2> QED
    BY <2>1, <2>4, <2>5, AsksRef DEF new
<1>13. CASE CreateOrder(w)
  <2>1. PICK o \in Fresh("prasadOrder"), i \in Fresh("prasadOrderItem"),
             t \in Rows("temple"), a \in Rows("address"), p \in Rows("prasadProduct") :
          Asks(w, Joined(Alone(o, [temple |-> t, address |-> a]),
                         Alone(i, [order |-> o, product |-> p])))
    BY <1>13 DEF CreateOrder
  <2>2. /\ MayLead(t, Cascade("temple")) /\ MayLead(a, Cascade("address"))
        /\ MayLead(o, Cascade("prasadOrder")) /\ MayLead(p, Cascade("prasadProduct"))
    BY Leads
  <2>3. [temple |-> t, address |-> a] \in Links(o)
    <3>1. o \in Row /\ TwoKeys(Table[o], "temple", Cascade("temple"), "address", Cascade("address"))
      BY TwiceKeyed
    <3>2. Pair([temple |-> t, address |-> a], "temple", t, "address", a)
      BY Records
    <3> QED
      BY <2>2, <3>1, <3>2, TwoLinks
  <2>4. [order |-> o, product |-> p] \in Links(i)
    <3>1. i \in Row /\ TwoKeys(Table[i], "order", Cascade("prasadOrder"), "product", Cascade("prasadProduct"))
      BY TwiceKeyed
    <3>2. Pair([order |-> o, product |-> p], "order", o, "product", p)
      BY Records
    <3> QED
      BY <2>2, <3>1, <3>2, TwoLinks
  <2> QED
    BY <2>1, <2>3, <2>4, AloneLinked, JoinedLinked, AsksRef
<1>14. CASE CreateStay(w)
  <2>1. PICK s \in Fresh("accommodationBooking"), p \in Fresh("payment"),
             t \in Rows("temple"), r \in Rows("room") :
          Asks(w, Joined(Alone(s, [temple |-> t, room |-> r]),
                         Alone(p, PaidFor("accommodation", s))))
    BY <1>14 DEF CreateStay
  <2>2. MayLead(t, Cascade("temple")) /\ MayLead(r, Cascade("room"))
    BY Leads
  <2>3. [temple |-> t, room |-> r] \in Links(s)
    <3>1. s \in Row /\ TwoKeys(Table[s], "temple", Cascade("temple"), "room", Cascade("room"))
      BY TwiceKeyed
    <3>2. Pair([temple |-> t, room |-> r], "temple", t, "room", r)
      BY Records
    <3> QED
      BY <2>2, <3>1, <3>2, TwoLinks
  <2>4. PaidFor("accommodation", s) \in Links(p)
    BY PaymentKeyed, PaidForLinks
  <2> QED
    BY <2>1, <2>3, <2>4, AloneLinked, JoinedLinked, AsksRef
<1>15. CASE BookMahaprasad(w)
  <2>1. PICK x \in Fresh("mahaprasadBooking"), s \in Rows("mahaprasadSlot") :
          \/ Asks(w, Alone(x, [slot |-> s]))
          \/ \E p \in Fresh("payment") :
               Asks(w, Joined(Alone(x, [slot |-> s]), Alone(p, PaidFor("mahaprasad", x))))
    BY <1>15 DEF BookMahaprasad
  <2>2. MayLead(s, Cascade("mahaprasadSlot"))
    BY Leads
  <2>3. [slot |-> s] \in Links(x)
    <3>1. x \in Row /\ KeyedBy(Table[x], "slot", Cascade("mahaprasadSlot"))
      BY OtherwiseKeyed
    <3> QED
      BY <2>2, <3>1, SingleRecords, OneLink
  <2>4. \A p \in Fresh("payment") : PaidFor("mahaprasad", x) \in Links(p)
    BY PaymentKeyed, PaidForLinks
  <2> QED
    BY <2>1, <2>3, <2>4, AloneLinked, JoinedLinked, AsksRef
<1> QED
  BY <1>1, <1>2, <1>3, <1>4, <1>5, <1>6, <1>7, <1>8, <1>9, <1>10, <1>11, <1>12, <1>13,
     <1>14, <1>15 DEF Create

LEMMA NextRef == RefInv /\ [CatalogueNext]_catalogueVars => RefInv'
<1> SUFFICES ASSUME RefInv, [CatalogueNext]_catalogueVars PROVE RefInv'
  OBVIOUS
<1>1. ASSUME NEW w \in Writer, Create(w) PROVE RefInv'
  BY <1>1, CreateRef
<1>2. ASSUME NEW w \in Writer, Insert(w) PROVE RefInv'
  BY <1>2, InsertRef
<1>3. ASSUME NEW w \in Writer, InsertFails(w) PROVE RefInv'
  <2>1. Linked(NoWrite)
    BY DEF Linked, NoWrite
  <2> QED
    BY <1>3, <2>1, AsksRef
<1>4. CASE DeleteSome
  <2>1. PICK t : Delete(t)
    BY <1>4
    DEF DeleteSome, DeleteTemple, RemoveStaff, DeleteInformation, DeleteDeity,
        DeleteGalleryItem, DeleteDarshanSchedule, DeleteAarti, DeletePuja, DeleteSeva,
        DeleteCause, DeleteEvent, DeleteAddress, DeleteProduct, DeleteRoom,
        DeleteAnnouncement, DeletePaath, DeleteGurukulSchedule
  <2> QED
    BY <2>1, DeleteRef
<1>5. CASE UpdateSome
  <2>1. PICK t : Relink(t)
    BY <1>5 DEF UpdateSome, UpdateInformation, UpdateDeity, UpdateGalleryItem, UpdateDarshanSchedule,
         UpdateScheduleSlot, UpdateAarti, UpdatePuja, UpdateSeva, UpdatePujaSlot,
         UpdateSevaSlot, UpdateCause, UpdateEvent, UpdateProduct, UpdateRoom,
         UpdateAnnouncement, UpdatePaath, UpdateGurukul, UpdateGurukulSchedule,
         UpdateMahaprasadSlot
  <2> QED
    BY <2>1, RelinkRef
<1>6. CASE UNCHANGED catalogueVars
  BY <1>6 DEF catalogueVars, RefInv, CatalogueTypeOK, Links, KeyNames
<1> QED
  BY <1>1, <1>2, <1>3, <1>4, <1>5, <1>6 DEF CatalogueNext

\* Whatever is inserted, deleted and moved between two lookups and an insertion, every key
\* that the schema manages leads to a row there is, or is null where it may be
\* (onDelete and the optional relations of schema.prisma).
THEOREM ReferencesHold == CatalogueSpec => []CatalogueTypeOK
<1>1. RefInv => CatalogueTypeOK
  BY DEF RefInv
<1> QED
  BY <1>1, InitRef, NextRef, PTL DEF CatalogueSpec
=============================================================================
