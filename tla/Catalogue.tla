----------------------------- MODULE Catalogue -----------------------------
(***************************************************************************)
(* The tables of the program, the keys by which their rows refer to one    *)
(* another, and what every service inserts and deletes in them.            *)
(*                                                                         *)
(* A service looks up the rows that a new row will refer to and inserts it *)
(* later, when the database checks the keys again.  A deletion is one      *)
(* statement: it takes the rows that refer to the deleted one by a cascade *)
(* with it and clears the other references.  Users are never deleted; keys *)
(* to them are left out, and so is whatever else a row holds.              *)
(***************************************************************************)
EXTENDS Naturals, FiniteSets

CONSTANTS
  Row,       \* identifiers of rows
  Table,     \* the table of each
  Null,      \* no row
  Spent,     \* the sets of rows that may have been deleted before
  Writer     \* requests in flight

VARIABLES
  data,      \* the keys of each row there is
  born,      \* history: the rows that were inserted once
  write,     \* what each writer is about to insert: rows with their keys
  moved      \* history: the causes, products and rooms that changed their temple

catalogueVars == <<data, born, write, moved>>

----------------------------------------------------------------------------
(* The schema: the keys of each table, the table each refers to, and what  *)
(* becomes of a row when the one it refers to is deleted.                  *)

Cascade(t) == [to |-> {t}, deletion |-> "cascade"]
SetNull(t) == [to |-> {t}, deletion |-> "set null"]

TempleKeys == <<>>

StaffKeys == [temple |-> Cascade("temple")]

InformationKeys == [temple |-> Cascade("temple")]

DeityKeys == [temple |-> Cascade("temple")]

MediaKeys == [temple |-> Cascade("temple"), deity |-> Cascade("deity")]

GalleryKeys == [temple |-> Cascade("temple"), media |-> Cascade("media")]

ScheduleKeys == [temple |-> Cascade("temple")]

DarshanSlotKeys == [schedule |-> Cascade("darshanSchedule")]

AartiKeys == [temple |-> Cascade("temple")]

PujaKeys == [temple |-> Cascade("temple"), deity |-> SetNull("deity")]

SevaKeys == [temple |-> Cascade("temple"), deity |-> SetNull("deity")]

PujaSlotKeys == [puja |-> Cascade("puja")]

SevaSlotKeys == [seva |-> Cascade("seva")]

\* slotId is a string, no key: nothing happens to the booking.
SlotId == [to |-> {"pujaSlot", "sevaSlot", "darshanSlot"}, deletion |-> "nothing"]

BookingKeys == [temple |-> Cascade("temple"), slot |-> SlotId]

CheckInKeys == [booking |-> Cascade("booking")]

\* Mutant: payments go with what they are for.
PaymentKeysCascading ==
  [booking |-> Cascade("booking"), donation |-> Cascade("donation"),
   prasadOrder |-> Cascade("prasadOrder"),
   accommodation |-> Cascade("accommodationBooking"),
   mahaprasad |-> Cascade("mahaprasadBooking")]

\* Optional keys without onDelete.
PaymentKeys ==
  [booking |-> SetNull("booking"), donation |-> SetNull("donation"),
   prasadOrder |-> SetNull("prasadOrder"),
   accommodation |-> SetNull("accommodationBooking"),
   mahaprasad |-> SetNull("mahaprasadBooking")]

PaymentEventKeys == [payment |-> Cascade("payment")]

CauseKeys == [temple |-> Cascade("temple")]

DonationKeys == [temple |-> Cascade("temple"), cause |-> Cascade("donationCause")]

ReceiptKeys == [donation |-> Cascade("donation")]

EventKeys == [temple |-> Cascade("temple")]

RegistrationKeys == [event |-> Cascade("event")]

AddressKeys == <<>>

ProductKeys == [temple |-> Cascade("temple")]

OrderKeys == [temple |-> Cascade("temple"), address |-> Cascade("address")]

ItemKeys == [order |-> Cascade("prasadOrder"), product |-> Cascade("prasadProduct")]

RoomKeys == [temple |-> Cascade("temple")]

StayKeys == [temple |-> Cascade("temple"), room |-> Cascade("room")]

AnnouncementKeys == [temple |-> Cascade("temple")]

PaathKeys == [temple |-> SetNull("temple")]

GurukulKeys == [temple |-> SetNull("temple")]

GurukulScheduleKeys == [gurukul |-> Cascade("gurukul")]

AdmissionKeys == [gurukul |-> SetNull("gurukul")]

MahaprasadSlotKeys == [temple |-> Cascade("temple")]

MahaprasadKeys == [slot |-> Cascade("mahaprasadSlot")]

KeysOf ==
  [temple |-> TempleKeys, staffAssignment |-> StaffKeys,
   templeInformation |-> InformationKeys, deity |-> DeityKeys, media |-> MediaKeys,
   galleryItem |-> GalleryKeys, darshanSchedule |-> ScheduleKeys,
   darshanSlot |-> DarshanSlotKeys, aartiSchedule |-> AartiKeys, puja |-> PujaKeys,
   seva |-> SevaKeys, pujaSlot |-> PujaSlotKeys, sevaSlot |-> SevaSlotKeys,
   booking |-> BookingKeys, checkIn |-> CheckInKeys, payment |-> PaymentKeys,
   paymentEvent |-> PaymentEventKeys, donationCause |-> CauseKeys,
   donation |-> DonationKeys, donationReceipt |-> ReceiptKeys, event |-> EventKeys,
   eventRegistration |-> RegistrationKeys, address |-> AddressKeys,
   prasadProduct |-> ProductKeys, prasadOrder |-> OrderKeys,
   prasadOrderItem |-> ItemKeys, room |-> RoomKeys, accommodationBooking |-> StayKeys,
   announcement |-> AnnouncementKeys, paath |-> PaathKeys, gurukul |-> GurukulKeys,
   gurukulSchedule |-> GurukulScheduleKeys, gurukulAdmission |-> AdmissionKeys,
   mahaprasadSlot |-> MahaprasadSlotKeys, mahaprasadBooking |-> MahaprasadKeys]

ASSUME CatalogueAssumption ==
  /\ Null \notin Row
  /\ Table \in [Row -> DOMAIN KeysOf]
  /\ Spent \subseteq SUBSET Row

----------------------------------------------------------------------------

KeyNames(x) == DOMAIN KeysOf[Table[x]]

\* What the keys of a row may be.
Links(x) == {f \in [KeyNames(x) -> Row \cup {Null}] :
               \A k \in KeyNames(x) : f[k] # Null => Table[f[k]] \in KeysOf[Table[x]][k].to}

NoWrite == <<>>

\* Every row there is has keys, and no managed key of it dangles.
CatalogueTypeOK ==
  /\ DOMAIN data \subseteq born /\ born \subseteq Row /\ moved \subseteq born
  /\ \A x \in DOMAIN data :
       /\ data[x] \in Links(x)
       /\ \A k \in KeyNames(x) : KeysOf[Table[x]][k].deletion # "nothing"
            => data[x][k] \in DOMAIN data \cup {Null}
  /\ \A w \in Writer :
       /\ DOMAIN write[w] \subseteq Row
       /\ \A x \in DOMAIN write[w] : write[w][x] \in Links(x)

CatalogueInit ==
  /\ data = <<>>
  /\ born \in Spent
  /\ write = [w \in Writer |-> NoWrite]
  /\ moved = {}

Rows(t) == {x \in DOMAIN data : Table[x] = t}

\* Identifiers are random: nobody else inserts under this one.
Fresh(t) == {x \in Row \ born : Table[x] = t /\ \A w \in Writer : x \notin DOMAIN write[w]}

\* The lookups of a service succeeded; the insertion follows.
Asks(w, new) ==
  /\ write[w] = NoWrite
  /\ write' = [write EXCEPT ![w] = new]
  /\ UNCHANGED <<data, born, moved>>

\* One row with its keys, and rows together with more rows.
Alone(x, keys) == [y \in {x} |-> keys]
Joined(new, rows) ==
  [x \in DOMAIN new \cup DOMAIN rows |-> IF x \in DOMAIN new THEN new[x] ELSE rows[x]]

\* Mutant: the lookup does not compare temples.
OfTempleAny(x, t) == TRUE

\* What is looked up is the temple's own.
OfTemple(x, t) == data[x].temple = t

\* A table whose rows are made for one row, of table t.
For(w, table, key, t) ==
  \E x \in Fresh(table), p \in Rows(t) : Asks(w, Alone(x, [k \in {key} |-> p]))

----------------------------------------------------------------------------
(* What the services insert.                                               *)

CreateTemple(w) == \E x \in Fresh("temple") : Asks(w, Alone(x, <<>>))

AssignStaff(w) == For(w, "staffAssignment", "temple", "temple")

CreateInformation(w) == For(w, "templeInformation", "temple", "temple")

CreateDeity(w) == For(w, "deity", "temple", "temple")

\* No service does; its rows come from elsewhere.
CreateMedia(w) ==
  \E x \in Fresh("media"), t \in Rows("temple"), d \in Rows("deity") \cup {Null} :
    Asks(w, Alone(x, [temple |-> t, deity |-> d]))

CreateGalleryItem(w) ==
  \E x \in Fresh("galleryItem"), t \in Rows("temple"), m \in Rows("media") :
    Asks(w, Alone(x, [temple |-> t, media |-> m]))

CreateDarshanSchedule(w) == For(w, "darshanSchedule", "temple", "temple")

GenerateSlot(w) == For(w, "darshanSlot", "schedule", "darshanSchedule")

CreateAarti(w) == For(w, "aartiSchedule", "temple", "temple")

\* A puja or a seva, for a deity of its temple or for none.
Rite(w, table) ==
  \E x \in Fresh(table), t \in Rows("temple"), d \in Rows("deity") \cup {Null} :
    /\ d # Null => OfTemple(d, t)
    /\ Asks(w, Alone(x, [temple |-> t, deity |-> d]))

CreatePuja(w) == Rite(w, "puja")

CreateSeva(w) == Rite(w, "seva")

CreatePujaSlot(w) == For(w, "pujaSlot", "puja", "puja")

CreateSevaSlot(w) == For(w, "sevaSlot", "seva", "seva")

\* A booking is for the temple of what its slot is of.
BookSlot(w, table, key) ==
  \E x \in Fresh("booking"), s \in Rows(table), t \in Rows("temple") :
    /\ OfTemple(data[s][key], t)
    /\ Asks(w, Alone(x, [temple |-> t, slot |-> s]))

CreatePujaBooking(w) == BookSlot(w, "pujaSlot", "puja")

CreateSevaBooking(w) == BookSlot(w, "sevaSlot", "seva")

CreateDarshanBooking(w) == BookSlot(w, "darshanSlot", "schedule")

MarkCheckedIn(w) == For(w, "checkIn", "booking", "booking")

\* A payment is for one row, by one of its keys.
PaidFor(key, e) == [k \in DOMAIN PaymentKeys |-> IF k = key THEN e ELSE Null]

\* createPaymentForBooking, ...ForPrasadOrder, ...ForDonation
CreatePayment(w) ==
  \E p \in Fresh("payment") :
    \/ \E b \in Rows("booking") : Asks(w, Alone(p, PaidFor("booking", b)))
    \/ \E o \in Rows("prasadOrder") : Asks(w, Alone(p, PaidFor("prasadOrder", o)))
    \/ \E d \in Rows("donation") : Asks(w, Alone(p, PaidFor("donation", d)))

RecordPaymentEvent(w) == For(w, "paymentEvent", "payment", "payment")

CreateCause(w) == For(w, "donationCause", "temple", "temple")

\* To a cause of the temple; a direct donation has its payment and its receipt at once.
CreateDonation(w) ==
  \E x \in Fresh("donation"), t \in Rows("temple"), c \in Rows("donationCause") :
    LET new == Alone(x, [temple |-> t, cause |-> c]) IN
    /\ OfTemple(c, t)
    /\ \/ Asks(w, new)
       \/ \E p \in Fresh("payment"), r \in Fresh("donationReceipt") :
            Asks(w, Joined(new, Joined(Alone(p, PaidFor("donation", x)), Alone(r, [donation |-> x]))))

CreateReceipt(w) == For(w, "donationReceipt", "donation", "donation")

CreateEvent(w) == For(w, "event", "temple", "temple")

Register(w) == For(w, "eventRegistration", "event", "event")

AddAddress(w) == \E x \in Fresh("address") : Asks(w, Alone(x, <<>>))

CreateProduct(w) == For(w, "prasadProduct", "temple", "temple")

\* An order and its items, of products of its temple.
CreateOrder(w) ==
  \E o \in Fresh("prasadOrder"), i \in Fresh("prasadOrderItem"),
     t \in Rows("temple"), a \in Rows("address"), p \in Rows("prasadProduct") :
    /\ OfTemple(p, t)
    /\ Asks(w, Joined(Alone(o, [temple |-> t, address |-> a]), Alone(i, [order |-> o, product |-> p])))

CreateRoom(w) == For(w, "room", "temple", "temple")

\* A stay and its payment.
CreateStay(w) ==
  \E s \in Fresh("accommodationBooking"), p \in Fresh("payment"),
     t \in Rows("temple"), r \in Rows("room") :
    /\ OfTemple(r, t)
    /\ Asks(w, Joined(Alone(s, [temple |-> t, room |-> r]), Alone(p, PaidFor("accommodation", s))))

CreateAnnouncement(w) == For(w, "announcement", "temple", "temple")

\* The temple of a paath is optional and not looked up.
CreatePaath(w) ==
  \E x \in Fresh("paath"), t \in Rows("temple") \cup {Null} : Asks(w, Alone(x, [temple |-> t]))

\* The seed makes the one gurukul there is.
SeedGurukul(w) == Rows("gurukul") = {} /\ For(w, "gurukul", "temple", "temple")

CreateGurukulSchedule(w) == For(w, "gurukulSchedule", "gurukul", "gurukul")

CreateAdmission(w) ==
  \E x \in Fresh("gurukulAdmission"), g \in Rows("gurukul") \cup {Null} :
    Asks(w, Alone(x, [gurukul |-> g]))

CreateMahaprasadSlot(w) == For(w, "mahaprasadSlot", "temple", "temple")

\* A free meal has no payment.
BookMahaprasad(w) ==
  \E x \in Fresh("mahaprasadBooking"), s \in Rows("mahaprasadSlot") :
    \/ Asks(w, Alone(x, [slot |-> s]))
    \/ \E p \in Fresh("payment") :
         Asks(w, Joined(Alone(x, [slot |-> s]), Alone(p, PaidFor("mahaprasad", x))))

\* The database has every row that is referred to, or gets it now.  The slot
\* of a booking is there because its seats are counted in the transaction.
KeysMet(new) ==
  \A x \in DOMAIN new : \A k \in DOMAIN new[x] :
    new[x][k] \in DOMAIN data \cup DOMAIN new \cup {Null}

Insert(w) ==
  /\ write[w] # NoWrite /\ KeysMet(write[w])
  /\ data' = Joined(write[w], data)
  /\ born' = born \cup DOMAIN write[w]
  /\ write' = [write EXCEPT ![w] = NoWrite]
  /\ UNCHANGED moved

\* A key is missing by now, the process dies, or the transaction aborts.
InsertFails(w) ==
  /\ write[w] # NoWrite
  /\ write' = [write EXCEPT ![w] = NoWrite]
  /\ UNCHANGED <<data, born, moved>>

----------------------------------------------------------------------------
(* What the services delete.                                               *)

Refers(x, k, rows, deletion) ==
  data[x][k] \in rows /\ KeysOf[Table[x]][k].deletion = deletion

WithReferring(rows) ==
  rows \cup {x \in DOMAIN data : \E k \in KeyNames(x) : Refers(x, k, rows, "cascade")}

\* No chain of cascades has more than three keys.
Taken(x) == WithReferring(WithReferring(WithReferring({x})))

Delete(t) ==
  /\ \E x \in Rows(t) :
       data' = [y \in DOMAIN data \ Taken(x) |->
                  [k \in KeyNames(y) |->
                     IF Refers(y, k, Taken(x), "set null") THEN Null ELSE data[y][k]]]
  /\ UNCHANGED <<born, write, moved>>

DeleteTemple == Delete("temple")

RemoveStaff == Delete("staffAssignment")

DeleteInformation == Delete("templeInformation")

DeleteDeity == Delete("deity")

DeleteGalleryItem == Delete("galleryItem")

DeleteDarshanSchedule == Delete("darshanSchedule")

DeleteAarti == Delete("aartiSchedule")

DeletePuja == Delete("puja")

DeleteSeva == Delete("seva")

DeleteCause == Delete("donationCause")

DeleteEvent == Delete("event")

DeleteAddress == Delete("address")

DeleteProduct == Delete("prasadProduct")

DeleteRoom == Delete("room")

DeleteAnnouncement == Delete("announcement")

DeletePaath == Delete("paath")

DeleteGurukulSchedule == Delete("gurukulSchedule")

----------------------------------------------------------------------------
(* What the services change in the keys of a row.  The body of an update   *)
(* is written as it comes, its keys included; no two are compared.         *)

\* What is offered to devotees, and belongs to a temple.
Offers == {"donationCause", "prasadProduct", "room"}

\* The keys that the database accepts for row x.
Relinked(x) ==
  {f \in [KeyNames(x) -> DOMAIN data \cup {Null}] :
     \A k \in KeyNames(x) :
       /\ f[k] = Null => KeysOf[Table[x]][k].deletion = "set null"
       /\ f[k] # Null => Table[f[k]] \in KeysOf[Table[x]][k].to}

\* Whether those keys take an offer to another temple.
Moves(x, f) == Table[x] \in Offers /\ f.temple # data[x].temple

Relink(t) ==
  /\ \E x \in Rows(t) : \E f \in Relinked(x) :
       /\ data' = [data EXCEPT ![x] = f]
       /\ moved' = moved \cup {y \in {x} : Moves(y, f)}
  /\ UNCHANGED <<born, write>>

UpdateInformation == Relink("templeInformation")

UpdateDeity == Relink("deity")

UpdateGalleryItem == Relink("galleryItem")

UpdateDarshanSchedule == Relink("darshanSchedule")

UpdateScheduleSlot == Relink("darshanSlot")

UpdateAarti == Relink("aartiSchedule")

\* The deity of an update may be one of another temple.
UpdatePuja == Relink("puja")

UpdateSeva == Relink("seva")

UpdatePujaSlot == Relink("pujaSlot")

UpdateSevaSlot == Relink("sevaSlot")

UpdateCause == Relink("donationCause")

UpdateEvent == Relink("event")

UpdateProduct == Relink("prasadProduct")

UpdateRoom == Relink("room")

UpdateAnnouncement == Relink("announcement")

UpdatePaath == Relink("paath")

UpdateGurukul == Relink("gurukul")

UpdateGurukulSchedule == Relink("gurukulSchedule")

UpdateMahaprasadSlot == Relink("mahaprasadSlot")

----------------------------------------------------------------------------

Create(w) ==
  \/ CreateTemple(w) \/ AssignStaff(w) \/ CreateInformation(w) \/ CreateDeity(w)
  \/ CreateMedia(w) \/ CreateGalleryItem(w) \/ CreateDarshanSchedule(w) \/ GenerateSlot(w)
  \/ CreateAarti(w) \/ CreatePuja(w) \/ CreateSeva(w) \/ CreatePujaSlot(w)
  \/ CreateSevaSlot(w) \/ CreatePujaBooking(w) \/ CreateSevaBooking(w)
  \/ CreateDarshanBooking(w) \/ MarkCheckedIn(w) \/ CreatePayment(w)
  \/ RecordPaymentEvent(w) \/ CreateCause(w) \/ CreateDonation(w) \/ CreateReceipt(w)
  \/ CreateEvent(w) \/ Register(w) \/ AddAddress(w) \/ CreateProduct(w)
  \/ CreateOrder(w) \/ CreateRoom(w) \/ CreateStay(w) \/ CreateAnnouncement(w)
  \/ CreatePaath(w) \/ SeedGurukul(w) \/ CreateGurukulSchedule(w)
  \/ CreateAdmission(w) \/ CreateMahaprasadSlot(w) \/ BookMahaprasad(w)

DeleteSome ==
  \/ DeleteTemple \/ RemoveStaff \/ DeleteInformation \/ DeleteDeity
  \/ DeleteGalleryItem \/ DeleteDarshanSchedule \/ DeleteAarti \/ DeletePuja \/ DeleteSeva
  \/ DeleteCause \/ DeleteEvent \/ DeleteAddress \/ DeleteProduct \/ DeleteRoom
  \/ DeleteAnnouncement \/ DeletePaath \/ DeleteGurukulSchedule

UpdateSome ==
  \/ UpdateInformation \/ UpdateDeity \/ UpdateGalleryItem \/ UpdateDarshanSchedule
  \/ UpdateScheduleSlot \/ UpdateAarti \/ UpdatePuja \/ UpdateSeva \/ UpdatePujaSlot
  \/ UpdateSevaSlot \/ UpdateCause \/ UpdateEvent \/ UpdateProduct \/ UpdateRoom
  \/ UpdateAnnouncement \/ UpdatePaath \/ UpdateGurukul \/ UpdateGurukulSchedule
  \/ UpdateMahaprasadSlot

CatalogueNext ==
  \/ \E w \in Writer : Create(w) \/ Insert(w) \/ InsertFails(w)
  \/ DeleteSome
  \/ UpdateSome

CatalogueSpec == CatalogueInit /\ [][CatalogueNext]_catalogueVars

----------------------------------------------------------------------------
(* Properties                                                              *)

Lost == DOMAIN data \ DOMAIN data'

Ledger == {"payment", "paymentEvent"}

(* Whatever is deleted from the catalogue, at whichever distance from it,  *)
(* the records of money stay: no row of Payment or PaymentEvent is ever    *)
(* taken along (the keys of Payment are set to null, and nothing cascades  *)
(* into it), also when it is inserted as what it is for is deleted.        *)
PaymentsOutlive == [][\A x \in Lost : Table[x] \notin Ledger]_catalogueVars

\* The temple where a devotee booked, gave, ordered or stays.
Booked == {"booking", "donation", "prasadOrder", "accommodationBooking"}

HeldAt(x) == IF Table[x] = "prasadOrderItem" THEN data[data[x].order].temple
                                             ELSE data[x].temple

\* Where the cause, product or room of a row was moved since it was made.
MovedTo(x) == {data[data[x][k]].temple : k \in {l \in KeyNames(x) : data[x][l] \in moved}}

(* The deletion of a temple takes no booking, donation, order, item of an  *)
(* order or stay of another temple: what the services compare before they  *)
(* insert keeps the cascades of two temples apart, although the temple of  *)
(* such a row and the one of its slot, cause, product or room are two keys *)
(* (createDonation, createOrder, createBooking, create...Booking).  Only   *)
(* an update that gives a cause, a product or a room to another temple     *)
(* (updateCause, updateProduct, updateRoom) joins them: its donations,     *)
(* items or stays go with the temple it is of by then, or with their own.  *)
TempleTakesItsOwn ==
  [][\A x \in Lost : Table[x] \in Booked \cup {"prasadOrderItem"} =>
       Rows("temple") \cap Lost \subseteq {HeldAt(x)} \cup MovedTo(x)]_catalogueVars
=============================================================================
