---------------------------- MODULE MCPublishing ----------------------------
(* Instances of Catalogue, DarshanSchedules and PageCache for TLC.  They   *)
(* share no state: a behaviour is one of any of them, while the others     *)
(* stay as they began.                                                     *)
EXTENDS Catalogue, DarshanSchedules, PageCache

CONSTANTS s1, t6, t7, closed, long, w1, w2

VARIABLE part

allVars == <<part, catalogueVars, schedulesVars, pageVars>>

\* One row of each table, and two temples, of which a behaviour has some.
MCRow == {<<t, 1>> : t \in DOMAIN KeysOf} \cup {<<"temple", 2>>}
MCTable == [x \in MCRow |-> x[1]]

Families ==
  {{"temple", "deity", "puja", "pujaSlot", "booking", "payment"},
   {"temple", "deity", "seva", "sevaSlot", "booking"},
   {"temple", "darshanSchedule", "darshanSlot", "booking", "checkIn"},
   {"temple", "donationCause", "donation", "donationReceipt", "payment", "paymentEvent"},
   {"temple", "room", "accommodationBooking", "payment", "paymentEvent"},
   {"temple", "address", "prasadProduct", "prasadOrder", "prasadOrderItem", "payment"},
   {"temple", "event", "eventRegistration", "mahaprasadSlot", "mahaprasadBooking",
    "payment"},
   {"temple", "deity", "media", "galleryItem", "staffAssignment"},
   {"temple", "templeInformation", "aartiSchedule", "announcement"},
   {"temple", "paath", "gurukul", "gurukulSchedule", "gurukulAdmission"}}

MCSpent == {{x \in MCRow : x[1] \notin f} : f \in Families \cup {{}}}

MCRecurrence == {{0, 1}, {1}}

AllInit ==
  /\ CatalogueInit /\ SchedulesInit /\ PagesInit
  /\ part \in {"catalogue", "schedules", "pages"}
  /\ part = "catalogue" <=> born # Row

AllNext ==
  /\ \/ part = "catalogue" /\ CatalogueNext /\ UNCHANGED <<schedulesVars, pageVars>>
     \/ part = "schedules" /\ SchedulesNext /\ UNCHANGED <<catalogueVars, pageVars>>
     \/ part = "pages" /\ PagesNext /\ UNCHANGED <<catalogueVars, schedulesVars>>
  /\ UNCHANGED part

AllSpec == AllInit /\ [][AllNext]_allVars /\ PagesFairness
=============================================================================
