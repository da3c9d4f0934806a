---------------------------- MODULE Registrations ----------------------------
(***************************************************************************)
(* Events and the registrations for them: the EventsService and the check- *)
(* in of attendees by QR code.  Read and commit steps as in SlotBooking.   *)
(*                                                                         *)
(* A row of EventRegistration is unique per event and user and is reused   *)
(* when a user comes back; capacity is checked by counting rows, and       *)
(* bookedCount is kept beside them.                                        *)
(***************************************************************************)
EXTENDS Integers, FiniteSets

CONSTANTS
  Event,       \* event rows
  Reg,         \* registration rows: one per event and user
  EventOf,     \* the event of a registration
  Capacities,  \* capacities an event may be given; 0 stands for none
  MaxTokens,   \* bound: QR tokens issued for one registration
  MinBooked,   \* bound: how far bookedCount may fall
  Worker       \* requests in flight

ASSUME RegistrationsAssumption ==
  /\ EventOf \in [Reg -> Event]
  /\ IsFiniteSet(Reg) /\ IsFiniteSet(Worker)
  /\ Capacities \subseteq Nat
  /\ MaxTokens \in Nat /\ MinBooked \in Int

VARIABLES
  phase,       \* "open": PUBLISHED and taking registrations; "closed"; "deleted"
  capacity,
  booked,      \* bookedCount
  status,      \* status of each registration, "ABSENT" without a row
  token,       \* how many QR tokens the row was given; the last one is stored
  req,         \* what each worker is doing
  peak,        \* history: the largest limit the event had
  limitless,   \* history: events that had no limit at some time
  entries,     \* history: registrations and tokens that were let in
  reentered,   \* history: those let in again
  contested    \* history: registrations scanned twice at once, or written by
               \* another request during a scan

eventVars == <<phase, capacity, peak, limitless>>
rowVars == <<booked, status, token>>
gateVars == <<entries, reentered, contested>>
vars == <<eventVars, rowVars, gateVars, req>>

RegistrationStatus == {"REGISTERED", "CANCELLED", "ATTENDED"}

Idle == [op |-> "idle"]
Request ==
  {Idle}
    \cup [op : {"register"}, r : Reg, fresh : BOOLEAN]
    \cup [op : {"cancel"}, r : Reg]
    \cup [op : {"verified", "checkIn"}, r : Reg, t : Nat]

TypeOK ==
  /\ phase \in [Event -> {"open", "closed", "deleted"}]
  /\ capacity \in [Event -> Nat] /\ peak \in [Event -> Nat]
  /\ limitless \subseteq Event
  /\ booked \in [Event -> Int]
  /\ status \in [Reg -> RegistrationStatus \cup {"ABSENT"}]
  /\ token \in [Reg -> Nat]
  /\ entries \subseteq Reg \X Nat /\ reentered \subseteq Reg \X Nat
  /\ contested \subseteq Reg
  /\ req \in [Worker -> Request]

\* Events are created by EventsService.create, in any status.
Init ==
  /\ phase \in [Event -> {"open", "closed"}]
  /\ capacity \in [Event -> Capacities]
  /\ peak = capacity
  /\ limitless = {e \in Event : capacity[e] = 0}
  /\ booked = [e \in Event |-> 0]
  /\ status = [r \in Reg |-> "ABSENT"]
  /\ token = [r \in Reg |-> 0]
  /\ entries = {} /\ reentered = {} /\ contested = {}
  /\ req = [p \in Worker |-> Idle]

Begin(p, q) == req[p] = Idle /\ req' = [req EXCEPT ![p] = q]
Finish(p) == req' = [req EXCEPT ![p] = Idle]
Running(p, op) == req[p].op = op

Scanned == {req[p].r : p \in {p \in Worker : req[p].op \in {"verified", "checkIn"}}}

RowsOf(e) == {r \in Reg : EventOf[r] = e}
Registered(e) == {r \in RowsOf(e) : status[r] = "REGISTERED"}
Inside(e) == {r \in RowsOf(e) : status[r] = "ATTENDED"}
\* Rows that stand for somebody who comes or came.
Attending(e) == {r \in RowsOf(e) : status[r] \in {"REGISTERED", "ATTENDED"}}

----------------------------------------------------------------------------
(* register                                                                *)

\* Mutant: one registration too many is let through.
FullAbove(e) == capacity[e] # 0 /\ Cardinality(Registered(e)) > capacity[e]

Full(e) == capacity[e] # 0 /\ Cardinality(Registered(e)) >= capacity[e]

\* An ATTENDED row is not found to be in the way: a second row is tried.
RegisterRead(p, r) ==
  /\ phase[EventOf[r]] = "open"
  /\ ~Full(EventOf[r])
  /\ status[r] # "REGISTERED"
  /\ Begin(p, [op |-> "register", r |-> r, fresh |-> status[r] # "CANCELLED"])
  /\ UNCHANGED <<eventVars, rowVars, gateVars>>

\* Only a new row is counted; a row that comes back is not.
Counted(fresh) == IF fresh THEN 1 ELSE 0

\* The unique index stops a second row of one user.
RegisterCommit(p) ==
  /\ Running(p, "register")
  /\ LET r == req[p].r IN
       /\ IF req[p].fresh THEN status[r] = "ABSENT" ELSE status[r] # "ABSENT"
       /\ phase[EventOf[r]] # "deleted"
       /\ token[r] < MaxTokens
       /\ status' = [status EXCEPT ![r] = "REGISTERED"]
       /\ token' = [token EXCEPT ![r] = @ + 1]
       /\ booked' = [booked EXCEPT ![EventOf[r]] = @ + Counted(req[p].fresh)]
       /\ contested' = contested \cup ({r} \cap Scanned)
  /\ Finish(p)
  /\ UNCHANGED <<eventVars, entries, reentered>>

----------------------------------------------------------------------------
(* cancelRegistration: the row is read before the transaction, which       *)
(* updates row and counter by their ids.                                   *)

CancelRead(p, r) ==
  /\ status[r] \in {"REGISTERED", "ATTENDED"}
  /\ Begin(p, [op |-> "cancel", r |-> r])
  /\ UNCHANGED <<eventVars, rowVars, gateVars>>

\* Mutant: whoever attended stays counted.
UncountedAbsent(r) == IF status[r] = "ATTENDED" THEN 0 ELSE 1

Uncounted(r) == 1

CancelCommit(p) ==
  /\ Running(p, "cancel")
  /\ LET r == req[p].r IN
       /\ status[r] # "ABSENT"
       /\ booked[EventOf[r]] > MinBooked
       /\ status' = [status EXCEPT ![r] = "CANCELLED"]
       /\ booked' = [booked EXCEPT ![EventOf[r]] = @ - Uncounted(r)]
       /\ contested' = contested \cup ({r} \cap Scanned)
  /\ Finish(p)
  /\ UNCHANGED <<eventVars, token, entries, reentered>>

----------------------------------------------------------------------------
(* checkInEvent: verifyQrToken, a second read by id, an update by id.      *)

\* The code is looked up, so it is the one stored last.
QrVerify(p, r) ==
  /\ status[r] \in {"REGISTERED", "ATTENDED"}
  /\ Begin(p, [op |-> "verified", r |-> r, t |-> token[r]])
  /\ contested' = contested \cup ({r} \cap Scanned)
  /\ UNCHANGED <<eventVars, rowVars, entries, reentered>>

\* Mutant: the second read lets everybody pass.
NobodyAttended(r) == FALSE

Attended(r) == status[r] = "ATTENDED"

QrRead(p) ==
  /\ Running(p, "verified")
  /\ status[req[p].r] # "ABSENT"
  /\ req' = [req EXCEPT ![p] =
       IF Attended(req[p].r)
         THEN Idle ELSE [op |-> "checkIn", r |-> req[p].r, t |-> req[p].t]]
  /\ UNCHANGED <<eventVars, rowVars, gateVars>>

\* Mutant: the status of a booking that is let in.
EntryStatusOfBookings == "CHECKED_IN"

EntryStatus == "ATTENDED"

QrCommit(p) ==
  /\ Running(p, "checkIn")
  /\ LET r == req[p].r
         entry == <<r, req[p].t>> IN
       /\ status[r] # "ABSENT"
       /\ status' = [status EXCEPT ![r] = EntryStatus]
       /\ entries' = entries \cup {entry}
       /\ reentered' = reentered \cup ({entry} \cap entries)
  /\ Finish(p)
  /\ UNCHANGED <<eventVars, booked, token, contested>>

----------------------------------------------------------------------------

\* A check or a constraint fails, or the process dies.
Abort(p) ==
  /\ req[p] # Idle
  /\ Finish(p)
  /\ UNCHANGED <<eventVars, rowVars, gateVars>>

\* update: status, registrationRequired and capacity, whatever they were.
UpdateEvent(e) ==
  /\ phase[e] # "deleted"
  /\ \E ph \in {"open", "closed"}, c \in Capacities :
       /\ phase' = [phase EXCEPT ![e] = ph]
       /\ capacity' = [capacity EXCEPT ![e] = c]
       /\ peak' = [peak EXCEPT ![e] = IF c > @ THEN c ELSE @]
       /\ limitless' = IF c = 0 THEN limitless \cup {e} ELSE limitless
  /\ UNCHANGED <<rowVars, gateVars, req>>

\* delete: registrations go with the event.
DeleteEvent(e) ==
  /\ phase[e] # "deleted"
  /\ phase' = [phase EXCEPT ![e] = "deleted"]
  /\ status' = [r \in Reg |-> IF EventOf[r] = e THEN "ABSENT" ELSE status[r]]
  /\ booked' = [booked EXCEPT ![e] = 0]
  /\ UNCHANGED <<capacity, peak, limitless, token, gateVars, req>>

RegistrationStep(p) ==
  \/ \E r \in Reg : RegisterRead(p, r) \/ CancelRead(p, r)
  \/ RegisterCommit(p) \/ CancelCommit(p) \/ Abort(p)

GateStep(p) ==
  \/ \E r \in Reg : QrVerify(p, r)
  \/ QrRead(p) \/ QrCommit(p)

Next ==
  \/ \E p \in Worker : RegistrationStep(p) \/ GateStep(p)
  \/ \E e \in Event : UpdateEvent(e) \/ DeleteEvent(e)

Spec == Init /\ [][Next]_vars

----------------------------------------------------------------------------
(* Properties                                                              *)

Registering(e) == {p \in Worker : Running(p, "register") /\ EventOf[req[p].r] = e}

(* The count of rows and the insertion are two steps, so requests at once  *)
(* may overfill an event, and the count is of REGISTERED rows alone, so    *)
(* whoever is checked in gives his place out again (register).  Those who  *)
(* come or came exceed the largest capacity by those inside and by fewer   *)
(* than the requests in flight, however these interleave with              *)
(* cancellations, check-ins and changes of the capacity.  Since everybody  *)
(* inside adds one, the event as a whole has no bound.                     *)
OverflowBounded ==
  \A e \in Event \ limitless :
    Cardinality(Attending(e)) + Cardinality(Registering(e))
      < peak[e] + Cardinality(Worker) + Cardinality(Inside(e))

(* bookedCount never promises more than the rows do: no order of           *)
(* registrations, returns, cancellations and check-ins of one row counts   *)
(* somebody who is not there (register, cancelRegistration).  It does fall *)
(* behind, when somebody returns or cancels twice.                         *)
NeverOvercounted ==
  \A e \in Event : booked[e] <= Cardinality(Attending(e))

(* A QR code lets in once, whatever is cancelled and registered again in   *)
(* between, unless another request scans, cancels or renews the same       *)
(* registration during the scan (checkInEvent).                            *)
OneEntryPerCode == \A x \in reentered : x[1] \in contested
=============================================================================
