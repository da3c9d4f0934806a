------------------------ MODULE RegistrationsProofs ------------------------
(***************************************************************************)
(* Theorems about Registrations, for any events, registrations, capacities *)
(* and numbers of requests.                                                *)
(***************************************************************************)
EXTENDS Registrations, FiniteSetTheorems, TLAPS

USE RegistrationsAssumption

----------------------------------------------------------------------------
(* Type correctness.                                                       *)

LEMMA InitTypeOK == Init => TypeOK
<1> SUFFICES ASSUME Init PROVE TypeOK
  OBVIOUS
<1>1. capacity \in [Event -> Nat] /\ peak \in [Event -> Nat] /\ limitless \subseteq Event
  BY DEF Init
<1>2. req \in [Worker -> Request]
  BY DEF Init, Request
<1> QED
  BY <1>1, <1>2 DEF Init, TypeOK

\* What a request in flight remembers.
LEMMA RequestParts ==
  ASSUME TypeOK, NEW p \in Worker
  PROVE  /\ req[p].op \in {"register", "cancel", "verified", "checkIn"} => req[p].r \in Reg
         /\ Running(p, "register") => req[p].fresh \in BOOLEAN
         /\ req[p].op \in {"verified", "checkIn"} => req[p].t \in Nat
BY DEF TypeOK, Running, Request, Idle

LEMMA RegistrationTypeOK ==
  ASSUME TypeOK, NEW p \in Worker, RegistrationStep(p)
  PROVE  TypeOK'
<1> USE DEF TypeOK, eventVars, rowVars, gateVars
<1>1. ASSUME NEW r \in Reg, RegisterRead(p, r) \/ CancelRead(p, r) PROVE TypeOK'
  <2>1. [op |-> "register", r |-> r, fresh |-> status[r] # "CANCELLED"] \in Request
    <3>1. (status[r] # "CANCELLED") \in BOOLEAN
      OBVIOUS
    <3> QED
      BY <3>1 DEF Request
  <2>2. [op |-> "cancel", r |-> r] \in Request
    BY DEF Request
  <2> QED
    BY <1>1, <2>1, <2>2 DEF RegisterRead, CancelRead, Begin
<1>2. ASSUME RegisterCommit(p) PROVE TypeOK'
  <2>1. req[p].r \in Reg /\ req[p].fresh \in BOOLEAN
    BY <1>2, RequestParts DEF RegisterCommit, Running
  <2>2. contested' \subseteq Reg
    BY <1>2, <2>1 DEF RegisterCommit
  <2>3. booked' \in [Event -> Int]
    BY <1>2, <2>1 DEF RegisterCommit, Counted
  <2> QED
    BY <1>2, <2>1, <2>2, <2>3 DEF RegisterCommit, Finish, Request, RegistrationStatus
<1>3. ASSUME CancelCommit(p) PROVE TypeOK'
  <2>1. req[p].r \in Reg
    BY <1>3, RequestParts DEF CancelCommit, Running
  <2>2. contested' \subseteq Reg
    BY <1>3, <2>1 DEF CancelCommit
  <2> QED
    BY <1>3, <2>1, <2>2 DEF CancelCommit, Finish, Request, RegistrationStatus, Uncounted
<1>4. ASSUME Abort(p) PROVE TypeOK'
  BY <1>4 DEF Abort, Finish, Request
<1> QED
  BY <1>1, <1>2, <1>3, <1>4 DEF RegistrationStep

LEMMA GateTypeOK ==
  ASSUME TypeOK, NEW p \in Worker, GateStep(p)
  PROVE  TypeOK'
<1> USE DEF TypeOK, eventVars, rowVars, gateVars
<1>1. ASSUME NEW r \in Reg, QrVerify(p, r) PROVE TypeOK'
  BY <1>1 DEF QrVerify, Begin, Request
<1>2. ASSUME QrRead(p) PROVE TypeOK'
  <2>1. req[p].r \in Reg /\ req[p].t \in Nat
    BY <1>2, RequestParts DEF QrRead, Running
  <2>2. [op |-> "checkIn", r |-> req[p].r, t |-> req[p].t] \in Request
    BY <2>1 DEF Request
  <2> QED
    BY <1>2, <2>2 DEF QrRead, Request
<1>3. ASSUME QrCommit(p) PROVE TypeOK'
  <2>1. req[p].r \in Reg /\ req[p].t \in Nat
    BY <1>3, RequestParts DEF QrCommit, Running
  <2> QED
    BY <1>3, <2>1 DEF QrCommit, Finish, Request, EntryStatus, RegistrationStatus
<1> QED
  BY <1>1, <1>2, <1>3 DEF GateStep

LEMMA NextTypeOK == TypeOK /\ [Next]_vars => TypeOK'
<1> SUFFICES ASSUME TypeOK, [Next]_vars PROVE TypeOK'
  OBVIOUS
<1>1. ASSUME NEW e \in Event, UpdateEvent(e) PROVE TypeOK'
  <2>1. PICK ph \in {"open", "closed"}, c \in Capacities :
          /\ phase' = [phase EXCEPT ![e] = ph]
          /\ capacity' = [capacity EXCEPT ![e] = c]
          /\ peak' = [peak EXCEPT ![e] = IF c > @ THEN c ELSE @]
          /\ limitless' = IF c = 0 THEN limitless \cup {e} ELSE limitless
    BY <1>1 DEF UpdateEvent
  <2> QED
    BY <1>1, <2>1 DEF UpdateEvent, TypeOK, rowVars, gateVars
<1>2. ASSUME NEW e \in Event, DeleteEvent(e) PROVE TypeOK'
  BY <1>2 DEF DeleteEvent, TypeOK, gateVars
<1>3. CASE UNCHANGED vars
  BY <1>3 DEF TypeOK, vars, eventVars, rowVars, gateVars
<1> QED
  BY <1>1, <1>2, <1>3, RegistrationTypeOK, GateTypeOK DEF Next

(* Every event, registration and request keeps its type, and every write   *)
(* leaves a status of the schema's enum.                                   *)
THEOREM TypeCorrect == Spec => []TypeOK
BY InitTypeOK, NextTypeOK, PTL DEF Spec

----------------------------------------------------------------------------
(* The counter and the rows.                                               *)

LEMMA FiniteRows ==
  ASSUME NEW e \in Event
  PROVE  /\ IsFiniteSet(Attending(e)) /\ Cardinality(Attending(e)) \in Nat
         /\ IsFiniteSet(Registered(e)) /\ Cardinality(Registered(e)) \in Nat
BY FS_Subset, FS_CardinalityType DEF Attending, Registered, RowsOf

LEMMA InitCounted == Init => NeverOvercounted
BY FiniteRows DEF Init, NeverOvercounted

\* A row that becomes attending adds one to the rows unless it was already.
LEMMA RowArrives ==
  ASSUME TypeOK, NEW r \in Reg, NEW e \in Event,
         NEW s \in {"REGISTERED", "ATTENDED"},
         status' = [status EXCEPT ![r] = s]
  PROVE  /\ Cardinality(Attending(e))' >= Cardinality(Attending(e))
         /\ EventOf[r] = e /\ status[r] \notin {"REGISTERED", "ATTENDED"} =>
              Cardinality(Attending(e))' = Cardinality(Attending(e)) + 1
<1>1. CASE EventOf[r] = e
  <2>1. Attending(e)' = Attending(e) \cup {r}
    BY <1>1 DEF TypeOK, Attending, RowsOf
  <2>2. r \in Attending(e) <=> status[r] \in {"REGISTERED", "ATTENDED"}
    BY <1>1 DEF Attending, RowsOf
  <2>3. IsFiniteSet(Attending(e)) /\ Cardinality(Attending(e)) \in Nat
    BY FiniteRows
  <2>4. Cardinality(Attending(e) \cup {r}) =
          IF r \in Attending(e) THEN Cardinality(Attending(e))
                               ELSE Cardinality(Attending(e)) + 1
    BY <2>3, FS_AddElement
  <2> QED
    BY <1>1, <2>1, <2>2, <2>3, <2>4
<1>2. CASE EventOf[r] # e
  <2>1. Attending(e)' = Attending(e)
    BY <1>2 DEF TypeOK, Attending, RowsOf
  <2>2. Cardinality(Attending(e)) \in Nat
    BY FiniteRows
  <2>3. Cardinality(Attending(e))' = Cardinality(Attending(e))
    BY <2>1
  <2> QED
    BY <1>2, <2>2, <2>3
<1> QED
  BY <1>1, <1>2

\* A row that is cancelled takes at most one from the rows.
LEMMA RowLeaves ==
  ASSUME TypeOK, NEW r \in Reg, NEW e \in Event,
         status' = [status EXCEPT ![r] = "CANCELLED"]
  PROVE  /\ Cardinality(Attending(e))' >= Cardinality(Attending(e)) - 1
         /\ EventOf[r] # e => Cardinality(Attending(e))' = Cardinality(Attending(e))
<1>1. CASE EventOf[r] = e
  <2>1. Attending(e)' = Attending(e) \ {r}
    BY <1>1 DEF TypeOK, Attending, RowsOf
  <2>2. IsFiniteSet(Attending(e)) /\ Cardinality(Attending(e)) \in Nat
    BY FiniteRows
  <2>3. Cardinality(Attending(e) \ {r}) =
          IF r \in Attending(e) THEN Cardinality(Attending(e)) - 1
                               ELSE Cardinality(Attending(e))
    BY <2>2, FS_RemoveElement
  <2> QED
    BY <1>1, <2>1, <2>2, <2>3
<1>2. CASE EventOf[r] # e
  <2>1. Attending(e)' = Attending(e)
    BY <1>2 DEF TypeOK, Attending, RowsOf
  <2>2. Cardinality(Attending(e)) \in Nat
    BY FiniteRows
  <2>3. Cardinality(Attending(e))' = Cardinality(Attending(e))
    BY <2>1
  <2> QED
    BY <1>2, <2>2, <2>3
<1> QED
  BY <1>1, <1>2

LEMMA NextCounted == TypeOK /\ NeverOvercounted /\ [Next]_vars => NeverOvercounted'
<1> SUFFICES ASSUME TypeOK, NeverOvercounted, [Next]_vars, NEW e \in Event
             PROVE  booked'[e] <= Cardinality(Attending(e))'
  BY DEF NeverOvercounted
<1>0. booked[e] <= Cardinality(Attending(e)) /\ booked[e] \in Int
      /\ Cardinality(Attending(e)) \in Nat
  BY FiniteRows DEF NeverOvercounted, TypeOK
<1>1. ASSUME UNCHANGED <<booked, status>> PROVE booked'[e] <= Cardinality(Attending(e))'
  BY <1>0, <1>1 DEF Attending, RowsOf
<1>2. ASSUME NEW p \in Worker, RegisterCommit(p)
      PROVE  booked'[e] <= Cardinality(Attending(e))'
  <2>1. req[p].r \in Reg /\ req[p].fresh \in BOOLEAN
    BY <1>2, RequestParts DEF RegisterCommit, Running
  <2> DEFINE r == req[p].r
  <2>2. /\ req[p].fresh => status[r] = "ABSENT"
        /\ status' = [status EXCEPT ![r] = "REGISTERED"]
        /\ booked' = [booked EXCEPT ![EventOf[r]] = @ + Counted(req[p].fresh)]
    BY <1>2 DEF RegisterCommit
  <2>3. booked'[e] = IF e = EventOf[r] THEN booked[e] + Counted(req[p].fresh) ELSE booked[e]
    BY <2>1, <2>2 DEF TypeOK
  <2>4. /\ Cardinality(Attending(e))' >= Cardinality(Attending(e))
        /\ e = EventOf[r] /\ req[p].fresh =>
              Cardinality(Attending(e))' = Cardinality(Attending(e)) + 1
    BY <2>1, <2>2, RowArrives
  <2>5. Cardinality(Attending(e))' \in Nat
    BY <2>1, <2>2, <2>4, <1>0, FiniteRows, FS_Subset, FS_CardinalityType DEF Attending, RowsOf
  <2> QED
    BY <1>0, <2>1, <2>3, <2>4, <2>5 DEF Counted
<1>3. ASSUME NEW p \in Worker, CancelCommit(p)
      PROVE  booked'[e] <= Cardinality(Attending(e))'
  <2>1. req[p].r \in Reg
    BY <1>3, RequestParts DEF CancelCommit, Running
  <2> DEFINE r == req[p].r
  <2>2. /\ status' = [status EXCEPT ![r] = "CANCELLED"]
        /\ booked' = [booked EXCEPT ![EventOf[r]] = @ - 1]
    BY <1>3 DEF CancelCommit, Uncounted
  <2>3. booked'[e] = IF e = EventOf[r] THEN booked[e] - 1 ELSE booked[e]
    BY <2>1, <2>2 DEF TypeOK
  <2>4. /\ Cardinality(Attending(e))' >= Cardinality(Attending(e)) - 1
        /\ EventOf[r] # e => Cardinality(Attending(e))' = Cardinality(Attending(e))
    BY <2>1, <2>2, RowLeaves
  <2>5. Cardinality(Attending(e))' \in Nat
    BY FS_Subset, FS_CardinalityType DEF Attending, RowsOf
  <2> QED
    BY <1>0, <2>3, <2>4, <2>5
<1>4. ASSUME NEW p \in Worker, QrCommit(p)
      PROVE  booked'[e] <= Cardinality(Attending(e))'
  <2>1. req[p].r \in Reg
    BY <1>4, RequestParts DEF QrCommit, Running
  <2>2. status' = [status EXCEPT ![req[p].r] = "ATTENDED"] /\ booked' = booked
    BY <1>4 DEF QrCommit, EntryStatus
  <2>3. Cardinality(Attending(e))' >= Cardinality(Attending(e))
    BY <2>1, <2>2, RowArrives
  <2>4. Cardinality(Attending(e))' \in Nat
    BY FS_Subset, FS_CardinalityType DEF Attending, RowsOf
  <2> QED
    BY <1>0, <2>2, <2>3, <2>4
<1>5. ASSUME NEW d \in Event, DeleteEvent(d)
      PROVE  booked'[e] <= Cardinality(Attending(e))'
  <2>1. CASE d = e
    <3>1. Cardinality(Attending(e))' \in Nat
      BY FS_Subset, FS_CardinalityType DEF Attending, RowsOf
    <3> QED
      BY <1>5, <2>1, <3>1 DEF DeleteEvent, TypeOK
  <2>2. CASE d # e
    <3>1. Attending(e)' = Attending(e) /\ booked'[e] = booked[e]
      BY <1>5, <2>2 DEF DeleteEvent, TypeOK, Attending, RowsOf
    <3> QED
      BY <1>0, <3>1
  <2> QED
    BY <2>1, <2>2
<1>6. ASSUME NEW p \in Worker, NEW r \in Reg,
             RegisterRead(p, r) \/ CancelRead(p, r) \/ QrVerify(p, r)
      PROVE  UNCHANGED <<booked, status>>
  BY <1>6 DEF RegisterRead, CancelRead, QrVerify, rowVars
<1>7. ASSUME NEW p \in Worker, Abort(p) \/ QrRead(p)
      PROVE  UNCHANGED <<booked, status>>
  BY <1>7 DEF Abort, QrRead, rowVars
<1>8. ASSUME NEW d \in Event, UpdateEvent(d) PROVE UNCHANGED <<booked, status>>
  BY <1>8 DEF UpdateEvent, rowVars
<1>9. CASE UNCHANGED vars
  BY <1>1, <1>9 DEF vars, rowVars
<1> QED
  BY <1>1, <1>2, <1>3, <1>4, <1>5, <1>6, <1>7, <1>8, <1>9
  DEF Next, RegistrationStep, GateStep

(* bookedCount never exceeds the rows of those who come or came.  By type  *)
(* correctness alone: every increment comes with a new row.                *)
THEOREM CounterWithinRows == Spec => []NeverOvercounted
BY InitCounted, NextCounted, TypeCorrect, PTL DEF Spec

----------------------------------------------------------------------------
(* How far an event may be overfilled.                                     *)

Limits ==
  \A e \in Event :
    /\ capacity[e] <= peak[e]
    /\ capacity[e] = 0 => e \in limitless

\* What register counts, and the requests that have counted.
PlacesBounded ==
  \A e \in Event \ limitless :
    Cardinality(Registered(e)) + Cardinality(Registering(e))
      < peak[e] + Cardinality(Worker)

OInv == TypeOK /\ Limits /\ PlacesBounded

LEMMA FiniteRequests ==
  ASSUME NEW e \in Event
  PROVE  /\ IsFiniteSet(Registering(e)) /\ Cardinality(Registering(e)) \in Nat
         /\ Cardinality(Worker) \in Nat
         /\ Cardinality(Registering(e)) <= Cardinality(Worker)
<1>1. Registering(e) \subseteq Worker
  BY DEF Registering
<1> QED
  BY <1>1, FS_Subset, FS_CardinalityType

LEMMA InitOInv == Init => OInv
<1> SUFFICES ASSUME Init PROVE OInv
  OBVIOUS
<1>1. Limits
  BY InitTypeOK DEF Init, TypeOK, Limits
<1>2. ASSUME NEW e \in Event \ limitless
      PROVE  Cardinality(Registered(e)) + Cardinality(Registering(e))
               < peak[e] + Cardinality(Worker)
  <2>1. Registered(e) = {} /\ Registering(e) = {}
    BY DEF Init, Registered, RowsOf, Registering, Running, Idle
  <2>2. Cardinality(Registered(e)) = 0 /\ Cardinality(Registering(e)) = 0
    BY <2>1, FS_EmptySet
  <2>3. peak[e] \in Nat /\ peak[e] # 0
    BY DEF Init
  <2> QED
    BY <2>2, <2>3, FiniteRequests
<1> QED
  BY <1>1, <1>2, InitTypeOK DEF OInv, PlacesBounded

\* Fewer rows and fewer requests, under the same limit or a larger one.
LEMMA Shrinks ==
  ASSUME OInv, NEW e \in Event, e \notin limitless,
         Registered(e)' \subseteq Registered(e),
         Registering(e)' \subseteq Registering(e),
         peak'[e] \in Nat, peak'[e] >= peak[e]
  PROVE  Cardinality(Registered(e))' + Cardinality(Registering(e))'
           < peak'[e] + Cardinality(Worker)
<1>1. Cardinality(Registered(e))' <= Cardinality(Registered(e))
      /\ Cardinality(Registered(e))' \in Nat
  <2>1. IsFiniteSet(Registered(e))
    BY FiniteRows
  <2>2. IsFiniteSet(Registered(e)') /\ Cardinality(Registered(e)') <= Cardinality(Registered(e))
    BY <2>1, FS_Subset
  <2> QED
    BY <2>2, FS_CardinalityType
<1>2. Cardinality(Registering(e))' <= Cardinality(Registering(e))
      /\ Cardinality(Registering(e))' \in Nat
  <2>1. IsFiniteSet(Registering(e))
    BY FiniteRequests
  <2>2. IsFiniteSet(Registering(e)') /\ Cardinality(Registering(e)') <= Cardinality(Registering(e))
    BY <2>1, FS_Subset
  <2> QED
    BY <2>2, FS_CardinalityType
<1>3. /\ Cardinality(Registered(e)) \in Nat /\ Cardinality(Registering(e)) \in Nat
      /\ Cardinality(Worker) \in Nat /\ peak[e] \in Nat
  BY FiniteRows, FiniteRequests DEF OInv, TypeOK
<1>4. Cardinality(Registered(e)) + Cardinality(Registering(e)) < peak[e] + Cardinality(Worker)
  BY DEF OInv, PlacesBounded
<1> QED
  BY <1>1, <1>2, <1>3, <1>4

\* A request that found room.
LEMMA RegisterReadBounded ==
  ASSUME OInv, NEW e \in Event, e \notin limitless,
         NEW p \in Worker, NEW r \in Reg, RegisterRead(p, r)
  PROVE  Cardinality(Registered(e))' + Cardinality(Registering(e))'
           < peak'[e] + Cardinality(Worker)
<1>1. /\ Registered(e)' = Registered(e) /\ peak' = peak
      /\ capacity[e] \in Nat /\ peak[e] \in Nat
      /\ capacity[e] # 0 /\ capacity[e] <= peak[e]
  BY DEF OInv, TypeOK, Limits, RegisterRead, rowVars, eventVars, Registered, RowsOf
<1>2. CASE EventOf[r] = e
  <2>1. Cardinality(Registered(e)) < capacity[e]
    BY <1>1, <1>2, FiniteRows DEF RegisterRead, Full
  <2>2. Cardinality(Registering(e))' \in Nat /\ Cardinality(Registering(e))' <= Cardinality(Worker)
    <3>1. Registering(e)' \subseteq Worker
      BY DEF Registering
    <3> QED
      BY <3>1, FS_Subset, FS_CardinalityType
  <2> QED
    BY <1>1, <2>1, <2>2, FiniteRows, FiniteRequests
<1>3. CASE EventOf[r] # e
  <2>1. Registering(e)' = Registering(e)
    BY <1>3 DEF OInv, TypeOK, RegisterRead, Begin, Registering, Running, Idle
  <2> QED
    BY <1>1, <2>1, Shrinks
<1> QED
  BY <1>2, <1>3

\* An insert replaces a request by a row.
LEMMA RegisterCommitBounded ==
  ASSUME OInv, NEW e \in Event, e \notin limitless,
         NEW p \in Worker, RegisterCommit(p)
  PROVE  Cardinality(Registered(e))' + Cardinality(Registering(e))'
           < peak'[e] + Cardinality(Worker)
<1> DEFINE r == req[p].r
<1>1. r \in Reg /\ Running(p, "register")
  BY RequestParts DEF OInv, RegisterCommit, Running
<1>2. /\ status' = [status EXCEPT ![r] = "REGISTERED"] /\ peak' = peak
      /\ req' = [req EXCEPT ![p] = Idle] /\ peak[e] \in Nat
  BY DEF OInv, TypeOK, RegisterCommit, Finish, eventVars
<1>3. CASE EventOf[r] = e
  <2>1. Registered(e)' = Registered(e) \cup {r}
    BY <1>1, <1>2, <1>3 DEF OInv, TypeOK, Registered, RowsOf
  <2>2. Registering(e)' = Registering(e) \ {p} /\ p \in Registering(e)
    BY <1>1, <1>2, <1>3 DEF OInv, TypeOK, Registering, Running, Idle
  <2>3. /\ IsFiniteSet(Registered(e)) /\ Cardinality(Registered(e)) \in Nat
        /\ IsFiniteSet(Registering(e)) /\ Cardinality(Registering(e)) \in Nat
        /\ Cardinality(Worker) \in Nat
    BY FiniteRows, FiniteRequests
  <2>4. Cardinality(Registered(e) \cup {r}) =
          IF r \in Registered(e) THEN Cardinality(Registered(e))
                                ELSE Cardinality(Registered(e)) + 1
    BY <2>3, FS_AddElement
  <2>5. Cardinality(Registering(e) \ {p}) = Cardinality(Registering(e)) - 1
    BY <2>2, <2>3, FS_RemoveElement
  <2>6. Cardinality(Registered(e)) + Cardinality(Registering(e)) < peak[e] + Cardinality(Worker)
    BY DEF OInv, PlacesBounded
  <2> QED
    BY <1>2, <2>1, <2>2, <2>3, <2>4, <2>5, <2>6
<1>4. CASE EventOf[r] # e
  <2>1. Registered(e)' = Registered(e)
    BY <1>1, <1>2, <1>4 DEF OInv, TypeOK, Registered, RowsOf
  <2>2. Registering(e)' \subseteq Registering(e)
    BY <1>2 DEF OInv, TypeOK, Registering, Running, Idle
  <2> QED
    BY <1>2, <2>1, <2>2, Shrinks
<1> QED
  BY <1>3, <1>4

LEMMA NextLimits == TypeOK /\ Limits /\ [Next]_vars => Limits'
<1> SUFFICES ASSUME TypeOK, Limits, [Next]_vars, NEW e \in Event
             PROVE  capacity'[e] <= peak'[e] /\ (capacity'[e] = 0 => e \in limitless')
  BY DEF Limits
<1>1. ASSUME NEW d \in Event, UpdateEvent(d)
      PROVE  capacity'[e] <= peak'[e] /\ (capacity'[e] = 0 => e \in limitless')
  <2>1. PICK c \in Capacities :
          /\ capacity' = [capacity EXCEPT ![d] = c]
          /\ peak' = [peak EXCEPT ![d] = IF c > @ THEN c ELSE @]
          /\ limitless' = IF c = 0 THEN limitless \cup {d} ELSE limitless
    BY <1>1 DEF UpdateEvent
  <2>2. c \in Nat
    OBVIOUS
  <2> QED
    BY <2>1, <2>2 DEF Limits, TypeOK
<1>2. CASE UNCHANGED <<capacity, peak, limitless>>
  BY <1>2 DEF Limits
<1> QED
  BY <1>1, <1>2 DEF Next, RegistrationStep, GateStep, vars, eventVars, rowVars, gateVars,
     RegisterRead, CancelRead, RegisterCommit, CancelCommit, Abort,
     QrVerify, QrRead, QrCommit, DeleteEvent

LEMMA NextOInv == OInv /\ [Next]_vars => OInv'
<1> SUFFICES ASSUME OInv, [Next]_vars PROVE OInv'
  OBVIOUS
<1>1. TypeOK' /\ Limits'
  BY NextTypeOK, NextLimits DEF OInv
<1> SUFFICES ASSUME NEW e \in Event, e \notin limitless'
             PROVE  Cardinality(Registered(e))' + Cardinality(Registering(e))'
                      < peak'[e] + Cardinality(Worker)
  BY <1>1 DEF OInv, PlacesBounded
<1>2. peak[e] \in Nat /\ peak'[e] \in Nat
  BY <1>1 DEF OInv, TypeOK
<1>3. ASSUME NEW d \in Event, UpdateEvent(d)
      PROVE  /\ Registered(e)' \subseteq Registered(e)
             /\ Registering(e)' \subseteq Registering(e)
             /\ peak'[e] >= peak[e] /\ e \notin limitless
  <2>1. PICK c \in Capacities :
          /\ peak' = [peak EXCEPT ![d] = IF c > @ THEN c ELSE @]
          /\ limitless' = IF c = 0 THEN limitless \cup {d} ELSE limitless
    BY <1>3 DEF UpdateEvent
  <2>2. e \notin limitless
    BY <2>1
  <2>3. peak'[e] >= peak[e]
    BY <1>2, <2>1 DEF OInv, TypeOK
  <2> QED
    BY <1>3, <2>2, <2>3 DEF UpdateEvent, rowVars, Registered, RowsOf, Registering, Running
<1>4. ASSUME NEW p \in Worker, CancelCommit(p) \/ QrCommit(p) \/ Abort(p) \/ QrRead(p)
      PROVE  /\ Registered(e)' \subseteq Registered(e)
             /\ Registering(e)' \subseteq Registering(e)
             /\ peak'[e] >= peak[e] /\ e \notin limitless
  BY <1>2, <1>4 DEF OInv, TypeOK, CancelCommit, QrCommit, Abort, QrRead, EntryStatus, Finish,
     eventVars, rowVars, Registered, RowsOf, Registering, Running, Idle
<1>5. ASSUME NEW p \in Worker, NEW r \in Reg, CancelRead(p, r) \/ QrVerify(p, r)
      PROVE  /\ Registered(e)' \subseteq Registered(e)
             /\ Registering(e)' \subseteq Registering(e)
             /\ peak'[e] >= peak[e] /\ e \notin limitless
  BY <1>2, <1>5 DEF OInv, TypeOK, CancelRead, QrVerify, Begin,
     eventVars, rowVars, Registered, RowsOf, Registering, Running
<1>6. ASSUME NEW d \in Event, DeleteEvent(d)
      PROVE  /\ Registered(e)' \subseteq Registered(e)
             /\ Registering(e)' \subseteq Registering(e)
             /\ peak'[e] >= peak[e] /\ e \notin limitless
  BY <1>2, <1>6 DEF DeleteEvent, Registered, RowsOf, Registering, Running
<1>7. ASSUME UNCHANGED vars
      PROVE  /\ Registered(e)' \subseteq Registered(e)
             /\ Registering(e)' \subseteq Registering(e)
             /\ peak'[e] >= peak[e] /\ e \notin limitless
  BY <1>2, <1>7 DEF vars, eventVars, rowVars, Registered, RowsOf, Registering, Running
<1>8. ASSUME NEW p \in Worker, NEW r \in Reg, RegisterRead(p, r)
      PROVE  Cardinality(Registered(e))' + Cardinality(Registering(e))'
               < peak'[e] + Cardinality(Worker)
  BY <1>8, RegisterReadBounded DEF RegisterRead, eventVars
<1>9. ASSUME NEW p \in Worker, RegisterCommit(p)
      PROVE  Cardinality(Registered(e))' + Cardinality(Registering(e))'
               < peak'[e] + Cardinality(Worker)
  BY <1>9, RegisterCommitBounded DEF RegisterCommit, eventVars
<1> QED
  BY <1>2, <1>3, <1>4, <1>5, <1>6, <1>7, <1>8, <1>9, Shrinks
  DEF Next, RegistrationStep, GateStep

(* Those who come or came exceed the largest limit of an event by those    *)
(* already checked in and by fewer than there are requests in flight,      *)
(* whatever administrators do to the limit (register): OverflowBounded.    *)
THEOREM OverflowIsBounded == Spec => []OverflowBounded
<1>1. ASSUME OInv PROVE OverflowBounded
  <2> SUFFICES ASSUME NEW e \in Event \ limitless
               PROVE  Cardinality(Attending(e)) + Cardinality(Registering(e))
                        < peak[e] + Cardinality(Worker) + Cardinality(Inside(e))
    BY DEF OverflowBounded
  <2>1. Attending(e) = Registered(e) \cup Inside(e) /\ Registered(e) \cap Inside(e) = {}
    BY DEF Attending, Registered, Inside
  <2>2. /\ IsFiniteSet(Registered(e)) /\ Cardinality(Registered(e)) \in Nat
        /\ IsFiniteSet(Inside(e)) /\ Cardinality(Inside(e)) \in Nat
    BY FiniteRows, FS_Subset, FS_CardinalityType DEF Inside, RowsOf
  <2>3. Cardinality(Registered(e) \cap Inside(e)) = 0
    BY <2>1, FS_EmptySet
  <2>4. Cardinality(Registered(e) \cup Inside(e))
          = Cardinality(Registered(e)) + Cardinality(Inside(e))
              - Cardinality(Registered(e) \cap Inside(e))
    BY <2>2, FS_Union
  <2>5. Cardinality(Attending(e)) = Cardinality(Registered(e)) + Cardinality(Inside(e))
    BY <2>1, <2>2, <2>3, <2>4
  <2>6. Cardinality(Registered(e)) + Cardinality(Registering(e)) < peak[e] + Cardinality(Worker)
    BY <1>1 DEF OInv, PlacesBounded
  <2>7. /\ Cardinality(Registering(e)) \in Nat /\ Cardinality(Worker) \in Nat
        /\ peak[e] \in Nat
    BY <1>1, FiniteRequests DEF OInv, TypeOK
  <2> QED
    BY <2>2, <2>5, <2>6, <2>7
<1> QED
  BY <1>1, InitOInv, NextOInv, PTL DEF Spec

----------------------------------------------------------------------------
(* One entry per code.                                                     *)

Scans(p, r) == req[p].op \in {"verified", "checkIn"} /\ req[p].r = r

\* Tokens are numbered as they are issued, and scanned and entered after.
IssuedFirst ==
  /\ \A x \in entries : x[2] <= token[x[1]]
  /\ \A p \in Worker : \A r \in Reg : Scans(p, r) => req[p].t <= token[r]

\* A registration that no other request touches while it is scanned.
QuietScan ==
  \A r \in Reg \ contested :
    /\ <<r, token[r]>> \in entries => status[r] # "REGISTERED"
    /\ \A p \in Worker : Scans(p, r) =>
         /\ req[p].t = token[r]
         /\ status[r] # "CANCELLED"
         /\ Running(p, "checkIn") => <<r, token[r]>> \notin entries
         /\ \A q \in Worker : Scans(q, r) => q = p

EInv == TypeOK /\ IssuedFirst /\ QuietScan /\ OneEntryPerCode

LEMMA InitEInv == Init => EInv
BY InitTypeOK DEF Init, EInv, IssuedFirst, QuietScan, OneEntryPerCode, Scans, Running, Idle

\* Steps that write no row and leave every scan as it is, or end it.
LEMMA GentleEInv ==
  ASSUME EInv, TypeOK',
         UNCHANGED <<status, token, entries, reentered, contested>>,
         \A p \in Worker, r \in Reg : Scans(p, r)' =>
           Scans(p, r) /\ req'[p].t = req[p].t /\ (Running(p, "checkIn")' => Running(p, "checkIn"))
  PROVE  EInv'
<1>1. IssuedFirst'
  BY DEF EInv, IssuedFirst
<1>2. QuietScan'
  BY DEF EInv, QuietScan
<1> QED
  BY <1>1, <1>2 DEF EInv, OneEntryPerCode

\* A row is written by a request that scans nothing.
LEMMA WriteEInv ==
  ASSUME EInv, TypeOK', NEW p \in Worker, NEW r \in Reg,
         req' = [req EXCEPT ![p] = Idle],
         UNCHANGED <<entries, reentered>>,
         contested' = contested \cup ({r} \cap Scanned),
         \E s \in {"REGISTERED", "CANCELLED"} :
           /\ status' = [status EXCEPT ![r] = s]
           /\ token' = IF s = "REGISTERED" THEN [token EXCEPT ![r] = @ + 1] ELSE token
  PROVE  EInv'
<1> PICK s \in {"REGISTERED", "CANCELLED"} :
           /\ status' = [status EXCEPT ![r] = s]
           /\ token' = IF s = "REGISTERED" THEN [token EXCEPT ![r] = @ + 1] ELSE token
  OBVIOUS
<1>1. \A x \in Reg : token'[x] \in Nat /\ token[x] \in Nat /\ token[x] <= token'[x]
                     /\ (x # r => token'[x] = token[x] /\ status'[x] = status[x])
  BY DEF EInv, TypeOK
<1>2. \A q \in Worker, x \in Reg : Scans(q, x)' => Scans(q, x) /\ req'[q] = req[q]
  BY DEF EInv, TypeOK, Scans, Idle
<1>3. IssuedFirst'
  <2>1. \A x \in entries' : x[2] <= token'[x[1]]
    <3> SUFFICES ASSUME NEW x \in entries PROVE x[2] <= token'[x[1]]
      OBVIOUS
    <3>1. x[1] \in Reg /\ x[2] \in Nat /\ x[2] <= token[x[1]]
      BY DEF EInv, TypeOK, IssuedFirst
    <3> QED
      BY <1>1, <3>1
  <2>2. \A q \in Worker : \A x \in Reg : Scans(q, x)' => req'[q].t <= token'[x]
    <3> SUFFICES ASSUME NEW q \in Worker, NEW x \in Reg, Scans(q, x)'
                 PROVE  req'[q].t <= token'[x]
      OBVIOUS
    <3>1. Scans(q, x) /\ req'[q] = req[q]
      BY <1>2
    <3>2. req[q].t <= token[x] /\ req[q].t \in Nat
      BY <3>1, RequestParts DEF EInv, IssuedFirst, Scans
    <3> QED
      BY <1>1, <3>1, <3>2
  <2> QED
    BY <2>1, <2>2 DEF IssuedFirst
<1>4. QuietScan'
  <2> SUFFICES ASSUME NEW x \in Reg, x \notin contested'
               PROVE  /\ <<x, token'[x]>> \in entries' => status'[x] # "REGISTERED"
                      /\ \A q \in Worker : Scans(q, x)' =>
                           /\ req'[q].t = token'[x]
                           /\ status'[x] # "CANCELLED"
                           /\ Running(q, "checkIn")' => <<x, token'[x]>> \notin entries'
                           /\ \A w \in Worker : Scans(w, x)' => w = q
    BY DEF QuietScan
  <2>0. x \notin contested
    OBVIOUS
  <2>1. CASE x = r
    <3>1. \A q \in Worker : ~Scans(q, x)
      BY <2>1 DEF Scanned, Scans
    <3>2. s = "REGISTERED" => <<x, token'[x]>> \notin entries
      <4> SUFFICES ASSUME s = "REGISTERED", <<x, token'[x]>> \in entries PROVE FALSE
        OBVIOUS
      <4>1. token'[x] <= token[x]
        BY DEF EInv, IssuedFirst
      <4>2. token'[x] = token[x] + 1
        BY <2>1 DEF EInv, TypeOK
      <4> QED
        BY <1>1, <4>1, <4>2
    <3>3. s = "CANCELLED" => status'[x] # "REGISTERED"
      BY <2>1 DEF EInv, TypeOK
    <3> QED
      BY <1>2, <3>1, <3>2, <3>3
  <2>2. CASE x # r
    <3>1. token'[x] = token[x] /\ status'[x] = status[x]
      BY <1>1, <2>2
    <3>2. /\ <<x, token[x]>> \in entries => status[x] # "REGISTERED"
          /\ \A q \in Worker : Scans(q, x) =>
               /\ req[q].t = token[x]
               /\ status[x] # "CANCELLED"
               /\ Running(q, "checkIn") => <<x, token[x]>> \notin entries
               /\ \A w \in Worker : Scans(w, x) => w = q
      BY <2>0 DEF EInv, QuietScan
    <3> QED
      BY <1>2, <3>1, <3>2 DEF Running
  <2> QED
    BY <2>1, <2>2
<1>5. OneEntryPerCode'
  BY DEF EInv, OneEntryPerCode
<1> QED
  BY <1>3, <1>4, <1>5 DEF EInv

LEMMA QrVerifyEInv ==
  ASSUME EInv, TypeOK', NEW p \in Worker, NEW r \in Reg, QrVerify(p, r)
  PROVE  EInv'
<1>1. /\ req[p] = Idle /\ req' = [req EXCEPT ![p] = [op |-> "verified", r |-> r, t |-> token[r]]]
      /\ contested' = contested \cup ({r} \cap Scanned)
      /\ UNCHANGED <<status, token, entries, reentered>>
      /\ status[r] \in {"REGISTERED", "ATTENDED"}
  BY DEF QrVerify, Begin, rowVars
<1>2. \A q \in Worker, x \in Reg :
        Scans(q, x)' =>
          \/ q = p /\ x = r /\ req'[q].t = token[r] /\ ~Running(q, "checkIn")'
          \/ q # p /\ Scans(q, x) /\ req'[q] = req[q]
  BY <1>1 DEF EInv, TypeOK, Scans, Running
<1>3. token[r] \in Nat
  BY DEF EInv, TypeOK
<1>4. IssuedFirst'
  <2>1. \A q \in Worker, x \in Reg : Scans(q, x)' => req'[q].t <= token[x]
    BY <1>2, <1>3 DEF EInv, IssuedFirst
  <2> QED
    BY <1>1, <2>1 DEF EInv, IssuedFirst
<1>5. QuietScan'
  <2> SUFFICES ASSUME NEW x \in Reg, x \notin contested'
               PROVE  /\ <<x, token[x]>> \in entries => status[x] # "REGISTERED"
                      /\ \A q \in Worker : Scans(q, x)' =>
                           /\ req'[q].t = token[x]
                           /\ status[x] # "CANCELLED"
                           /\ Running(q, "checkIn")' => <<x, token[x]>> \notin entries
                           /\ \A w \in Worker : Scans(w, x)' => w = q
    BY <1>1 DEF QuietScan
  <2>1. x = r => \A q \in Worker : ~Scans(q, x)
    BY <1>1 DEF Scanned, Scans
  <2>2. /\ <<x, token[x]>> \in entries => status[x] # "REGISTERED"
        /\ \A q \in Worker : Scans(q, x) =>
             /\ req[q].t = token[x]
             /\ status[x] # "CANCELLED"
             /\ Running(q, "checkIn") => <<x, token[x]>> \notin entries
             /\ \A w \in Worker : Scans(w, x) => w = q
    BY <1>1 DEF EInv, QuietScan
  <2> QED
    BY <1>1, <1>2, <2>1, <2>2 DEF Running
<1>6. OneEntryPerCode'
  BY <1>1 DEF EInv, OneEntryPerCode
<1> QED
  BY <1>4, <1>5, <1>6 DEF EInv

LEMMA QrReadEInv ==
  ASSUME EInv, TypeOK', NEW p \in Worker, QrRead(p)
  PROVE  EInv'
<1>1. /\ Running(p, "verified") /\ req[p].r \in Reg
      /\ UNCHANGED <<status, token, entries, reentered, contested>>
      /\ status[req[p].r] # "ABSENT"
      /\ req' = [req EXCEPT ![p] =
           IF status[req[p].r] = "ATTENDED"
             THEN Idle ELSE [op |-> "checkIn", r |-> req[p].r, t |-> req[p].t]]
  BY RequestParts DEF EInv, QrRead, rowVars, gateVars, Running, Attended
<1>2. \A q \in Worker, x \in Reg :
        Scans(q, x)' =>
          /\ Scans(q, x) /\ req'[q].t = req[q].t
          /\ Running(q, "checkIn")' /\ ~Running(q, "checkIn") =>
               q = p /\ status[x] # "ATTENDED" /\ x = req[p].r
  BY <1>1 DEF EInv, TypeOK, Scans, Running, Idle
<1>3. IssuedFirst'
  BY <1>1, <1>2 DEF EInv, IssuedFirst
<1>4. QuietScan'
  <2> SUFFICES ASSUME NEW x \in Reg, x \notin contested, NEW q \in Worker, Scans(q, x)',
                      Running(q, "checkIn")'
               PROVE  <<x, token[x]>> \notin entries
    BY <1>1, <1>2 DEF EInv, QuietScan
  <2>1. CASE Running(q, "checkIn")
    BY <1>2, <2>1 DEF EInv, QuietScan
  <2>2. CASE ~Running(q, "checkIn")
    <3>1. status[x] \notin {"ATTENDED", "ABSENT", "CANCELLED"}
      BY <1>1, <1>2, <2>2 DEF EInv, QuietScan
    <3>2. status[x] = "REGISTERED"
      BY <3>1 DEF EInv, TypeOK, RegistrationStatus
    <3> QED
      BY <3>2 DEF EInv, QuietScan
  <2> QED
    BY <2>1, <2>2
<1>5. OneEntryPerCode'
  BY <1>1 DEF EInv, OneEntryPerCode
<1> QED
  BY <1>3, <1>4, <1>5 DEF EInv

LEMMA QrCommitEInv ==
  ASSUME EInv, TypeOK', NEW p \in Worker, QrCommit(p)
  PROVE  EInv'
<1> DEFINE r == req[p].r
           t == req[p].t
<1>1. r \in Reg /\ t \in Nat /\ Running(p, "checkIn") /\ Scans(p, r)
  BY RequestParts DEF EInv, QrCommit, Running, Scans
<1>2. /\ status' = [status EXCEPT ![r] = "ATTENDED"]
      /\ entries' = entries \cup {<<r, t>>}
      /\ reentered' = reentered \cup ({<<r, t>>} \cap entries)
      /\ req' = [req EXCEPT ![p] = Idle]
      /\ UNCHANGED <<token, contested>>
  BY DEF QrCommit, EntryStatus, Finish
<1>3. \A q \in Worker, x \in Reg : Scans(q, x)' => q # p /\ Scans(q, x) /\ req'[q] = req[q]
  BY <1>2 DEF EInv, TypeOK, Scans, Idle
<1>4. \A x \in Reg : status'[x] = IF x = r THEN "ATTENDED" ELSE status[x]
  BY <1>2 DEF EInv, TypeOK
<1>5. t <= token[r]
  BY <1>1 DEF EInv, IssuedFirst
<1>6. IssuedFirst'
  BY <1>2, <1>3, <1>5 DEF EInv, IssuedFirst
<1>7. QuietScan'
  <2> SUFFICES ASSUME NEW x \in Reg, x \notin contested
               PROVE  /\ <<x, token[x]>> \in entries' => status'[x] # "REGISTERED"
                      /\ \A q \in Worker : Scans(q, x)' =>
                           /\ req'[q].t = token[x]
                           /\ status'[x] # "CANCELLED"
                           /\ Running(q, "checkIn")' => <<x, token[x]>> \notin entries'
                           /\ \A w \in Worker : Scans(w, x)' => w = q
    BY <1>2 DEF QuietScan
  <2>1. CASE x = r
    <3>1. \A q \in Worker : Scans(q, x) => q = p
      BY <1>1, <2>1 DEF EInv, QuietScan
    <3>2. \A q \in Worker : ~Scans(q, x)'
      BY <1>3, <3>1
    <3> QED
      BY <1>4, <2>1, <3>2
  <2>2. CASE x # r
    BY <1>2, <1>3, <1>4, <2>2 DEF EInv, QuietScan, Running
  <2> QED
    BY <2>1, <2>2
<1>8. OneEntryPerCode'
  <2>1. r \notin contested => <<r, t>> \notin entries
    BY <1>1 DEF EInv, QuietScan
  <2> QED
    BY <1>2, <2>1 DEF EInv, OneEntryPerCode
<1> QED
  BY <1>6, <1>7, <1>8 DEF EInv

LEMMA NextEInv == EInv /\ [Next]_vars => EInv'
<1> SUFFICES ASSUME EInv, [Next]_vars PROVE EInv'
  OBVIOUS
<1>0. TypeOK'
  BY NextTypeOK DEF EInv
<1>1. ASSUME NEW p \in Worker, NEW r \in Reg, RegisterRead(p, r) \/ CancelRead(p, r)
      PROVE  EInv'
  <2>1. UNCHANGED <<status, token, entries, reentered, contested>>
    BY <1>1 DEF RegisterRead, CancelRead, rowVars, gateVars
  <2>2. \A q \in Worker, x \in Reg : Scans(q, x)' => Scans(q, x) /\ req'[q] = req[q]
    BY <1>1 DEF EInv, TypeOK, RegisterRead, CancelRead, Begin, Scans
  <2> QED
    BY <1>0, <2>1, <2>2, GentleEInv DEF Running
<1>2. ASSUME NEW p \in Worker, RegisterCommit(p) PROVE EInv'
  <2>1. req[p].r \in Reg
    BY <1>2, RequestParts DEF EInv, RegisterCommit, Running
  <2> QED
    BY <1>0, <1>2, <2>1, WriteEInv DEF RegisterCommit, Finish
<1>3. ASSUME NEW p \in Worker, CancelCommit(p) PROVE EInv'
  <2>1. req[p].r \in Reg
    BY <1>3, RequestParts DEF EInv, CancelCommit, Running
  <2> QED
    BY <1>0, <1>3, <2>1, WriteEInv DEF CancelCommit, Finish
<1>4. ASSUME NEW p \in Worker, Abort(p) PROVE EInv'
  <2>1. UNCHANGED <<status, token, entries, reentered, contested>>
    BY <1>4 DEF Abort, rowVars, gateVars
  <2>2. \A q \in Worker, x \in Reg : Scans(q, x)' => Scans(q, x) /\ req'[q] = req[q]
    BY <1>4 DEF EInv, TypeOK, Abort, Finish, Scans, Idle
  <2> QED
    BY <1>0, <2>1, <2>2, GentleEInv DEF Running
<1>5. ASSUME NEW e \in Event, UpdateEvent(e) PROVE EInv'
  BY <1>0, <1>5, GentleEInv DEF UpdateEvent, rowVars, gateVars, Scans, Running
<1>6. ASSUME NEW e \in Event, DeleteEvent(e) PROVE EInv'
  <2>1. /\ UNCHANGED <<token, entries, reentered, contested, req>>
        /\ \A x \in Reg : status'[x] \in {"ABSENT", status[x]}
    BY <1>6 DEF DeleteEvent, gateVars
  <2>2. IssuedFirst' /\ QuietScan' /\ OneEntryPerCode'
    BY <2>1 DEF EInv, IssuedFirst, QuietScan, OneEntryPerCode, Scans, Running
  <2> QED
    BY <1>0, <2>2 DEF EInv
<1>7. CASE UNCHANGED vars
  BY <1>0, <1>7, GentleEInv DEF vars, rowVars, gateVars, Scans, Running
<1> QED
  BY <1>0, <1>1, <1>2, <1>3, <1>4, <1>5, <1>6, <1>7, QrVerifyEInv, QrReadEInv, QrCommitEInv
  DEF Next, RegistrationStep, GateStep

(* A code that lets somebody in twice belongs to a registration that two   *)
(* requests worked on at once: nothing that happens one after the other    *)
(* makes a used code good again.                                           *)
THEOREM CodesUsedOnce == Spec => []OneEntryPerCode
<1>1. EInv => OneEntryPerCode
  BY DEF EInv
<1> QED
  BY <1>1, InitEInv, NextEInv, PTL DEF Spec
=============================================================================
