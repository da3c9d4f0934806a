-------------------------- MODULE DarshanSchedules --------------------------
(***************************************************************************)
(* The darshan schedules of the DarshanService and the slots that are made *)
(* from them for the days ahead.  SlotBooking has what is booked on them.  *)
(*                                                                         *)
(* An update of a schedule is not a transaction: it writes the schedule,   *)
(* sets the coming slots INACTIVE, reads the schedule again and inserts    *)
(* slots, where a slot of the same day and start is left as it is.         *)
(***************************************************************************)
EXTENDS Naturals, FiniteSets

CONSTANTS
  Schedule,    \* identifiers of schedules, fresh until created
  Start,       \* start times
  Terms,       \* what else a slot has from its schedule: end and capacity
  Falsy,       \* starts and terms an update takes for none: "", capacity 0
  Recurrence,  \* the sets of days a schedule may be for
  Horizon,     \* days slots are made for, today included
  LastDay,     \* bound on the days that pass
  Editor       \* requests in flight

ASSUME SchedulesAssumption ==
  /\ Horizon \in Nat \ {0} /\ LastDay \in Nat
  /\ Recurrence \subseteq SUBSET (0 .. LastDay + Horizon - 1)
  /\ "none" \notin Terms

VARIABLES
  plan,      \* each schedule, NoPlan while there is none
  slot,      \* its slot of each day and start, NoSlot without one
  today,     \* the first day whose slots are to come
  edit,      \* what each editor is doing
  heeded,    \* history: start and terms of each schedule when an update last
             \*   counted as a change of them
  tampered   \* history: schedules with updates that overlapped or broke off,
             \*   or with slots that were edited one by one

schedulesVars == <<plan, slot, today, edit, heeded, tampered>>

Day == 0 .. LastDay + Horizon - 1

NoPlan == [start |-> "none", terms |-> "none", days |-> {}, on |-> FALSE]
Plan == [start : Start, terms : Terms, days : Recurrence, on : BOOLEAN]
\* What the slots of a schedule have from it.
Offer(p) == [start |-> p.start, terms |-> p.terms]

NoSlot == [status |-> "ABSENT", terms |-> "none"]
Slots == [status : {"ACTIVE", "INACTIVE"}, terms : Terms]

NoEdit == [step |-> "none"]
EditSteps == [step : {"deactivate", "read"}, s : Schedule]
               \cup [step : {"insert"}, s : Schedule, p : Plan \cup {NoPlan}]

SchedulesTypeOK ==
  /\ plan \in [Schedule -> Plan \cup {NoPlan}]
  /\ slot \in [Schedule -> [Day -> [Start -> Slots \cup {NoSlot}]]]
  /\ today \in 0 .. LastDay
  /\ edit \in [Editor -> EditSteps \cup {NoEdit}]
  /\ heeded \in [Schedule -> [start : Start \cup {"none"}, terms : Terms \cup {"none"}]]
  /\ tampered \subseteq Schedule

SchedulesInit ==
  /\ plan = [s \in Schedule |-> NoPlan]
  /\ slot = [s \in Schedule |-> [d \in Day |-> [t \in Start |-> NoSlot]]]
  /\ today = 0
  /\ edit = [e \in Editor |-> NoEdit]
  /\ heeded = [s \in Schedule |-> Offer(NoPlan)]
  /\ tampered = {}

Changing(e, s) == edit[e] # NoEdit /\ edit[e].s = s
InFlight(s) == \E e \in Editor : Changing(e, s)

\* A second request on a schedule tampers with the first.
Overlap(s) == tampered' = IF InFlight(s) THEN tampered \cup {s} ELSE tampered

EditBegins(e, step, s) ==
  /\ edit[e] = NoEdit
  /\ edit' = [edit EXCEPT ![e] = [step |-> step, s |-> s]]

\* The schedule becomes p, and its slots are to be made from it.
Heed(s, p) ==
  /\ plan' = [plan EXCEPT ![s] = p]
  /\ heeded' = [heeded EXCEPT ![s] = Offer(p)]

EditEnds(e) == edit' = [edit EXCEPT ![e] = NoEdit]

\* createSchedule: the row first, then its slots.
CreateSchedule(e, s) ==
  /\ plan[s] = NoPlan /\ s \notin tampered
  /\ EditBegins(e, "read", s)
  /\ \E t \in Start, m \in Terms, days \in Recurrence :
       Heed(s, [start |-> t, terms |-> m, days |-> days, on |-> TRUE])
  /\ UNCHANGED <<slot, today, tampered>>

\* updateSchedule with a time, a capacity or isActive = false in its data.
UpdateSchedule(e, s) ==
  /\ plan[s] # NoPlan
  /\ EditBegins(e, "deactivate", s)
  /\ \E p \in Plan : Heed(s, p)
  /\ Overlap(s)
  /\ UNCHANGED <<slot, today>>

\* updateSchedule without: the days and isActive = true change no slot, nor
\* do an empty time and a capacity of 0, which are written all the same.
UpdateOthers(s) ==
  /\ plan[s] # NoPlan
  /\ \E t \in {plan[s].start} \cup (Start \cap Falsy),
        m \in {plan[s].terms} \cup (Terms \cap Falsy),
        days \in Recurrence, on \in {plan[s].on, TRUE} :
       plan' = [plan EXCEPT ![s] = [start |-> t, terms |-> m, days |-> days, on |-> on]]
  /\ Overlap(s)
  /\ UNCHANGED <<slot, today, edit, heeded>>

\* Mutant: today's slots are past already.
AheadTomorrow(d) == d > today

Ahead(d) == d >= today

Retired(x) == IF x.status = "ACTIVE" THEN [x EXCEPT !.status = "INACTIVE"] ELSE x

\* regenerateFutureSlots
Deactivate(e) ==
  /\ edit[e].step = "deactivate"
  /\ LET s == edit[e].s IN
       /\ slot' = [slot EXCEPT ![s] = [d \in Day |-> [t \in Start |->
            IF Ahead(d) THEN Retired(@[d][t]) ELSE @[d][t]]]]
       /\ edit' = [edit EXCEPT ![e] = [step |-> "read", s |-> s]]
  /\ UNCHANGED <<plan, today, heeded, tampered>>

\* generateSlotsForSchedule: the schedule is read, ...
ReadPlan(e) ==
  /\ edit[e].step = "read"
  /\ edit' = [edit EXCEPT ![e] = [step |-> "insert", s |-> edit[e].s, p |-> plan[edit[e].s]]]
  /\ UNCHANGED <<plan, slot, today, heeded, tampered>>

Coming == today .. today + Horizon - 1

\* ... and createMany inserts its slots, where there is none.
InsertSlots(e) ==
  /\ edit[e].step = "insert"
  /\ LET s == edit[e].s
         p == edit[e].p IN
       slot' = IF plan[s] = NoPlan THEN slot
               ELSE [slot EXCEPT ![s] = [d \in Day |-> [t \in Start |->
                 IF t = p.start /\ d \in p.days \cap Coming /\ @[d][t] = NoSlot
                   THEN [status |-> "ACTIVE", terms |-> p.terms]
                   ELSE @[d][t]]]]
  /\ EditEnds(e)
  /\ UNCHANGED <<plan, today, heeded, tampered>>

EditFails(e) ==
  /\ edit[e] # NoEdit
  /\ tampered' = tampered \cup {edit[e].s}
  /\ EditEnds(e)
  /\ UNCHANGED <<plan, slot, today, heeded>>

\* updateSlot: capacity or status of one slot.
UpdateDarshanSlot(s, d, t) ==
  /\ slot[s][d][t] # NoSlot
  /\ \E x \in Slots : slot' = [slot EXCEPT ![s][d][t] = x]
  /\ tampered' = tampered \cup {s}
  /\ UNCHANGED <<plan, today, edit, heeded>>

\* The slots go with the schedule.
DeleteSchedule(s) ==
  /\ plan[s] # NoPlan
  /\ plan' = [plan EXCEPT ![s] = NoPlan]
  /\ slot' = [slot EXCEPT ![s] = [d \in Day |-> [t \in Start |-> NoSlot]]]
  /\ tampered' = tampered \cup {s}
  /\ UNCHANGED <<today, edit, heeded>>

DayPasses ==
  /\ today < LastDay
  /\ today' = today + 1
  /\ UNCHANGED <<plan, slot, edit, heeded, tampered>>

EditStep(e) ==
  \/ \E s \in Schedule : CreateSchedule(e, s) \/ UpdateSchedule(e, s)
  \/ Deactivate(e) \/ ReadPlan(e) \/ InsertSlots(e) \/ EditFails(e)

SchedulesNext ==
  \/ \E e \in Editor : EditStep(e)
  \/ \E s \in Schedule :
       \/ UpdateOthers(s) \/ DeleteSchedule(s)
       \/ \E d \in Day, t \in Start : UpdateDarshanSlot(s, d, t)
  \/ DayPasses

SchedulesSpec == SchedulesInit /\ [][SchedulesNext]_schedulesVars

----------------------------------------------------------------------------
(* Properties                                                              *)

\* Nothing is being done to the schedule, or was done to it half.
Settled(s) == plan[s] # NoPlan /\ ~InFlight(s) /\ s \notin tampered

(* A slot to come that can be booked is at the start, of the end and of    *)
(* the capacity its schedule had when an update last counted as a change   *)
(* of them, which are those it has now unless an empty time or a capacity  *)
(* of 0 was written since: an update leaves none of the slots from before  *)
(* it ACTIVE (updateSchedule, regenerateFutureSlots), in whatever order    *)
(* times are changed and changed back as days pass.                        *)
ActiveSlotsAgree ==
  \A s \in Schedule : Settled(s) =>
    \A d \in Day, t \in Start :
      d >= today /\ slot[s][d][t].status = "ACTIVE" =>
        heeded[s] = [start |-> t, terms |-> slot[s][d][t].terms]
=============================================================================
