-------------------------- MODULE CleanupScheduler --------------------------
(***************************************************************************)
(* The ReservationCleanupScheduler on several instances: every instance    *)
(* starts a clean-up cycle now and then, a lock in Redis lets one of them  *)
(* work, and the cycle runs the pass of SlotBooking over the bookings      *)
(* beside those over stays and prasad orders, which only matter here when  *)
(* they fail.                                                              *)
(*                                                                         *)
(* Passes that administrators start by hand take no lock; SlotBooking has  *)
(* them.                                                                   *)
(***************************************************************************)
EXTENDS SlotBooking

CONSTANTS
  Instance,   \* the values the lock may hold: instanceId of each process
  HostOf      \* the instance of a cycle; one may start the next too early

ASSUME SchedulerAssumption ==
  /\ HostOf \in [Cleaner -> Instance]
  /\ "free" \notin Instance /\ "none" \notin Cleaner
  /\ Worker \cap Cleaner = {}

VARIABLES
  lock,      \* value of lock:reservation_cleanup, "free" without one
  stage,     \* how far runCleanupCycle is, per cycle
  listing,   \* cycles whose pass over the bookings waits for its list
  taker,     \* history: the cycle that took the lock, "none" without one
  late,      \* history: cycles that looked at the lock and lost it since
  excused    \* history: cycles that lost the lock while they ran, to its
             \*   expiry, to a late cycle or to one of their own instance,
             \*   or gave it up with their pass over the bookings running

lockVars == <<lock, stage, listing, taker, late, excused>>
schedulerVars == <<vars, lockVars>>

LockTypeOK ==
  /\ lock \in Instance \cup {"free"}
  /\ stage \in [Cleaner -> {"off", "work", "delete"}]
  /\ listing \subseteq Cleaner
  /\ taker \in Cleaner \cup {"none"}
  /\ late \subseteq Cleaner /\ excused \subseteq Cleaner

SchedulerInit ==
  /\ Init
  /\ lock = "free"
  /\ stage = [c \in Cleaner |-> "off"]
  /\ listing = {}
  /\ taker = "none"
  /\ late = {} /\ excused = {}

Stage(c, s) == stage' = [stage EXCEPT ![c] = s]

Passing(c) == c \in listing \/ req[c] # Idle
Working(c) == stage[c] # "off" \/ Passing(c)

Free == lock = "free"

\* SET NX EX, and the three passes of cleanupExpiredReservations begin.
CycleStart(c) ==
  /\ ~Working(c) /\ Free
  /\ lock' = HostOf[c] /\ taker' = c
  /\ Stage(c, "work") /\ listing' = listing \cup {c}
  /\ late' = late \ {c} /\ excused' = excused \ {c}
  /\ UNCHANGED vars

\* The list of the overdue bookings arrives, ...
CycleScan(c) ==
  /\ c \in listing
  /\ ExpireScan(c) \/ (Overdue = {} /\ UNCHANGED vars)
  /\ listing' = listing \ {c}
  /\ UNCHANGED <<lock, stage, taker, late, excused>>

\* ... and the pass goes through it, whatever the cycle is doing by then, ...
CyclePass(c) ==
  /\ (\E b \in Booking : ExpireRead(c, b)) \/ ExpireCommit(c) \/ ExpireDone(c)
  /\ UNCHANGED lockVars

\* ... unless the database fails it.
PassDies(c) ==
  /\ Passing(c)
  /\ IF req[c] = Idle THEN UNCHANGED vars ELSE Abort(c)
  /\ listing' = listing \ {c}

PassFails(c) == PassDies(c) /\ UNCHANGED <<lock, stage, taker, late, excused>>

\* Mutant: the lock is deleted unseen.
HoldsSurely(c) == TRUE

StillHolds(c) == lock = HostOf[c]

\* finally: GET, once the three passes are over or, since Promise.all does
\* not wait for the others, one of them failed.  GET may fail too.
LockRead(c) ==
  /\ stage[c] = "work"
  /\ \/ StillHolds(c) /\ Stage(c, "delete")
     \/ Stage(c, "off")
  /\ excused' = IF Passing(c) THEN excused \cup {c} ELSE excused
  /\ UNCHANGED <<vars, lock, listing, taker, late>>

\* The cycle that loses its lock to somebody else.
Loser == {c \in Cleaner : c = taker /\ Working(c)}

\* The lock goes, and every cycle in D that has looked at it is late.
Release(D) ==
  /\ lock' = "free" /\ taker' = "none"
  /\ late' = {d \in D : stage[d] = "delete"}

\* ... and DEL, of whatever lock there is by then.
LockDelete(c) ==
  /\ stage[c] = "delete"
  /\ Release(Cleaner \ {c})
  /\ Stage(c, "off")
  /\ excused' = excused \cup
       {d \in Loser \ {c} : c \in late \/ HostOf[c] = HostOf[d]}
  /\ UNCHANGED <<vars, listing>>

\* After LOCK_TTL_SECONDS.
LockExpires ==
  /\ lock # "free"
  /\ Release(Cleaner)
  /\ excused' = excused \cup Loser
  /\ UNCHANGED <<vars, stage, listing>>

\* The process dies, or shuts down, and leaves its lock to expire.
Crash(c) ==
  /\ Working(c)
  /\ PassDies(c) \/ (~Passing(c) /\ UNCHANGED <<vars, listing>>)
  /\ Stage(c, "off")
  /\ late' = late \ {c} /\ excused' = excused \ {c}
  /\ UNCHANGED <<lock, taker>>

CycleEnd(c) == LockRead(c) \/ LockDelete(c)

CycleStep(c) ==
  CycleScan(c) \/ CyclePass(c) \/ PassFails(c) \/ CycleEnd(c) \/ Crash(c)

SchedulerNext ==
  \/ \E c \in Cleaner : CycleStart(c) \/ CycleStep(c)
  \/ LockExpires
  \/ /\ (\E p \in Worker : WorkerStep(p) \/ Abort(p)) \/ Environment \/ PaymentStep
     /\ UNCHANGED lockVars

SchedulerSpec == SchedulerInit /\ [][SchedulerNext]_schedulerVars

(* Timers fire, keys expire, holds grow old, cycles go on until they end   *)
(* and are not stopped every time at the same point.                       *)
SchedulerFairness ==
  /\ WF_schedulerVars(\E c \in Cleaner : CycleStart(c))
  /\ WF_schedulerVars(LockExpires)
  /\ \A b \in Booking : WF_schedulerVars(GrowOld(b) /\ UNCHANGED lockVars)
  /\ WF_schedulerVars(\E c \in Cleaner : CycleStep(c))
  /\ SF_schedulerVars(\E c \in Cleaner : CycleScan(c))
  /\ SF_schedulerVars((\E c \in Cleaner, b \in Booking : ExpireRead(c, b)) /\ UNCHANGED lockVars)
  /\ SF_schedulerVars((\E c \in Cleaner : ExpireCommit(c)) /\ UNCHANGED lockVars)

FairSchedulerSpec == SchedulerSpec /\ SchedulerFairness

----------------------------------------------------------------------------
(* Properties.  HoldReleased is checked here too, of the whole scheduler.  *)

(* Two cycles never work at once, except beside one that lost its lock: to *)
(* the expiry, to a cycle that looked at its own lock too early, or to its *)
(* own finally block, which runs as soon as one of the three passes fails  *)
(* (runCleanupCycle: "Release lock only if we still hold it").             *)
CyclesApart ==
  \A c, d \in Cleaner :
    c # d /\ Working(c) /\ Working(d) => c \in excused \/ d \in excused
=============================================================================
