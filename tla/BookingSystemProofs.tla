------------------------ MODULE BookingSystemProofs ------------------------
(***************************************************************************)
(* Theorems about the two compositions with SlotBooking.                   *)
(*                                                                         *)
(* CleanupScheduler implements SlotBooking, and its cycles overlap only as *)
(* the expiry of the lock explains.  BookingPayments implements it too;    *)
(* payments and bookings agree, and an event fulfils at most once.         *)
(***************************************************************************)
EXTENDS BookingPayments, CleanupScheduler, SlotBookingProofs

----------------------------------------------------------------------------
(* The scheduler.  Its cycles are clean-up passes of SlotBooking, and the  *)
(* lock is no business of SlotBooking's.                                   *)

LEMMA CyclesArePasses ==
  ASSUME [SchedulerNext]_schedulerVars
  PROVE  [Next]_vars
<1>1. ASSUME NEW c \in Cleaner, CycleStart(c) PROVE UNCHANGED vars
  BY <1>1 DEF CycleStart
<1>2. ASSUME NEW c \in Cleaner, CycleScan(c) PROVE [Next]_vars
  BY <1>2 DEF CycleScan, Next, BookingServiceStep, CleanerStep
<1>3. ASSUME NEW c \in Cleaner, CyclePass(c) PROVE Next
  BY <1>3 DEF CyclePass, Next, BookingServiceStep, CleanerStep
<1>4. ASSUME NEW c \in Cleaner, CycleEnd(c) PROVE UNCHANGED vars
  BY <1>4 DEF CycleEnd, LockRead, LockDelete
<1>5. ASSUME NEW c \in Cleaner, PassFails(c) \/ Crash(c) PROVE [Next]_vars
  BY <1>5 DEF PassFails, PassDies, Crash, Next, BookingServiceStep
<1>6. ASSUME LockExpires PROVE UNCHANGED vars
  BY <1>6 DEF LockExpires
<1>7. ASSUME (\E p \in Worker : WorkerStep(p) \/ Abort(p)) \/ Environment \/ PaymentStep
      PROVE  Next
  BY <1>7 DEF Next, BookingServiceStep
<1>8. ASSUME UNCHANGED schedulerVars PROVE UNCHANGED vars
  BY <1>8 DEF schedulerVars
<1> QED
  BY <1>1, <1>2, <1>3, <1>4, <1>5, <1>6, <1>7, <1>8 DEF SchedulerNext, CycleStep

(* CleanupScheduler implements SlotBooking: whatever cycles start, stop    *)
(* half way or work side by side, they do nothing to bookings that the     *)
(* clean-up passes of SlotBooking do not, so its theorems hold here.       *)
THEOREM SchedulerImplementsSlotBooking == SchedulerSpec => Spec
<1>1. SchedulerInit => Init
  BY DEF SchedulerInit
<1>2. [SchedulerNext]_schedulerVars => [Next]_vars
  BY CyclesArePasses
<1> QED
  BY <1>1, <1>2, PTL DEF SchedulerSpec, Spec

(* With the scheduler running, slots are still filled within a capacity    *)
(* they had, nobody is admitted twice, and admission takes a QR token.     *)
THEOREM SchedulerAdmission ==
  SchedulerSpec => []BookedWithinPeak /\ AdmittedOnce /\ []ValidHasQr
BY SchedulerImplementsSlotBooking, AdmissionBounded, NobodyAdmittedTwice, AdmissibleHasQr

----------------------------------------------------------------------------
(* The lock of the scheduler.                                              *)

\* The lock is the one its taker set.
LockIsTakers ==
  IF lock = "free" THEN taker = "none" ELSE taker \in Cleaner /\ lock = HostOf[taker]

\* A cycle that nothing excuses has the lock it took.
WorksUnderLock ==
  \A c \in Cleaner : Working(c) /\ c \notin excused => c = taker

\* A cycle that has left its finally block, or is in it, has no pass running,
\* or is excused.
PassesEndFirst ==
  \A c \in Cleaner : stage[c] # "work" /\ Passing(c) => c \in excused

\* A cycle about to delete the lock deletes its own instance's, or is late.
DeletesOwnLock ==
  \A c \in Cleaner : stage[c] = "delete" /\ c \notin late => lock = HostOf[c]

LockInv ==
  LockTypeOK /\ LockIsTakers /\ WorksUnderLock /\ PassesEndFirst /\ DeletesOwnLock

LEMMA HostsAndCyclesAreNamed == \A d \in Cleaner : HostOf[d] # "free" /\ d # "none"
<1> TAKE d \in Cleaner
<1>1. HostOf[d] \in Instance /\ "free" \notin Instance
  BY SchedulerAssumption
<1>2. "none" \notin Cleaner
  BY SchedulerAssumption
<1> QED
  BY <1>1, <1>2

LEMMA LockStart ==
  ASSUME LockInv, NEW c \in Cleaner, CycleStart(c)
  PROVE  LockInv'
<1> USE SchedulerAssumption DEF LockInv, LockTypeOK, CycleStart, Stage, Free
<1>0. \A d \in Cleaner : HostOf[d] # "free" /\ d # "none"
  BY HostsAndCyclesAreNamed
<1>1. LockTypeOK'
  OBVIOUS
<1>2. LockIsTakers'
  BY <1>0 DEF LockIsTakers
<1>3. WorksUnderLock' /\ PassesEndFirst'
  BY <1>0 DEF LockIsTakers, WorksUnderLock, PassesEndFirst, Working, Passing, vars
<1>4. DeletesOwnLock'
  BY <1>0 DEF DeletesOwnLock
<1> QED
  BY <1>1, <1>2, <1>3, <1>4

\* The pass over the bookings leaves the lock alone and starts no other.
LEMMA LockPass ==
  ASSUME LockInv, NEW c \in Cleaner,
         UNCHANGED <<lock, stage, taker, late, excused>>, listing' \subseteq listing,
         \A d \in Cleaner : Passing(d)' => Passing(d)
  PROVE  LockInv'
<1>1. \A d \in Cleaner : Working(d)' => Working(d)
  BY DEF Working
<1>2. LockTypeOK'
  BY DEF LockInv, LockTypeOK
<1> QED
  BY <1>1, <1>2
  DEF LockInv, LockIsTakers, WorksUnderLock, PassesEndFirst, DeletesOwnLock

\* What a cycle's steps do to the requests of the cleaners.
LEMMA PassSteps ==
  ASSUME NEW c \in Cleaner, CycleScan(c) \/ CyclePass(c) \/ PassDies(c), TypeOK
  PROVE  /\ listing' \subseteq listing
         /\ \A d \in Cleaner : Passing(d)' => Passing(d)
         /\ PassDies(c) => ~Passing(c)'
<1>1. listing' \subseteq listing
  BY DEF CycleScan, CyclePass, PassDies, lockVars
<1>2. \A d \in Cleaner \ {c} : req'[d] = req[d]
  BY DEF CycleScan, CyclePass, PassDies, ExpireScan, ExpireRead, ExpireCommit, ExpireDone,
         Abort, Begin, Finish, vars, TypeOK
<1>3. Passing(c)
  BY DEF CycleScan, CyclePass, PassDies, Passing, ExpireRead, ExpireCommit, ExpireDone,
         Running, Idle
<1>4. PassDies(c) => ~Passing(c)'
  BY DEF PassDies, Passing, Abort, Finish, vars, TypeOK
<1> QED
  BY <1>1, <1>2, <1>3, <1>4 DEF Passing

\* The finally block looks at the lock, or the process ends.
LEMMA LockSeen ==
  ASSUME LockInv, TypeOK, NEW c \in Cleaner, LockRead(c) \/ Crash(c)
  PROVE  LockInv'
<1> USE DEF LockInv, LockTypeOK, Stage
<1>1. CASE LockRead(c)
  <2>1. UNCHANGED <<lock, listing, taker, late, req>>
    BY <1>1 DEF LockRead, vars
  <2>2. \A d \in Cleaner : Passing(d)' <=> Passing(d)
    BY <2>1 DEF Passing
  <2>3. PICK s \in {"off", "delete"} :
          /\ stage' = [stage EXCEPT ![c] = s]
          /\ s = "delete" => lock = HostOf[c]
    BY <1>1 DEF LockRead, StillHolds
  <2>4. /\ excused' = IF Passing(c) THEN excused \cup {c} ELSE excused
        /\ stage[c] = "work"
    BY <1>1 DEF LockRead
  <2>5. LockTypeOK' /\ LockIsTakers'
    BY <2>1, <2>3, <2>4 DEF LockIsTakers
  <2>6. WorksUnderLock' /\ PassesEndFirst'
    BY <2>1, <2>2, <2>3, <2>4 DEF WorksUnderLock, PassesEndFirst, Working
  <2>7. DeletesOwnLock'
    BY <2>1, <2>3 DEF DeletesOwnLock
  <2> QED
    BY <2>5, <2>6, <2>7
<1>2. CASE Crash(c)
  <2>1. /\ UNCHANGED <<lock, taker>> /\ stage' = [stage EXCEPT ![c] = "off"]
        /\ late' = late \ {c} /\ excused' = excused \ {c} /\ listing' \subseteq listing
    BY <1>2 DEF Crash, PassDies
  <2>2. ~Passing(c)' /\ \A d \in Cleaner : Passing(d)' => Passing(d)
    <3>1. CASE PassDies(c)
      BY <3>1, PassSteps
    <3>2. CASE ~Passing(c) /\ UNCHANGED <<vars, listing>>
      BY <3>2 DEF Passing, vars
    <3> QED
      BY <1>2, <3>1, <3>2 DEF Crash
  <2>3. LockTypeOK' /\ LockIsTakers' /\ DeletesOwnLock'
    BY <2>1 DEF LockIsTakers, DeletesOwnLock
  <2>4. WorksUnderLock' /\ PassesEndFirst'
    BY <2>1, <2>2 DEF WorksUnderLock, PassesEndFirst, Working
  <2> QED
    BY <2>3, <2>4
<1> QED
  BY <1>1, <1>2

\* A lock is deleted by the cycle that took it, or its taker is excused.
LEMMA LockDeleted ==
  ASSUME LockInv, NEW c \in Cleaner, LockDelete(c)
  PROVE  LockInv'
<1> USE SchedulerAssumption DEF LockInv, LockTypeOK, LockDelete, Release, Stage, Loser
<1>1. \A d \in Cleaner : d = taker /\ d # c => c \in late \/ HostOf[c] = HostOf[d]
  BY DEF LockIsTakers, DeletesOwnLock
<1>2. \A d \in Cleaner : Passing(d)' <=> Passing(d)
  BY DEF Passing, vars
<1>3. LockTypeOK' /\ LockIsTakers' /\ DeletesOwnLock'
  BY DEF LockIsTakers, DeletesOwnLock
<1>4. WorksUnderLock' /\ PassesEndFirst'
  BY <1>1, <1>2 DEF WorksUnderLock, PassesEndFirst, Working
<1> QED
  BY <1>3, <1>4

LEMMA LockExpired ==
  ASSUME LockInv, LockExpires
  PROVE  LockInv'
<1> USE SchedulerAssumption DEF LockInv, LockTypeOK, LockExpires, Release, Loser
<1>1. \A d \in Cleaner : Passing(d)' <=> Passing(d)
  BY DEF Passing, vars
<1>2. LockTypeOK' /\ LockIsTakers' /\ DeletesOwnLock'
  BY DEF LockIsTakers, DeletesOwnLock
<1>3. WorksUnderLock' /\ PassesEndFirst'
  BY <1>1 DEF WorksUnderLock, PassesEndFirst, Working
<1> QED
  BY <1>2, <1>3

\* Requests, the environment and payments are no steps of a cleaner.
LEMMA LockElsewhere ==
  ASSUME LockInv, TypeOK, UNCHANGED lockVars,
         \/ UNCHANGED req
         \/ \E p \in Worker \ Cleaner : WorkerStep(p) \/ Abort(p)
  PROVE  LockInv'
<1>1. \A d \in Cleaner : req'[d] = req[d]
  BY DEF WorkerStep, CreateRead, CancelRead, CheckInRead, QrVerify, CreateCommit,
    CreateRefused, CancelCommit, QrRead, CheckInCommit, CheckInRejected, Abort, Begin,
    Finish, TypeOK
<1>2. \A d \in Cleaner : Passing(d)' <=> Passing(d)
  BY <1>1 DEF Passing, lockVars
<1> QED
  BY <1>2 DEF lockVars, LockInv, LockTypeOK, LockIsTakers, WorksUnderLock, PassesEndFirst,
    DeletesOwnLock, Working

LEMMA LockAlways == SchedulerSpec => []LockInv
<1>1. SchedulerInit => LockInv
  BY SchedulerAssumption
  DEF SchedulerInit, Init, LockInv, LockTypeOK, LockIsTakers, WorksUnderLock, PassesEndFirst,
    DeletesOwnLock, Working, Passing
<1>2. ASSUME LockInv, TypeOK, [SchedulerNext]_schedulerVars
      PROVE  LockInv'
  <2>1. ASSUME NEW c \in Cleaner, CycleStart(c) \/ CycleStep(c)
        PROVE  LockInv'
    <3>1. ASSUME CycleScan(c) \/ CyclePass(c) \/ PassFails(c) PROVE LockInv'
      <4>1. UNCHANGED <<lock, stage, taker, late, excused>>
        BY <3>1 DEF CycleScan, CyclePass, PassFails, lockVars
      <4>2. /\ listing' \subseteq listing
            /\ \A d \in Cleaner : Passing(d)' => Passing(d)
        BY <1>2, <3>1, PassSteps DEF PassFails
      <4> QED
        BY <1>2, <4>1, <4>2, LockPass
    <3> QED
      BY <1>2, <2>1, <3>1, LockStart, LockSeen, LockDeleted DEF CycleStep, CycleEnd
  <2>2. ASSUME UNCHANGED schedulerVars PROVE LockInv'
    BY <1>2, <2>2, LockElsewhere DEF schedulerVars, vars
  <2>3. ASSUME Environment \/ PaymentStep, UNCHANGED lockVars PROVE LockInv'
    <3>1. UNCHANGED req
      BY <2>3 DEF Environment, UpdateSlot, GrowOld, PaymentStep, PaymentOpened,
        PaymentCaptured, PaymentClosed
    <3> QED
      BY <1>2, <2>3, <3>1, LockElsewhere
  <2>4. ASSUME NEW p \in Worker, WorkerStep(p) \/ Abort(p), UNCHANGED lockVars
        PROVE  LockInv'
    BY <1>2, <2>4, SchedulerAssumption, LockElsewhere
  <2> QED
    BY <1>2, <2>1, <2>2, <2>3, <2>4, LockExpired DEF SchedulerNext
<1> QED
  BY <1>1, <1>2, SchedulerImplementsSlotBooking, TypeCorrect, PTL DEF SchedulerSpec

(* Whatever instances start, stop, crash or work too long, two cycles of   *)
(* the scheduler work side by side only if one of them lost its lock to    *)
(* the expiry, to a late cycle or to one of its own instance, or gave it   *)
(* up in its finally block while its pass over the bookings still ran.     *)
THEOREM CyclesOverlapOnlyExcused == SchedulerSpec => []CyclesApart
<1>1. LockInv => CyclesApart
  BY DEF LockInv, WorksUnderLock, CyclesApart
<1> QED
  BY <1>1, LockAlways, PTL

----------------------------------------------------------------------------
(* The payment service.                                                    *)

USE PaymentAssumption

PaymentRequest == {"lookup", "settle", "fail", "refund", "refunded"}

\* The payments the gateway and the handlers know of have rows.
KnownInv ==
  /\ \A b \in Booking : order[b] # "NONE" => payment[b] # "NONE"
  /\ \A e \in Attempt : outcome[e] # "OPEN" => payment[AttemptOf[e]] # "NONE"
  /\ \A h \in Handler :
       /\ job[h].op \in PaymentRequest => payment[job[h].b] # "NONE"
       /\ job[h].op \in {"hook", "recorded"} => outcome[job[h].e] # "OPEN"

JobTypeOK == job \in [Handler -> Job]

LEMMA JobParts ==
  ASSUME JobTypeOK, NEW h \in Handler
  PROVE  /\ job[h].op \in PaymentRequest \cup {"pay"} => job[h].b \in Booking
         /\ job[h].op \in {"hook", "recorded"} =>
              /\ job[h].e \in Attempt
              /\ AttemptOf[job[h].e] \in Booking
              /\ job[h].seen \in SeenStatus
BY DEF JobTypeOK, Job, Unemployed, PaymentRequest

----------------------------------------------------------------------------
(* The composition implements SlotBooking.                                 *)

\* The steps of the payment service that write rows are payment steps there.
LEMMA HandlerImplements ==
  ASSUME JobTypeOK, KnownInv, NEW h \in Handler,
         WebhookStep(h) \/ RequestStep(h) \/ Fail(h)
  PROVE  [Next]_vars
<1> USE JobParts DEF KnownInv, Doing
<1>1. ASSUME PayCommit(h) PROVE Next
  BY <1>1 DEF PayCommit, Next, PaymentStep
<1>2. ASSUME HookFulfil(h) PROVE Next
  <2>1. AttemptOf[job[h].e] \in Booking
    BY <1>2 DEF HookFulfil
  <2> QED
    BY <1>2, <2>1 DEF HookFulfil, Fulfil, Next, PaymentStep
<1>3. ASSUME ReconcileSettle(h) PROVE Next
  <2>1. job[h].b \in Booking
    BY <1>3 DEF ReconcileSettle, PaymentRequest
  <2> QED
    BY <1>3, <2>1 DEF ReconcileSettle, Fulfil, Next, PaymentStep
<1>4. ASSUME NEW b \in Booking, payment[b] # "NONE", NEW s \in Closings,
             ClosePayment(b, s)
      PROVE  Next
  BY <1>4 DEF ClosePayment, PaymentClosed, Next, PaymentStep
<1>5. ASSUME HookClose(h) PROVE Next
  <2>1. AttemptOf[job[h].e] \in Booking /\ payment[AttemptOf[job[h].e]] # "NONE"
    BY <1>5 DEF HookClose
  <2>2. ClosedAs(job[h].e) \in Closings
    BY DEF ClosedAs
  <2> QED
    BY <1>4, <1>5, <2>1, <2>2 DEF HookClose
<1>6. ASSUME ReconcileFail(h) PROVE Next
  BY <1>4, <1>6 DEF ReconcileFail, PaymentRequest
<1>7. ASSUME RefundRecord(h) PROVE Next
  BY <1>4, <1>7 DEF RefundRecord, PaymentRequest
<1>8. PayCommit(h) \/ HookFulfil(h) \/ ReconcileSettle(h) \/ HookClose(h)
      \/ ReconcileFail(h) \/ RefundRecord(h) \/ UNCHANGED vars
  BY DEF WebhookStep, RequestStep, Fail, HookKnown, HookRead, HookRecord, HookDuplicate,
         HookNothing, PayRead, ReconcileRead, RefundRead, PayExisting, ReconcileFetch,
         RefundIssue
<1> QED
  BY <1>1, <1>2, <1>3, <1>5, <1>6, <1>7, <1>8

LEMMA StepImplements ==
  ASSUME JobTypeOK, KnownInv, [SystemNext]_systemVars
  PROVE  [Next]_vars
<1>1. ASSUME BookingServiceStep \/ Environment PROVE Next
  BY <1>1 DEF Next
<1>2. ASSUME GatewayStep PROVE UNCHANGED vars
  BY <1>2 DEF GatewayStep, AttemptEnds, OrderExpires
<1> QED
  BY <1>1, <1>2, HandlerImplements DEF SystemNext, systemVars

\* A payment row, once there, stays.
LEMMA PaymentRowStays ==
  ASSUME TypeOK, [Next]_vars, NEW b \in Booking, payment[b] # "NONE"
  PROVE  payment'[b] # "NONE"
<1> USE DEF TypeOK
<1>1. ASSUME NEW p \in Worker, WorkerStep(p) PROVE UNCHANGED payment
  BY <1>1 DEF WorkerStep, CreateRead, CreateCommit, CreateRefused, CancelRead,
              CancelCommit, CheckInRead, QrVerify, QrRead, CheckInCommit,
              CheckInRejected, rowVars
<1>2. ASSUME NEW c \in Cleaner, CleanerStep(c) PROVE payment'[b] # "NONE"
  BY <1>2 DEF CleanerStep, ExpireScan, ExpireRead, ExpireCommit, ExpireDone, rowVars
<1>3. ASSUME PaymentStep PROVE payment'[b] # "NONE"
  BY <1>3 DEF PaymentStep, PaymentOpened, PaymentCaptured, PaymentClosed
<1> QED
  BY <1>1, <1>2, <1>3
  DEF Next, BookingServiceStep, Environment, Abort, UpdateSlot, GrowOld, vars, rowVars

----------------------------------------------------------------------------
(* Type correctness of what the composition adds.                          *)

PaymentTypeOK ==
  /\ order \in [Booking -> {"NONE", "ACTIVE", "PAID", "EXPIRED"}]
  /\ outcome \in [Attempt -> {"OPEN", "SUCCESS", "FAILED", "USER_DROPPED"}]
  /\ refunds \in [Booking -> 0..MaxRefunds]
  /\ recorded \subseteq Attempt /\ acked \subseteq Attempt
  /\ applied \in [Attempt -> Nat]
  /\ JobTypeOK

LEMMA HandlerTypeOK ==
  ASSUME TypeOK, PaymentTypeOK, NEW h \in Handler,
         WebhookStep(h) \/ RequestStep(h) \/ Fail(h)
  PROVE  PaymentTypeOK'
<1> USE DEF PaymentTypeOK, JobTypeOK, gatewayVars, eventVars
<1>1. ASSUME NEW e \in Attempt, HookKnown(h, e) \/ HookRead(h, e)
      PROVE  PaymentTypeOK'
  BY <1>1 DEF HookKnown, HookRead, Take, Job, SeenStatus, TypeOK
<1>2. ASSUME NEW b \in Booking,
             PayRead(h, b) \/ ReconcileRead(h, b) \/ RefundRead(h, b)
      PROVE  PaymentTypeOK'
  BY <1>2 DEF PayRead, ReconcileRead, RefundRead, Take, Job
<1>3. ASSUME HookRecord(h) PROVE PaymentTypeOK'
  <2>1. job[h] \in [op : {"hook", "recorded"}, e : Attempt, seen : SeenStatus]
    BY <1>3 DEF HookRecord, Doing, Job, Unemployed
  <2>2. [job[h] EXCEPT !.op = "recorded"] \in Job
    BY <2>1 DEF Job
  <2> QED
    BY <1>3, <2>1, <2>2 DEF HookRecord, Continue
<1>4. ASSUME ReconcileFetch(h) PROVE PaymentTypeOK'
  <2>1. job[h] \in [op : PaymentRequest \cup {"pay"}, b : Booking]
    BY <1>4 DEF ReconcileFetch, Doing, Job, Unemployed, PaymentRequest
  <2>2. /\ [job[h] EXCEPT !.op = "settle"] \in Job
        /\ [job[h] EXCEPT !.op = "fail"] \in Job
        /\ Unemployed \in Job
    BY <2>1 DEF Job, PaymentRequest
  <2>3. \/ job' = [job EXCEPT ![h] = [job[h] EXCEPT !.op = "settle"]]
        \/ job' = [job EXCEPT ![h] = [job[h] EXCEPT !.op = "fail"]]
        \/ job' = [job EXCEPT ![h] = Unemployed]
    BY <1>4 DEF ReconcileFetch, Continue, Complete
  <2>4. job' \in [Handler -> Job]
    BY <2>2, <2>3
  <2> QED
    BY <1>4, <2>4 DEF ReconcileFetch
<1>5. ASSUME RefundIssue(h) PROVE PaymentTypeOK'
  <2>1. job[h] \in [op : PaymentRequest \cup {"pay"}, b : Booking]
    BY <1>5 DEF RefundIssue, Doing, Job, Unemployed, PaymentRequest
  <2>2. [job[h] EXCEPT !.op = "refunded"] \in Job
    BY <2>1 DEF Job, PaymentRequest
  <2>3. refunds' \in [Booking -> 0..MaxRefunds]
    BY <1>5, <2>1 DEF RefundIssue
  <2> QED
    BY <1>5, <2>2, <2>3 DEF RefundIssue, Continue
<1>6. ASSUME HookFulfil(h) PROVE PaymentTypeOK'
  <2>1. job[h].e \in Attempt
    BY <1>6, JobParts DEF HookFulfil, Doing
  <2> QED
    BY <1>6, <2>1 DEF HookFulfil, Complete, Job
<1>7. ASSUME HookClose(h) \/ HookNothing(h) PROVE PaymentTypeOK'
  <2>1. job[h].e \in Attempt
    BY <1>7, JobParts DEF HookClose, HookNothing, Doing
  <2> QED
    BY <1>7, <2>1 DEF HookClose, HookNothing, Complete, Job
<1>8. ASSUME PayCommit(h) PROVE PaymentTypeOK'
  <2>1. job[h].b \in Booking
    BY <1>8, JobParts DEF PayCommit, Doing
  <2> QED
    BY <1>8, <2>1 DEF PayCommit, Complete, Job
<1>9. ASSUME \/ HookDuplicate(h) \/ PayExisting(h) \/ ReconcileSettle(h)
             \/ ReconcileFail(h) \/ RefundRecord(h) \/ Fail(h)
      PROVE  PaymentTypeOK'
  BY <1>9 DEF HookDuplicate, PayExisting, ReconcileSettle, ReconcileFail, RefundRecord,
              Fail, Complete, Job
<1> QED
  BY <1>1, <1>2, <1>3, <1>4, <1>5, <1>6, <1>7, <1>8, <1>9 DEF WebhookStep, RequestStep

LEMMA NextPaymentTypeOK ==
  TypeOK /\ PaymentTypeOK /\ [SystemNext]_systemVars => PaymentTypeOK'
<1> SUFFICES ASSUME TypeOK, PaymentTypeOK, [SystemNext]_systemVars
             PROVE  PaymentTypeOK'
  OBVIOUS
<1>1. ASSUME GatewayStep PROVE PaymentTypeOK'
  BY <1>1 DEF GatewayStep, AttemptEnds, OrderExpires, PaymentTypeOK, JobTypeOK, eventVars
<1>2. ASSUME UNCHANGED <<gatewayVars, eventVars, job>> PROVE PaymentTypeOK'
  BY <1>2 DEF PaymentTypeOK, JobTypeOK, gatewayVars, eventVars
<1> QED
  BY <1>1, <1>2, HandlerTypeOK DEF SystemNext, systemVars

----------------------------------------------------------------------------
(* What is known is on record.                                             *)

\* What a step does to one handler's job.
JobMoves(h) ==
  \/ job'[h] = job[h]
  \/ job'[h] = Unemployed
  \/ /\ job'[h].op \in {"pay", "lookup", "refund", "hook"}
     /\ job[h] = Unemployed
  \/ /\ job'[h].op = "recorded" /\ job[h].op = "hook"
     /\ job'[h].e = job[h].e /\ job'[h].seen = job[h].seen
  \/ /\ job'[h].op \in {"settle", "fail"} /\ job[h].op = "lookup"
     /\ job'[h].b = job[h].b
  \/ /\ job'[h].op = "refunded" /\ job[h].op = "refund"
     /\ job'[h].b = job[h].b

LEMMA HandlerMoves ==
  ASSUME JobTypeOK, NEW h \in Handler, WebhookStep(h) \/ RequestStep(h) \/ Fail(h)
  PROVE  /\ JobMoves(h)
         /\ \A g \in Handler \ {h} : job'[g] = job[g]
<1> USE DEF JobTypeOK, JobMoves
<1>1. ASSUME NEW e \in Attempt, HookKnown(h, e) \/ HookRead(h, e)
      PROVE  JobMoves(h) /\ \A g \in Handler \ {h} : job'[g] = job[g]
  BY <1>1 DEF HookKnown, HookRead, Take
<1>2. ASSUME NEW b \in Booking, PayRead(h, b) \/ ReconcileRead(h, b) \/ RefundRead(h, b)
      PROVE  JobMoves(h) /\ \A g \in Handler \ {h} : job'[g] = job[g]
  BY <1>2 DEF PayRead, ReconcileRead, RefundRead, Take
<1>3. ASSUME HookRecord(h)
      PROVE  JobMoves(h) /\ \A g \in Handler \ {h} : job'[g] = job[g]
  <2>1. job[h] \in [op : {"hook", "recorded"}, e : Attempt, seen : SeenStatus]
    BY <1>3 DEF HookRecord, Doing, Job, Unemployed
  <2> QED
    BY <1>3, <2>1 DEF HookRecord, Continue, Doing
<1>4. ASSUME ReconcileFetch(h) \/ RefundIssue(h)
      PROVE  JobMoves(h) /\ \A g \in Handler \ {h} : job'[g] = job[g]
  <2>1. job[h] \in [op : PaymentRequest \cup {"pay"}, b : Booking]
    BY <1>4 DEF ReconcileFetch, RefundIssue, Doing, Job, Unemployed, PaymentRequest
  <2> QED
    BY <1>4, <2>1 DEF ReconcileFetch, RefundIssue, Continue, Complete, Doing
<1>5. ASSUME \/ HookDuplicate(h) \/ HookFulfil(h) \/ HookClose(h) \/ HookNothing(h)
             \/ PayCommit(h) \/ PayExisting(h) \/ ReconcileSettle(h) \/ ReconcileFail(h)
             \/ RefundRecord(h) \/ Fail(h)
      PROVE  JobMoves(h) /\ \A g \in Handler \ {h} : job'[g] = job[g]
  BY <1>5 DEF HookDuplicate, HookFulfil, HookClose, HookNothing, PayCommit, PayExisting,
              ReconcileSettle, ReconcileFail, RefundRecord, Fail, Complete
<1> QED
  BY <1>1, <1>2, <1>3, <1>4, <1>5 DEF WebhookStep, RequestStep

\* What a handler's step does to the gateway.
LEMMA HandlerGateway ==
  ASSUME PaymentTypeOK, NEW h \in Handler, WebhookStep(h) \/ RequestStep(h) \/ Fail(h)
  PROVE  /\ UNCHANGED outcome
         /\ \/ UNCHANGED order
            \/ /\ PayCommit(h)
               /\ order' = [order EXCEPT ![job[h].b] = "ACTIVE"]
BY DEF WebhookStep, RequestStep, Fail, HookKnown, HookRead, HookRecord, HookDuplicate,
       HookFulfil, HookClose, HookNothing, PayRead, PayCommit, PayExisting, ReconcileRead,
       ReconcileFetch, ReconcileSettle, ReconcileFail, RefundRead, RefundIssue,
       RefundRecord, gatewayVars

LEMMA InitKnown == SystemInit => KnownInv
BY DEF SystemInit, KnownInv, Unemployed, PaymentRequest

LEMMA NextKnown ==
  ASSUME TypeOK, PaymentTypeOK, KnownInv, [SystemNext]_systemVars
  PROVE  KnownInv'
<1> USE DEF PaymentTypeOK, JobTypeOK
<1>0. \A b \in Booking : payment[b] # "NONE" => payment'[b] # "NONE"
  BY StepImplements, PaymentRowStays
<1>1. ASSUME NEW h \in Handler, WebhookStep(h) \/ RequestStep(h) \/ Fail(h)
      PROVE  KnownInv'
  <2>1. \A b \in Booking : order'[b] # "NONE" => payment'[b] # "NONE"
    <3>1. CASE UNCHANGED order
      BY <1>0, <3>1 DEF KnownInv
    <3>2. CASE /\ PayCommit(h)
               /\ order' = [order EXCEPT ![job[h].b] = "ACTIVE"]
      <4>1. job[h].b \in Booking
        BY <3>2, JobParts DEF PayCommit, Doing
      <4>2. payment'[job[h].b] = "PENDING"
        BY <3>2, <4>1 DEF PayCommit, PaymentOpened, TypeOK
      <4> QED
        BY <1>0, <3>2, <4>1, <4>2 DEF KnownInv
    <3> QED
      BY <1>1, <3>1, <3>2, HandlerGateway
  <2>2. UNCHANGED outcome
    BY <1>1, HandlerGateway
  <2>3. ASSUME NEW g \in Handler
        PROVE  /\ job'[g].op \in PaymentRequest => payment'[job'[g].b] # "NONE"
               /\ job'[g].op \in {"hook", "recorded"} => outcome'[job'[g].e] # "OPEN"
    <3>1. CASE job'[g] = job[g]
      BY <1>0, <2>2, <3>1, JobParts DEF KnownInv
    <3>2. CASE job'[g] = Unemployed
      BY <3>2 DEF Unemployed, PaymentRequest
    <3>3. CASE g = h /\ job[g] = Unemployed /\ job'[g] # Unemployed
      <4>1. ASSUME NEW e \in Attempt, HookRead(h, e)
            PROVE  job'[g].op = "hook" /\ outcome[job'[g].e] # "OPEN"
        BY <3>3, <4>1 DEF HookRead, Take
      <4>2. ASSUME NEW b \in Booking, ReconcileRead(h, b) \/ RefundRead(h, b)
            PROVE  job'[g].op \in {"lookup", "refund"} /\ job'[g].b = b /\ payment[b] # "NONE"
        BY <3>3, <4>2 DEF ReconcileRead, RefundRead, Unsettled, Take
      <4>3. ASSUME NEW b \in Booking, PayRead(h, b) PROVE job'[g].op = "pay"
        BY <3>3, <4>3 DEF PayRead, Take
      <4>4. \/ \E e \in Attempt : HookRead(h, e)
            \/ \E b \in Booking : PayRead(h, b) \/ ReconcileRead(h, b) \/ RefundRead(h, b)
        BY <1>1, <3>3
        DEF WebhookStep, RequestStep, Fail, HookKnown, HookRecord, HookDuplicate, HookFulfil,
            HookClose, HookNothing, PayCommit, PayExisting, ReconcileFetch,
            ReconcileSettle, ReconcileFail, RefundIssue, RefundRecord, Doing, Unemployed
      <4> QED
        BY <1>0, <2>2, <4>1, <4>2, <4>3, <4>4 DEF PaymentRequest
    <3>4. CASE /\ g = h
               /\ job[g].op \in {"hook", "lookup", "refund"}
               /\ \/ /\ job'[g].op = "recorded" /\ job[g].op = "hook" /\ job'[g].e = job[g].e
                  \/ /\ job'[g].op \in {"settle", "fail"} /\ job[g].op = "lookup"
                     /\ job'[g].b = job[g].b
                  \/ /\ job'[g].op = "refunded" /\ job[g].op = "refund"
                     /\ job'[g].b = job[g].b
      BY <1>0, <2>2, <3>4, JobParts DEF KnownInv, PaymentRequest
    <3> QED
      BY <1>1, <3>1, <3>2, <3>3, <3>4, HandlerMoves DEF JobMoves
  <2> QED
    BY <1>0, <2>1, <2>2, <2>3 DEF KnownInv
<1>2. ASSUME GatewayStep PROVE KnownInv'
  <2>1. UNCHANGED <<vars, job>>
    BY <1>2 DEF GatewayStep, AttemptEnds, OrderExpires
  <2>2. \A b \in Booking : order'[b] # "NONE" => order[b] # "NONE"
    BY <1>2 DEF GatewayStep, AttemptEnds, OrderExpires
  <2>3. \A e \in Attempt :
          /\ outcome[e] # "OPEN" => outcome'[e] # "OPEN"
          /\ outcome'[e] # "OPEN" => outcome[e] # "OPEN" \/ order[AttemptOf[e]] = "ACTIVE"
    BY <1>2 DEF GatewayStep, AttemptEnds, OrderExpires
  <2>4. UNCHANGED payment
    BY <2>1 DEF vars, rowVars
  <2>5. \A h \in Handler :
          /\ job'[h].op \in PaymentRequest => payment'[job'[h].b] # "NONE"
          /\ job'[h].op \in {"hook", "recorded"} => outcome'[job'[h].e] # "OPEN"
    BY <2>1, <2>3, <2>4, JobParts DEF KnownInv
  <2> QED
    BY <2>2, <2>3, <2>4, <2>5 DEF KnownInv
<1>3. ASSUME UNCHANGED <<gatewayVars, eventVars, job>> PROVE KnownInv'
  BY <1>0, <1>3, JobParts DEF KnownInv, gatewayVars
<1> QED
  BY <1>1, <1>2, <1>3 DEF SystemNext, systemVars

LEMMA SystemInvariant ==
  SystemSpec => []((TypeOK /\ PaymentTypeOK) /\ KnownInv)
<1>1. SystemInit => (TypeOK /\ PaymentTypeOK) /\ KnownInv
  <2>1. SystemInit => PaymentTypeOK
    BY DEF SystemInit, PaymentTypeOK, JobTypeOK, Job
  <2> QED
    BY <2>1, InitTypeOK, InitKnown DEF SystemInit
<1>2. (TypeOK /\ PaymentTypeOK) /\ KnownInv /\ [SystemNext]_systemVars
        => ((TypeOK /\ PaymentTypeOK) /\ KnownInv)'
  <2> SUFFICES ASSUME TypeOK, PaymentTypeOK, KnownInv, [SystemNext]_systemVars
               PROVE  ((TypeOK /\ PaymentTypeOK) /\ KnownInv)'
    OBVIOUS
  <2>1. TypeOK'
    BY StepImplements, NextTypeOK DEF PaymentTypeOK
  <2>2. PaymentTypeOK'
    BY NextPaymentTypeOK
  <2>3. KnownInv'
    BY NextKnown
  <2> QED
    BY <2>1, <2>2, <2>3
<1> QED
  BY <1>1, <1>2, PTL DEF SystemSpec

(* Types of the whole system.                                              *)
THEOREM SystemTypeCorrect == SystemSpec => []SystemTypeOK
<1>1. TypeOK /\ PaymentTypeOK => SystemTypeOK
  BY DEF SystemTypeOK, PaymentTypeOK, JobTypeOK
<1> QED
  BY <1>1, SystemInvariant, PTL

(* The booking service with the real payment service behind it behaves as  *)
(* SlotBooking says: what is proved there holds in the whole system.       *)
THEOREM SystemImplementsSlotBooking == SystemSpec => Spec
<1>1. SystemInit => Init
  BY DEF SystemInit
<1>2. PaymentTypeOK /\ KnownInv /\ [SystemNext]_systemVars => [Next]_vars
  BY StepImplements DEF PaymentTypeOK
<1> QED
  BY <1>1, <1>2, SystemInvariant, PTL DEF SystemSpec, Spec

----------------------------------------------------------------------------
(* A webhook event fulfils at most once.  The unique PaymentEvent row      *)
(* gives an event to one handler for ever, and that handler forgets it     *)
(* when it fulfils.                                                        *)

Holds(h, e) == Doing(h, "recorded") /\ job[h].e = e

EventInv ==
  /\ \A e \in Attempt : applied[e] <= 1
  /\ \A e \in Attempt : applied[e] # 0 => e \in recorded
  /\ \A h \in Handler, e \in Attempt :
       Holds(h, e) => /\ e \in recorded
                      /\ applied[e] = 0
                      /\ \A g \in Handler : Holds(g, e) => g = h

LEMMA InitEvent == SystemInit => EventInv
BY DEF SystemInit, EventInv, Holds, Doing, Unemployed

\* A handler's step records its event, or applies it and forgets it, or
\* leaves both histories alone and takes up nothing recorded.
LEMMA HandlerEvents ==
  ASSUME PaymentTypeOK, NEW h \in Handler, WebhookStep(h) \/ RequestStep(h) \/ Fail(h)
  PROVE  \/ /\ HookRecord(h)
            /\ job'[h].e = job[h].e
         \/ /\ HookFulfil(h)
            /\ job'[h] = Unemployed
         \/ /\ UNCHANGED <<recorded, applied>>
            /\ \A e \in Attempt : ~Holds(h, e)'
<1> USE DEF PaymentTypeOK, JobTypeOK, Holds, Doing
<1>1. ASSUME HookRecord(h) PROVE job'[h].e = job[h].e
  <2>1. job[h] \in [op : {"hook", "recorded"}, e : Attempt, seen : SeenStatus]
    BY <1>1 DEF HookRecord, Job, Unemployed
  <2> QED
    BY <1>1, <2>1 DEF HookRecord, Continue
<1>2. ASSUME HookFulfil(h) PROVE job'[h] = Unemployed
  BY <1>2 DEF HookFulfil, Complete
<1>3. ASSUME ~HookRecord(h), ~HookFulfil(h)
      PROVE  UNCHANGED <<recorded, applied>>
  BY <1>3 DEF WebhookStep, RequestStep, Fail, HookKnown, HookRead, HookDuplicate, HookClose,
              HookNothing, PayRead, PayCommit, PayExisting, ReconcileRead, ReconcileFetch,
              ReconcileSettle, ReconcileFail, RefundRead, RefundIssue, RefundRecord, eventVars
<1>4. ASSUME ~HookRecord(h), ~HookFulfil(h), NEW e \in Attempt, Holds(h, e)'
      PROVE  FALSE
  <2>1. job[h].op \in {"hook", "recorded"}
    BY <1>4, HandlerMoves DEF JobMoves, Unemployed
  <2>2. job[h] # Unemployed
    BY <2>1 DEF Unemployed
  <2>3. ~\E x \in Attempt : HookKnown(h, x) \/ HookRead(h, x)
    BY <2>2 DEF HookKnown, HookRead, Take
  <2>4. ~RequestStep(h)
    BY <2>1, <2>2 DEF RequestStep, PayRead, PayCommit, PayExisting, ReconcileRead,
                      ReconcileFetch, ReconcileSettle, ReconcileFail, RefundRead,
                      RefundIssue, RefundRecord, Take
  <2>5. HookDuplicate(h) \/ HookClose(h) \/ HookNothing(h) \/ Fail(h)
    BY <1>4, <2>3, <2>4 DEF WebhookStep
  <2>6. job'[h] = Unemployed
    BY <2>5 DEF HookDuplicate, HookClose, HookNothing, Fail, Complete
  <2> QED
    BY <1>4, <2>6 DEF Unemployed
<1> QED
  BY <1>1, <1>2, <1>3, <1>4

LEMMA NextEvent ==
  ASSUME TypeOK, PaymentTypeOK, EventInv, [SystemNext]_systemVars
  PROVE  EventInv'
<1> USE DEF PaymentTypeOK, JobTypeOK
<1>1. ASSUME NEW h \in Handler, WebhookStep(h) \/ RequestStep(h) \/ Fail(h)
      PROVE  EventInv'
  <2>0. \A g \in Handler \ {h} : job'[g] = job[g]
    BY <1>1, HandlerMoves
  <2>1. \A g \in Handler \ {h}, e \in Attempt : Holds(g, e)' <=> Holds(g, e)
    BY <2>0 DEF Holds, Doing
  <2>2. CASE HookRecord(h) /\ job'[h].e = job[h].e
    <3>1. job[h].e \in Attempt /\ job[h].e \notin recorded
      BY <2>2, JobParts DEF HookRecord, Doing, New
    <3>2. recorded' = recorded \cup {job[h].e} /\ UNCHANGED applied
      BY <2>2 DEF HookRecord
    <3>3. applied[job[h].e] = 0
      BY <3>1 DEF EventInv
    <3>4. ASSUME NEW g \in Handler, NEW e \in Attempt, Holds(g, e)'
          PROVE  /\ e \in recorded'
                 /\ applied'[e] = 0
                 /\ \A k \in Handler : Holds(k, e)' => k = g
      <4>1. CASE g = h
        <5>1. e = job[h].e
          BY <2>2, <3>4, <4>1 DEF Holds
        <5>2. \A k \in Handler \ {h} : ~Holds(k, e)
          BY <3>1, <5>1 DEF EventInv
        <5> QED
          BY <2>1, <3>1, <3>2, <3>3, <4>1, <5>1, <5>2
      <4>2. CASE g # h
        <5>1. Holds(g, e)
          BY <2>1, <3>4, <4>2
        <5>2. e \in recorded /\ applied[e] = 0 /\ e # job[h].e
          BY <3>1, <5>1 DEF EventInv
        <5>3. ~Holds(h, e)'
          BY <2>2, <5>2 DEF Holds
        <5>4. \A k \in Handler \ {h} : Holds(k, e)' => k = g
          BY <2>1, <5>1 DEF EventInv
        <5> QED
          BY <3>2, <5>2, <5>3, <5>4
      <4> QED
        BY <4>1, <4>2
    <3> QED
      BY <3>1, <3>2, <3>4 DEF EventInv
  <2>3. CASE HookFulfil(h) /\ job'[h] = Unemployed
    <3>1. job[h].e \in Attempt /\ Holds(h, job[h].e)
      BY <2>3, JobParts DEF HookFulfil, Holds, Doing
    <3>2. UNCHANGED recorded /\ applied' = [applied EXCEPT ![job[h].e] = @ + 1]
      BY <2>3 DEF HookFulfil
    <3>3. job[h].e \in recorded /\ applied[job[h].e] = 0
      BY <3>1 DEF EventInv
    <3>4. \A e \in Attempt : ~Holds(h, e)'
      BY <2>3 DEF Holds, Doing, Unemployed
    <3>5. \A g \in Handler \ {h}, e \in Attempt : Holds(g, e) => e # job[h].e
      BY <3>1 DEF EventInv
    <3>6. ASSUME NEW e \in Attempt
          PROVE  /\ applied'[e] <= 1
                 /\ applied'[e] # 0 => e \in recorded'
      BY <3>1, <3>2, <3>3 DEF EventInv
    <3>7. ASSUME NEW g \in Handler, NEW e \in Attempt, Holds(g, e)'
          PROVE  /\ e \in recorded'
                 /\ applied'[e] = 0
                 /\ \A k \in Handler : Holds(k, e)' => k = g
      BY <2>1, <3>1, <3>2, <3>4, <3>5, <3>7 DEF EventInv
    <3> QED
      BY <3>6, <3>7 DEF EventInv
  <2>4. CASE /\ UNCHANGED <<recorded, applied>>
             /\ \A e \in Attempt : ~Holds(h, e)'
    BY <2>1, <2>4 DEF EventInv
  <2> QED
    BY <1>1, <2>2, <2>3, <2>4, HandlerEvents
<1>2. ASSUME GatewayStep \/ UNCHANGED <<gatewayVars, eventVars, job>>
      PROVE  UNCHANGED <<eventVars, job>>
  BY <1>2 DEF GatewayStep, AttemptEnds, OrderExpires
<1>3. ASSUME UNCHANGED <<eventVars, job>> PROVE EventInv'
  BY <1>3 DEF EventInv, Holds, Doing, eventVars
<1> QED
  BY <1>1, <1>2, <1>3 DEF SystemNext, systemVars

(* Redelivered, concurrent and interrupted deliveries of one event fulfil  *)
(* at most once: handleWebhook's PaymentEvent insert decides.              *)
THEOREM EventsFulfilOnce == SystemSpec => []OneFulfilmentPerEvent
<1>1. EventInv => OneFulfilmentPerEvent
  BY DEF EventInv, OneFulfilmentPerEvent
<1>2. TypeOK /\ PaymentTypeOK /\ EventInv /\ [SystemNext]_systemVars => EventInv'
  BY NextEvent
<1> QED
  BY <1>1, <1>2, InitEvent, SystemInvariant, PTL DEF SystemSpec

----------------------------------------------------------------------------
(* Payments and bookings agree.  A payment that is, or is about to be,     *)
(* recorded as successful or refunded has a paid order, and its booking    *)
(* has left PENDING_PAYMENT, where nothing brings it back.                 *)

Settled(b) == status[b] \notin {"ABSENT", "PENDING_PAYMENT"} /\ order[b] = "PAID"

RowsAgree(b) ==
  /\ payment[b] \in {"SUCCESS", "REFUNDED"} => Settled(b)
  /\ payment[b] = "REFUNDED" => refunds[b] > 0
  /\ status[b] = "CONFIRMED" /\ SlotOf[b] \notin DarshanSlot => order[b] = "PAID"

JobAgrees(h) ==
  /\ Doing(h, "settle") => order[job[h].b] = "PAID"
  /\ job[h].op \in {"refund", "refunded"} => Settled(job[h].b)
  /\ Doing(h, "refunded") => refunds[job[h].b] > 0

MoneyInv ==
  /\ \A b \in Booking : RowsAgree(b)
  /\ \A e \in Attempt : outcome[e] = "SUCCESS" => order[AttemptOf[e]] = "PAID"
  /\ \A h \in Handler : JobAgrees(h)

LEMMA InitMoney == SystemInit => MoneyInv
BY DEF SystemInit, Init, MoneyInv, RowsAgree, JobAgrees, Doing, Unemployed

\* What the steps of the booking service may do to a row.
RowKept(b) ==
  /\ payment'[b] \in {"SUCCESS", "REFUNDED"} => payment'[b] = payment[b]
  /\ status'[b] = "CONFIRMED" /\ SlotOf[b] \notin DarshanSlot => status[b] = "CONFIRMED"
  /\ status[b] \notin {"ABSENT", "PENDING_PAYMENT"}
       => status'[b] \notin {"ABSENT", "PENDING_PAYMENT"}

LEMMA ServiceKeepsRow ==
  ASSUME TypeOK, RowInv, BookingServiceStep \/ Environment, NEW b \in Booking
  PROVE  RowKept(b)
<1> USE DEF TypeOK, RowKept
<1>1. ASSUME NEW p \in Worker, CreateCommit(p) PROVE RowKept(b)
  <2>1. req[p].b \in Booking /\ status[req[p].b] = "ABSENT"
    BY <1>1 DEF CreateCommit, Running, Request, Idle, RowInv, Creating
  <2> QED
    BY <1>1, <2>1 DEF CreateCommit
<1>2. ASSUME NEW p \in Worker, CancelCommit(p) \/ CheckInCommit(p) PROVE RowKept(b)
  BY <1>2 DEF CancelCommit, CheckInCommit
<1>3. ASSUME NEW c \in Cleaner, ExpireCommit(c) PROVE RowKept(b)
  BY <1>3 DEF ExpireCommit, ExpiredStatus
<1>4. CASE UNCHANGED <<status, payment>>
  BY <1>4
<1>5. \/ UNCHANGED <<status, payment>>
      \/ \E p \in Worker : CreateCommit(p) \/ CancelCommit(p) \/ CheckInCommit(p)
      \/ \E c \in Cleaner : ExpireCommit(c)
  BY DEF BookingServiceStep, Environment, WorkerStep, CleanerStep, CreateRead,
         CreateRefused, CancelRead, CheckInRead, QrVerify, QrRead, CheckInRejected,
         ExpireScan, ExpireRead, ExpireDone, Abort, UpdateSlot, GrowOld, rowVars
<1> QED
  BY <1>1, <1>2, <1>3, <1>4, <1>5

LEMMA ServiceMoney ==
  ASSUME TypeOK, PaymentTypeOK, RowInv, MoneyInv, BookingServiceStep \/ Environment,
         UNCHANGED <<gatewayVars, eventVars, job>>
  PROVE  MoneyInv'
<1>1. \A b \in Booking : RowKept(b)
  BY ServiceKeepsRow
<1>2. \A b \in Booking : Settled(b) => Settled(b)'
  BY <1>1 DEF Settled, RowKept, gatewayVars
<1>3. \A b \in Booking : RowsAgree(b)'
  BY <1>1, <1>2 DEF MoneyInv, RowsAgree, RowKept, gatewayVars
<1>4. \A h \in Handler : JobAgrees(h)'
  BY <1>2, JobParts DEF MoneyInv, JobAgrees, Doing, gatewayVars, PaymentTypeOK, PaymentRequest
<1> QED
  BY <1>3, <1>4 DEF MoneyInv, gatewayVars

LEMMA GatewayMoney ==
  ASSUME PaymentTypeOK, MoneyInv, GatewayStep
  PROVE  MoneyInv'
<1> USE DEF PaymentTypeOK
<1>1. UNCHANGED <<vars, refunds, job>>
  BY DEF GatewayStep, AttemptEnds, OrderExpires
<1>2. \A b \in Booking : order[b] = "PAID" => order'[b] = "PAID"
  BY DEF GatewayStep, AttemptEnds, OrderExpires
<1>3. \A e \in Attempt : outcome'[e] = "SUCCESS" => order'[AttemptOf[e]] = "PAID"
  <2>1. ASSUME NEW b \in Booking, OrderExpires(b)
        PROVE  \A e \in Attempt : outcome'[e] = "SUCCESS" => order'[AttemptOf[e]] = "PAID"
    BY <1>2, <2>1 DEF OrderExpires, MoneyInv
  <2>2. ASSUME NEW x \in Attempt, NEW o \in {"SUCCESS", "FAILED", "USER_DROPPED"},
               AttemptEnds(x, o)
        PROVE  \A e \in Attempt : outcome'[e] = "SUCCESS" => order'[AttemptOf[e]] = "PAID"
    BY <1>2, <2>2 DEF AttemptEnds, MoneyInv
  <2> QED
    BY <2>1, <2>2 DEF GatewayStep
<1>4. UNCHANGED <<status, payment>>
  BY <1>1 DEF vars, rowVars
<1>5. \A b \in Booking : Settled(b) => Settled(b)'
  BY <1>2, <1>4 DEF Settled
<1>6. \A b \in Booking : RowsAgree(b)'
  BY <1>1, <1>2, <1>4, <1>5 DEF MoneyInv, RowsAgree
<1>7. \A h \in Handler : JobAgrees(h)'
  BY <1>1, <1>2, <1>5, JobParts DEF MoneyInv, JobAgrees, Doing, PaymentRequest
<1> QED
  BY <1>3, <1>6, <1>7 DEF MoneyInv

\* What the steps of the payment service may do to the rows: open a payment,
\* fulfil a paid order, close a payment, or record a refund that was made.
LEMMA HandlerRows ==
  ASSUME PaymentTypeOK, KnownInv, MoneyInv, NEW h \in Handler,
         WebhookStep(h) \/ RequestStep(h) \/ Fail(h)
  PROVE  \/ UNCHANGED <<status, payment>>
         \/ \E b \in Booking :
              \/ PaymentOpened(b)
              \/ order[b] = "PAID" /\ PaymentCaptured(b)
              \/ \E s \in {"FAILED", "CANCELLED"} : ClosePayment(b, s)
              \/ Settled(b) /\ refunds[b] > 0 /\ ClosePayment(b, "REFUNDED")
<1> USE JobParts DEF PaymentTypeOK, Doing
<1>1. ASSUME PayCommit(h) PROVE \E b \in Booking : PaymentOpened(b)
  BY <1>1 DEF PayCommit
<1>2. ASSUME HookFulfil(h)
      PROVE  \E b \in Booking : order[b] = "PAID" /\ PaymentCaptured(b)
  BY <1>2 DEF HookFulfil, ReportsSuccess, Fulfil, MoneyInv
<1>3. ASSUME ReconcileSettle(h)
      PROVE  \E b \in Booking : order[b] = "PAID" /\ PaymentCaptured(b)
  BY <1>3 DEF ReconcileSettle, Fulfil, MoneyInv, JobAgrees, PaymentRequest
<1>4. ASSUME HookClose(h)
      PROVE  \E b \in Booking, s \in {"FAILED", "CANCELLED"} : ClosePayment(b, s)
  BY <1>4 DEF HookClose, ClosedAs
<1>5. ASSUME ReconcileFail(h)
      PROVE  \E b \in Booking, s \in {"FAILED", "CANCELLED"} : ClosePayment(b, s)
  BY <1>5 DEF ReconcileFail, PaymentRequest
<1>6. ASSUME RefundRecord(h)
      PROVE  \E b \in Booking :
               Settled(b) /\ refunds[b] > 0 /\ ClosePayment(b, "REFUNDED")
  BY <1>6 DEF RefundRecord, MoneyInv, JobAgrees, PaymentRequest
<1>7. \/ PayCommit(h) \/ HookFulfil(h) \/ ReconcileSettle(h) \/ HookClose(h)
      \/ ReconcileFail(h) \/ RefundRecord(h) \/ UNCHANGED <<status, payment>>
  BY DEF WebhookStep, RequestStep, Fail, HookKnown, HookRead, HookRecord, HookDuplicate,
         HookNothing, PayRead, ReconcileRead, RefundRead, PayExisting, ReconcileFetch,
         RefundIssue, vars, rowVars
<1> QED
  BY <1>1, <1>2, <1>3, <1>4, <1>5, <1>6, <1>7

LEMMA HandlerKeepsPaid ==
  ASSUME PaymentTypeOK, KnownInv, NEW h \in Handler,
         WebhookStep(h) \/ RequestStep(h) \/ Fail(h), NEW b \in Booking
  PROVE  /\ order[b] = "PAID" => order'[b] = "PAID"
         /\ refunds[b] > 0 => refunds'[b] > 0
<1> USE DEF PaymentTypeOK
<1>1. order[b] = "PAID" => order'[b] = "PAID"
  <2>1. ASSUME PayCommit(h), order[b] = "PAID" PROVE b # job[h].b
    BY <2>1 DEF PayCommit, PaymentOpened, KnownInv
  <2> QED
    BY <2>1, HandlerGateway
<1>2. refunds[b] > 0 => refunds'[b] > 0
  <2>1. ASSUME RefundIssue(h) PROVE refunds[b] > 0 => refunds'[b] > 0
    <3>1. job[h].b \in Booking
      BY <2>1, JobParts DEF RefundIssue, Doing, PaymentRequest
    <3> QED
      BY <2>1, <3>1 DEF RefundIssue
  <2>2. RefundIssue(h) \/ UNCHANGED refunds
    BY DEF WebhookStep, RequestStep, Fail, HookKnown, HookRead, HookRecord, HookDuplicate,
           HookFulfil, HookClose, HookNothing, PayRead, PayCommit, PayExisting,
           ReconcileRead, ReconcileFetch, ReconcileSettle, ReconcileFail, RefundRead,
           RefundRecord, gatewayVars
  <2> QED
    BY <2>1, <2>2
<1> QED
  BY <1>1, <1>2

LEMMA HandlerMoney ==
  ASSUME TypeOK, PaymentTypeOK, KnownInv, MoneyInv, NEW h \in Handler,
         WebhookStep(h) \/ RequestStep(h) \/ Fail(h)
  PROVE  MoneyInv'
<1> USE DEF PaymentTypeOK, JobTypeOK
<1>1. \A b \in Booking : /\ order[b] = "PAID" => order'[b] = "PAID"
                         /\ refunds[b] > 0 => refunds'[b] > 0
  BY HandlerKeepsPaid
<1>2. ASSUME NEW b \in Booking
      PROVE  (Settled(b) => Settled(b)') /\ RowsAgree(b)'
  <2> USE DEF TypeOK, Settled, RowsAgree
  <2>0. RowsAgree(b)
    BY DEF MoneyInv
  <2>1. CASE UNCHANGED <<status, payment>>
    BY <1>1, <2>0, <2>1
  <2>2. ASSUME NEW x \in Booking, PaymentOpened(x)
        PROVE  (Settled(b) => Settled(b)') /\ RowsAgree(b)'
    BY <1>1, <2>0, <2>2 DEF PaymentOpened
  <2>3. ASSUME NEW x \in Booking, order[x] = "PAID", PaymentCaptured(x)
        PROVE  (Settled(b) => Settled(b)') /\ RowsAgree(b)'
    BY <1>1, <2>0, <2>3 DEF PaymentCaptured
  <2>4. ASSUME NEW x \in Booking, NEW s \in {"FAILED", "CANCELLED"}, ClosePayment(x, s)
        PROVE  (Settled(b) => Settled(b)') /\ RowsAgree(b)'
    BY <1>1, <2>0, <2>4 DEF ClosePayment
  <2>5. ASSUME NEW x \in Booking, Settled(x), refunds[x] > 0, ClosePayment(x, "REFUNDED")
        PROVE  (Settled(b) => Settled(b)') /\ RowsAgree(b)'
    BY <1>1, <2>0, <2>5 DEF ClosePayment
  <2> QED
    BY <2>1, <2>2, <2>3, <2>4, <2>5, HandlerRows
<1>3. \A e \in Attempt : outcome'[e] = "SUCCESS" => order'[AttemptOf[e]] = "PAID"
  BY <1>1, HandlerGateway DEF MoneyInv
<1>4. ASSUME NEW g \in Handler PROVE JobAgrees(g)'
  <2> USE DEF JobAgrees, Doing, PaymentRequest
  <2>0. JobAgrees(g)
    BY DEF MoneyInv
  <2>1. CASE job'[g] = job[g]
    BY <1>1, <1>2, <2>0, <2>1, JobParts
  <2>2. CASE job'[g] = Unemployed
    BY <2>2 DEF Unemployed
  <2>3. CASE g = h /\ job'[g].op = "refund" /\ job[g] = Unemployed
    <3>1. PICK b \in Booking : RefundRead(h, b)
      BY <2>3
      DEF WebhookStep, RequestStep, Fail, HookKnown, HookRead, HookRecord, HookDuplicate,
          HookFulfil, HookClose, HookNothing, PayRead, PayCommit, PayExisting,
          ReconcileRead, ReconcileFetch, ReconcileSettle, ReconcileFail, RefundIssue,
          RefundRecord, Take, Unemployed
    <3>2. job'[g].b = b /\ payment[b] = "SUCCESS"
      BY <2>3, <3>1 DEF RefundRead, Take
    <3> QED
      BY <1>2, <2>3, <3>2 DEF MoneyInv, RowsAgree
  <2>4. CASE g = h /\ job'[g].op = "settle" /\ job[g].op = "lookup" /\ job'[g].b = job[g].b
    <3>1. ReconcileFetch(h)
      BY <2>4, HandlerMoves
      DEF WebhookStep, RequestStep, Fail, HookKnown, HookRead, HookRecord, HookDuplicate,
          HookFulfil, HookClose, HookNothing, PayRead, PayCommit, PayExisting,
          ReconcileRead, ReconcileSettle, ReconcileFail, RefundRead, RefundIssue,
          RefundRecord, Take, Complete, Unemployed
    <3>2. job[g].b \in Booking
      BY <2>4, JobParts
    <3>3. order[job[g].b] = "PAID"
      <4>1. CASE order[job[h].b] = "EXPIRED"
        <5>1. job[h] \in [op : PaymentRequest \cup {"pay"}, b : Booking]
          BY <2>4 DEF Job, Unemployed
        <5> QED
          BY <2>4, <3>1, <4>1, <5>1 DEF ReconcileFetch, Continue
      <4>2. CASE order[job[h].b] \notin {"PAID", "EXPIRED"}
        BY <2>4, <3>1, <4>2 DEF ReconcileFetch, Complete, Unemployed
      <4> QED
        BY <2>4, <4>1, <4>2
    <3> QED
      BY <1>1, <2>4, <3>2, <3>3
  <2>5. CASE g = h /\ job'[g].op = "refunded" /\ job[g].op = "refund" /\ job'[g].b = job[g].b
    <3>1. RefundIssue(h)
      BY <2>5, HandlerMoves
      DEF WebhookStep, RequestStep, Fail, HookKnown, HookRead, HookRecord, HookDuplicate,
          HookFulfil, HookClose, HookNothing, PayRead, PayCommit, PayExisting,
          ReconcileRead, ReconcileFetch, ReconcileSettle, ReconcileFail, RefundRead,
          RefundRecord, Take, Complete, Unemployed
    <3>2. job[g].b \in Booking
      BY <2>5, JobParts
    <3>3. refunds'[job[g].b] > 0
      BY <2>5, <3>1, <3>2 DEF RefundIssue
    <3> QED
      BY <1>2, <2>0, <2>5, <3>2, <3>3
  <2> QED
    BY <1>2, <2>1, <2>2, <2>3, <2>4, <2>5, HandlerMoves DEF JobMoves
<1> QED
  BY <1>2, <1>3, <1>4 DEF MoneyInv

LEMMA NextMoney ==
  ASSUME TypeOK, PaymentTypeOK, KnownInv, RowInv, MoneyInv, [SystemNext]_systemVars
  PROVE  MoneyInv'
<1>1. CASE UNCHANGED systemVars
  BY <1>1 DEF systemVars, vars, rowVars, gatewayVars, MoneyInv, RowsAgree, JobAgrees,
              Settled, Doing
<1> QED
  BY <1>1, ServiceMoney, GatewayMoney, HandlerMoney DEF SystemNext

LEMMA MoneyInvariant == SystemSpec => []MoneyInv
<1>1. SystemSpec => []RowInv
  BY SystemImplementsSlotBooking, RowsBornOnce
<1>2. TypeOK /\ PaymentTypeOK /\ KnownInv /\ RowInv /\ MoneyInv /\ [SystemNext]_systemVars
        => MoneyInv'
  BY NextMoney
<1> QED
  BY <1>1, <1>2, InitMoney, SystemInvariant, PTL DEF SystemSpec

(* No reader finds a payment that succeeded or was refunded and a booking  *)
(* that still waits for it: fulfilment is one transaction, and neither the *)
(* clean-up nor a cancellation undoes half of it.                          *)
THEOREM PaymentsConfirm == SystemSpec => []CapturedMeansConfirmed
<1>1. MoneyInv => CapturedMeansConfirmed
  BY DEF MoneyInv, RowsAgree, Settled, CapturedMeansConfirmed
<1> QED
  BY <1>1, MoneyInvariant, PTL

(* Webhook and reconciliation accept a payment only when the gateway was   *)
(* paid, so no paid service is confirmed for free.                         *)
THEOREM NothingIsFree == SystemSpec => []NothingForFree
<1>1. MoneyInv => NothingForFree
  BY DEF MoneyInv, RowsAgree, Settled, NothingForFree
<1> QED
  BY <1>1, MoneyInvariant, PTL

(* A refund is recorded only after the gateway made it.                    *)
THEOREM RefundsAreMade == SystemSpec => []RefundedMeansReturned
<1>1. MoneyInv => RefundedMeansReturned
  BY DEF MoneyInv, RowsAgree, RefundedMeansReturned
<1> QED
  BY <1>1, MoneyInvariant, PTL

(* What is proved of SlotBooking holds with the payment service behind it. *)
THEOREM SystemAdmission ==
  SystemSpec => []BookedWithinPeak /\ []ValidHasQr /\ AdmittedOnce
BY SystemImplementsSlotBooking, AdmissionBounded, AdmissibleHasQr, NobodyAdmittedTwice
=============================================================================
