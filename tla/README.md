# Temple backend: verification

This directory holds the TLA+ models of the temple backend (NestJS, Prisma on
PostgreSQL, Redis, the Cashfree payment gateway), the TLC configurations that
check them on small instances, and TLAPS proofs of theorems about them for every
size of instance. Paths below are relative to `src/`, the repository's root;
`PROJECT.json` maps every definition to the lines it models.

## 1. The system

One or more instances of the same NestJS process serve HTTP
(`docs/DEPLOYMENT.md:19,42,126-134`). They share PostgreSQL and Redis and nothing
else. Everything below happens in request handlers, in one scheduler per
instance, and at the gateway, which calls back by webhook.

| Component | State it keeps | Operations that change it | What makes it correct |
|---|---|---|---|
| Slot bookings, `src/modules/booking` | `Booking` rows, `bookedCount` of the slot | create (puja, seva, darshan), cancel, check in at the desk, expire | never more seats admitted than the slot had; every hold released; one admission per booking |
| Slot administration, `puja`, `seva`, `darshan` | `PujaSlot`, `SevaSlot`, `DarshanSlot` rows | create and update slots | a change of capacity cannot be lost in a race with a booking |
| QR check-in, `qr` | `qrToken`, `CheckIn` rows | verify, check in, check out, regenerate | a token admits once |
| Payments, `payments` | `Payment`, `PaymentEvent` rows | open an order, webhook, status lookup, refund | money and entity agree; one fulfilment per event; every event answered |
| Cashfree (external) | orders, attempts, refunds | attempts succeed, fail, are dropped; orders expire | delivers events at least once |
| Reservation clean-up, `admin` | a Redis lock | one pass over bookings, orders and lodging every five minutes, also on request of an administrator | releases what nobody pays for, at most once |
| Prasad shop, `prasad` | `PrasadProduct.stock` and `reservedStock`, `PrasadOrder` rows | order, fulfil, edit stock and status, expire | what is reserved exceeds the stock by no more than was given up twice; an order is taken from stock once, and again only when it is set back |
| Accommodation, `accommodation` | `Room`, `AccommodationBooking` rows | book, verify payment, check in and out, cancel, expire | stays in a room do not overlap |
| Mahaprasad, `mahaprasad` | `MahaprasadSlot.bookedCount`, bookings | book, cancel, check in, update slot | the count is that of the people who come; nobody eats unpaid |
| Events, `events` | `Event.bookedCount`, registrations | register, return, cancel, check in, update, delete | those still to come overfill it by no more than the requests in flight; a code admits once |
| Donations, `donations` | `Donation`, `DonationReceipt` rows | create, fulfil | one receipt per donation; one made online succeeds only when it is paid |
| Authentication, `auth` | OTP, attempts, cool-down and refresh tokens in Redis; `User` rows | send OTP, verify, refresh, log out | an OTP is used once, attempts are bounded, a refresh token rotates |
| Rate limiting, `common/guards` | window counters in Redis | count a request | a window ends |
| Staff and roles, `admin` | `User.role`, `User.status`, staff assignments | change role or status, assign, remove | no administrator is left without one |
| Darshan schedules, `darshan` | `DarshanSchedule`, the slots generated from it | create, update, delete, generate slots | slots that can be booked follow the last change that the code takes for one |
| Catalogue (temples, deities, pujas, sevas, aarti, gallery, gurukul, paath, announcements), addresses | rows that refer to one another | create, link, delete | a deletion keeps the records of money, and the rows of other temples as long as nothing moves a cause, product or room |
| Jigyasa, notifications, profiles | single rows | create, read, update, delete | no relation between rows to keep |
| Aggregated pages, `pages` | cache entries in Redis | read, which stores | an edit is shown in the end |

Interactions. A payment belongs to one entity (booking, prasad order, lodging or
donation), and the transaction that marks it SUCCESS also fulfils that entity
(`payment.service.ts:28-109`). The clean-up cancels entities and their payments
in transactions of its own. Neither calls the other: they meet in the rows.
Services that edit a table do not tell the pages, which therefore show what was
true when they were built, until Redis drops them. Deleting a row of the catalogue
takes along, by `onDelete: Cascade` in `prisma/schema.prisma`, rows that other
services wrote.

What is hard here:

 - transactions run at PostgreSQL's default READ COMMITTED, and no code locks a
   row before reading it. Every handler that reads, decides and then writes can be
   overtaken between the read and the write;
 - webhooks are redelivered, overlap with status lookups and arrive in any order;
 - a process can die between two statements that no transaction joins, and does
   so between recording an event and acting on it;
 - passes of the clean-up overlap with payments, cancellations and one another,
   also the scheduled ones: a lock in Redis may expire while its holder works, and the
   failure of one of three parallel passes frees it beside the other two;
 - what is kept in Redis (an OTP and its attempts, refresh tokens, windows, pages,
   the lock) is read and written key by key, expires in between, and outlives crashes.

The full list, each hazard at its line with the properties that would catch it,
is under `hazards` in `PROJECT.json`.

## 2. Modules

```
SeatLedger            what a slot's count promises (abstract specification)
   ^ refinement (run serial, proved: ServiceImplementsLedger)
SlotBooking           booking service, slots, check-in, clean-up of bookings
   ^ EXTENDS, proved refinement (SystemImplementsSlotBooking)
BookingPayments       the payment service and the gateway behind it
   (SlotBooking)
   ^ EXTENDS, proved refinement (SchedulerImplementsSlotBooking)
CleanupScheduler      the scheduler's cycles on several instances and their lock
PrasadShop            products, orders, their payment and clean-up
Lodging               rooms, stays, their payment, check-in and clean-up
Registrations         events, registrations, check-in of attendees
Offerings             donations and mahaprasad meals, and their payments
SignIn                OTPs, refresh tokens, account status, rate limiting
Catalogue             rows with keys to one another, cascades of deletions
DarshanSchedules      schedules and the slots generated from them
PageCache             aggregated pages and the tables they are made of
MC<module>            instances for TLC; MCPublishing has the last three together
<module>Proofs        theorems; BookingSystemProofs has those of BookingPayments and
                      CleanupScheduler, PublishingProofs those of Catalogue and
                      DarshanSchedules
```

### How code becomes steps

A handler's transaction is split where another transaction can come in between:
a *read* step that stores in `req` (or `job`) what the handler remembers, and a
*commit* step with all its writes. `UPDATE ... WHERE` and relative updates
(`increment`, `decrement`) take the row lock and are evaluated on the committed
row, so they belong to the commit step and use the current value; everything the
code computed from a row it fetched earlier uses the remembered one. `Abort` (or
`Fail`) ends a request at any point: a crash, a rolled back transaction, a
refused call. Locks held inside a transaction matter in one place, the payment
row that a fulfilment updates before it reads the prasad order; there they are
modelled (`PaymentLocked`). Several reads of one handler are one step where nothing
the handler decides depends on two of them being apart.

### SlotBooking

One record per row: `capacity`, `active`, `booked` (bookedCount) of a slot;
`status`, `qr` (has a qrToken), `payment` (status of its payment row) of a
booking; `checkIns` is the `CheckIn` table. `overdue` abstracts `createdAt`
against the clean-up's cutoff. The three `create...Booking` functions differ in
that darshan is free and CONFIRMED at once; they are one action. `peak` is a
history variable, the highest capacity a slot ever had: lowering a capacity below
`bookedCount` is legal, so the bound the code can promise is the peak.

| Actions | Code |
|---|---|
| `CreateRead`, `CreateCommit`, `CreateRefused` | `createPujaBooking`, `createSevaBooking`, `createDarshanBooking` |
| `CancelRead`, `CancelCommit` | `cancelBooking` |
| `CheckInRead`, `CheckInCommit`, `CheckInRejected` | `markCheckedIn` |
| `QrVerify`, `QrRead` (then as above) | `verifyQrToken`, `checkInBooking` |
| `ExpireScan`, `ExpireRead`, `ExpireCommit`, `ExpireDone` | `expirePendingBookings` |
| `UpdateSlot` | `updateSlot` of puja, seva, darshan |
| `PaymentOpened`, `PaymentCaptured`, `PaymentClosed` | what the payment service does to these rows |

The last line is an interface: within `SlotBooking` the payment service may do
these three things at any time; `BookingPayments` has the real one. `LateCapture`
FALSE keeps from it the payments of bookings whose status is CANCELLED; a booking that
waits, or that the desk let in unpaid, may be paid all the same.

### BookingPayments

Adds the gateway (`order`, `outcome`, `refunds`), the `PaymentEvent` rows
(`recorded`), which events were answered (`acked`) and what each handler is doing
(`job`). `createPaymentForBooking` is `PayRead`, `PayCommit`, `PayExisting`;
`handleWebhook` is `HookKnown`, `HookRead`, `HookRecord`, `HookDuplicate`,
`HookFulfil`, `HookClose`, `HookNothing`; `reconcilePayment` is `ReconcileRead`,
`ReconcileFetch`, `ReconcileSettle`, `ReconcileFail`; `refundPayment` is
`RefundRead`, `RefundIssue`, `RefundRecord`. `HookRead` merges the look-up of the
event and that of the payment: events are only ever added, and the insert checks
uniqueness again, so an event seen absent too early ends in `HookDuplicate`.

Gateway orders whose payment row was never committed are left out (no client has
their session id), so are webhooks for unknown payments (answered, nothing
changes), signatures and amounts. A refund counts as made when the gateway accepted it.

### PrasadShop

`stock` and `reserved` are the columns of a product, `status` and `payment` those
of an order and its payment. `PlaceOrder` is one step: each item's conditional
UPDATE holds its row until the commit, so no other order sees a part of it (orders
that lock their products in opposite ways deadlock, and one is rolled back, which
leaves nothing). `FulfilRead`/`FulfilCommit` is the prasad branch of
`fulfillEntityOnSuccess` within the transaction that already updated the payment.
Webhook and status lookup decide to fulfil on a payment status read earlier, so
`FulfilRead` accepts any payment. `entered` marks products whose stock an
administrator wrote: `updateProduct` writes it unasked, `adjustStock` and
`updateStock` write an absolute value computed from a stale row. `UpdateOrderStatus`
sets any status after any other, PLACED included. `taken`, `freed` and `reopened`
are histories: how often an order was taken from stock, was released by a pass, and
was set back to PLACED. Each taking or release gives up one reservation, so
`ReservedExact` speaks of the products whose orders had one of them in all.
`reservedStock` drifts otherwise, and `NeverOversold` therefore does not mention it:
what the orders that gave up nothing want (`Holding`) exceeds the stock by no more
than what other orders gave up again (`Repeated`). So the stock does go below zero, by
an order that expires while it is paid, and by nothing else than that, its
reopening, or an entry by hand.

### Lodging

`status`, `qr` and `payment` are those of a stay and its payment, `available` the
rooms whose status is AVAILABLE, `CheckIn` and `CheckOut` the nights. A room has no
counter; the overlap query (`HoldsRoom`, `Clash`) is all that keeps stays apart, and
every later handler updates a stay by its id alone. `Capture` stands for
`verifyBookingPayment` and for the lodging branch of `fulfillEntityOnSuccess`: both
write the payment, CONFIRMED and a new token in one transaction, on a payment status
read earlier, so the step asks for nothing but a payment row. `ClosePayment` is, as
in `SlotBooking`, what the payment service may do to that row.

| Actions | Code |
|---|---|
| `CreateRead`, `CreateCommit` | `createBooking` |
| `CheckInRead`, `CheckInCommit` | `checkIn` at the desk |
| `QrVerify`, `QrRead` (then `CheckInCommit`) | `checkInAccommodation` |
| `CheckOutRead`, `CheckOutCommit` | `checkOut` (COMPLETED), `checkOutAccommodation` (CHECKED_OUT) |
| `CancelRead`, `CancelCommit` | `cancelBooking` |
| `ExpireScan`, `ExpireRead`, `ExpireCommit`, `ExpireDone` | `expirePendingBookings` |
| `UpdateRoom` | `updateRoom` |

`raced` and `revived` are history variables: the pairs of stays whose creations
overlapped in time, and the stays that held their room again after losing it. They
name the two ways in which a room is given twice, and `DoubleStaysExplained` says
that there is no third.

### CleanupScheduler

Adds to `SlotBooking` the Redis key `lock:reservation_cleanup` and how far
`runCleanupCycle` is on each instance (`stage`). `CycleStart` is `SET NX EX`,
`CycleScan` (the answer to the query of the overdue bookings) and `CyclePass` drive
the pass of `SlotBooking`, `PassFails` ends it. `LockRead` and `LockDelete` are the GET
and DEL of the `finally` block, which nothing joins. The bookings pass is one of three
in a `Promise.all` (`admin.service.ts:715-720`), and the rejection of any ends the cycle:
`LockRead` may come while the pass still runs (`Passing`), which then goes on without
the lock, even beside the next cycle of its instance. `LockExpires` may come at any
time: nothing bounds a pass by the lock's life. `Crash` leaves the lock behind.
`Working` are the cycles whose pass or whose release is not over.
`late` are the cycles between their GET and their DEL whose lock is gone, whoever took
it away; `excused` remembers the cycles that lost their lock while they ran (to its
expiry, to the DEL of a late cycle, to that of a cycle of their own instance, or to
their own `finally` block ahead of the pass), and `CyclesApart` says that only beside
such a cycle a second one works. The instance, not the cycle, is the value of the
lock, so two cycles of one instance cannot be told apart by it.

### Registrations

A registration is unique per event and user and is written over when the user
comes back. Capacity is checked by counting the REGISTERED rows, so whoever is checked in
(ATTENDED, `Inside`) no longer counts; `bookedCount` (`booked`) is kept
beside them and decides nothing. `token` counts the QR tokens a row was given.

| Actions | Code |
|---|---|
| `RegisterRead`, `RegisterCommit` | `register` |
| `CancelRead`, `CancelCommit` | `cancelRegistration` |
| `QrVerify`, `QrRead`, `QrCommit` | `verifyQrToken`, `checkInEvent` |
| `UpdateEvent`, `DeleteEvent` | `updateEvent`, `deleteEvent` |

Histories: `peak` and `limitless` (the largest limit, and whether there ever was
none), `entries` and `reentered` (which codes were let in, and which twice) and
`contested` (registrations that another request scanned or wrote during a scan).

### Offerings

Meals: `BookRead`/`BookCommit` is `bookSlot`, `CancelRead`/`CancelCommit` is
`adminCancelBooking`, `CheckInRead`/`CheckInCommit` is `adminCheckIn`, `UpdateSlot`
is `updateSlot`. Donations: `DonateDirect` is `createDonation` for staff or with
`isDirect` in the request, which any devotee may set: donation, payment and receipt
are SUCCESS and nothing is paid (`direct`, apart from `captured`, what the gateway was
paid; without an order at the gateway nothing is captured or closed later, `HasOrder`). `DonateOnline`, `OrderCreated` and `RecordPayment` are it online: the row, the order
at Cashfree, and the payment row afterwards, each of which may be the last. `Capture`, `ClosePayment` and
`RefundPayment` are what the payment service does to either; `Capture` writes the
receipt of a donation and leaves a meal as it is, as `fulfillEntityOnSuccess` has no
branch for meals. The event table that guards redelivery is in `BookingPayments`;
here a capture may repeat, and the look-up of a receipt is what is left.

### SignIn

| Actions | Code |
|---|---|
| `GuardCount`, `GuardOpen`, `WindowExpires` | `RateLimitGuard.canActivate`: INCR, then EXPIRE when it was the first |
| `SendRead`, `SendStore`, `SendReset`, `SendDeliver` | `sendOtp`: cool-down, OTP, attempts, message |
| `VerifyRead`, `MatchRight`, `MatchWrong`, `CountGuess`, `Invalidate`, `Accept`, `Enter` | `verifyOtp` |
| `StoreToken`, `RefreshRead`, `RefreshDelete` | `storeRefreshToken`, `refreshTokens` |
| `Logout` | `logout` |
| `UpdateStatus` | `updateStatus` of the administration |

Every key may expire at any time; `Abort` ends a request between any two calls of
Redis. `Logout` deletes the key of the token it is given, whether or not there is one,
and reports success; with a token that was `exchanged` it ends nothing. An OTP has no value in the model: whether a guess matches is a choice.
`guesses` and `matches` count what was compared with the present OTP while the phone
is not loose, `origin` is
the sign-in a refresh token descends from, `ended` the sessions logged out. `loose`
(phones with requests at once, or one that died half way), `shared` (sessions
renewed while they ended) and `orphaned` (windows whose opener died before EXPIRE)
name the circumstances without which the properties hold, and outside of which the
code gives no such promise.

### Catalogue

`data` is the database as far as keys go: each row that exists, with the rows its
foreign keys refer to. What PostgreSQL does is the external part: `KeysOf` is the
list of keys and their `onDelete` from `prisma/schema.prisma`, `Delete` computes the
rows a deletion takes along and the keys it sets to null. A service's creation is
what it looked up and compared (`Asks`) and then `Insert`, or `InsertFails` when a
row it refers to is gone by then. One action per creating method, so that the
checks each makes, or leaves out, are its own: a puja booking takes the temple from
the slot, a donation compares its cause's temple with the one asked for. `Relink` is
an update that changes keys: bodies without a class pass the validation as they come
(`validation.pipe.ts:13-16`) and go to Prisma, `templeId` and all, so each of the
nineteen updating methods may give a row any keys the database accepts. `moved` are
the causes, products and rooms that went to another temple that way. `Booking.slotId` is not a foreign key: a booking
outlives its slot.

### DarshanSchedules

`updateSchedule` is not a transaction: `UpdateSchedule` writes the row,
`Deactivate` sets the coming slots INACTIVE, `ReadPlan` reads the schedule again,
`InsertSlots` is `createMany` with `skipDuplicates`. A slot of the same schedule,
day and start is unique and is left as it is, INACTIVE too. Whether slots follow is
decided by the truth of what the body gives (`darshan.service.ts:245`): `UpdateOthers`
also writes the values in `Falsy` (a capacity of 0, an empty time), and `heeded` keeps
what the schedule said when slots were last to follow. `tampered` are the
schedules with overlapping or broken updates, or with slots edited one by one.

### PageCache

The content of a table is a version. Each of the thirteen pages has its time to
live and the tables it reads, one by one within a `Promise.all`; `PageAsked`,
`TableRead`, `PageHit`, `NextPhase`, `PageStore`, `BuildFails` are one request,
`PageExpires` the end of the time to live, `Edit` any service that writes a table.

## 3. Runs

| Run | Instance | States | What it shows |
|---|---|---|---|
| `races` | 1 slot of 1 or 2 seats, changed at any time, bookings of 1 and 2 seats, 2 requests, 1 clean-up pass, late payments, no payment closed but by the pass | 1.1 M | admission is bounded, admission happens once and with a token, in every interleaving |
| `serial` | puja and darshan slot, capacities 1 and 2, 3 bookings, one thing at a time | 265 k | the service implements `SeatLedger`; cancel, expire and create balance; nothing but a payment moves on who was admitted |
| `release` | 1 seat, 1 booking, 1 request, 2 cycles on 2 instances, fair | 255 k | cycles work apart unless the lock was lost, or freed beside a pass that still runs; every unpaid hold is released, crashes and lost locks included |
| `payments` | 1 booking, 2 attempts, 2 payment handlers, a worker that may also clean up | 768 k | money and booking agree |
| `answers` | 1 booking, 1 attempt, 2 handlers, fair | 46 k | every event is answered, every paid order settled |
| `prasad` | 1 product with 2 units, orders of 1 and 2, one of which is set back to PLACED once, 2 desks, 1 pass | 994 k | stock, reservations and orders agree but for what an order gives up twice |
| `lodging` | 1 room, 2 stays that share a night, 2 instances, one of which also cleans up | 859 k | nobody stays unpaid; every double stay has one of two causes |
| `registrations` | 1 event, 2 registrations, 2 requests, capacities none and 1, 2 codes each | 1.6 M | how far an event overfills beside those inside, that the counter never runs ahead of the rows, that a code admits once |
| `offerings` | 1 donation, 1 session, bookings of 1 and 2 people, capacities 2 and 3, 2 requests | 780 k | one receipt per donation that is paid, or called direct; meals are paid for and counted |
| `accounts` | 1 phone, 2 tokens, 2 requests, the window of `verify` with 1 point, 2 attempts | 1.9 M | an OTP is limited, logout with the current token is final, windows end |
| `publishing` | a row of every table, two temples, ten families of tables; 1 schedule, 2 starts, 2 terms, one of which is falsy, 2 days; 3 pages, 2 builders | 154 k | deletions keep money, and other temples' rows unless what they hang on moved; slots follow schedules; edits are shown |
| `overbooking` | 1 slot of 1 seat | | counterexample, section 5 |

Why these bounds. A race in this code is between two transactions on one row (or
on a booking and its slot), so two actors of each kind on one slot, one order or
one product reach every pairwise order; the second booking is there so that a seat
can be sold again. One booking wants two seats, so that a forgotten quantity shows,
and capacity is one short of the demand, so that refusals happen. Two attempts are
the least that allows a failure and a success event of one order. Bounds that cut
off behaviour are three: `MaxDeficit` stops following a `bookedCount` that double
cancellation drives below zero, `MaxRefunds` the number of refunds executed, and
`MaxReopenings` how often an order is set back to PLACED: once for the first of the two,
which is enough for it to be taken twice, and to give up twice what the other one needs.
The theorems hold for every value of each, and for any number of actors.
`release` has two cycles, since liveness takes its time: that a third cycle may lose
its lock to one that read the key two locks ago is for the theorem
`CyclesOverlapOnlyExcused` to cover (its invariant was also checked with three cycles,
on 1.0 M states).
In `serial`, `release`, `overbooking`, `prasad` and `lodging` payments are closed only as
CANCELLED: no guard tells the three apart. In `races` only the clean-up pass closes one, as
the pass asks no more than whether a payment is SUCCESS; closings beside everything else
are in `payments` and `release`.

`registrations` lets a row have two codes (`MaxTokens`), the least with which a
registration is cancelled and renewed, and follows `bookedCount` down to -1
(`MinBooked`). `accounts` needs two requests for a race, two tokens for a renewal
(interchangeable, as are the requests: no constant tells them apart)
and two attempts, one below the limit and one at it; the guard is watched on one
route, as routes share no key. `Spent`, in `publishing`, is which rows never come to
be: a behaviour of the catalogue has the rows of one of ten families of tables that
hang together, each with the second temple, which is where a row could hang on two.
All tables at once would add products of deletions that do not meet. `Horizon` and
`LastDay` give a schedule the days today and tomorrow and let one pass. The pages
are one of one phase, one of two and one that is never kept; `MaxEdits` 1 suffices
for a page older than its table.

`MCPublishing` chooses with `part` which of its three modules runs, as they share no
state: the sizes add up instead of multiplying.

`CHECK_DEADLOCK FALSE` stands where the system may rest: every booking settled
(`races`, `serial`, `payments`, `answers`, `prasad`), holds released and no more
requests to make (`release`), an event deleted or its codes used up (`registrations`),
everything created and deleted, the days over and the pages gone (`publishing`).

Fairness. `release` (`SchedulerFairness`) assumes that time passes (`GrowOld`), that
the timer of some instance fires again and again, as the scheduler's interval does
(`reservation-cleanup.scheduler.ts:32-60`), that the lock expires, that cycles go
on, fail or crash, and strong fairness of their scan, read and commit steps, that is, not
every pass dies at the same point. All of it is asked of the cycles together, since
an instance may die for good. `LateCapture` is FALSE there only to bound the states; the
property also holds with TRUE. `publishing` (`PagesFairness`) assumes that
keys expire and that requests end; without a bound on edits nothing would have to be
shown, so the property speaks of the time when edits have stopped.
`answers` assumes that a
request ends (it goes on or fails), that Cashfree redelivers an event until it is
answered and that not every delivery dies half way (`WebhookFairness`), and, for
settlement, that the client polls the payment's status (`PollingFairness`).
Nothing else in the code retries.

## 4. Proofs

`ASSUME`s are only on constants: `SlotAssumption` (quantities are positive, slots
and capacities are what their types say), `PaymentAssumption` (the payment service may close
a payment with any of its three statuses, at any time), `ShopAssumption` and
`ClosingsAssumption` (what an order's payment is closed as is among these three),
`LodgingAssumption` (a stay leaves after it arrives), `SchedulerAssumption`
(a cycle belongs to an instance), `RegistrationsAssumption` (rows and
requests are finitely many), `OfferingsAssumption` (a booking is for somebody),
`SignInAssumption` (limits are positive), `CatalogueAssumption` (each row is of a
table of the schema) and `SchedulesAssumption`. None is about behaviour.

Three theorems about slots (`SeatsAreConserved`, `ServiceImplementsLedger`,
`NoOverbookingOnTime`) say what the code gives when two
things are kept from it, and name both as hypotheses: `LateCapture = FALSE`, no
payment arrives for a booking that was cancelled or expired, and `[]OnePerBooking`,
no two handlers are past their first read of one booking at once. `AdmissionsStand`
has the second one only. Any number of
handlers may work at once on different bookings of one slot, and creations race for
its seats as they like, which is what these theorems add to the run `serial`. Without either
hypothesis the code breaks them (section 5).

| Theorem | Argument |
|---|---|
| `SlotBookingProofs!TypeCorrect` | inductive as it stands |
| `AdmissionBounded` | `BookedWithinPeak` is not inductive: the capacity a create request remembers may be out of date. `AdmissionInv` adds that it, and the current capacity, are at most the peak; the conditional update then keeps the count below |
| `NobodyAdmittedTwice` | only `CheckInCommit` writes CHECKED_IN, guarded by the unique row |
| `AdmissibleHasQr` | each writer of CONFIRMED or CHECKED_IN leaves a token; expiry and cancellation leave the statuses it speaks of |
| `RowsBornOnce` | `RowInv`: requests refer to rows that exist, a creation to one that does not, and rows that do not exist have no payment, token or check-in |
| `SeatsAreConserved` | `LedgerInv`: the count is the number of seats of the bookings that hold one. `SteadyInv` makes it inductive: what a handler remembers of the status of its booking is still so, because no other handler works on that booking and late payments are out, so that each release finds its seats held. The rest is cardinality: a booking's seats are added and removed as one block (`SeatUnits`) |
| `AdmissionsStand` | from `SteadyInv`: a cancellation or an expiry writes over a status that is still the one it read, which is not CHECKED_IN. The payment of a booking that the desk let in unpaid does write over it, and leaves CONFIRMED |
| `ServiceImplementsLedger` | step by step: the commit of a creation is `Admit`, that of a cancellation or expiry `Release`, a new highest capacity `Announce`; every other step stutters. The count a commit starts from is the ledger's by `SeatsAreConserved` |
| `NoOverbookingOnTime` | the bookings that stand are holders, and `AdmissionBounded` bounds the count |
| `BookingSystemProofs!SystemImplementsSlotBooking` | every step of the composition is a step of `SlotBooking` or leaves its variables alone; uses `KnownInv` (a handler works on a payment that exists, except before it opens it) |
| `EventsFulfilOnce` | `EventInv`: an event taken up past the insert is recorded, no two handlers hold the same recorded event, and an event not recorded fulfilled nothing |
| `PaymentsConfirm`, `NothingIsFree`, `RefundsAreMade` | one invariant `MoneyInv`: what rows say agrees with the gateway (`RowsAgree`), and what a handler is about to write already holds at the gateway (`JobAgrees`); paid orders stay paid and refunds are never undone, so stale knowledge stays true |
| `SystemAdmission` | `SystemImplementsSlotBooking` carries the theorems over |
| `SchedulerImplementsSlotBooking`, `SchedulerAdmission` | a cycle moves the rows only by steps of a pass or by failing, the lock moves none; the theorems carry over |
| `CyclesOverlapOnlyExcused` | `CyclesApart` says nothing of the lock. `LockInv` adds that the lock is of its taker's instance (`LockIsTakers`), that a cycle at work that nothing excuses took the lock last and still has it (`WorksUnderLock`), so that there is one such cycle, and that a cycle about to delete the lock deletes its own instance's or is late (`DeletesOwnLock`). A cycle that frees its lock ahead of its pass is excused by that step |
| `PrasadShopProofs!ShelfCoversOrders` | two invariants: the reservation is within the stock (`WithinStock`: the conditional UPDATE decides, fulfilment takes from both sides, expiry only frees), and what the holding orders want exceeds the reservation by no more than what others gave up again (`HeldInv`) |
| `StockTakenOnce`, `PaidOrdersMoveOn` | `ShopInv`: an order that waits was never taken, at most one fulfilment per payment is in flight (the row lock), and what it read of the order is still true, or an expiry or an administrator has moved the order on, which does no harm to the count; each further taking follows a return to PLACED |
| `ReservationsAreExact` | `HoldInv` adds that no pass releases an order that does not exist. An order placed, taken or released adds or removes its units as one block (`Units`), and the reservation changes by the size of that block; an order that moves twice leaves the settled products |
| `LodgingProofs!TypeCorrect` | inductive, with what a pass remembers (`PassParts`) |
| `GuestsHavePaid` | `PaidInv` adds to `GuestsPaid` that whoever a check-in or check-out is under way for has paid, and has a token where the handler relies on one; captured payments and tokens never go away, so what was read stays true |
| `NightsKept` | `NightsInv` adds what the overlap query knows while its insert is outstanding: a stay that clashes and holds the room was created at the same time or revived since, and creations under way know each other. `RowInv` gives each creation a row of its own. All other steps are `Gentle`: no stay starts to hold a room unrecorded |
| `PrasadShopProofs!TypeCorrect` | inductive, with the job of each desk and pass |
| `RegistrationsProofs!CounterWithinRows` | `NeverOvercounted` is inductive with the type invariant, once cardinalities are reduced to adding and removing one row: every increment comes with a new row, and a row that leaves takes one off the counter |
| `RegistrationsProofs!OverflowIsBounded` | `OInv` adds `Limits` (the current limit is at most the peak). A request that enters saw a count of REGISTERED rows below the limit, and others already registering are fewer than all requests; a commit moves one from the requests to the rows. Those inside are added on both sides |
| `RegistrationsProofs!CodesUsedOnce` | `IssuedFirst` (codes are scanned and let in after they are issued) and `QuietScan`: of a registration not contested, a row whose present code was let in is not REGISTERED, one request at most scans it, with the present code, and past its read that code was not let in |
| `OfferingsProofs!DonationsSettle` | `GiftInv`: one receipt exactly when SUCCESS, and SUCCESS exactly when captured or direct; no request changes a donation that exists, and no order follows a direct one |
| `OfferingsProofs!DinersPay` | `MealInv`: a booking that is absent has no payment and is not captured, one request at most makes it, a cancellation or check-in works on one that exists, and a check-in under way read a paid row; captured is for good |
| `SignInProofs!WindowsClose` | inductive: the request that opened a window is at its EXPIRE, or it died |
| `SignInProofs!LogoutEnds` | `SessionInv`: a session that is not shared has at most one live token or one renewal under way, and neither once ended; at most one token of it is not exchanged, and a renewal under way is about that one; what is in use was issued |
| `SignInProofs!OtpLimited` | `OtpInv`, with `InTurn`: of a phone that is not loose one request at most handles the OTP, and the stored counter is behind the guesses by no more than the one it is about to count; after a match there is no OTP left to compare, or the request that matched still holds it |
| `SeatsAreExplained` | a session with no contested booking counts one block per booking that stands; a cancellation or check-in of a booking that is not contested still finds the status it read |
| `PublishingProofs!MoneyIsRemembered` | `LedgerInv`: events refer to payments, in the database and in every insert under way; the keys of Payment never cascade, and the closure of a deletion therefore stops before the ledger |
| `TemplesKeepTheirOwn` | `OwnInv`: every key of a row refers to a table the schema allows (`KeysInOrder`), the temple of a booked row is that of the slot, cause, product or room it hangs on unless that one moved (`TemplesMatch`), and what a request looked up before its insert still says so or is gone (`KnownOf`). Cascades reach a booked row by at most three keys, each of which keeps the temple or leads to the one it moved to |
| `ReferencesHold` | `CatalogueTypeOK` is inductive. Each table has a `Depth`, and a cascading key leads to a table that is less deep (`Schema`), at most 3: what a fourth round would add hangs on a row that hangs on a row that hangs on a row below depth 0 (`TakenIsClosed`). A row that stays thus has no cascading key into what goes, a key set null is cleared, and an insert finds its keys or fails |
| `SlotsFollowSchedules` | `ScheduleInv`: of a schedule that is not tampered with (`Orderly`) one request at most is under way; from the moment it set the slots to come INACTIVE until it inserts new ones none can be booked and the plan it read offers what is `heeded`; with none under way the slots to come agree with that. A slot inserted over an old one is skipped and stays as it is |
| `RegistrationsProofs`, `OfferingsProofs`, `SignInProofs!TypeCorrect` | inductive; of `SignIn` with the range of the counter of attempts below the limit |

Every invariant and action property that a passing run checks is thereby a theorem,
and so is the refinement of `SeatLedger`. Only model-checked are the liveness
properties: `HoldReleased`, `EveryEventAnswered`, `PaidIsSettledByPolling` and
`EditsAreShown` rest on fairness and ENABLED, which are out of the prover's reach.

## 5. Where code and documents disagree

The run `overbooking`: `fulfillEntityOnSuccess` (`payment.service.ts:34`) confirms a
booking whatever its status. One that was cancelled, whose seat was sold again, and
whose payment page was still open becomes CONFIRMED when it is paid. No interleaving
is needed. `docs/PRODUCTION_READINESS.md:30` has the conditional updates prevent it.

Seen while modelling, and not runs:

 - the `PaymentEvent` row is inserted before and outside the transaction that
   fulfils (`payment.service.ts:534`). After a crash in between, redelivery finds it
   and answers ALREADY_PROCESSED. `docs/BACKEND_ARCHITECTURE.md:567` has retries
   repair this; only a status lookup does, which `answers` shows;
 - the failure branch of the webhook handler writes FAILED on a status read before
   (`payment.service.ts:602`) and can overwrite SUCCESS
   (`docs/FINAL_ADVERSARIAL_AUDIT.md:146`);
 - expiry and fulfilment of one prasad order can both commit
   (`prasad.service.ts:506`); its reservation is released twice, and the next order
   takes the stock below zero, where `docs/FINAL_ADVERSARIAL_AUDIT.md:129` has "Stock
   never negative" (and `docs/BACKEND_ARCHITECTURE.md:645`); `NeverOversold` bounds it.
   `updateOrderStatus` sets a paid order back to PLACED (`prasad.service.ts:464-477`),
   and the next event or pass takes or releases it once more;
 - the `finally` block of `runCleanupCycle` runs when one of three passes rejects
   (`admin.service.ts:715-720`) and frees the lock beside those that go on. "Release
   lock only if we still hold it" (`reservation-cleanup.scheduler.ts:117`) also fails
   between its GET and its DEL;
 - `register` counts REGISTERED rows only (`events.service.ts:176-179`): each check-in
   gives out a place again, and an event overfills without bound, one request at a time.
   The list of events counts every row instead (`:86-92`), cancelled ones included, so
   its `availableSpots` (`docs/API_SHEET.md:22`) is not what `register` decides on;
 - a request with `isDirect` from any devotee makes a SUCCESS donation with a receipt
   (`donation.service.ts:131`), where `docs/BACKEND_ARCHITECTURE.md:543-546` lets nothing but
   the gateway's word make a payment SUCCESS;
 - `logout` deletes the key of whatever token it is given (`auth.service.ts:234-239`): with
   one already exchanged it reports success and the session lives on, where
   `docs/BACKEND_ARCHITECTURE.md:581` has "Instant O(1) revocation on logout". Nor is
   reading and deleting an OTP atomic (`:578`): two verifications at once both sign in;
 - two requests for one room and intersecting nights each run the overlap query
   before the other's insert (`accommodation.service.ts:198`), and both are booked
   (`docs/FINAL_ADVERSARIAL_AUDIT.md:133`);
 - a status lookup treats REFUNDED as unsettled, finds the gateway's order PAID and
   records SUCCESS again (`payment.service.ts:369`), where
   `docs/BACKEND_FLOWCHARTS.md:37` draws REFUNDED as final;
 - the comment at `payment.service.ts:25-26` has a payment fulfil what it is for;
   for a mahaprasad booking there is no branch (`:28-109`), and it stays
   PENDING_PAYMENT;
 - `updateSchedule` deactivates the coming slots and generates them anew
   (comment at `darshan.service.ts:244`), but an INACTIVE slot keeps its unique day
   and start, and `skipDuplicates` leaves it: a change of the capacity alone leaves
   no slot that can be booked. A capacity changed to 0 regenerates nothing (`:245-249`), and
   the slots with the old one stay bookable;
 - `updateCause`, `updateProduct` and `updateRoom` write a `templeId` their types do not
   name (`donation.service.ts:89`, `prasad.service.ts:114`, `accommodation.service.ts:104`);
   the deletion of the new temple then takes donations, orders or stays of the old one;
 - `docs/BACKEND_ARCHITECTURE.md:845` speaks of complete foreign keys;
   `Booking.slotId` has none;
 - `deleteAddress` (`users.service.ts:248`) takes the user's prasad orders along, by
   the schema's cascade;
 - `docs/PRODUCTION_RUNBOOK.md:73-81` deletes keys of pages without the suffix that
   the code gives them, and nothing calls the two `invalidate` functions.

`SeatsConserved` and `AdmissionStands` hold when one handler at a time works on a booking
(`SeatsAreConserved`, `AdmissionsStand` and the run `serial`, which show the guards
themselves right) and fail with two concurrent
requests: two cancellations of one booking that both read it CONFIRMED both
decrement `bookedCount`, and a check-in that read CONFIRMED overwrites a
cancellation, or is overwritten by one. No document claims otherwise, so they are not
runs.

## 6. Not modelled

Prices, amounts and signatures; texts, images, ordering and flags of catalogue
rows; who may call what (role guards are taken as passed); pagination and search;
the sizes and times of slots; access tokens, which nothing revokes;
`regenerateQrToken`. Jigyasa questions, notifications, roles, the audit log, reports,
crowd snapshots and edits of profiles write one row that nothing else relates to:
a model would restate the assignment. Connections, wiring, filters and health checks
are I/O.

Bodies without a class may name any column. Taken up is what that does to the keys of a
row (`Catalogue`) and to statuses and levels the types name; counters written that way
(`bookedCount`, `reservedStock`), identifiers and nested writes are not. An event of the gateway
without an identifier, which gets one from the time of day (`payment.service.ts:506-508`),
is not either: its redelivery would be a new event.

Quantities that are zero, negative or fractional, which no DTO of the booking
controller excludes, a payment that is refunded and then looked up, and the second
attempt of a booking whose payment row is closed are hazards without a property;
`PROJECT.json` says why at each.

## 7. What is left

1. `Offerings`, `Lodging` and `PrasadShop` composed with the event table of
   `BookingPayments`, in place of the payments they now allow at any time.
2. `regenerateQrToken` in `SlotBooking` and `Registrations`, as one more writer of
   the token.
