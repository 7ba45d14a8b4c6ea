# Gheychi: a verification project for the platform's backend

Gheychi is a booking platform for salons: a NestJS API on Postgres and Redis
(`apps/api`), three web clients, and a payment gateway (Zarinpal) that is reached by HTTP
and answers a browser redirect. Several replicas of the API run at once, each with the
same cron jobs. These modules model the parts of the API in which concurrent actors decide
what becomes of a chair, a booking, a deposit and the other money, and of the records that
are kept from several sides at once: ratings, handles, suspensions, invoices, plans.

## 1. The system

| part | state | operations | how it interacts |
|---|---|---|---|
| bookings (`booking/bookings.service.ts`) | `bookings` rows: status, times, worker, deposit, wallet stake | createHold, createManual, retryPayment, approve, reject, cancel, adminCancel, assignWorker, reschedule, updateStatus | salon lock in Redis; transactions with payments, coupons, wallet, commission; gateway calls between transactions |
| payments (`booking/payments.service.ts`) | `payments` (one row per booking: status, current authority, refund claim), `payment_authorities` (append-only) | handleCallback, markFailed, recoverCapturedOnDeadBooking, attemptRefund | gateway `verify` and `refund`; conditional updates of bookings and payments |
| booking jobs | none of their own | hold expiry, approval expiry, payment reconciliation, refund retry | cron lock in Redis; the same rows, with no knowledge of the requests under way |
| salon lock (`common/redis-lock.util.ts`) | one key with a TTL of 5 s per salon | acquire, compare-and-delete, expiry | serialises the five operations that count before they write |
| advisory lock | Postgres, per customer, for one transaction | taken by assertWithinActiveBookingLimits | orders one customer's holds at different salons |
| wallet, coupons, referrals | balances with a ledger; capped redemptions; referrals and their rewards | credit, debit, redeem, release, grant, expire, reverse, correct | row locks, unique indexes; called from the booking transactions, by jobs, and after refunds |
| invoicing | `financial_transactions`, monthly invoices | recordCommission, monthly generation, payments of invoices | recorded inside the transaction that ends a booking; the job and admins share the invoice row |
| reviews | reviews with two ratings; the averages of salon and worker | create, update, remove, moderate | aggregates recomputed under row locks of salon and worker |
| salons' standing and handles | status and cause of a suspension; slug, reserved old slugs | approve, reject, suspend, resubmit, edit, rename, redirect | owner and admin write the same row, some by id, some conditionally |
| plans and billing | plans with one default; billing periods, subscription coupons | create, update, remove, assign; create, settle, void a period | unique indexes, coupon's row lock |
| reminders | `reminded_at` of a booking | select, claim, send, hand back | cron lock; SMS provider; reschedules |
| availability | none: computed from hours, exceptions, bookings | slots offered, free chair-time | read by customers before createHold and by owners |
| the rest | auth, CRM, content, search, reports | mostly single-row edits and reads | see `PROJECT.json`, `components` |

What makes it hard:

* a handler reads a row, waits for the gateway or a lock, and writes: everything may have
  changed in between. The code answers with *conditional updates* (`UPDATE ... WHERE
  status = <what was read>`), and each of them has to be in the right place;
* the gateway's redirect is lost, repeated or late, and a session stays chargeable after
  it has been superseded;
* a process can die between any two steps, and the jobs have to finish what it left;
* two locks with a TTL (salon lock, cron lock) and one claim with a TTL (refund) can lapse
  under the work they protect;
* counting rows and inserting one are two statements under READ COMMITTED.

What each component must keep: a freed slot is never given back to the booking that lost it;
a booking that stands rests on captured money; a booking that dies releases the customer's
coupon and wallet money; captured money ends as kept with an appointment, or as a refund; a
refund is made once; commission is billed exactly for kept deposits; a salon's chairs, a
worker's hours and a customer's limits are never exceeded; no hold, payment or refund is
stuck. Wallets, coupons, rewards, invoices and ratings say what their rows add up to,
whoever wrote last; a link to a salon leads to it for ever; a suspension ends by a decision;
there is always a plan to fall back on; a customer is not reminded again of what a run knows
was told. Where the code keeps one of these only with an exception, the property names the
exception, and section 3 lists it.

## 2. The modules

    BookingContract      slot and deposit of a booking, abstractly
    BookingPayment       the handlers and jobs          implements BookingContract
    BookingPaymentProofs invariants, action properties, refinement
    Calendar             chairs of a salon, abstractly
    SalonSlots           salon lock, counts, writes     implements Calendar
    SalonSlotsProofs
    RefundClaim          attemptRefund and its claim
    RefundClaimProofs
    Rewards              wallet, coupons, referrals     RewardsProofs
    Reviews              ratings and their averages     ReviewsProofs
    Handles              slugs and redirects            HandlesProofs
    Invoices             the invoice of a month         InvoicesProofs
    Standing             approval and suspension
    Plans                the default plan
    Billing              billing periods and subscription coupons
    Reminders            the reminder job
    ChairTime            slots offered, free chair-time
    Office               the nine above, each with its own instance
    OfficeProofs         takes over what is proved of Reviews, Handles and Invoices,
                         and proves the other five beside Rewards
    MC...                constants and symmetry sets of the runs

### BookingPayment

One row per booking of `bookings`, `payments`, `payment_authorities`,
`coupon_redemptions` (with the wallet stake: `perks`) and `financial_transactions`
(`accrued`). Amounts are abstracted to "a deposit is owed" (`owes`); sessions of the
gateway are numbers. `local` holds what a handler carries from one step to the next: its
booking, its session, a status it read, the answer of a check.

A step is one committed transaction, one gateway call, or one unlocked read on which a
later write depends. The conditional updates of the code appear as `CasStatus` and
`CasPayment`. Correspondence:

| code | actions |
|---|---|
| createHold, createManual | `CreateHold`, `CreateManual` |
| retryPayment, createPaymentSession | `RetryPayment`, `RequestPayment` (gateway), `PersistAuthority` (transaction) |
| the customer at the gateway | `CustomerPays`, `CustomerDeclines` (external) |
| handleCallback | `Callback` (read), `VerifyPayment`, `MarkFailed`, `Capture`, `Recover` (read), `QueueRefund` (update) |
| approve, reject | `ApproveRequest` (reads), `Approve`, `Reject` |
| cancel, adminCancel | `CancelRequest` (read), `Cancel` |
| updateStatus | `UpdateStatus` |
| attemptRefund | `AttemptRefund`: its outcome only, its steps are RefundClaim's |
| hold and approval expiry | `ExpireHold`, `ExpireApproval` |
| reconciliation | `SelectStale` (a payment joins the batch), `LoadAuthorities` (its turn comes), `VerifyAny` (one gateway call), `RetirePayment`, `ReconcileConfirm`, `ReconcileDecline` |
| crash, thrown error, lost conditional update that throws | `Abandon` |
| clock, admin | `WindowCloses`, `ToggleOnline` |

A run of reconciliation selects up to 200 payments in one query
(`payment-reconciliation.job.ts:65-79`) and loads the sessions of each only when its turn comes
(`:83`), after the gateway calls for those before it. Each payment of a batch is a handler of
its own, so that anything may happen between the two reads.

`JobLockHolds` says whether the cron lock (60 s, not renewed) keeps a second run of
reconciliation away from a payment the first still has in its batch. What needs it is stated
under it, and the rest is checked with the lock lapsing. The 20-minute age and the approval
deadline are folded into "at some later time". `Perks` is what a customer may bring.

### SalonSlots

Times are small integers. A request is at one of the steps *lock, check, limits, write,
release*; what it read before the lock (the worker of a booking, its times) travels in its
task, as it does in the code. The reads of one transaction and its write are two steps,
since READ COMMITTED lets other transactions commit in between.

| code | actions |
|---|---|
| acquireLock, releaseLockIfOwner, the TTL | `AcquireLock`, `ReleaseLock`, `Lapse` |
| before the lock | `Create`, `ApproveRequest`, `AssignWorker`, `Reschedule` |
| counts under the lock | `CheckSlot`, `CheckApproval`, `CheckAssignment`, `CheckLimits` |
| writes | `Insert`, `Approve`, `Assign`, `Move`, `Rollback` |
| a capture that confirms a held booking | `Change`, `Confirms` |
| cancellation, rejection, expiry, decline, outcome: everything that frees a chair | `Change`, `Closes` |

`LockHolds` is the assumption that no critical section outlives `LOCK_TTL_MS`. Under it a
key lapses only when its request is gone; without it, at any time. The status a new booking
starts in and who may end it when are BookingPayment's matter, so here they are free
choices.

### RefundClaim

`attemptRefund` with its read, claim, gateway call, release of the claim, record and
notice, run by any number of attempts. `Overrun` is the set of payments on which an attempt
may outlive the 10-minute claim; the 10 s timeout of the gateway client keeps a live process
from it, a suspended one may do it.
`RepeatAccepted`: the gateway answers a repeated refund with success, an assumption
`zarinpal-payment.gateway.ts:116-125` makes and calls unverified.

### Rewards

The money that stays inside the platform. A transaction is a task that decides (`CreateHold`,
`BeginRelease`, `Complete`, `Refund`, `SweepGrant`, `Adjust`, `SelectExpired`), locks row by
row (`LockCoupon`, `LockWallets`, the referral's row in the deciding step), and commits
(`CommitHold`, `EndUnpaid`, `ApproveUncollected`, `CancelPaid`, `CommitGrant`,
`CommitReverse`, `CommitAdjust`, `Expire`); between two of these steps other transactions
commit, and rows that are read without a lock may change. `Rollback` is a refused, failed or
aborted transaction, or a process that died. What a booking goes through otherwise is
reduced to five statuses; BookingPayment has the detail. The wallet's ledger is kept as its
sums: stakes, rewards less what was taken back (`Left`), and corrections (`adjusted`).

`LockWallets` takes all wallets of a transaction in one step: a wait in a circle would be
broken by Postgres, and the aborted transaction is `Rollback`.

### Reviews, Handles, Standing

| code | actions |
|---|---|
| ReviewsService.create, update, remove, moderate, moderateWorkerRating | `Create`, `Update`, `Remove`, `Moderate`, `ModerateWorkerRating` (checks), `WriteReview` (first write) |
| recomputeSalonRating, recomputeWorkerRating | actions of the same names, each waiting for its row |
| end of the transaction | `Commit`, `Rollback` |
| SalonsService.updateHandle | `UpdateHandle` (checks), `WriteSlug` (UPDATE and unique index), `CommitRename` (reservations) |
| resolveCanonicalSlug | `LeadsTo` |
| SalonsService.updateMine | `UpdateMine` (read), and `SaveEdit` in Handles and Standing, `SaveSalon` in Reviews (TypeORM writes every column that differs) |
| SalonWorkersController.update | `UpdateWorker` (read), `SaveWorker`, in Reviews |
| createForOwner, resubmitMine, setStatus | `CreateForOwner`, `ResubmitMine`, `Resubmit`, `ApproveSalon`, `Approve`, `RejectSalon`, `SuspendSalon` |
| AdminUsersService.setStatus | `SuspendOwner`, `ReactivateOwner` |

A new review takes a share lock on its salon through the foreign key before it wants the row
itself; `SalonHeldBy` has both kinds.

An edit of a salon or a worker reads the whole row, and its `save` writes back every column
in which the row has become different, the rating columns included
(`salons.service.ts:162`, `:193`; `salon-workers.controller.ts:104-107`). The three modules have
this save for the columns each is about: slug, status and cause, averages.

### Invoices, Plans, Billing

| code | actions |
|---|---|
| recordCommission | `RecordCommission` |
| MonthlyInvoiceGenerationJob | `Select` (unlocked), `Generate` (upsert, row lock, items), `CommitInvoice` (totals) |
| InvoicingService.recordPayment | `RecordPayment`, `CommitPayment` |
| PlansService.create, update, remove | `Create`, `Update`, `CommitUpdate`, `Remove`, `CommitRemove` |
| assignPlan, createDefaultSubscription | actions of the same names, `Subscribe` |
| SubscriptionBillingService.createPeriod, setStatus | `CreatePeriod` (unlocked reads), `LockCoupon`, `CommitPeriod`, `SetStatus` |

Commissions are counted in units: every financial transaction is worth one, and is what
`accrued` stands for in BookingPayment. A period reads its coupon's cap under the row lock;
that an admin may edit the cap meanwhile (`billing/subscription-coupons.service.ts:43`) is
left out, and `DiscountCap` is a constant.

### Reminders, ChairTime

A run of the reminder job selects (`Find`), claims one booking after the other (`Claim`),
looks up its salon (`CheckSalon`, `LookupFails`), sends (`Send`) and hands a failed one back
(`Release`); `Die` ends it anywhere, with its SMS on the way or not. `send` throws on its 10 s
timeout (`kavenegar-sms.provider.ts:41-54`) whether the gateway has the SMS or not, so `Send` has
three outcomes: delivered and answered, delivered with the answer lost, not delivered. `told`
keeps the first two apart, which the code cannot. Customers reschedule
and end bookings between its steps, an admin suspends the salon.

ChairTime has no protocol. `AvailableSlots` is `computeAvailableSlots`, `FreeMinutes` is
`computeDailyCapacity`, over every pair of opening hours and every exception of a three-tick
day, and two bookings that come and go on one or two chairs. The two properties compare them
with a definition that looks at single ticks (`OpenAt`, `BusyAt`). `mergeIntervals` sorts by
start and walks the sorted list; `MergeIntervals` folds over the set of ranges, taking last
the one that starts last, whichever it is where two start together (two rows of working hours
may). A sort by a comparison that ties, as `SetToSortSeq` with `<` on the starts, has no
definition to reason from.

### Office

The nine components meet in few places. What two of them have in common is a column one of
them reads, modelled there as an external choice (a salon's approval in Reminders), or the
row of a salon, which an owner's edit saves as a whole: each module has that save for its
own columns. No action of one module reads the columns another is about, external choices apart, so composing the modules would only multiply their states. A behaviour of Office
picks one (`office`), which moves while the others rest: the state graph is the sum of nine
graphs, and each property is about its own. Office EXTENDS Rewards and instantiates the
other eight; what it assumes of their constants is stated there, for TLC and for
OfficeProofs. MCOffice only gives the constants their values.

## 3. What is checked

`PROJECT.json` lists every run with its properties; the comment above each property in
its module names the behaviour it is about. Every property of a passing run has a
mutant: a plausible bug in one definition under which the same run finds a violation.
Mutated forms stand before the definition they mutate, marked `\* mutant`, and no
specification uses them.

| run | instance | distinct states | shows |
|---|---|---|---|
| `booking_payment` | 1 booking, 3 handlers, 2 sessions, cron lock may lapse | 2 million | captures behind what stands; commissions; releases; ended bookings stay ended |
| `booking_live` | 1 booking, 2 handlers, 2 sessions, cron lock held | 138 thousand | booking and payment agree; refinement of BookingContract; every booking comes to rest |
| `salon_slots` | 1 salon, 1 chair, 2 bookings, 2 requests, 2 start times, durations 1 and 2 | 1.6 million | no overbooking; refinement of Calendar |
| `salon_rules` | 2 salons, 2 chairs, 1 worker, 1 customer, 2 bookings, 2 requests | 1.4 million | what was checked still holds at the write; a worker's hours; a customer's limits across salons |
| `salon_live` | 1 salon, 1 booking, 2 requests, lock may lapse | 62 thousand | the lock is given back, by its owner only; ended bookings stay ended |
| `refund_claim` | 2 payments, 2 attempts, the claim on one payment may lapse | 3885 | one attempt at the gateway; told once, of a real refund; recorded in the end |
| `office` | two handlers for each of nine components (below) | 946 thousand | money, coupons, rewards; averages; suspension; links; invoices; plans; billing; reminders; slots offered |

Type correctness is a part of each `IInv`. Of the inductive invariants, the runs check those
of BookingPayment, SalonSlots, RefundClaim and Rewards. Those of Reviews, Handles, Invoices,
Plans (`PlansInv`), Billing, Reminders and ChairTime (`ChairsTyped`) and Standing's `TypeOK`
hold in the same instance of `office` and are left out of its cfg for the sake of its running
time; they are proved.

In `office`: Rewards with a referrer paid by coupon and an invitee paid into the wallet, two
bookings, a platform coupon with a cap of one, reward and deposit of one unit; Reviews with
two bookings, one of which names the worker, and one star; Standing with one salon; Handles
with two salons and three names; Invoices with three commissions; Plans with two plans;
Billing with three periods, a capped and an uncapped coupon; Reminders with one booking, one
reschedule, three runs; ChairTime as above. A customer without a referral behaves as one
whose referral expired first, so Rewards starts with a referral.

Why these bounds are enough to be interesting: two handlers give every pair of racing
operations, a third gives what takes a request beside two overlapping runs of reconciliation
(a retry that persists its session between them); two sessions give a superseded one that is
paid, and a current one that is not; two bookings and one chair give an overbooking, two
salons and two bookings a customer's double booking. In `office`, two handlers are the two
transactions of every race, three names are an old handle, a new one and that of a
competitor, two reviews contend for the row of the salon and an owner's save with either,
the row of the worker is contended by the review and the moderation of its one rating (that
of two bookings is left to the proof), three commissions are one invoiced, one late and one
in between, and three runs of the reminder job are one that died, one that overruns and one
that starts. Different bookings share nothing in BookingPayment but the flag and the session
numbers, so one booking per run loses no interleaving on it. What the bounds leave open, the
proofs close for all but the liveness properties: they hold for every number of bookings,
handlers, sessions, payments, attempts, customers, reviews, names, commissions, periods,
plans, runs, chairs and ticks.

In SalonSlots no run meets a deadlock. In BookingPayment the admin's flag can always be
toggled. In RefundClaim the system really stops once every refund is made, and in `office`
components stop as well (every booking dead and every referral decided, every name taken,
every reminder sent), so these two runs do not check for deadlock.

### Fairness

BookingPayment: the jobs run on their schedules (weak fairness of the expiry jobs and of
refund retry), time passes, every request goes on or ends. The steps of reconciliation
have strong fairness: gateway and database may fail any number of times, but not every
time. For `VerifyAny` this is said of each session, since a run asks for several, and an
answer for one is none for another. Nothing is assumed of customers, owners or callbacks, so
`ComesToRest` does not lean on a callback. It says that every booking comes to rest again and
again: no request unanswered, no hold unpaid, no payment undecided, no refund unmade. Its one
exception is a refund whose payment names a session that took no money, which the gateway
refuses for ever (`authority_names_capture` shows how it comes about). `booking_live` brings
no coupon or wallet money, as nothing but the creation of a hold looks at either.

RefundClaim: the same for the steps of an attempt. SalonSlots: a request goes on or ends, and
the TTL of a key whose request is gone runs out. A request at work is not assumed to lose its
key, so `SalonUnlocks` needs it to reach its release, or its end, on every path.

### Disagreements between the code and what it says

Five runs expect a violation; `findings` in `PROJECT.json` quotes both sides.

* `perks_return`: the declined branches release coupon and wallet money without asking
  whether the booking died by them.
* `authority_names_capture`: a slow retry overwrites the authority of a paid payment. If
  the booking is cancelled then, its refund is asked for a session that took no money, and is
  refused for ever.
* `verified_capture_settles`: a lost update on the recovery path leaves a captured payment
  at `failed`.
* `worker_in_one_place`: reschedule checks the worker it read before the lock.
* `suspension_undone`: an owner's edit saves back the status it read before the admin
  suspended the salon. The same save reverts the averages that a review committed meanwhile
  (`StaleSave` in Reviews), and the slug (below).

Others that no run of its own shows. The properties name those they have to except:

* `payments.service.ts:191-194` says of a payment found decided at the confirmation of its
  booking that this "shouldn't be reachable". It is not while the cron lock holds
  (`StandingIsPaid`). If it lapses, one run of reconciliation has selected the payment, a second
  finds no session and retires it to `failed` (`payment-reconciliation.job.ts:96`), a request
  that was at the gateway persists the first session, the customer pays it, and the first run
  loads it and confirms the booking, its UPDATE of the payment (`:163`) matching no row. A late
  cancellation then writes `failed` to `paid` (`bookings.service.ts:1544`). With `JobLockHolds`
  FALSE TLC finds both in the instance of `booking_payment`; what holds even then is
  `StandingHasCapture`: the money was taken.
* `booking-reminder.job.ts:115-130` hands the claim back when `send` throws, also when the gateway
  has the SMS and only its answer was late: the next run sends it again. `RemindedOnce` is
  about what a run has an answer for.
* `bookings.service.ts:265-267` calls bookings of a salon fully serialized; a transaction
  that outlives the 5 s of the lock is not. `LockHolds` is that assumption; without it
  CapacityRespected fails.
* `bookings.service.ts:2042-2046` clears the mark of a reminder "so the reminder job fires
  again for the NEW time": a run that selected the booking before claims it afterwards and
  tells the old time, and no run tells the new one. The last exception of `MarkedMeansTold`.
  A booking cancelled between selection and claim is reminded as well.
* Two new reviews of a salon wait for each other (share lock, then row lock); one customer
  gets an error. `OnlyNewReviewsCollide` says that nobody else does.
* `reviews.service.ts:464-470` explains why a withdrawn review cannot be moderated; the
  check is made before the write and not repeated by it (`:476`).
* `setStatus` checks the owner and then approves by id (`salons.service.ts:528`): an owner
  suspended in between keeps an approved salon.
* `salons.service.ts:270-271`: every rename is recorded. An edit that read the salon before a
  rename and saves after it goes back to the old handle and records nothing
  (`StaleEdit` in Handles).
* `subscriptions.service.ts:25-26` calls a missing default plan unreachable; two racing
  changes of plans reach it (`StaleChange` in Plans).
* A reward is granted for a deposit whose refund is being recorded (`referrals.service.ts:781`),
  and a process that dies after a refund never reverses the reward (`payments.service.ts:462`).
* `computeDailyCapacity`: with more bookings at an hour than there are chairs left, the excess
  is taken out of other hours' free time. The exception of `FreeTimeExact`.

`README.md:56` of the repository says that a payment captured late is "still marked
`paid`"; the code marks it `refund_pending`, and `StandingIsPaid` depends on that.

## 4. What is proved

| module | theorems |
|---|---|
| BookingPaymentProofs | `TypeCorrect`, `Inductive`, `StandingPaid`, `StandingCaptured`, `CommissionExact`, `DeadReleased`, `RefundBacked`, `FinalStays`, `PaymentForward`, `Refinement` |
| SalonSlotsProofs | `Inductive`, `TypeCorrect`, `Capacities`, `WorkerClashes`, `CustomerClashes`, `CustomerLimits`, `OwnerReleases`, `EndedStays`, `Refinement` |
| RefundClaimProofs | `Inductive`, `OneAtATime`, `ToldOnce` |
| RewardsProofs | `RowsInvariant`, `TypeCorrect`, `PaidOnce`, `WithinCap`, `Invariant`, `MoneyAddsUp` |
| ReviewsProofs | `Invariant`, `AveragesStay`, `NoOtherDeadlock` |
| HandlesProofs | `Invariant`, `LinksLead` |
| InvoicesProofs | `Invariant`, `TotalsMatch`, `PaymentsAddUp` |
| OfficeProofs | `AveragesRight`, `NewReviewsCollide`, `TotalsRight`, `PaymentsRight`, `LinksStay` (taken over); `SuspensionKept`, `FallbackKept`, `DiscountsAddUp`, `SlotsOffered`, `FreeTimeRight`, `ToldOnce`, `MarksTold` |

With them every invariant, action property and refinement that a passing run checks is a
theorem; what is left to TLC alone is at the end of this section.

All are checked by TLAPS from the assumptions named in the modules only
(`SessionsAssumption`, `JobLockAssumption`, `OverrunAssumption`, `RepeatAssumption`, the
five of SalonSlots, the four of Rewards and the six of Office). Those of Office say that NULL
is no row, that the bounds are numbers, that the periods are finitely many and a coupon's cap
is not zero, that the plan the platform starts with is one of its plans, and that salons start
with different handles (`FirstNameAssumption`; the handle of a new salon has a random part, and
the index is unique). In HandlesProofs, where the names are not yet given, the last one is a
hypothesis of the theorems (`FirstNamesDiffer`). `Capacities`, `WorkerClashes` and SalonSlots'
`Refinement` also assume `LockHolds`; BookingPayment's `StandingPaid`, `PaymentForward` and
`Refinement` assume `JobLockHolds`.

**BookingPayment.** None of the safety invariants is inductive alone: a handler that holds
a verified session, or a status it read, must be known to hold something that is still
true when it writes. `IInv` adds five parts. `PaymentFitsStatus` lists the payment
statuses a booking status admits. `AuthorityCoversLedger` says that a payment without
current authority never had a session, which is what makes `RetirePayment` safe.
`HandlersKnow` says, per step, what a handler's knowledge is still worth: a session it
verified stays captured, a payment it read as failed never becomes initiated again.
`JobsApart` is what the cron lock gives: one run at a time has a payment in its batch.
`RetiredStaysRetired` covers the one way a booking still awaits payment with a payment
already given up: no handler is about to confirm it, so the case
`payments.service.ts:191-194` calls unreachable is unreachable. It holds under `JobLockHolds`
only, and so do the last clause of `PaymentFitsStatus` and the three theorems above. The
other parts do without, `StandingHasCapture` among them: every confirmation of a booking with a
payment is by a handler that holds a captured session. Each action is proved to
preserve each part; facts of handlers that do not move are carried by one lemma per part.

**Refinement.** With `IInv` at hand, each action either leaves the mapped slot and deposit
of every booking alone or is one action of `BookingContract`. `FinalStaysFinal` and
`PaymentMovesForward` come from the same case analysis.

**SalonSlots.** CapacityRespected says nothing of a request that has counted and not yet
written, so `IInv` adds `TasksFit` (the booking a request is about exists, at the salon it
locks), `SalonExclusive` (who works on a salon has its lock) and `ChecksHold` (what a request
found free is still free). `CalmElsewhere` shows that only three writes, insert, assign and
move, add anything to a salon, and only to the one they lock; elsewhere chairs can only come
free. Capacity then follows by counting: every booking in the hour a new one takes overlaps
the new one. The same three facts make each write one step of Calendar. `WorkerClashNeedsMove`
keeps its exception because reschedule's worker was read before the lock, so `StillFree` says
nothing of it.

A customer's limits hold whatever the salon locks do. `AdvisoryExclusive` (one hold per
customer is between count and commit) and `LimitsHold` (such a hold is still within the
limits) carry them: `LimitsCalmElsewhere` shows that only the insert of a hold adds to what
the limits count, and only for its own customer.

**RefundClaim.** `AttemptHoldsClaim` (between claim and record an attempt holds a fresh
claim on a refund still owed) gives the mutual exclusion outside `Overrun`; `ToldByWinner`
(the attempt about to notify is the only one, and has recorded) gives the single notice
on every payment.

**Rewards.** `TasksFit` says what a transaction still knows after its unlocked reads,
`ReferralHeld` that one transaction at a time holds a referral and finds it as it read it, and
`CouponHeld` the same for a coupon: its redemptions only shrink while others work, so a cap
with room keeps it until the commit. `PaidOnceGranted` and `CouponsWithinCap` follow with the
cardinality lemmas.

`MoneyConserved` needs more, in `MoneyInv`. A sum over a changing set of rows is here the
cardinality of a set of units (`Units`: one pair per unit of each row), so that the lemmas
about finite sets do the work of an induction: adding to one row adds as many units, and rows
of one wallet have none of another's. `MoneyHeld` says what a transaction still owes or is owed:
at its commit it has read the balances that stand, of exactly the wallets its rewards and stakes
are about, because it holds their rows (`TasksApart`: no two transactions hold one wallet, or
make one booking). So each commit moves a balance and its rows by the same amount. What a
reversal could not take from the wallet (`shortfall`) is the one thing that does not come back,
and `Left` counts it on the side of what was paid in.

**Reviews.** `SalonHeld` and `WorkerHeld`: the aggregate computed under a row lock is right
for the state that the transaction will commit, because every other writer of a published
row needs the same lock before it commits. `AveragesKept` says of each step that an average
that is right stays right and that a commit which recomputes it makes it right, except at an
owner's stale save; `StepFollows` looks at each action once.

**Handles.** `SlugsUnique` and `RenameHeld`: between UPDATE and commit a rename is the only
one of its salon, and the only one that touches its two entries of the index. So the
reservations it writes are about handles nobody else is taking.

**Invoices.** `RowHeld`: who holds the invoice finds the items and payments it read; the
sums are numbers because finitely many commissions are recorded at any time.

**Office.** A component moves in Office exactly as in its own module. So the steps of Office
are steps of the instance the theorems of ReviewsProofs, HandlesProofs and InvoicesProofs are
about, and these are taken over as they stand. The properties of the others follow from an
invariant of each:

* Standing: only the decision of an admin and the saving of an edit that was read before the
  suspension take a salon out of `suspended`; the rest of the writers are conditional. No more
  than types is needed, and each action is looked at once.
* Plans: `PlansInv` says of a change that has passed its checks what they made sure of: the
  plan it read as the default is not made less than that, nor the default inactive. Unless what
  it read has changed by the write (`StaleChange`), one default plan remains that may be assigned.
* Billing: `PeriodHeld` and `CouponHeld`: who holds the coupon's row lock finds its redemptions
  as counted or fewer, and the period it inserts is nobody else's; then a redemption is added
  only to a cap with room.
* Reminders: `ReadBefore`, `ClaimedOnce`, `MarkStands`: a run that is about to tell the time that
  stands, or has the answer that it did, holds the mark, and only one run can. `RemindedOnce` is
  what a second such run would contradict.
* ChairTime: no protocol, so the invariant is `ChairsTyped` and the rest is about operators.
  `RangesOpen` shows that subtracting an exception leaves exactly the open ticks, whatever
  overlaps. `OfferedAndFree` is then a statement about one slot.

`FreeTimeExact` compares two ways of counting. `Merged` says what merging has made of the ranges
it has seen (the same ticks, in intervals with gaps between); `MergeKeeps` that one more range,
which starts no earlier, keeps it so. The sums count disjoint sets: `OpenMinutes` the open ticks,
`BookedMinutes` the pairs of a booking and an open tick it covers. Counted by ticks instead
(`LoadCounted`) the latter stand one on the other on each tick; together with the free chairs
they cover the table of open ticks and chairs, and exactly it when no hour is overbooked.

The library's induction theorems cannot be used here, as they take an operator. A fold over a
finite set is handled without them: proper inclusion of finite sets is well-founded, so of the
subsets on which a claim fails there would be a least one (`SubsetInduction`). From it follow
that the recursive function in a fold exists and is unique (`FoldExists`, `FoldUnique`) and that
a sum of sizes of disjoint sets is the size of their union (`SumOfDisjoint`), in whatever order
the elements are taken.

**Only model-checked.** The liveness properties `ComesToRest`, `SalonUnlocks` and
`OwedIsRecorded`: fairness and ENABLED are out of the prover's reach. The
five runs that expect a violation are counterexamples and need no proof.

## 5. What is not modelled

* A transaction is one step in BookingPayment. Row locks and deadlock aborts inside it
  (`markFailed` locks payment before booking, others the reverse) are not modelled; an
  aborted transaction is `Abandon`.
* Amounts, percentages, rounding, currencies. `perks` in BookingPayment only says what a
  booking still consumes; Rewards counts in units.
* Rewards: registration with a code, the hold-back hours, the partially granted state and
  its sweep (every kind of reward is supported by now), edits of coupons and caps, a coupon
  that loses against the service's own discount and is locked but not spent.
* Handles: `LeadsTo` ignores whether the salon is approved just then.
* Standing, Plans, Billing: photos, hours, services, workers, entitlement overrides,
  cancelled subscriptions, prices; edits of a subscription coupon, whose `max_redemptions` an
  admin may lower below its redemptions or raise (`billing/subscription-coupons.service.ts:43`).
* Reminders: push messages and alerts, both best-effort.
* Availability: which workers may perform a service; the other days of the window.
* Authentication, one-time codes and the SMS quota: counters in Redis and Postgres whose
  protocol is small; in the plan.
* The web clients (most of the repository's lines) hold no shared state: their requests are
  the actions of the modules, in any order.
* The decision refund or forfeit is free in `CancelRequest`: the cancellation window needs
  the clock that SalonSlots has not.
* SalonSlots has no clock: "active" bookings are those in a slot-blocking status, and the
  count of *future* ones equals it. Assigning a worker to a completed booking is left out,
  as it blocks nothing. Capacity and durations do not change there; ChairTime lets the
  capacity change.
* createManual does not check the customer's limits and reschedule checks neither them nor
  the customer's other bookings. That is the code's choice, and the properties exclude
  walk-ins and moved bookings accordingly.
* The inline `attemptRefund` after a cancellation is an attempt like any other.
* Notifications, events, analytics and metrics: best-effort, after the commit.
* Components marked `not_modelled` in `PROJECT.json`, with the reason.

## 6. Plan

The modules were written in the order in which mistakes cost most: BookingPayment,
SalonSlots, RefundClaim, Rewards, Invoices, and then the records of section 1. Next:

1. **MoneyTrail**: several captured sessions of one payment, money per session; a session
   paid just before a cancellation gives up its payment (reconciliation looks at initiated
   payments only).
2. **CancellationWindow**: clock, reschedule and cancel together.
3. Edits of capacity and durations in SalonSlots; composition of Rewards with RefundClaim,
   with a statement of when a reward is reversed after all.
4. Counters of one-time codes and of the SMS quota; registration with a code.
