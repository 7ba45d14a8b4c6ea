--------------------------- MODULE BookingPayment ---------------------------
(***************************************************************************)
(* One booking from hold to settlement, together with its deposit.          *)
(*                                                                          *)
(* The rows of `bookings`, `payments`, `payment_authorities`,               *)
(* `coupon_redemptions` and `financial_transactions` are shared; API        *)
(* requests and the reconciliation job are handlers that read a row, talk   *)
(* to the gateway, and then commit a transaction whose UPDATEs carry a      *)
(* status predicate.  Between two steps of a handler every other handler    *)
(* may run, and a handler may stop for good (a crash, a thrown gateway or   *)
(* database error).  One committed transaction is one step.                 *)
(***************************************************************************)
EXTENDS Naturals, Sequences

CONSTANTS Bookings,     \* booking ids
          Handlers,     \* API requests and job iterations that run concurrently
          Perks,        \* what a customer may bring: a coupon, wallet money
          MaxSessions,  \* bound: gateway sessions (authorities) ever minted
          JobLockHolds  \* the cron lock never lapses under a running reconciliation

ASSUME PerksAssumption == Perks \subseteq {"coupon", "wallet"}
ASSUME SessionsAssumption == MaxSessions \in Nat
ASSUME JobLockAssumption == JobLockHolds \in BOOLEAN

VARIABLES
    online,      \* platform flag onlinePaymentEnabled
    status,      \* bookings.status, "none" before the row exists
    overdue,     \* bookings.payment_expires_at has passed
    owes,        \* bookings.deposit_amount > 0
    perks,       \* what the booking still consumes: wallet_amount_used, coupon_redemptions
    payment,     \* payments.status, "none" when the booking has no Payment row
    authority,   \* payments.authority, 0 when NULL
    ledger,      \* payment_authorities of the booking, oldest first
    accrued,     \* the booking has a commission_accrued financial transaction
    minted,      \* sessions the gateway has opened
    captured,    \* sessions through which the gateway captured money
    declined,    \* sessions the customer abandoned or the bank declined at the gateway
    returned,    \* sessions whose capture the gateway has refunded
    local        \* what each handler holds between two of its steps

rows == <<status, overdue, owes, perks, payment, authority, ledger, accrued>>
gateway == <<minted, captured, declined, returned>>
vars == <<online, rows, gateway, local>>

Sessions == 1..MaxSessions

SlotBlocking == {"pending_approval", "pending_payment", "confirmed"}
Dead == {"cancelled_by_user", "cancelled_by_salon", "cancelled_by_admin",
         "rejected_by_salon", "expired"}
\* Statuses of an appointment that stands or took place.
Standing == {"confirmed", "completed", "no_show"}
BookingStatus == {"none"} \cup SlotBlocking \cup Dead \cup Standing
PaymentStatus == {"none", "initiated", "paid", "refund_pending", "refunded", "failed"}
\* The money of a capture is accounted for.
Settled == {"paid", "refund_pending", "refunded"}

Cancellations == {"cancelled_by_user", "cancelled_by_salon", "cancelled_by_admin"}
JobSteps == {"selected", "reconcile", "reconcile_confirm", "reconcile_decline", "retire"}
Steps == {"mint", "persist", "verify", "mark_failed", "capture", "recover", "queue",
          "approve", "cancel"} \cup JobSteps

\* What a handler holds: its next step, its booking, a session (for "reconcile" the
\* position of one in the ledger), a status it read, the status to write, and an answer
\* it was given (cancel: refund the deposit; approve: collection is on).
Idle == [pc |-> "idle"]
Tasks == [pc : Steps, booking : Bookings, session : Nat,
          seen : BookingStatus \cup PaymentStatus, to : BookingStatus, flag : BOOLEAN]

Task(pc, b, s, seen, to, flag) ==
    [pc |-> pc, booking |-> b, session |-> s, seen |-> seen, to |-> to, flag |-> flag]
NewTask(pc, b, s, seen) == Task(pc, b, s, seen, "none", FALSE)
Continue(t, pc, s, seen) == Task(pc, t.booking, s, seen, t.to, t.flag)

Goto(h, task) == local' = [local EXCEPT ![h] = task]
Done(h) == Goto(h, Idle)
At(h, pc) == local[h].pc = pc

TypeOK ==
    /\ online \in BOOLEAN
    /\ status \in [Bookings -> BookingStatus]
    /\ overdue \in [Bookings -> BOOLEAN]
    /\ owes \in [Bookings -> BOOLEAN]
    /\ perks \in [Bookings -> SUBSET Perks]
    /\ payment \in [Bookings -> PaymentStatus]
    /\ authority \in [Bookings -> 0..MaxSessions]
    /\ ledger \in [Bookings -> Seq(Sessions)]
    /\ accrued \in [Bookings -> BOOLEAN]
    /\ minted \in 0..MaxSessions
    /\ captured \subseteq Sessions
    /\ declined \subseteq Sessions
    /\ returned \subseteq Sessions
    /\ local \in [Handlers -> Tasks \cup {Idle}]
    /\ \A h \in Handlers :
          /\ At(h, "persist") => local[h].session \in Sessions
          /\ At(h, "reconcile") => local[h].session \in 1..Len(ledger[local[h].booking])
          /\ local[h].pc \notin {"idle", "reconcile"} => local[h].session \in 0..MaxSessions

Init ==
    /\ online \in BOOLEAN
    /\ status = [b \in Bookings |-> "none"]
    /\ overdue = [b \in Bookings |-> FALSE]
    /\ owes = [b \in Bookings |-> FALSE]
    /\ perks = [b \in Bookings |-> {}]
    /\ payment = [b \in Bookings |-> "none"]
    /\ authority = [b \in Bookings |-> 0]
    /\ ledger = [b \in Bookings |-> <<>>]
    /\ accrued = [b \in Bookings |-> FALSE]
    /\ minted = 0
    /\ captured = {}
    /\ declined = {}
    /\ returned = {}
    /\ local = [h \in Handlers |-> Idle]

-----------------------------------------------------------------------------
(* Writes the transactions share.                                           *)

SetStatus(b, s) == status' = [status EXCEPT ![b] = s]
SetPayment(b, s) == payment' = [payment EXCEPT ![b] = s]

\* UPDATE bookings SET status = to WHERE id = b AND status = from
CasStatus(b, from, to) == SetStatus(b, IF status[b] = from THEN to ELSE status[b])

\* UPDATE payments SET status = to WHERE booking_id = b AND status = from
CasPaymentUnguarded(b, from, to) == SetPayment(b, to)   \* mutant
CasPayment(b, from, to) == SetPayment(b, IF payment[b] = from THEN to ELSE payment[b])

\* reverseWalletSpend on its own: the coupon stays redeemed.
ReverseWalletSpend(b) == perks' = [perks EXCEPT ![b] = @ \ {"wallet"}]

\* releaseBookingHold: the redemption row is deleted, the staked wallet amount credited.
ReleaseBookingHold(b) == perks' = [perks EXCEPT ![b] = {}]

\* recordCommission: a row only when a paid Payment stands behind the booking, as the
\* transaction has written it so far.
RecordCommissionUnpaid(b) == accrued' = [accrued EXCEPT ![b] = TRUE]   \* mutant
RecordCommission(b) == accrued' = [accrued EXCEPT ![b] = @ \/ payment'[b] = "paid"]

\* The sessions ever issued for b, as payment_authorities lists them.
Issued(b) == {ledger[b][i] : i \in 1..Len(ledger[b])}

-----------------------------------------------------------------------------
(* Booking creation and the payment session.                                *)

\* createHoldImpl: the booking, its redemption and wallet debit, and (in automatic mode,
\* when a deposit remains and collection is on) its Payment row are one transaction; only
\* that last case goes on to open a gateway session.
CreateHold(h, b, manual, deposit, spent) ==
    LET collects == deposit /\ online
        opens == collects /\ ~manual
    IN  /\ local[h] = Idle
        /\ status[b] = "none"
        /\ "wallet" \in spent => online
        /\ SetStatus(b, IF manual THEN "pending_approval"
                        ELSE IF collects THEN "pending_payment" ELSE "confirmed")
        /\ owes' = [owes EXCEPT ![b] = deposit]
        /\ perks' = [perks EXCEPT ![b] = spent]
        /\ SetPayment(b, IF opens THEN "initiated" ELSE "none")
        /\ Goto(h, IF opens THEN NewTask("mint", b, 0, "none") ELSE Idle)
        /\ UNCHANGED <<online, overdue, authority, ledger, accrued, gateway>>

\* createManualImpl: a walk-in is confirmed outright, with no deposit and no Payment row.
CreateManual(b) ==
    /\ status[b] = "none"
    /\ SetStatus(b, "confirmed")
    /\ UNCHANGED <<online, overdue, owes, perks, payment, authority, ledger, accrued,
                   gateway, local>>

\* retryPayment: the checks run before the gateway call and are not repeated after it.
RetryPayment(h, b) ==
    /\ local[h] = Idle
    /\ status[b] = "pending_payment"
    /\ ~overdue[b]
    /\ online
    /\ Goto(h, NewTask("mint", b, 0, "none"))
    /\ UNCHANGED <<online, rows, gateway>>

\* createPaymentSession, gateway.requestPayment.
RequestPayment(h) ==
    /\ At(h, "mint")
    /\ minted < MaxSessions
    /\ minted' = minted + 1
    /\ Goto(h, Continue(local[h], "persist", minted + 1, "none"))
    /\ UNCHANGED <<online, rows, captured, declined, returned>>

\* createPaymentSession, the transaction: the current authority is overwritten whatever
\* the payment's status has become, and the session joins the append-only ledger.
PersistAuthority(h) ==
    LET b == local[h].booking
        s == local[h].session
    IN  /\ At(h, "persist")
        /\ authority' = [authority EXCEPT ![b] = s]
        /\ ledger' = [ledger EXCEPT ![b] = Append(@, s)]
        /\ Done(h)
        /\ UNCHANGED <<online, status, overdue, owes, perks, payment, accrued, gateway>>

\* The customer decides a session whose link was handed out, a superseded one included:
\* it stays chargeable until it is paid or declined.
CustomerPays(s) ==
    /\ \E b \in Bookings : s \in Issued(b)
    /\ s \notin captured \cup declined
    /\ captured' = captured \cup {s}
    /\ UNCHANGED <<online, rows, minted, declined, returned, local>>

CustomerDeclines(s) ==
    /\ \E b \in Bookings : s \in Issued(b)
    /\ s \notin captured \cup declined
    /\ declined' = declined \cup {s}
    /\ UNCHANGED <<online, rows, minted, captured, returned, local>>

-----------------------------------------------------------------------------
(* PaymentsService.handleCallback.                                          *)

\* The browser comes back with the authority of a decided session; it may come back
\* several times, late, or never.  NOK stands for a declined session, but an OK may turn
\* out to be declined as well when it is verified.
Callback(h, b, s, ok) ==
    /\ local[h] = Idle
    /\ s \in Issued(b) \cap (captured \cup declined)
    /\ ok \/ s \in declined
    /\ payment[b] \in {"initiated", "failed"}
    /\ ok \/ payment[b] = "initiated"
    /\ Goto(h, NewTask(IF ok THEN "verify" ELSE "mark_failed", b, s, payment[b]))
    /\ UNCHANGED <<online, rows, gateway>>

\* gateway.verifyPayment answers (a throw is Abandon).
VerifyPaymentSkipped(h) ==   \* mutant: the redirect's Status is believed
    /\ At(h, "verify")
    /\ Goto(h, Continue(local[h], "capture", local[h].session, local[h].seen))
    /\ UNCHANGED <<online, rows, gateway>>
VerifyPayment(h) ==
    LET t == local[h]
        next == IF t.session \in captured
                THEN IF t.seen = "failed" THEN "recover" ELSE "capture"
                ELSE IF t.seen = "failed" THEN "idle" ELSE "mark_failed"
    IN  /\ At(h, "verify")
        /\ Goto(h, IF next = "idle" THEN Idle
                   ELSE Continue(t, next, t.session, t.seen))
        /\ UNCHANGED <<online, rows, gateway>>

\* markFailed: both status writes are guarded, the release is not.
MarkFailed(h) ==
    LET b == local[h].booking
    IN  /\ At(h, "mark_failed")
        /\ CasPayment(b, "initiated", "failed")
        /\ CasStatus(b, "pending_payment", "cancelled_by_user")
        /\ ReleaseBookingHold(b)
        /\ Done(h)
        /\ UNCHANGED <<online, overdue, owes, authority, ledger, accrued, gateway>>

\* The capture transaction: the booking first, then the payment.  A booking that left
\* pending_payment is not revived; the handler goes on to recover the money.
CaptureUnguarded(h) ==   \* mutant: the booking is confirmed whatever became of it
    LET b == local[h].booking
    IN  /\ At(h, "capture")
        /\ SetStatus(b, "confirmed")
        /\ CasPayment(b, "initiated", "paid")
        /\ Done(h)
        /\ UNCHANGED <<online, overdue, owes, perks, authority, ledger, accrued, gateway>>
Capture(h) ==
    LET b == local[h].booking
        live == status[b] = "pending_payment"
        pays == live /\ payment[b] = "initiated"
    IN  /\ At(h, "capture")
        /\ SetStatus(b, IF live THEN "confirmed" ELSE status[b])
        /\ SetPayment(b, IF pays THEN "paid" ELSE payment[b])
        /\ authority' = [authority EXCEPT ![b] = IF pays THEN local[h].session ELSE @]
        /\ Goto(h, IF live THEN Idle
                   ELSE Continue(local[h], "recover", local[h].session, local[h].seen))
        /\ UNCHANGED <<online, overdue, owes, perks, ledger, accrued, gateway>>

\* recoverCapturedOnDeadBooking, the read.
Recover(h) ==
    LET b == local[h].booking
    IN  /\ At(h, "recover")
        /\ Goto(h, IF payment[b] \in {"initiated", "failed"}
                   THEN Continue(local[h], "queue", local[h].session, payment[b])
                   ELSE Idle)
        /\ UNCHANGED <<online, rows, gateway>>

\* recoverCapturedOnDeadBooking, the UPDATE on the status just read.
QueueRefund(h) ==
    LET b == local[h].booking
        wins == payment[b] = local[h].seen
    IN  /\ At(h, "queue")
        /\ SetPayment(b, IF wins THEN "refund_pending" ELSE payment[b])
        /\ authority' = [authority EXCEPT ![b] = IF wins THEN local[h].session ELSE @]
        /\ Done(h)
        /\ UNCHANGED <<online, status, overdue, owes, perks, ledger, accrued, gateway>>

-----------------------------------------------------------------------------
(* The salon's decision on a request.                                       *)

\* approve, the reads before the salon lock: the booking and the platform flag.
ApproveRequest(h, b) ==
    /\ local[h] = Idle
    /\ status[b] = "pending_approval"
    /\ Goto(h, Task("approve", b, 0, "none", "none", online))
    /\ UNCHANGED <<online, rows, gateway>>

\* approve, the transaction; `available` is the verdict of the re-check under the lock
\* (SalonSlots models it).  The deadline of a payment window starts here.
Approve(h, available) ==
    LET b == local[h].booking
        collects == owes[b] /\ local[h].flag
    IN  /\ At(h, "approve")
        /\ status[b] = "pending_approval"
        /\ Done(h)
        /\ \/ /\ ~available
              /\ SetStatus(b, "expired")
              /\ ReleaseBookingHold(b)
              /\ UNCHANGED payment
           \/ /\ available /\ collects
              /\ SetStatus(b, "pending_payment")
              /\ SetPayment(b, "initiated")
              /\ UNCHANGED perks
           \/ /\ available /\ ~collects
              /\ SetStatus(b, "confirmed")
              /\ IF local[h].flag THEN UNCHANGED perks ELSE ReverseWalletSpend(b)
              /\ UNCHANGED payment
        /\ UNCHANGED <<online, overdue, owes, authority, ledger, accrued, gateway>>

\* reject.
Reject(b) ==
    /\ status[b] = "pending_approval"
    /\ SetStatus(b, "rejected_by_salon")
    /\ ReleaseBookingHold(b)
    /\ UNCHANGED <<online, overdue, owes, payment, authority, ledger, accrued, gateway,
                   local>>

-----------------------------------------------------------------------------
(* Cancellation and settlement.                                             *)

\* cancel and adminCancel, the unlocked read.  An owner declines a request through
\* reject; a customer's refund depends on the hours left until the appointment.
CancelRequest(h, b, to, refund) ==
    /\ local[h] = Idle
    /\ status[b] \in SlotBlocking
    /\ to = "cancelled_by_salon" => status[b] # "pending_approval"
    /\ to # "cancelled_by_user" => refund
    /\ Goto(h, Task("cancel", b, 0, status[b], to, refund))
    /\ UNCHANGED <<online, rows, gateway>>

\* cancel and adminCancel, the transaction, on a booking still in the status read; a
\* lost CAS is a 409 (Abandon).  cancel writes the payment of a confirmed booking without
\* a status predicate, adminCancel only a paid one.
Cancel(h) ==
    LET b == local[h].booking
        wasConfirmed == local[h].seen = "confirmed"
        refund == local[h].flag
    IN  /\ At(h, "cancel")
        /\ status[b] = local[h].seen
        /\ SetStatus(b, local[h].to)
        /\ IF wasConfirmed
           THEN IF local[h].to = "cancelled_by_admin"
                THEN CasPayment(b, "paid", "refund_pending")
                ELSE SetPayment(b, IF payment[b] = "none" THEN "none"
                                   ELSE IF refund THEN "refund_pending" ELSE "paid")
           ELSE CasPayment(b, "initiated", "failed")
        /\ IF wasConfirmed /\ ~refund
           THEN RecordCommission(b) /\ UNCHANGED perks
           ELSE ReleaseBookingHold(b) /\ UNCHANGED accrued
        /\ Done(h)
        /\ UNCHANGED <<online, overdue, owes, authority, ledger, gateway>>

\* updateStatus: the salon records the outcome of a confirmed appointment.
UpdateStatus(b, outcome) ==
    /\ status[b] = "confirmed"
    /\ SetStatus(b, outcome)
    /\ UNCHANGED <<online, overdue, owes, perks, payment, authority, ledger, gateway, local>>
    /\ RecordCommission(b)

\* attemptRefund reduced to its outcome (RefundClaim models the claim): the gateway
\* refunds a session it captured, once; anything else it refuses and the row stays.
AttemptRefund(b) ==
    LET s == authority[b]
    IN  /\ payment[b] = "refund_pending"
        /\ s \in captured \ returned
        /\ returned' = returned \cup {s}
        /\ SetPayment(b, "refunded")
        /\ UNCHANGED <<online, status, overdue, owes, perks, authority, ledger, accrued,
                       minted, captured, declined, local>>

-----------------------------------------------------------------------------
(* The jobs.                                                                *)

\* BookingExpiryJob: the payment row is left at 'initiated'.
ExpireHold(b) ==
    /\ status[b] = "pending_payment"
    /\ overdue[b]
    /\ SetStatus(b, "expired")
    /\ ReleaseBookingHold(b)
    /\ UNCHANGED <<online, overdue, owes, payment, authority, ledger, accrued, gateway,
                   local>>

\* BookingApprovalExpiryJob; the approval deadline may pass at any time.
ExpireApproval(b) ==
    /\ status[b] = "pending_approval"
    /\ SetStatus(b, "expired")
    /\ ReleaseBookingHold(b)
    /\ UNCHANGED <<online, overdue, owes, payment, authority, ledger, accrued, gateway,
                   local>>

\* PaymentReconciliationJob selects a batch of stale payments; each of them waits for its
\* turn while the gateway is asked about those before it.  A second run gets at the same
\* payment only when the cron lock lapses under the first.
SelectStaleOpened(h, b) ==   \* mutant: a payment without session is skipped
    /\ local[h] = Idle
    /\ payment[b] = "initiated"
    /\ status[b] # "pending_payment" \/ overdue[b]
    /\ authority[b] # 0
    /\ JobLockHolds => \A g \in Handlers : local[g].pc \in JobSteps => local[g].booking # b
    /\ Goto(h, NewTask("selected", b, 0, "none"))
    /\ UNCHANGED <<online, rows, gateway>>
SelectStale(h, b) ==
    /\ local[h] = Idle
    /\ payment[b] = "initiated"
    /\ status[b] # "pending_payment" \/ overdue[b]
    /\ JobLockHolds => \A g \in Handlers : local[g].pc \in JobSteps => local[g].booking # b
    /\ Goto(h, NewTask("selected", b, 0, "none"))
    /\ UNCHANGED <<online, rows, gateway>>

\* loadAuthorities, when the payment's turn comes: the sessions issued by then, `session`
\* counting the ones still to verify, newest first.
LoadAuthorities(h) ==
    LET t == local[h]
        sessions == Len(ledger[t.booking])
    IN  /\ At(h, "selected")
        /\ Goto(h, IF sessions = 0 THEN Continue(t, "retire", 0, "none")
                   ELSE Continue(t, "reconcile", sessions, "none"))
        /\ UNCHANGED <<online, rows, gateway>>

\* No session was loaded: the payment is retired unless one was persisted meanwhile.
RetirePayment(h) ==
    LET b == local[h].booking
    IN  /\ At(h, "retire")
        /\ SetPayment(b, IF payment[b] = "initiated" /\ authority[b] = 0
                         THEN "failed" ELSE payment[b])
        /\ Done(h)
        /\ UNCHANGED <<online, status, overdue, owes, perks, authority, ledger, accrued,
                       gateway>>

\* verifyAny: one gateway call; the first captured session ends the scan.
VerifyAny(h) ==
    LET t == local[h]
        s == ledger[t.booking][t.session]
    IN  /\ At(h, "reconcile")
        /\ Goto(h, IF s \in captured
                   THEN Continue(t, "reconcile_confirm", s, "none")
                   ELSE IF t.session = 1 THEN Continue(t, "reconcile_decline", 0, "none")
                   ELSE Continue(t, "reconcile", t.session - 1, "none"))
        /\ UNCHANGED <<online, rows, gateway>>

\* The transaction of a verified payment: confirm a booking still held, otherwise owe
\* the refund; either way the captured session becomes the current one.
ReconcileConfirm(h) ==
    LET b == local[h].booking
        live == status[b] = "pending_payment"
        open == payment[b] = "initiated"
    IN  /\ At(h, "reconcile_confirm")
        /\ SetStatus(b, IF live THEN "confirmed" ELSE status[b])
        /\ CasPayment(b, "initiated", IF live THEN "paid" ELSE "refund_pending")
        /\ authority' = [authority EXCEPT ![b] = IF open THEN local[h].session ELSE @]
        /\ Done(h)
        /\ UNCHANGED <<online, overdue, owes, perks, ledger, accrued, gateway>>

\* The transaction of a declined payment; its release is unconditional too.
ReconcileDecline(h) ==
    LET b == local[h].booking
    IN  /\ At(h, "reconcile_decline")
        /\ CasStatus(b, "pending_payment", "cancelled_by_user")
        /\ CasPayment(b, "initiated", "failed")
        /\ ReleaseBookingHold(b)
        /\ Done(h)
        /\ UNCHANGED <<online, overdue, owes, authority, ledger, accrued, gateway>>

-----------------------------------------------------------------------------
(* The environment.                                                         *)

\* The payment window of a held booking closes.
WindowCloses(b) ==
    /\ status[b] = "pending_payment"
    /\ ~overdue[b]
    /\ overdue' = [overdue EXCEPT ![b] = TRUE]
    /\ UNCHANGED <<online, status, owes, perks, payment, authority, ledger, accrued,
                   gateway, local>>

\* An admin turns online collection on or off.
ToggleOnline ==
    /\ online' = ~online
    /\ UNCHANGED <<rows, gateway, local>>

\* A handler stops between two steps: a crash, a gateway or database error, a lost CAS.
Abandon(h) ==
    /\ local[h] # Idle
    /\ Done(h)
    /\ UNCHANGED <<online, rows, gateway>>

HandlerStep(h) ==
    \/ RequestPayment(h)
    \/ PersistAuthority(h)
    \/ VerifyPayment(h)
    \/ MarkFailed(h)
    \/ Capture(h)
    \/ Recover(h)
    \/ QueueRefund(h)
    \/ \E available \in BOOLEAN : Approve(h, available)
    \/ Cancel(h)
    \/ LoadAuthorities(h)
    \/ RetirePayment(h)
    \/ VerifyAny(h)
    \/ ReconcileConfirm(h)
    \/ ReconcileDecline(h)

HandlerStart(h, b) ==
    \/ \E manual, deposit \in BOOLEAN, spent \in SUBSET Perks :
            CreateHold(h, b, manual, deposit, spent)
    \/ RetryPayment(h, b)
    \/ \E s \in Sessions, ok \in BOOLEAN : Callback(h, b, s, ok)
    \/ ApproveRequest(h, b)
    \/ \E to \in Cancellations, refund \in BOOLEAN : CancelRequest(h, b, to, refund)
    \/ SelectStale(h, b)

BookingStep(b) ==
    \/ CreateManual(b)
    \/ Reject(b)
    \/ \E outcome \in {"completed", "no_show"} : UpdateStatus(b, outcome)
    \/ AttemptRefund(b)
    \/ ExpireHold(b)
    \/ ExpireApproval(b)
    \/ WindowCloses(b)

Next ==
    \/ \E h \in Handlers : HandlerStep(h)
    \/ \E h \in Handlers, b \in Bookings : HandlerStart(h, b)
    \/ \E b \in Bookings : BookingStep(b)
    \/ \E s \in Sessions : CustomerPays(s) \/ CustomerDeclines(s)
    \/ \E h \in Handlers : Abandon(h)
    \/ ToggleOnline

Spec == Init /\ [][Next]_vars

\* Time passes, the jobs run on their schedules and every request ends; the gateway (asked
\* about any one session) and the database may fail any number of times, but not every
\* time.  Nothing is assumed of customers, owners or callbacks.
Fairness ==
    /\ \A b \in Bookings :
          /\ WF_vars(WindowCloses(b)) /\ WF_vars(ExpireHold(b))
          /\ WF_vars(ExpireApproval(b)) /\ WF_vars(AttemptRefund(b))
          /\ SF_vars(\E h \in Handlers : SelectStale(h, b))
    /\ \A h \in Handlers : WF_vars(HandlerStep(h) \/ Abandon(h))
    /\ SF_vars(\E h \in Handlers : LoadAuthorities(h))
    /\ \A s \in Sessions :
          SF_vars(\E h \in Handlers : local[h].pc = "reconcile" /\ local[h].session = s
                                           /\ VerifyAny(h))
    /\ SF_vars(\E h \in Handlers : RetirePayment(h) \/ ReconcileDecline(h))
    /\ SF_vars(\E h \in Handlers : ReconcileConfirm(h))

FairSpec == Spec /\ Fairness

-----------------------------------------------------------------------------
(* Safety.                                                                  *)

\* An appointment that stands or took place and has a Payment row is a paid one: no
\* cancellation, expiry, late callback or reconciliation leaves one half of the pair behind,
\* as long as the cron lock keeps two reconciliation runs apart.
StandingIsPaid ==
    \A b \in Bookings :
        status[b] \in Standing /\ payment[b] # "none" => payment[b] = "paid"

\* Whatever the runs of the job do to each other, an appointment whose deposit was asked for
\* stands only on money the gateway took.
StandingHasCapture ==
    \A b \in Bookings :
        status[b] \in Standing /\ payment[b] # "none" => Issued(b) \cap captured # {}

\* The salon is billed a commission exactly for the deposits the books keep, whoever raced:
\* paid, of an appointment that took place, was missed or was called off late.
CommissionIffForfeitedOrEarned ==
    \A b \in Bookings :
        accrued[b] <=> /\ payment[b] = "paid"
                       /\ status[b] \in {"completed", "no_show", "cancelled_by_user"}

\* A booking that died before it was paid, or whose deposit goes back, keeps neither the
\* customer's coupon nor the wallet money staked on it.  (A customer's late cancellation of
\* a booking without Payment row is the one death that keeps them.)
DeadBookingReleased ==
    \A b \in Bookings :
        /\ status[b] \in Dead \ {"cancelled_by_user"} => perks[b] = {}
        /\ status[b] = "cancelled_by_user" /\ payment[b] \notin {"none", "paid"}
              => perks[b] = {}

\* A refund is owed or made only for money the gateway took.
RefundBackedByCapture ==
    \A b \in Bookings :
        payment[b] \in {"paid", "refund_pending", "refunded"} =>
            Issued(b) \cap captured # {}

\* A dead booking is never revived, and a recorded outcome never changes: its slot may
\* already belong to somebody else.
FinalStaysFinal ==
    [][\A b \in Bookings :
          status[b] \in Dead \cup {"completed", "no_show"} => status'[b] = status[b]]_vars

\* The only ways a payment's status moves while the cron lock keeps two reconciliation runs
\* apart; in particular money known to be captured is never written back to 'failed', a
\* payment given up never becomes a paid one, and a refund is never undone.
PaymentMovesForward ==
    [][\A b \in Bookings :
          payment'[b] # payment[b] =>
              <<payment[b], payment'[b]>> \in
                  ({<<"none", "initiated">>, <<"paid", "refund_pending">>,
                    <<"refund_pending", "refunded">>, <<"failed", "refund_pending">>}
                   \cup {"initiated"} \X {"paid", "failed", "refund_pending"})]_vars

-----------------------------------------------------------------------------
(* The inductive invariant: what the handlers hold between two steps.       *)

\* Every booking's payment fits its status.
PaymentFitsStatus ==
    \A b \in Bookings :
        /\ status[b] \in {"none", "pending_approval"} => payment[b] = "none"
        /\ status[b] = "pending_payment" => payment[b] \notin {"none", "paid"}
        /\ payment[b] = "paid" => status[b] \in Standing \cup {"cancelled_by_user"}
        /\ JobLockHolds /\ status[b] \in Standing => payment[b] \in {"none", "paid"}

\* The cron lock lets one run at a time work through its batch.
JobsApart ==
    JobLockHolds =>
        \A g, h \in Handlers :
            /\ local[g].pc \in JobSteps /\ local[h].pc \in JobSteps
            /\ local[g].booking = local[h].booking
            => g = h

\* A payment without current authority never had a session.
AuthorityCoversLedger ==
    \A b \in Bookings : authority[b] = 0 => ledger[b] = <<>>

\* What a handler found out still holds when it uses it.
HandlerKnows(t) ==
    LET b == t.booking
    IN  /\ t.pc \notin {"approve", "cancel"} => payment[b] # "none"
        /\ t.pc \in {"verify", "capture", "recover", "queue", "reconcile_confirm"} =>
              t.session \in Issued(b)
        /\ t.pc \in {"capture", "recover", "queue", "reconcile_confirm"} =>
              t.session \in captured
        /\ t.pc \in {"verify", "queue"} => t.seen \in {"initiated", "failed"}
        /\ t.pc = "verify" /\ t.seen = "failed" => payment[b] \notin {"none", "initiated"}
        /\ t.pc \in {"recover", "queue"} =>
              \/ status[b] \notin {"none", "pending_approval", "pending_payment"}
              \/ payment[b] \notin {"none", "initiated"}
        /\ t.pc = "cancel" => /\ t.seen \in SlotBlocking
                              /\ t.to \in Cancellations
                              /\ t.to = "cancelled_by_user" \/ t.flag

HandlersKnow == \A h \in Handlers : local[h] # Idle => HandlerKnows(local[h])

\* The one way a booking awaits payment with a payment already given up is that no session
\* had been opened; then no handler is about to confirm it, unless a second run of the job
\* had selected the payment before and loads its sessions late.
Confirming(t) ==
    \/ t.pc \in {"capture", "selected", "reconcile", "reconcile_confirm"}
    \/ t.pc = "verify" /\ t.seen # "failed"

RetiredStaysRetired ==
    JobLockHolds =>
        \A b \in Bookings, h \in Handlers :
            status[b] = "pending_payment" /\ payment[b] # "initiated" =>
                local[h] = Idle \/ local[h].booking # b \/ ~Confirming(local[h])

IInv ==
    /\ TypeOK
    /\ PaymentFitsStatus
    /\ AuthorityCoversLedger
    /\ HandlersKnow
    /\ StandingHasCapture
    /\ JobsApart
    /\ RetiredStaysRetired
    /\ CommissionIffForfeitedOrEarned
    /\ DeadBookingReleased
    /\ RefundBackedByCapture

-----------------------------------------------------------------------------
(* Progress, under FairSpec.                                                *)

\* Nothing about a booking is left open: no request unanswered, no hold unpaid, no payment
\* undecided, no refund unmade.  Only a refund issued against a current authority that took
\* no money stays (a retry persisted its session after the capture: AuthorityNamesCapture).
AtRest(b) ==
    /\ status[b] \notin {"pending_approval", "pending_payment"}
    /\ payment[b] # "initiated"
    /\ payment[b] = "refund_pending" => authority[b] \notin captured

\* Whatever a booking waits for comes, and comes again when a late capture or a retry stirs
\* it: a slot is not held for ever by a request nobody answers or a hold nobody pays, every
\* payment is decided even when every callback is lost, every refund that is owed is made.
ComesToRest == \A b \in Bookings : []<>AtRest(b)

-----------------------------------------------------------------------------
(* The abstract contract.                                                   *)

SlotOf == [s \in BookingStatus |->
             CASE s = "none" -> "free"
               [] s \in {"pending_approval", "pending_payment"} -> "held"
               [] s = "confirmed" -> "booked"
               [] s \in {"completed", "no_show"} -> "done"
               [] OTHER -> "released"]

DepositOf == [p \in PaymentStatus |->
                CASE p = "none" -> "none"
                  [] p = "initiated" -> "awaited"
                  [] p = "paid" -> "kept"
                  [] p = "failed" -> "void"
                  [] p = "refund_pending" -> "owed"
                  [] OTHER -> "returned"]

Contract == INSTANCE BookingContract WITH
                slot <- [b \in Bookings |-> SlotOf[status[b]]],
                deposit <- [b \in Bookings |-> DepositOf[payment[b]]]

\* Every step of the code keeps the contract while the cron lock keeps two reconciliation
\* runs apart.
ImplementsContract == Contract!Spec

-----------------------------------------------------------------------------
(* What the code's comments and documents say, and the code does not do.    *)

\* booking-hold-release.util.ts: coupon and wallet credit go back when a booking dies
\* before any money moved, or when a captured deposit is refunded - not otherwise.
PerksReturnOnlyWithTheBooking ==
    [][\A b \in Bookings :
          status[b] # "none" /\ perks'[b] # perks[b] =>
              status'[b] \in Dead \/ payment'[b] = "none"]_vars

\* payments.service.ts: refunds are issued against payments.authority, so it has to name
\* the session that captured.
AuthorityNamesCapture ==
    \A b \in Bookings : payment[b] \in Settled => authority[b] \in captured

\* payments.service.ts, recoverCapturedOnDeadBooking: a verified capture that finds the
\* booking dead always ends with the money kept or a refund queued, by this handler or by
\* the writer it lost to.
VerifiedCaptureSettles ==
    [][\A h \in Handlers :
          (Capture(h) \/ Recover(h) \/ QueueRefund(h)) /\ local'[h] = Idle =>
              payment'[local[h].booking] \in Settled]_vars

=============================================================================
