------------------------ MODULE BookingPaymentProofs ------------------------
(***************************************************************************)
(* BookingPayment is correct for any sets of bookings and handlers and any  *)
(* number of sessions.  IInv is inductive: what a handler learnt before it  *)
(* paused (HandlersKnow) still holds when it commits, because rows only     *)
(* move forward (Forward); the safety invariants follow from it, and so do  *)
(* the action properties and the refinement of BookingContract.  Three of   *)
(* them need the cron lock to keep two runs of the reconciliation apart;    *)
(* their theorems assume JobLockHolds.                                      *)
(***************************************************************************)
EXTENDS BookingPayment, TLAPS

-----------------------------------------------------------------------------
(* Types.                                                                   *)

\* The first rows are well typed.
LEMMA TypeInit == Init => TypeOK
  BY SessionsAssumption DEF Init, TypeOK, BookingStatus, PaymentStatus, Sessions, At,
              Idle

\* Every step keeps the rows, and what handlers carry between two steps, well typed.
LEMMA TypeStep == TypeOK /\ [Next]_vars => TypeOK'
<1> USE SessionsAssumption DEF TypeOK, Sessions, BookingStatus, PaymentStatus, SlotBlocking,
        Dead,
      Standing, Cancellations, Steps, JobSteps, Tasks, Idle, At, rows, gateway
<1>1. ASSUME TypeOK, NEW h \in Handlers, RequestPayment(h)
      PROVE  TypeOK'
  BY <1>1 DEF RequestPayment, At, Goto, Continue, Task
<1>2. ASSUME TypeOK, NEW h \in Handlers, PersistAuthority(h)
      PROVE  TypeOK'
  BY <1>2, SMTT(30) DEF PersistAuthority, At, Done, Goto
<1>3. ASSUME TypeOK, NEW h \in Handlers, VerifyPayment(h)
      PROVE  TypeOK'
  BY <1>3 DEF VerifyPayment, At, Goto, Continue, Task
<1>4. ASSUME TypeOK, NEW h \in Handlers, MarkFailed(h)
      PROVE  TypeOK'
  BY <1>4 DEF MarkFailed, At, Done, Goto, CasPayment, CasStatus, SetPayment, SetStatus,
              ReleaseBookingHold
<1>5. ASSUME TypeOK, NEW h \in Handlers, Capture(h)
      PROVE  TypeOK'
  BY <1>5 DEF Capture, At, Goto, SetStatus, SetPayment, Continue, Task
<1>6. ASSUME TypeOK, NEW h \in Handlers, Recover(h)
      PROVE  TypeOK'
  BY <1>6 DEF Recover, At, Goto, Continue, Task
<1>7. ASSUME TypeOK, NEW h \in Handlers, QueueRefund(h)
      PROVE  TypeOK'
  BY <1>7 DEF QueueRefund, At, Done, Goto, SetPayment
<1>8. ASSUME TypeOK, NEW h \in Handlers, NEW a \in BOOLEAN, Approve(h, a)
      PROVE  TypeOK'
  <2>1. local[h] \in Tasks
    BY <1>8 DEF Approve, At
  <2>2. status' \in [Bookings -> BookingStatus] /\ payment' \in [Bookings -> PaymentStatus]
    BY <1>8, <2>1, ZenonT(40) DEF Approve, SetStatus, SetPayment
  <2>3. perks' \in [Bookings -> SUBSET Perks]
    <3>1. \/ perks' = [perks EXCEPT ![local[h].booking] = {}]
          \/ perks' = perks
          \/ perks' = [perks EXCEPT ![local[h].booking] = @ \ {"wallet"}]
      BY <1>8, Zenon DEF Approve, ReleaseBookingHold, ReverseWalletSpend
    <3> DEFINE q == perks[local[h].booking] \ {"wallet"}
    <3>2. q \in SUBSET Perks
      BY <1>8, <2>1
    <3>3. \/ perks' = [perks EXCEPT ![local[h].booking] = {}]
          \/ perks' = perks
          \/ perks' = [perks EXCEPT ![local[h].booking] = q]
      BY <3>1
    <3> HIDE DEF q
    <3> QED
      BY <1>8, <3>2, <3>3
  <2>4. QED
    BY <1>8, <2>2, <2>3 DEF Approve, At, Done, Goto
<1>9. ASSUME TypeOK, NEW h \in Handlers, Cancel(h)
      PROVE  TypeOK'
  <2>1. local[h] \in Tasks
    BY <1>9 DEF Cancel, At
  <2>2. status' \in [Bookings -> BookingStatus]
    BY <1>9, <2>1 DEF Cancel, SetStatus
  <2>3. payment' \in [Bookings -> PaymentStatus]
    <3>1. \E p \in PaymentStatus : payment' = [payment EXCEPT ![local[h].booking] = p]
      BY <1>9, <2>1 DEF Cancel, CasPayment, SetPayment
    <3> QED
      BY <1>9, <3>1
  <2>4. perks' \in [Bookings -> SUBSET Perks] /\ accrued' \in [Bookings -> BOOLEAN]
    BY <1>9, <2>1 DEF Cancel, ReleaseBookingHold, RecordCommission
  <2>5. QED
    BY <1>9, <2>2, <2>3, <2>4 DEF Cancel, At, Done, Goto
<1>10. ASSUME TypeOK, NEW h \in Handlers, RetirePayment(h)
      PROVE  TypeOK'
  BY <1>10 DEF RetirePayment, At, Done, Goto, SetPayment
<1>11. ASSUME TypeOK, NEW h \in Handlers, VerifyAny(h)
      PROVE  TypeOK'
  <2> DEFINE t == local[h]
             s == ledger[t.booking][t.session]
  <2>1. t \in Tasks /\ t.session \in 1..Len(ledger[t.booking]) /\
        ledger[t.booking] \in Seq(1..MaxSessions)
    BY <1>11 DEF VerifyAny
  <2>2. s \in 1..MaxSessions
    BY <2>1
  <2>3. \/ local' = [local EXCEPT ![h] = Task("reconcile_confirm", t.booking, s, "none",
           t.to, t.flag)]
        \/ local' = [local EXCEPT ![h] = Task("reconcile_decline", t.booking, 0, "none",
            t.to, t.flag)]
        \/ /\ t.session # 1
           /\ local' = [local EXCEPT ![h] = Task("reconcile", t.booking, t.session - 1,
               "none", t.to, t.flag)]
    BY <1>11 DEF VerifyAny, Goto, Continue
  <2>4. UNCHANGED <<online, rows, gateway>>
    BY <1>11 DEF VerifyAny
  <2> HIDE DEF s
  <2> HIDE DEF t
  <2>u. \E u \in Tasks : local' = [local EXCEPT ![h] = u]
    BY <2>1, <2>2, <2>3 DEF Task
  <2>5. /\ local' \in [Handlers -> Tasks \cup {Idle}]
        /\ \A g \in Handlers : g # h => local'[g] = local[g]
    BY <1>11, <2>u
  <2>6. /\ local'[h].pc = "reconcile" =>
              local'[h].session \in 1..Len(ledger[local'[h].booking])
        /\ local'[h].pc # "reconcile" => local'[h].session \in 0..MaxSessions
        /\ local'[h].pc # "persist"
    BY <1>11, <2>1, <2>2, <2>3 DEF Task
  <2>7. QED
    BY <1>11, <2>4, <2>5, <2>6
<1>11a. ASSUME TypeOK, NEW h \in Handlers, LoadAuthorities(h)
      PROVE  TypeOK'
  BY <1>11a DEF LoadAuthorities, Goto, Continue, Task
<1>12. ASSUME TypeOK, NEW h \in Handlers, ReconcileConfirm(h)
      PROVE  TypeOK'
  BY <1>12 DEF ReconcileConfirm, At, Done, Goto, SetStatus, CasPayment, SetPayment
<1>13. ASSUME TypeOK, NEW h \in Handlers, ReconcileDecline(h)
      PROVE  TypeOK'
  BY <1>13 DEF ReconcileDecline, At, Done, Goto, CasStatus, SetStatus, CasPayment,
              SetPayment, ReleaseBookingHold
<1>14. ASSUME TypeOK, NEW h \in Handlers, NEW b \in Bookings, NEW m \in BOOLEAN,
              NEW d \in BOOLEAN,
           NEW p \in SUBSET Perks, CreateHold(h, b, m, d, p)
      PROVE  TypeOK'
  BY <1>14 DEF CreateHold, Goto, NewTask, Task, SetStatus, SetPayment
<1>15. ASSUME TypeOK, NEW h \in Handlers, NEW b \in Bookings, RetryPayment(h, b)
      PROVE  TypeOK'
  BY <1>15 DEF RetryPayment, Goto, NewTask, Task
<1>16. ASSUME TypeOK, NEW h \in Handlers, NEW b \in Bookings, NEW s \in Sessions,
              NEW k \in BOOLEAN, Callback(h, b, s, k)
      PROVE  TypeOK'
  BY <1>16 DEF Callback, Goto, NewTask, Task
<1>17. ASSUME TypeOK, NEW h \in Handlers, NEW b \in Bookings, ApproveRequest(h, b)
      PROVE  TypeOK'
  BY <1>17 DEF ApproveRequest, Goto, Task
<1>18. ASSUME TypeOK, NEW h \in Handlers, NEW b \in Bookings, NEW t \in Cancellations,
           NEW r \in BOOLEAN, CancelRequest(h, b, t, r)
      PROVE  TypeOK'
  BY <1>18 DEF CancelRequest, Goto, Task
<1>19. ASSUME TypeOK, NEW h \in Handlers, NEW b \in Bookings, SelectStale(h, b)
      PROVE  TypeOK'
  BY <1>19 DEF SelectStale, Goto, NewTask, Task
<1>20. ASSUME TypeOK, NEW b \in Bookings, CreateManual(b)
      PROVE  TypeOK'
  BY <1>20 DEF CreateManual, SetStatus
<1>21. ASSUME TypeOK, NEW b \in Bookings, Reject(b)
      PROVE  TypeOK'
  BY <1>21 DEF Reject, SetStatus, ReleaseBookingHold
<1>22. ASSUME TypeOK, NEW b \in Bookings, NEW o \in {"completed", "no_show"}, UpdateStatus(b, o)
      PROVE  TypeOK'
  BY <1>22 DEF UpdateStatus, SetStatus, RecordCommission
<1>23. ASSUME TypeOK, NEW b \in Bookings, AttemptRefund(b)
      PROVE  TypeOK'
  BY <1>23 DEF AttemptRefund, SetPayment
<1>24. ASSUME TypeOK, NEW b \in Bookings, ExpireHold(b)
      PROVE  TypeOK'
  BY <1>24 DEF ExpireHold, SetStatus, ReleaseBookingHold
<1>25. ASSUME TypeOK, NEW b \in Bookings, ExpireApproval(b)
      PROVE  TypeOK'
  BY <1>25 DEF ExpireApproval, SetStatus, ReleaseBookingHold
<1>26. ASSUME TypeOK, NEW b \in Bookings, WindowCloses(b)
      PROVE  TypeOK'
  BY <1>26 DEF WindowCloses
<1>27. ASSUME TypeOK, NEW s \in Sessions, CustomerPays(s)
      PROVE  TypeOK'
  BY <1>27 DEF CustomerPays
<1>28. ASSUME TypeOK, NEW s \in Sessions, CustomerDeclines(s)
      PROVE  TypeOK'
  BY <1>28 DEF CustomerDeclines
<1>29. ASSUME TypeOK, NEW h \in Handlers, Abandon(h)
      PROVE  TypeOK'
  BY <1>29 DEF Abandon, Done, Goto
<1>30. ASSUME TypeOK, ToggleOnline
      PROVE  TypeOK'
  BY <1>30 DEF ToggleOnline
<1>31. ASSUME TypeOK, UNCHANGED vars
      PROVE  TypeOK'
  BY <1>31 DEF vars
<1> HIDE DEF TypeOK, Sessions, BookingStatus, PaymentStatus, SlotBlocking, Dead,
      Standing, Cancellations, Steps, JobSteps, Tasks, Idle, At, rows, gateway
<1>32. QED
  BY <1>1, <1>2, <1>3, <1>4, <1>5, <1>6, <1>7, <1>8, <1>9, <1>10, <1>11, <1>11a, <1>12,
     <1>13,
     <1>14, <1>15, <1>16, <1>17, <1>18, <1>19, <1>20, <1>21, <1>22, <1>23, <1>24, <1>25,
     <1>26, <1>27, <1>28, <1>29, <1>30, <1>31
     DEF Next, HandlerStep, HandlerStart, BookingStep

\* Rows, gateway and handlers stay well typed; in particular no handler of the
\* reconciliation scan runs past the end of the ledger it loaded.
THEOREM TypeCorrect == Spec => []TypeOK
<1> QED
  BY TypeInit, TypeStep, PTL DEF Spec

-----------------------------------------------------------------------------
(* What handlers know lasts.                                                *)

\* A handler at work holds a task of some booking, and still knows what it found out.
LEMMA TaskOf ==
    ASSUME TypeOK, HandlersKnow, NEW h \in Handlers, local[h] # Idle
    PROVE  local[h] \in Tasks /\ local[h].booking \in Bookings /\ HandlerKnows(local[h])
  BY DEF TypeOK, Tasks, HandlersKnow

\* The ledger lists real sessions.
LEMMA IssuedSessions ==
    ASSUME TypeOK, NEW b \in Bookings
    PROVE  Issued(b) \subseteq Sessions
<1>1. ledger[b] \in Seq(Sessions)
  BY DEF TypeOK
<1> QED
  BY <1>1 DEF Issued

\* A step that leaves the ledger alone leaves the issued sessions alone.
LEMMA IssuedKept ==
    ASSUME NEW b \in Bookings, UNCHANGED ledger
    PROVE  Issued(b)' = Issued(b)
  BY DEF Issued

\* Captures and sessions accumulate; a booking that left the pending statuses does not
\* return to them, and a payment that was decided is not reopened.
Forward ==
    /\ captured \subseteq captured'
    /\ \A b \in Bookings :
          /\ Issued(b) \subseteq Issued(b)'
          /\ status[b] \notin {"none", "pending_approval", "pending_payment"} =>
                status'[b] \notin {"none", "pending_approval", "pending_payment"}
          /\ payment[b] # "none" => payment'[b] # "none"
          /\ payment[b] \notin {"none", "initiated"} => payment'[b] \notin {"none", "initiated"}

\* A handler that is not stepping keeps what it knows while rows move forward.
LEMMA KnowledgeLasts ==
    ASSUME TypeOK, Forward, NEW h \in Handlers, local[h] # Idle, HandlerKnows(local[h]),
           local'[h] = local[h]
    PROVE  HandlerKnows(local[h])'
<1>1. local[h] \in Tasks /\ local[h].booking \in Bookings
  BY DEF TypeOK, Tasks
<1> QED
  BY <1>1 DEF HandlerKnows, Forward

\* When one handler steps, only its own knowledge has to be shown again.
LEMMA OthersKnow ==
    ASSUME TypeOK, Forward, HandlersKnow, NEW h \in Handlers,
           \A g \in Handlers \ {h} : local'[g] = local[g],
           (local[h] # Idle => HandlerKnows(local[h]))'
    PROVE  HandlersKnow'
<1>1. ASSUME NEW g \in Handlers, g # h, local'[g] # Idle
      PROVE  HandlerKnows(local[g])'
  BY <1>1, KnowledgeLasts DEF HandlersKnow
<1> QED
  BY <1>1 DEF HandlersKnow

\* When no handler steps, none loses its knowledge.
LEMMA AllKnow ==
    ASSUME TypeOK, Forward, HandlersKnow, UNCHANGED local
    PROVE  HandlersKnow'
<1>1. ASSUME NEW g \in Handlers, local'[g] # Idle
      PROVE  HandlerKnows(local[g])'
  BY <1>1, KnowledgeLasts DEF HandlersKnow
<1> QED
  BY <1>1 DEF HandlersKnow

\* The row invariants survive a step that writes none of the rows they speak of.
LEMMA RowsKept ==
    ASSUME IInv, UNCHANGED <<status, perks, payment, authority, ledger, accrued, captured>>
    PROVE  /\ PaymentFitsStatus' /\ AuthorityCoversLedger' /\ CommissionIffForfeitedOrEarned'
           /\ DeadBookingReleased' /\ RefundBackedByCapture' /\ StandingHasCapture'
           /\ Forward
<1>1. \A b \in Bookings : Issued(b)' = Issued(b)
  BY IssuedKept
<1> QED
  BY <1>1 DEF IInv, PaymentFitsStatus, AuthorityCoversLedger,
              CommissionIffForfeitedOrEarned,
              DeadBookingReleased, RefundBackedByCapture, StandingHasCapture, Forward

\* Nobody is about to confirm a booking for which no session was ever issued, but for a run
\* of the job that has yet to load the sessions.
LEMMA NoSessionToConfirm ==
    ASSUME IInv, NEW h \in Handlers, local[h] # Idle, ledger[local[h].booking] = <<>>
    PROVE  Confirming(local[h]) => local[h].pc = "selected"
  BY DEF IInv, TypeOK, HandlersKnow, HandlerKnows, Confirming, Issued, At, Tasks

-----------------------------------------------------------------------------
(* The inductive invariant.                                                 *)

\* Nothing is paid, owed, released or accrued in the first state.
LEMMA InductiveInit == Init => IInv
<1> SUFFICES ASSUME Init
             PROVE  IInv
  OBVIOUS
<1>1. TypeOK
  BY TypeInit
<1>2. /\ \A b \in Bookings : /\ status[b] = "none" /\ payment[b] = "none"
                             /\ ledger[b] = <<>> /\ ~accrued[b] /\ perks[b] = {}
      /\ \A h \in Handlers : local[h] = Idle
  BY DEF Init
<1> QED
  BY <1>1, <1>2 DEF IInv, PaymentFitsStatus, AuthorityCoversLedger, HandlersKnow,
     RetiredStaysRetired, CommissionIffForfeitedOrEarned, DeadBookingReleased, JobsApart,
     JobSteps, Idle, RefundBackedByCapture, StandingHasCapture, Standing, SlotBlocking, Dead

\* A handler of the job keeps to its booking, and takes one that no other is at.
LEMMA JobsStay ==
    ASSUME JobsApart, NEW h \in Handlers, \A g \in Handlers \ {h} : local'[g] = local[g],
           local'[h].pc \in JobSteps =>
               \/ local[h].pc \in JobSteps /\ local'[h].booking = local[h].booking
               \/ \A g \in Handlers \ {h} : JobLockHolds /\ local[g].pc \in JobSteps =>
                      local[g].booking # local'[h].booking
    PROVE  JobsApart'
  BY DEF JobsApart

\* The cron lock keeps two runs of the job from the same payment.
LEMMA JobsStepApart == TypeOK /\ JobsApart /\ [Next]_vars => JobsApart'
<1> USE DEF TypeOK, Tasks, Steps, JobSteps, Idle, At, Goto, Done, Task, NewTask, Continue
<1>1. ASSUME TypeOK, JobsApart, NEW h \in Handlers, RequestPayment(h)
      PROVE  JobsApart'
  BY <1>1, JobsStay DEF RequestPayment
<1>2. ASSUME TypeOK, JobsApart, NEW h \in Handlers, PersistAuthority(h)
      PROVE  JobsApart'
  BY <1>2, JobsStay DEF PersistAuthority
<1>3. ASSUME TypeOK, JobsApart, NEW h \in Handlers, VerifyPayment(h)
      PROVE  JobsApart'
  BY <1>3, JobsStay DEF VerifyPayment
<1>4. ASSUME TypeOK, JobsApart, NEW h \in Handlers, MarkFailed(h)
      PROVE  JobsApart'
  BY <1>4, JobsStay DEF MarkFailed
<1>5. ASSUME TypeOK, JobsApart, NEW h \in Handlers, Capture(h)
      PROVE  JobsApart'
  BY <1>5, JobsStay DEF Capture
<1>6. ASSUME TypeOK, JobsApart, NEW h \in Handlers, Recover(h)
      PROVE  JobsApart'
  BY <1>6, JobsStay DEF Recover
<1>7. ASSUME TypeOK, JobsApart, NEW h \in Handlers, QueueRefund(h)
      PROVE  JobsApart'
  BY <1>7, JobsStay DEF QueueRefund
<1>8. ASSUME TypeOK, JobsApart, NEW h \in Handlers, NEW a \in BOOLEAN, Approve(h, a)
      PROVE  JobsApart'
  BY <1>8, JobsStay DEF Approve
<1>9. ASSUME TypeOK, JobsApart, NEW h \in Handlers, Cancel(h)
      PROVE  JobsApart'
  BY <1>9, JobsStay DEF Cancel
<1>10. ASSUME TypeOK, JobsApart, NEW h \in Handlers, LoadAuthorities(h)
      PROVE  JobsApart'
  BY <1>10, JobsStay DEF LoadAuthorities
<1>11. ASSUME TypeOK, JobsApart, NEW h \in Handlers, RetirePayment(h)
      PROVE  JobsApart'
  BY <1>11, JobsStay DEF RetirePayment
<1>12. ASSUME TypeOK, JobsApart, NEW h \in Handlers, VerifyAny(h)
      PROVE  JobsApart'
  BY <1>12, JobsStay DEF VerifyAny
<1>13. ASSUME TypeOK, JobsApart, NEW h \in Handlers, ReconcileConfirm(h)
      PROVE  JobsApart'
  BY <1>13, JobsStay DEF ReconcileConfirm
<1>14. ASSUME TypeOK, JobsApart, NEW h \in Handlers, ReconcileDecline(h)
      PROVE  JobsApart'
  BY <1>14, JobsStay DEF ReconcileDecline
<1>15. ASSUME TypeOK, JobsApart, NEW h \in Handlers, Abandon(h)
      PROVE  JobsApart'
  BY <1>15, JobsStay DEF Abandon
<1>16. ASSUME TypeOK, JobsApart, NEW h \in Handlers, NEW b \in Bookings,
              NEW m \in BOOLEAN, NEW d \in BOOLEAN, NEW p \in SUBSET Perks, CreateHold(h,
              b, m, d, p)
      PROVE  JobsApart'
  BY <1>16, JobsStay DEF CreateHold
<1>17. ASSUME TypeOK, JobsApart, NEW h \in Handlers, NEW b \in Bookings, RetryPayment(h, b)
      PROVE  JobsApart'
  BY <1>17, JobsStay DEF RetryPayment
<1>18. ASSUME TypeOK, JobsApart, NEW h \in Handlers, NEW b \in Bookings,
              NEW s \in Sessions, NEW k \in BOOLEAN, Callback(h, b, s, k)
      PROVE  JobsApart'
  BY <1>18, JobsStay DEF Callback
<1>19. ASSUME TypeOK, JobsApart, NEW h \in Handlers, NEW b \in Bookings, ApproveRequest(h, b)
      PROVE  JobsApart'
  BY <1>19, JobsStay DEF ApproveRequest
<1>20. ASSUME TypeOK, JobsApart, NEW h \in Handlers, NEW b \in Bookings,
              NEW t \in Cancellations, NEW r \in BOOLEAN, CancelRequest(h, b, t, r)
      PROVE  JobsApart'
  BY <1>20, JobsStay DEF CancelRequest
<1>21. ASSUME TypeOK, JobsApart, NEW h \in Handlers, NEW b \in Bookings, SelectStale(h, b)
      PROVE  JobsApart'
  BY <1>21, JobsStay DEF SelectStale
<1>22. ASSUME JobsApart, UNCHANGED local
      PROVE  JobsApart'
  BY <1>22 DEF JobsApart
<1> HIDE DEF TypeOK, Tasks, Steps, JobSteps, Idle, At, Goto, Done, Task, NewTask, Continue
<1>23. ASSUME \/ \E b \in Bookings : BookingStep(b)
              \/ \E s \in Sessions : CustomerPays(s) \/ CustomerDeclines(s)
              \/ ToggleOnline \/ UNCHANGED vars
      PROVE  UNCHANGED local
  BY <1>23 DEF BookingStep, CreateManual, Reject, UpdateStatus, AttemptRefund, ExpireHold,
                ExpireApproval, WindowCloses, CustomerPays, CustomerDeclines, ToggleOnline, vars
<1>24. QED
  BY <1>1, <1>2, <1>3, <1>4, <1>5, <1>6, <1>7, <1>8, <1>9, <1>10, <1>11, <1>12, <1>13, <1>14,
     <1>15, <1>16, <1>17, <1>18, <1>19, <1>20, <1>21, <1>22, <1>23
     DEF Next, HandlerStep, HandlerStart

\* Every step of every handler, job, customer and salon keeps the invariant.
LEMMA InductiveStep == IInv /\ TypeOK' /\ JobsApart' /\ [Next]_vars => IInv'
<1> USE SessionsAssumption DEF TypeOK, Sessions, BookingStatus, PaymentStatus, SlotBlocking,
        Dead, Standing,
      Cancellations, Steps, JobSteps, Tasks, Idle, At, rows, gateway
<1>1. ASSUME IInv, TypeOK', JobsApart', NEW h \in Handlers, RequestPayment(h)
      PROVE  IInv'
  <2>1. /\ PaymentFitsStatus' /\ AuthorityCoversLedger' /\ CommissionIffForfeitedOrEarned'
        /\ DeadBookingReleased' /\ RefundBackedByCapture' /\ StandingHasCapture'
        /\ Forward
    BY <1>1, RowsKept DEF RequestPayment
  <2>2. (local[h] # Idle => HandlerKnows(local[h]))'
    <3>0. local[h] # Idle /\ local[h].pc = "mint"
      BY <1>1 DEF RequestPayment
    <3>k. local[h] \in Tasks /\ local[h].booking \in Bookings /\ HandlerKnows(local[h])
      BY <1>1, <3>0, TaskOf DEF IInv
    <3>1. PICK c \in Bookings : c = local[h].booking
      BY <3>k
    <3>2. payment[c] # "none"
      BY <3>0, <3>k, <3>1 DEF HandlerKnows
    <3>3. local'[h].pc = "persist" /\ local'[h].booking = c /\ payment' = payment
      BY <1>1, <3>1 DEF IInv, RequestPayment, Goto, Continue, Task
    <3> QED
      BY <3>2, <3>3 DEF HandlerKnows
  <2>3. HandlersKnow'
    BY <1>1, <2>1, <2>2, OthersKnow DEF IInv, RequestPayment, At, Goto, Continue, Task
  <2>4. RetiredStaysRetired'
    BY <1>1 DEF IInv, PaymentFitsStatus, AuthorityCoversLedger, HandlersKnow, HandlerKnows,
                RetiredStaysRetired, Confirming, RequestPayment, At, Goto, Continue, Task
  <2> QED
    BY <1>1, <2>1, <2>2, <2>3, <2>4 DEF IInv
<1>2. ASSUME IInv, TypeOK', JobsApart', NEW h \in Handlers, PersistAuthority(h)
      PROVE  IInv'
  <2>1. \A c \in Bookings : Issued(c) \subseteq Issued(c)'
    <3>1. PICK e \in Bookings : e = local[h].booking
      BY <1>2 DEF IInv, PersistAuthority
    <3>2. \A c \in Bookings : ledger[c] \in Seq(Sessions)
      BY <1>2 DEF IInv
    <3>3. /\ local[h].session \in Sessions
          /\ ledger' = [ledger EXCEPT ![e] = Append(ledger[e], local[h].session)]
      BY <1>2, <3>1 DEF IInv, PersistAuthority
    <3>4. \A c \in Bookings : /\ Len(ledger[c]) <= Len(ledger'[c])
                             /\ \A j \in 1..Len(ledger[c]) : ledger'[c][j] = ledger[c][j]
      BY <1>2, <3>2, <3>3 DEF IInv
    <3>5. \A c \in Bookings : Len(ledger[c]) \in Nat /\ Len(ledger'[c]) \in Nat
      BY <1>2 DEF IInv
    <3> HIDE DEF TypeOK
    <3>6. ASSUME NEW c \in Bookings, NEW j \in 1..Len(ledger[c])
          PROVE  j \in 1..Len(ledger'[c]) /\ ledger'[c][j] = ledger[c][j]
      BY <3>4, <3>5
    <3> QED
      BY <3>6 DEF Issued
  <2>2. Forward
    BY <1>2, <2>1 DEF IInv, Forward, PaymentFitsStatus, HandlersKnow, HandlerKnows,
                PersistAuthority, At, Done, Goto
  <2>3. (local[h] # Idle => HandlerKnows(local[h]))'
    BY <1>2, <2>2 DEF IInv, PaymentFitsStatus, HandlersKnow, HandlerKnows, PersistAuthority,
                At, Done, Goto, Forward
  <2>4. HandlersKnow'
    BY <1>2, <2>2, <2>3, OthersKnow DEF IInv, PersistAuthority, At, Done, Goto
  <2>5. RetiredStaysRetired'
    BY <1>2 DEF IInv, PaymentFitsStatus, AuthorityCoversLedger, HandlersKnow, HandlerKnows,
                RetiredStaysRetired, Confirming, PersistAuthority, At, Done, Goto
  <2>6. PaymentFitsStatus'
    BY <1>2 DEF IInv, PaymentFitsStatus, HandlersKnow, HandlerKnows, RetiredStaysRetired,
                Confirming, PersistAuthority, At, Done, Goto
  <2>7. AuthorityCoversLedger'
    BY <1>2, IssuedSessions DEF IInv, AuthorityCoversLedger, HandlersKnow, HandlerKnows,
                PersistAuthority, At, Done, Goto
  <2>8. CommissionIffForfeitedOrEarned'
    BY <1>2 DEF IInv, CommissionIffForfeitedOrEarned, PaymentFitsStatus, HandlersKnow,
                HandlerKnows, PersistAuthority, At, Done, Goto
  <2>9. DeadBookingReleased'
    BY <1>2 DEF IInv, DeadBookingReleased, PaymentFitsStatus, HandlersKnow, HandlerKnows,
                PersistAuthority, At, Done, Goto
  <2>10. RefundBackedByCapture'
    BY <1>2, <2>2 DEF IInv, Forward, RefundBackedByCapture, PaymentFitsStatus, HandlersKnow,
                HandlerKnows, PersistAuthority, At, Done, Goto
  <2>11. StandingHasCapture'
    BY <1>2, <2>2 DEF IInv, Forward, StandingHasCapture, PaymentFitsStatus, HandlersKnow,
                HandlerKnows, PersistAuthority, At, Done, Goto
  <2> QED
    BY <1>2, <2>1, <2>2, <2>3, <2>4, <2>5, <2>6, <2>7, <2>8, <2>9, <2>10, <2>11 DEF IInv
<1>3. ASSUME IInv, TypeOK', JobsApart', NEW h \in Handlers, VerifyPayment(h)
      PROVE  IInv'
  <2>1. /\ PaymentFitsStatus' /\ AuthorityCoversLedger' /\ CommissionIffForfeitedOrEarned'
        /\ DeadBookingReleased' /\ RefundBackedByCapture' /\ StandingHasCapture'
        /\ Forward
    BY <1>3, RowsKept DEF VerifyPayment
  <2>2. (local[h] # Idle => HandlerKnows(local[h]))'
    BY <1>3, IssuedKept DEF IInv, PaymentFitsStatus, HandlersKnow, HandlerKnows,
                VerifyPayment, At, Goto, Continue, Task
  <2>3. HandlersKnow'
    BY <1>3, <2>1, <2>2, OthersKnow DEF IInv, VerifyPayment, At, Goto, Continue, Task
  <2>4. RetiredStaysRetired'
    BY <1>3 DEF IInv, PaymentFitsStatus, AuthorityCoversLedger, HandlersKnow, HandlerKnows,
                RetiredStaysRetired, Confirming, VerifyPayment, At, Goto, Continue, Task
  <2> QED
    BY <1>3, <2>1, <2>2, <2>3, <2>4 DEF IInv
<1>4. ASSUME IInv, TypeOK', JobsApart', NEW h \in Handlers, MarkFailed(h)
      PROVE  IInv'
  <2>1. \A c \in Bookings : Issued(c)' = Issued(c)
    BY <1>4, IssuedKept DEF MarkFailed
  <2>2. Forward
    BY <1>4, <2>1 DEF IInv, Forward, PaymentFitsStatus, HandlersKnow, HandlerKnows,
                MarkFailed, At, Done, Goto, CasPayment, CasStatus, SetPayment, SetStatus,
                ReleaseBookingHold
  <2>3. (local[h] # Idle => HandlerKnows(local[h]))'
    BY <1>4, <2>2 DEF IInv, PaymentFitsStatus, HandlersKnow, HandlerKnows, MarkFailed, At,
                Done, Goto, CasPayment, CasStatus, SetPayment, SetStatus,
                ReleaseBookingHold, Forward
  <2>4. HandlersKnow'
    BY <1>4, <2>2, <2>3, OthersKnow DEF IInv, MarkFailed, At, Done, Goto, CasPayment,
                CasStatus, SetPayment, SetStatus, ReleaseBookingHold
  <2>5. RetiredStaysRetired'
    BY <1>4 DEF IInv, PaymentFitsStatus, AuthorityCoversLedger, HandlersKnow, HandlerKnows,
                RetiredStaysRetired, Confirming, MarkFailed, At, Done, Goto, CasPayment,
                CasStatus, SetPayment, SetStatus, ReleaseBookingHold
  <2>6. PaymentFitsStatus'
    BY <1>4 DEF IInv, PaymentFitsStatus, HandlersKnow, HandlerKnows, RetiredStaysRetired,
                Confirming, MarkFailed, At, Done, Goto, CasPayment, CasStatus, SetPayment,
                SetStatus, ReleaseBookingHold
  <2>7. AuthorityCoversLedger'
    BY <1>4, IssuedSessions DEF IInv, AuthorityCoversLedger, HandlersKnow, HandlerKnows,
                MarkFailed, At, Done, Goto, CasPayment, CasStatus, SetPayment, SetStatus,
                ReleaseBookingHold
  <2>8. CommissionIffForfeitedOrEarned'
    BY <1>4 DEF IInv, CommissionIffForfeitedOrEarned, PaymentFitsStatus, HandlersKnow,
                HandlerKnows, MarkFailed, At, Done, Goto, CasPayment, CasStatus, SetPayment,
                SetStatus, ReleaseBookingHold
  <2>9. DeadBookingReleased'
    BY <1>4 DEF IInv, DeadBookingReleased, PaymentFitsStatus, HandlersKnow, HandlerKnows,
                MarkFailed, At, Done, Goto, CasPayment, CasStatus, SetPayment, SetStatus,
                ReleaseBookingHold
  <2>10. RefundBackedByCapture'
    BY <1>4, <2>2 DEF IInv, Forward, RefundBackedByCapture, PaymentFitsStatus, HandlersKnow,
                HandlerKnows, MarkFailed, At, Done, Goto, CasPayment, CasStatus, SetPayment,
                SetStatus, ReleaseBookingHold
  <2>11. StandingHasCapture'
    BY <1>4, <2>2 DEF IInv, Forward, StandingHasCapture, PaymentFitsStatus, HandlersKnow,
                HandlerKnows, MarkFailed, At, Done, Goto, CasPayment, CasStatus, SetPayment,
                SetStatus, ReleaseBookingHold
  <2> QED
    BY <1>4, <2>1, <2>2, <2>3, <2>4, <2>5, <2>6, <2>7, <2>8, <2>9, <2>10, <2>11 DEF IInv
<1>5. ASSUME IInv, TypeOK', JobsApart', NEW h \in Handlers, Capture(h)
      PROVE  IInv'
  <2>1. \A c \in Bookings : Issued(c)' = Issued(c)
    BY <1>5, IssuedKept DEF Capture
  <2>2. Forward
    BY <1>5, <2>1 DEF IInv, Forward, PaymentFitsStatus, HandlersKnow, HandlerKnows, Capture,
                At, Goto, SetStatus, SetPayment, Continue, Task
  <2>3. (local[h] # Idle => HandlerKnows(local[h]))'
    BY <1>5, <2>2, SMTT(30) DEF IInv, PaymentFitsStatus, HandlersKnow, HandlerKnows, Capture, At,
                Goto, SetStatus, SetPayment, Continue, Task, Forward
  <2>4. HandlersKnow'
    BY <1>5, <2>2, <2>3, OthersKnow DEF IInv, Capture, At, Goto, SetStatus, SetPayment,
                Continue, Task
  <2>5. RetiredStaysRetired'
    BY <1>5 DEF IInv, PaymentFitsStatus, AuthorityCoversLedger, HandlersKnow, HandlerKnows,
                RetiredStaysRetired, Confirming, Capture, At, Goto, SetStatus, SetPayment,
                Continue, Task
  <2>6. PaymentFitsStatus'
    BY <1>5 DEF IInv, PaymentFitsStatus, HandlersKnow, HandlerKnows, RetiredStaysRetired,
                Confirming, Capture, At, Goto, SetStatus, SetPayment, Continue, Task
  <2>7. AuthorityCoversLedger'
    BY <1>5, IssuedSessions DEF IInv, AuthorityCoversLedger, HandlersKnow, HandlerKnows,
                Capture, At, Goto, SetStatus, SetPayment, Continue, Task
  <2>8. CommissionIffForfeitedOrEarned'
    BY <1>5 DEF IInv, CommissionIffForfeitedOrEarned, PaymentFitsStatus, HandlersKnow,
                HandlerKnows, Capture, At, Goto, SetStatus, SetPayment, Continue, Task
  <2>9. DeadBookingReleased'
    BY <1>5 DEF IInv, DeadBookingReleased, PaymentFitsStatus, HandlersKnow, HandlerKnows,
                Capture, At, Goto, SetStatus, SetPayment, Continue, Task
  <2>10. RefundBackedByCapture'
    <3>1. PICK c \in Bookings : c = local[h].booking
      BY <1>5 DEF IInv, Capture
    <3>2. Issued(c) \cap captured # {}
      <4>1. local[h] # Idle /\ local[h].pc = "capture"
        BY <1>5 DEF Capture
      <4>2. HandlerKnows(local[h])
        BY <1>5, <4>1 DEF IInv, HandlersKnow
      <4> QED
        BY <3>1, <4>1, <4>2 DEF HandlerKnows
    <3>3. /\ \A e \in Bookings \ {c} : payment'[e] = payment[e]
          /\ captured' = captured
      BY <1>5, <3>1 DEF IInv, Capture, SetPayment
    <3> QED
      BY <1>5, <2>1, <3>2, <3>3 DEF IInv, RefundBackedByCapture
  <2>11. StandingHasCapture'
    <3>1. PICK c \in Bookings : c = local[h].booking
      BY <1>5 DEF IInv, Capture
    <3>2. Issued(c) \cap captured # {}
      <4>1. local[h] # Idle /\ local[h].pc = "capture"
        BY <1>5 DEF Capture
      <4>2. HandlerKnows(local[h])
        BY <1>5, <4>1 DEF IInv, HandlersKnow
      <4> QED
        BY <3>1, <4>1, <4>2 DEF HandlerKnows
    <3>3. /\ \A e \in Bookings \ {c} : payment'[e] = payment[e] /\ status'[e] = status[e]
          /\ captured' = captured
      BY <1>5, <3>1 DEF IInv, Capture, SetPayment, SetStatus
    <3> QED
      BY <1>5, <2>1, <3>2, <3>3 DEF IInv, StandingHasCapture
  <2> QED
    BY <1>5, <2>1, <2>2, <2>3, <2>4, <2>5, <2>6, <2>7, <2>8, <2>9, <2>10, <2>11 DEF IInv
<1>6. ASSUME IInv, TypeOK', JobsApart', NEW h \in Handlers, Recover(h)
      PROVE  IInv'
  <2>1. /\ PaymentFitsStatus' /\ AuthorityCoversLedger' /\ CommissionIffForfeitedOrEarned'
        /\ DeadBookingReleased' /\ RefundBackedByCapture' /\ StandingHasCapture'
        /\ Forward
    BY <1>6, RowsKept DEF Recover
  <2>2. (local[h] # Idle => HandlerKnows(local[h]))'
    BY <1>6, IssuedKept DEF IInv, PaymentFitsStatus, HandlersKnow, HandlerKnows, Recover,
                At, Goto, Continue, Task
  <2>3. HandlersKnow'
    BY <1>6, <2>1, <2>2, OthersKnow DEF IInv, Recover, At, Goto, Continue, Task
  <2>4. RetiredStaysRetired'
    BY <1>6 DEF IInv, PaymentFitsStatus, AuthorityCoversLedger, HandlersKnow, HandlerKnows,
                RetiredStaysRetired, Confirming, Recover, At, Goto, Continue, Task
  <2> QED
    BY <1>6, <2>1, <2>2, <2>3, <2>4 DEF IInv
<1>7. ASSUME IInv, TypeOK', JobsApart', NEW h \in Handlers, QueueRefund(h)
      PROVE  IInv'
  <2>1. \A c \in Bookings : Issued(c)' = Issued(c)
    BY <1>7, IssuedKept DEF QueueRefund
  <2>2. Forward
    BY <1>7, <2>1 DEF IInv, Forward, PaymentFitsStatus, HandlersKnow, HandlerKnows,
                QueueRefund, At, Done, Goto, SetPayment
  <2>3. (local[h] # Idle => HandlerKnows(local[h]))'
    BY <1>7, <2>2 DEF IInv, PaymentFitsStatus, HandlersKnow, HandlerKnows, QueueRefund, At,
                Done, Goto, SetPayment, Forward
  <2>4. HandlersKnow'
    BY <1>7, <2>2, <2>3, OthersKnow DEF IInv, QueueRefund, At, Done, Goto, SetPayment
  <2>5. RetiredStaysRetired'
    BY <1>7 DEF IInv, PaymentFitsStatus, AuthorityCoversLedger, HandlersKnow, HandlerKnows,
                RetiredStaysRetired, Confirming, QueueRefund, At, Done, Goto, SetPayment
  <2>6. PaymentFitsStatus'
    BY <1>7 DEF IInv, PaymentFitsStatus, HandlersKnow, HandlerKnows, RetiredStaysRetired,
                Confirming, QueueRefund, At, Done, Goto, SetPayment
  <2>7. AuthorityCoversLedger'
    BY <1>7, IssuedSessions DEF IInv, AuthorityCoversLedger, HandlersKnow, HandlerKnows,
                QueueRefund, At, Done, Goto, SetPayment
  <2>8. CommissionIffForfeitedOrEarned'
    BY <1>7 DEF IInv, CommissionIffForfeitedOrEarned, PaymentFitsStatus, HandlersKnow,
                HandlerKnows, QueueRefund, At, Done, Goto, SetPayment
  <2>9. DeadBookingReleased'
    <3>1. PICK c \in Bookings : c = local[h].booking
      BY <1>7, TaskOf DEF IInv, QueueRefund
    <3>2. /\ \A e \in Bookings \ {c} : payment'[e] = payment[e]
          /\ payment'[c] \notin {"none", "paid"} => payment[c] \notin {"none", "paid"}
          /\ UNCHANGED <<status, perks>>
      <4>1. local[h] # Idle /\ local[h].pc = "queue"
        BY <1>7 DEF QueueRefund
      <4>2. HandlerKnows(local[h])
        BY <1>7, <4>1, TaskOf DEF IInv
      <4> QED
        BY <1>7, <3>1, <4>1, <4>2 DEF IInv, HandlerKnows, QueueRefund, SetPayment
    <3> QED
      BY <1>7, <3>1, <3>2 DEF IInv, DeadBookingReleased
  <2>10. RefundBackedByCapture'
    BY <1>7, <2>2 DEF IInv, Forward, RefundBackedByCapture, PaymentFitsStatus, HandlersKnow,
                HandlerKnows, QueueRefund, At, Done, Goto, SetPayment
  <2>11. StandingHasCapture'
    <3>1. PICK c \in Bookings : c = local[h].booking
      BY <1>7, TaskOf DEF IInv, QueueRefund
    <3>2. Issued(c) \cap captured # {}
      <4>1. local[h] # Idle /\ local[h].pc = "queue"
        BY <1>7 DEF QueueRefund
      <4> QED
        BY <1>7, <3>1, <4>1, TaskOf DEF IInv, HandlerKnows
    <3>3. /\ \A e \in Bookings \ {c} : payment'[e] = payment[e]
          /\ UNCHANGED <<status, captured>>
      BY <1>7, <3>1 DEF IInv, QueueRefund, SetPayment
    <3> QED
      BY <1>7, <2>1, <3>1, <3>2, <3>3 DEF IInv, StandingHasCapture
  <2> QED
    BY <1>7, <2>1, <2>2, <2>3, <2>4, <2>5, <2>6, <2>7, <2>8, <2>9, <2>10, <2>11 DEF IInv
<1>8. ASSUME IInv, TypeOK', JobsApart', NEW h \in Handlers, NEW a \in BOOLEAN, Approve(h, a)
      PROVE  IInv'
  <2>1. PICK c \in Bookings : c = local[h].booking
    BY <1>8 DEF IInv, Approve
  <2>2. \/ perks' = perks
        \/ perks' = [perks EXCEPT ![c] = {}]
        \/ perks' = [perks EXCEPT ![c] = @ \ {"wallet"}]
    BY <1>8, <2>1, Zenon DEF Approve, ReleaseBookingHold, ReverseWalletSpend
  <2>3. /\ status[c] = "pending_approval"
        /\ local' = [local EXCEPT ![h] = Idle]
        /\ UNCHANGED <<authority, ledger, accrued, captured>>
        /\ \/ /\ status' = [status EXCEPT ![c] = "expired"]
              /\ perks' = [perks EXCEPT ![c] = {}]
              /\ payment' = payment
           \/ /\ status' = [status EXCEPT ![c] = "pending_payment"]
              /\ payment' = [payment EXCEPT ![c] = "initiated"]
              /\ perks' = perks
           \/ /\ status' = [status EXCEPT ![c] = "confirmed"]
              /\ payment' = payment
    BY <1>8, <2>1, Zenon DEF Approve, Done, Goto, SetStatus, SetPayment, ReleaseBookingHold
  <2>4. payment[c] = "none" /\ ~accrued[c]
    BY <1>8, <2>3 DEF IInv, PaymentFitsStatus, CommissionIffForfeitedOrEarned
  <2>5. \A e \in Bookings : Issued(e)' = Issued(e)
    BY <2>3, IssuedKept
  <2>6. Forward
    BY <1>8, <2>3, <2>4, <2>5 DEF IInv, Forward
  <2>7. HandlersKnow'
    BY <1>8, <2>3, <2>6, OthersKnow DEF IInv
  <2>8. RetiredStaysRetired'
    <3>1. \A e \in Bookings :
              status'[e] = "pending_payment" /\ payment'[e] # "initiated" =>
                  status[e] = "pending_payment" /\ payment[e] # "initiated"
      BY <1>8, <2>3 DEF IInv
    <3>2. \A g \in Handlers : local'[g] = Idle \/ local'[g] = local[g]
      BY <1>8, <2>3 DEF IInv
    <3> QED
      BY <1>8, <3>1, <3>2 DEF IInv, RetiredStaysRetired, Confirming
  <2>9. PaymentFitsStatus' /\ AuthorityCoversLedger'
    BY <1>8, <2>3, <2>4 DEF IInv, PaymentFitsStatus, AuthorityCoversLedger
  <2>10. CommissionIffForfeitedOrEarned'
    BY <1>8, <2>3, <2>4 DEF IInv, CommissionIffForfeitedOrEarned
  <2>11. DeadBookingReleased'
    <3>1. \A e \in Bookings \ {c} : perks'[e] = perks[e] /\ status'[e] = status[e] /\
          payment'[e] = payment[e]
      BY <1>8, <2>2, <2>3 DEF IInv
    <3>2. status'[c] \in Dead => perks'[c] = {}
      BY <1>8, <2>3 DEF IInv
    <3> QED
      BY <1>8, <3>1, <3>2 DEF IInv, DeadBookingReleased
  <2>12. RefundBackedByCapture'
    BY <1>8, <2>3, <2>5 DEF IInv, RefundBackedByCapture
  <2>13. StandingHasCapture'
    <3>1. \A e \in Bookings \ {c} : status'[e] = status[e] /\ payment'[e] = payment[e]
      BY <1>8, <2>3 DEF IInv
    <3>2. status'[c] \notin Standing \/ payment'[c] = "none"
      BY <1>8, <2>3, <2>4 DEF IInv
    <3> QED
      BY <1>8, <2>3, <2>5, <3>1, <3>2 DEF IInv, StandingHasCapture
  <2> QED
    BY <1>8, <2>7, <2>8, <2>9, <2>10, <2>11, <2>12, <2>13 DEF IInv
<1>9. ASSUME IInv, TypeOK', JobsApart', NEW h \in Handlers, Cancel(h)
      PROVE  IInv'
  <2>1. \A c \in Bookings : Issued(c)' = Issued(c)
    BY <1>9, IssuedKept DEF Cancel
  <2>2. Forward
    BY <1>9, <2>1 DEF IInv, Forward, PaymentFitsStatus, HandlersKnow, HandlerKnows, Cancel,
                At, Done, Goto, SetStatus, SetPayment, CasPayment, ReleaseBookingHold,
                RecordCommission
  <2>3. (local[h] # Idle => HandlerKnows(local[h]))'
    BY <1>9, <2>2 DEF IInv, PaymentFitsStatus, HandlersKnow, HandlerKnows, Cancel, At, Done,
                Goto, SetStatus, SetPayment, CasPayment, ReleaseBookingHold,
                RecordCommission, Forward
  <2>4. HandlersKnow'
    BY <1>9, <2>2, <2>3, OthersKnow DEF IInv, Cancel, At, Done, Goto, SetStatus, SetPayment,
                CasPayment, ReleaseBookingHold, RecordCommission
  <2>5. RetiredStaysRetired'
    BY <1>9 DEF IInv, PaymentFitsStatus, AuthorityCoversLedger, HandlersKnow, HandlerKnows,
                RetiredStaysRetired, Confirming, Cancel, At, Done, Goto, SetStatus,
                SetPayment, CasPayment, ReleaseBookingHold, RecordCommission
  <2>6. PaymentFitsStatus'
    BY <1>9 DEF IInv, PaymentFitsStatus, HandlersKnow, HandlerKnows, RetiredStaysRetired,
                Confirming, Cancel, At, Done, Goto, SetStatus, SetPayment, CasPayment,
                ReleaseBookingHold, RecordCommission
  <2>7. AuthorityCoversLedger'
    BY <1>9, IssuedSessions DEF IInv, AuthorityCoversLedger, HandlersKnow, HandlerKnows,
                Cancel, At, Done, Goto, SetStatus, SetPayment, CasPayment,
                ReleaseBookingHold, RecordCommission
  <2>8. CommissionIffForfeitedOrEarned'
    BY <1>9 DEF IInv, CommissionIffForfeitedOrEarned, PaymentFitsStatus, HandlersKnow,
                HandlerKnows, Cancel, At, Done, Goto, SetStatus, SetPayment, CasPayment,
                ReleaseBookingHold, RecordCommission
  <2>9. DeadBookingReleased'
    BY <1>9 DEF IInv, DeadBookingReleased, PaymentFitsStatus, HandlersKnow, HandlerKnows,
                Cancel, At, Done, Goto, SetStatus, SetPayment, CasPayment,
                ReleaseBookingHold, RecordCommission
  <2>10. RefundBackedByCapture'
    <3>1. PICK c \in Bookings : c = local[h].booking
      BY <1>9 DEF IInv, Cancel
    <3>2. /\ \A e \in Bookings \ {c} : payment'[e] = payment[e]
          /\ payment'[c] \in {"paid", "refund_pending", "refunded"} =>
                \/ payment[c] \in {"paid", "refund_pending", "refunded"}
                \/ status[c] = "confirmed" /\ payment[c] # "none"
          /\ captured' = captured
      BY <1>9, <3>1 DEF IInv, Cancel, CasPayment, SetPayment
    <3> QED
      BY <1>9, <2>1, <3>2 DEF IInv, RefundBackedByCapture, StandingHasCapture
  <2>11. StandingHasCapture'
    <3>1. PICK c \in Bookings : c = local[h].booking
      BY <1>9 DEF IInv, Cancel
    <3>2. /\ \A e \in Bookings \ {c} : payment'[e] = payment[e] /\ status'[e] = status[e]
          /\ status'[c] \notin Standing
          /\ captured' = captured
      <4>1. local[h] # Idle /\ local[h].pc = "cancel"
        BY <1>9 DEF Cancel
      <4>2. local[h].to \in Cancellations
        BY <1>9, <4>1, TaskOf DEF IInv, HandlerKnows
      <4> QED
        BY <1>9, <3>1, <4>2 DEF IInv, Cancel, CasPayment, SetPayment, SetStatus
    <3> QED
      BY <1>9, <2>1, <3>2 DEF IInv, StandingHasCapture
  <2> QED
    BY <1>9, <2>1, <2>2, <2>3, <2>4, <2>5, <2>6, <2>7, <2>8, <2>9, <2>10, <2>11 DEF IInv
<1>10. ASSUME IInv, TypeOK', JobsApart', NEW h \in Handlers, RetirePayment(h)
      PROVE  IInv'
  <2>1. \A c \in Bookings : Issued(c)' = Issued(c)
    BY <1>10, IssuedKept DEF RetirePayment
  <2>2. Forward
    BY <1>10, <2>1 DEF IInv, Forward, PaymentFitsStatus, HandlersKnow, HandlerKnows,
                RetirePayment, At, Done, Goto, SetPayment
  <2>3. (local[h] # Idle => HandlerKnows(local[h]))'
    BY <1>10, <2>2 DEF IInv, PaymentFitsStatus, HandlersKnow, HandlerKnows, RetirePayment,
                At, Done, Goto, SetPayment, Forward
  <2>4. HandlersKnow'
    BY <1>10, <2>2, <2>3, OthersKnow DEF IInv, RetirePayment, At, Done, Goto, SetPayment
  <2>5. RetiredStaysRetired'
    <3>1. ASSUME JobLockHolds, NEW g \in Handlers, authority[local[h].booking] = 0,
                 local[g] # Idle, local[g].booking = local[h].booking
          PROVE  ~Confirming(local[g])
      <4>1. local[h] # Idle /\ local[h].pc = "retire"
        BY <1>10 DEF RetirePayment
      <4>2. ledger[local[g].booking] = <<>>
        BY <1>10, <3>1, <4>1, TaskOf DEF IInv, AuthorityCoversLedger
      <4>3. Confirming(local[g]) => local[g].pc = "selected"
        BY <1>10, <3>1, <4>2, NoSessionToConfirm
      <4>4. local[g].pc = "selected" => g = h
        BY <1>10, <3>1, <4>1 DEF IInv, JobsApart
      <4> QED
        BY <4>1, <4>3, <4>4
    <3> QED
      BY <1>10, <3>1 DEF IInv, RetiredStaysRetired, Confirming, RetirePayment, Done, Goto,
                  SetPayment
  <2>6. PaymentFitsStatus'
    BY <1>10 DEF IInv, PaymentFitsStatus, HandlersKnow, HandlerKnows, RetiredStaysRetired,
                Confirming, RetirePayment, At, Done, Goto, SetPayment
  <2>7. AuthorityCoversLedger'
    BY <1>10, IssuedSessions DEF IInv, AuthorityCoversLedger, HandlersKnow, HandlerKnows,
                RetirePayment, At, Done, Goto, SetPayment
  <2>8. CommissionIffForfeitedOrEarned'
    BY <1>10 DEF IInv, CommissionIffForfeitedOrEarned, PaymentFitsStatus, HandlersKnow,
                HandlerKnows, RetirePayment, At, Done, Goto, SetPayment
  <2>9. DeadBookingReleased'
    BY <1>10 DEF IInv, DeadBookingReleased, PaymentFitsStatus, HandlersKnow, HandlerKnows,
                RetirePayment, At, Done, Goto, SetPayment
  <2>10. RefundBackedByCapture'
    BY <1>10, <2>2 DEF IInv, Forward, RefundBackedByCapture, PaymentFitsStatus,
                HandlersKnow, HandlerKnows, RetirePayment, At, Done, Goto, SetPayment
  <2>11. StandingHasCapture'
    BY <1>10, <2>2 DEF IInv, Forward, StandingHasCapture, PaymentFitsStatus,
                HandlersKnow, HandlerKnows, RetirePayment, At, Done, Goto, SetPayment
  <2> QED
    BY <1>10, <2>1, <2>2, <2>3, <2>4, <2>5, <2>6, <2>7, <2>8, <2>9, <2>10, <2>11 DEF IInv
<1>11. ASSUME IInv, TypeOK', JobsApart', NEW h \in Handlers, VerifyAny(h)
      PROVE  IInv'
  <2>1. /\ PaymentFitsStatus' /\ AuthorityCoversLedger' /\ CommissionIffForfeitedOrEarned'
        /\ DeadBookingReleased' /\ RefundBackedByCapture' /\ StandingHasCapture'
        /\ Forward
    BY <1>11, RowsKept DEF VerifyAny
  <2>2. (local[h] # Idle => HandlerKnows(local[h]))'
    <3> DEFINE t == local[h]
               s == ledger[t.booking][t.session]
    <3>1. t \in Tasks /\ t.booking \in Bookings /\ t.session \in 1..Len(ledger[t.booking]) /\
          t.pc = "reconcile" /\ t # Idle
      BY <1>11 DEF IInv, VerifyAny
    <3>2. s \in Issued(t.booking)
      BY <3>1 DEF Issued
    <3>3. payment[t.booking] # "none"
      BY <1>11, <3>1 DEF IInv, HandlersKnow, HandlerKnows
    <3>4. /\ \/ local'[h] = Task("reconcile_confirm", t.booking, s, "none", t.to, t.flag) /\
                s \in captured
             \/ local'[h] = Task("reconcile_decline", t.booking, 0, "none", t.to, t.flag)
             \/ local'[h] = Task("reconcile", t.booking, t.session - 1, "none", t.to, t.flag)
          /\ UNCHANGED <<payment, ledger, captured, status>>
      BY <1>11 DEF IInv, VerifyAny, Goto, Continue
    <3>5. \A e \in Bookings : Issued(e)' = Issued(e)
      BY <3>4, IssuedKept
    <3> HIDE DEF s
    <3> QED
      BY <3>1, <3>2, <3>3, <3>4, <3>5 DEF HandlerKnows, Task
  <2>3. HandlersKnow'
    BY <1>11, <2>1, <2>2, OthersKnow, ZenonT(40) DEF IInv, VerifyAny, At, Goto, Continue, Task
  <2>4. RetiredStaysRetired'
    <3>1. /\ UNCHANGED <<status, payment>>
          /\ \A g \in Handlers \ {h} : local'[g] = local[g]
          /\ local[h].pc = "reconcile" /\ local[h] # Idle
          /\ local'[h].booking = local[h].booking
      <4>1. /\ UNCHANGED <<status, payment>>
            /\ local[h].pc = "reconcile" /\ local[h] # Idle
        BY <1>11 DEF VerifyAny
      <4>2. PICK n : Goto(h, n) /\ n.booking = local[h].booking
        BY <1>11 DEF VerifyAny, Continue, Task
      <4>3. local'[h] = n /\ \A g \in Handlers \ {h} : local'[g] = local[g]
        BY <1>11, <4>2 DEF IInv, Goto
      <4> QED
        BY <4>1, <4>2, <4>3
    <3>2. Confirming(local[h])
      BY <3>1 DEF Confirming
    <3>3. ASSUME JobLockHolds, NEW b \in Bookings, NEW g \in Handlers,
                 status'[b] = "pending_payment", payment'[b] # "initiated"
          PROVE  local'[g] = Idle \/ local'[g].booking # b \/ ~Confirming(local'[g])
      <4>1. local[g] = Idle \/ local[g].booking # b \/ ~Confirming(local[g])
        BY <1>11, <3>1, <3>3 DEF IInv, RetiredStaysRetired
      <4>2. CASE g = h
        BY <3>1, <3>2, <4>1, <4>2
      <4>3. CASE g # h
        BY <3>1, <4>1, <4>3
      <4> QED
        BY <4>2, <4>3
    <3> QED
      BY <3>3, Zenon DEF RetiredStaysRetired, Confirming
  <2> QED
    BY <1>11, <2>1, <2>2, <2>3, <2>4 DEF IInv
<1>11a. ASSUME IInv, TypeOK', JobsApart', NEW h \in Handlers, LoadAuthorities(h)
      PROVE  IInv'
  <2>1. /\ PaymentFitsStatus' /\ AuthorityCoversLedger' /\ CommissionIffForfeitedOrEarned'
        /\ DeadBookingReleased' /\ RefundBackedByCapture' /\ StandingHasCapture'
        /\ Forward
    BY <1>11a, RowsKept DEF LoadAuthorities
  <2>2. (local[h] # Idle => HandlerKnows(local[h]))'
    <3>1. local[h] # Idle /\ local[h].pc = "selected"
      BY <1>11a DEF LoadAuthorities
    <3>2. local[h] \in Tasks /\ payment[local[h].booking] # "none"
      BY <1>11a, <3>1, TaskOf DEF IInv, HandlerKnows
    <3>3. /\ local'[h].pc \in {"retire", "reconcile"}
          /\ local'[h].booking = local[h].booking
          /\ payment' = payment
      BY <1>11a, <3>2 DEF IInv, LoadAuthorities, Goto, Continue, Task
    <3> QED
      BY <3>2, <3>3 DEF HandlerKnows
  <2>3. HandlersKnow'
    BY <1>11a, <2>1, <2>2, OthersKnow DEF IInv, LoadAuthorities, Goto, Continue, Task
  <2>4. RetiredStaysRetired'
    BY <1>11a DEF IInv, RetiredStaysRetired, Confirming, LoadAuthorities, Goto, Continue, Task
  <2> QED
    BY <1>11a, <2>1, <2>2, <2>3, <2>4 DEF IInv
<1>12. ASSUME IInv, TypeOK', JobsApart', NEW h \in Handlers, ReconcileConfirm(h)
      PROVE  IInv'
  <2>1. \A c \in Bookings : Issued(c)' = Issued(c)
    BY <1>12, IssuedKept DEF ReconcileConfirm
  <2>2. Forward
    BY <1>12, <2>1 DEF IInv, Forward, PaymentFitsStatus, HandlersKnow, HandlerKnows,
                ReconcileConfirm, At, Done, Goto, SetStatus, CasPayment, SetPayment
  <2>3. (local[h] # Idle => HandlerKnows(local[h]))'
    BY <1>12, <2>2 DEF IInv, PaymentFitsStatus, HandlersKnow, HandlerKnows,
                ReconcileConfirm, At, Done, Goto, SetStatus, CasPayment, SetPayment, Forward
  <2>4. HandlersKnow'
    BY <1>12, <2>2, <2>3, OthersKnow DEF IInv, ReconcileConfirm, At, Done, Goto, SetStatus,
                CasPayment, SetPayment
  <2>5. RetiredStaysRetired'
    BY <1>12 DEF IInv, PaymentFitsStatus, AuthorityCoversLedger, HandlersKnow, HandlerKnows,
                RetiredStaysRetired, Confirming, ReconcileConfirm, At, Done, Goto,
                SetStatus, CasPayment, SetPayment
  <2>6. PaymentFitsStatus'
    BY <1>12 DEF IInv, PaymentFitsStatus, HandlersKnow, HandlerKnows, RetiredStaysRetired,
                Confirming, ReconcileConfirm, At, Done, Goto, SetStatus, CasPayment,
                SetPayment
  <2>7. AuthorityCoversLedger'
    BY <1>12, IssuedSessions DEF IInv, AuthorityCoversLedger, HandlersKnow, HandlerKnows,
                ReconcileConfirm, At, Done, Goto, SetStatus, CasPayment, SetPayment
  <2>8. CommissionIffForfeitedOrEarned'
    BY <1>12 DEF IInv, CommissionIffForfeitedOrEarned, PaymentFitsStatus, HandlersKnow,
                HandlerKnows, ReconcileConfirm, At, Done, Goto, SetStatus, CasPayment,
                SetPayment
  <2>9. DeadBookingReleased'
    BY <1>12 DEF IInv, DeadBookingReleased, PaymentFitsStatus, HandlersKnow, HandlerKnows,
                ReconcileConfirm, At, Done, Goto, SetStatus, CasPayment, SetPayment
  <2>10. RefundBackedByCapture'
    <3>1. PICK c \in Bookings : c = local[h].booking
      BY <1>12 DEF IInv, ReconcileConfirm
    <3>2. Issued(c) \cap captured # {}
      <4>1. local[h] # Idle /\ local[h].pc = "reconcile_confirm"
        BY <1>12 DEF ReconcileConfirm
      <4>2. HandlerKnows(local[h])
        BY <1>12, <4>1 DEF IInv, HandlersKnow
      <4> QED
        BY <3>1, <4>1, <4>2 DEF HandlerKnows
    <3>3. /\ \A e \in Bookings \ {c} : payment'[e] = payment[e]
          /\ captured' = captured
      BY <1>12, <3>1 DEF IInv, ReconcileConfirm, SetPayment, CasPayment
    <3> QED
      BY <1>12, <2>1, <3>2, <3>3 DEF IInv, RefundBackedByCapture
  <2>11. StandingHasCapture'
    <3>1. PICK c \in Bookings : c = local[h].booking
      BY <1>12 DEF IInv, ReconcileConfirm
    <3>2. Issued(c) \cap captured # {}
      <4>1. local[h] # Idle /\ local[h].pc = "reconcile_confirm"
        BY <1>12 DEF ReconcileConfirm
      <4>2. HandlerKnows(local[h])
        BY <1>12, <4>1 DEF IInv, HandlersKnow
      <4> QED
        BY <3>1, <4>1, <4>2 DEF HandlerKnows
    <3>3. /\ \A e \in Bookings \ {c} : payment'[e] = payment[e] /\ status'[e] = status[e]
          /\ captured' = captured
      BY <1>12, <3>1 DEF IInv, ReconcileConfirm, SetPayment, SetStatus, CasPayment
    <3> QED
      BY <1>12, <2>1, <3>2, <3>3 DEF IInv, StandingHasCapture
  <2> QED
    BY <1>12, <2>1, <2>2, <2>3, <2>4, <2>5, <2>6, <2>7, <2>8, <2>9, <2>10, <2>11 DEF IInv
<1>13. ASSUME IInv, TypeOK', JobsApart', NEW h \in Handlers, ReconcileDecline(h)
      PROVE  IInv'
  <2>1. \A c \in Bookings : Issued(c)' = Issued(c)
    BY <1>13, IssuedKept DEF ReconcileDecline
  <2>2. Forward
    BY <1>13, <2>1 DEF IInv, Forward, PaymentFitsStatus, HandlersKnow, HandlerKnows,
                ReconcileDecline, At, Done, Goto, CasStatus, SetStatus, CasPayment,
                SetPayment, ReleaseBookingHold
  <2>3. (local[h] # Idle => HandlerKnows(local[h]))'
    BY <1>13, <2>2 DEF IInv, PaymentFitsStatus, HandlersKnow, HandlerKnows,
                ReconcileDecline, At, Done, Goto, CasStatus, SetStatus, CasPayment,
                SetPayment, ReleaseBookingHold, Forward
  <2>4. HandlersKnow'
    BY <1>13, <2>2, <2>3, OthersKnow DEF IInv, ReconcileDecline, At, Done, Goto, CasStatus,
                SetStatus, CasPayment, SetPayment, ReleaseBookingHold
  <2>5. RetiredStaysRetired'
    BY <1>13 DEF IInv, PaymentFitsStatus, AuthorityCoversLedger, HandlersKnow, HandlerKnows,
                RetiredStaysRetired, Confirming, ReconcileDecline, At, Done, Goto,
                CasStatus, SetStatus, CasPayment, SetPayment, ReleaseBookingHold
  <2>6. PaymentFitsStatus'
    BY <1>13 DEF IInv, PaymentFitsStatus, HandlersKnow, HandlerKnows, RetiredStaysRetired,
                Confirming, ReconcileDecline, At, Done, Goto, CasStatus, SetStatus,
                CasPayment, SetPayment, ReleaseBookingHold
  <2>7. AuthorityCoversLedger'
    BY <1>13, IssuedSessions DEF IInv, AuthorityCoversLedger, HandlersKnow, HandlerKnows,
                ReconcileDecline, At, Done, Goto, CasStatus, SetStatus, CasPayment,
                SetPayment, ReleaseBookingHold
  <2>8. CommissionIffForfeitedOrEarned'
    BY <1>13 DEF IInv, CommissionIffForfeitedOrEarned, PaymentFitsStatus, HandlersKnow,
                HandlerKnows, ReconcileDecline, At, Done, Goto, CasStatus, SetStatus,
                CasPayment, SetPayment, ReleaseBookingHold
  <2>9. DeadBookingReleased'
    BY <1>13 DEF IInv, DeadBookingReleased, PaymentFitsStatus, HandlersKnow, HandlerKnows,
                ReconcileDecline, At, Done, Goto, CasStatus, SetStatus, CasPayment,
                SetPayment, ReleaseBookingHold
  <2>10. RefundBackedByCapture'
    BY <1>13, <2>2 DEF IInv, Forward, RefundBackedByCapture, PaymentFitsStatus,
                HandlersKnow, HandlerKnows, ReconcileDecline, At, Done, Goto, CasStatus,
                SetStatus, CasPayment, SetPayment, ReleaseBookingHold
  <2>11. StandingHasCapture'
    BY <1>13, <2>2 DEF IInv, Forward, StandingHasCapture, PaymentFitsStatus,
                HandlersKnow, HandlerKnows, ReconcileDecline, At, Done, Goto, CasStatus,
                SetStatus, CasPayment, SetPayment, ReleaseBookingHold
  <2> QED
    BY <1>13, <2>1, <2>2, <2>3, <2>4, <2>5, <2>6, <2>7, <2>8, <2>9, <2>10, <2>11 DEF IInv
<1>14. ASSUME IInv, TypeOK', JobsApart', NEW h \in Handlers, NEW b \in Bookings,
              NEW m \in BOOLEAN,
              NEW d \in BOOLEAN,
           NEW p \in SUBSET Perks, CreateHold(h, b, m, d, p)
      PROVE  IInv'
  <2>1. \A c \in Bookings : Issued(c)' = Issued(c)
    BY <1>14, IssuedKept DEF CreateHold
  <2>2. Forward
    BY <1>14, <2>1 DEF IInv, Forward, PaymentFitsStatus, HandlersKnow, HandlerKnows,
                CreateHold, Goto, NewTask, Task, SetStatus, SetPayment
  <2>3. (local[h] # Idle => HandlerKnows(local[h]))'
    BY <1>14, <2>2 DEF IInv, PaymentFitsStatus, HandlersKnow, HandlerKnows, CreateHold,
                Goto, NewTask, Task, SetStatus, SetPayment, Forward
  <2>4. HandlersKnow'
    BY <1>14, <2>2, <2>3, OthersKnow, ZenonT(40) DEF IInv, CreateHold, Goto, NewTask, Task,
              SetStatus,
                SetPayment
  <2>5. RetiredStaysRetired'
    BY <1>14 DEF IInv, PaymentFitsStatus, AuthorityCoversLedger, HandlersKnow, HandlerKnows,
                RetiredStaysRetired, Confirming, CreateHold, Goto, NewTask, Task, SetStatus,
                SetPayment
  <2>6. PaymentFitsStatus'
    BY <1>14 DEF IInv, PaymentFitsStatus, HandlersKnow, HandlerKnows, RetiredStaysRetired,
                Confirming, CreateHold, Goto, NewTask, Task, SetStatus, SetPayment
  <2>7. AuthorityCoversLedger'
    BY <1>14, IssuedSessions DEF IInv, AuthorityCoversLedger, HandlersKnow, HandlerKnows,
                CreateHold, Goto, NewTask, Task, SetStatus, SetPayment
  <2>8. CommissionIffForfeitedOrEarned'
    BY <1>14 DEF IInv, CommissionIffForfeitedOrEarned, PaymentFitsStatus, HandlersKnow,
                HandlerKnows, CreateHold, Goto, NewTask, Task, SetStatus, SetPayment
  <2>9. DeadBookingReleased'
    BY <1>14 DEF IInv, DeadBookingReleased, PaymentFitsStatus, HandlersKnow, HandlerKnows,
                CreateHold, Goto, NewTask, Task, SetStatus, SetPayment
  <2>10. RefundBackedByCapture'
    BY <1>14, <2>2 DEF IInv, Forward, RefundBackedByCapture, PaymentFitsStatus,
                HandlersKnow, HandlerKnows, CreateHold, Goto, NewTask, Task, SetStatus,
                SetPayment
  <2>11. StandingHasCapture'
    BY <1>14, <2>2 DEF IInv, Forward, StandingHasCapture, PaymentFitsStatus,
                HandlersKnow, HandlerKnows, CreateHold, Goto, NewTask, Task, SetStatus,
                SetPayment
  <2> QED
    BY <1>14, <2>1, <2>2, <2>3, <2>4, <2>5, <2>6, <2>7, <2>8, <2>9, <2>10, <2>11 DEF IInv
<1>15. ASSUME IInv, TypeOK', JobsApart', NEW h \in Handlers, NEW b \in Bookings,
              RetryPayment(h, b)
      PROVE  IInv'
  <2>1. /\ PaymentFitsStatus' /\ AuthorityCoversLedger' /\ CommissionIffForfeitedOrEarned'
        /\ DeadBookingReleased' /\ RefundBackedByCapture' /\ StandingHasCapture'
        /\ Forward
    BY <1>15, RowsKept DEF RetryPayment
  <2>2. (local[h] # Idle => HandlerKnows(local[h]))'
    BY <1>15, IssuedKept DEF IInv, PaymentFitsStatus, HandlersKnow, HandlerKnows,
                RetryPayment, Goto, NewTask, Task
  <2>3. HandlersKnow'
    BY <1>15, <2>1, <2>2, OthersKnow, ZenonT(40) DEF IInv, RetryPayment, Goto, NewTask, Task
  <2>4. RetiredStaysRetired'
    BY <1>15 DEF IInv, PaymentFitsStatus, AuthorityCoversLedger, HandlersKnow, HandlerKnows,
                RetiredStaysRetired, Confirming, RetryPayment, Goto, NewTask, Task
  <2> QED
    BY <1>15, <2>1, <2>2, <2>3, <2>4 DEF IInv
<1>16. ASSUME IInv, TypeOK', JobsApart', NEW h \in Handlers, NEW b \in Bookings,
              NEW s \in Sessions,
              NEW k \in BOOLEAN, Callback(h, b, s, k)
      PROVE  IInv'
  <2>1. /\ PaymentFitsStatus' /\ AuthorityCoversLedger' /\ CommissionIffForfeitedOrEarned'
        /\ DeadBookingReleased' /\ RefundBackedByCapture' /\ StandingHasCapture'
        /\ Forward
    BY <1>16, RowsKept DEF Callback
  <2>2. (local[h] # Idle => HandlerKnows(local[h]))'
    BY <1>16, IssuedKept DEF IInv, PaymentFitsStatus, HandlersKnow, HandlerKnows, Callback,
                Goto, NewTask, Task
  <2>3. HandlersKnow'
    BY <1>16, <2>1, <2>2, OthersKnow, ZenonT(40) DEF IInv, Callback, Goto, NewTask, Task
  <2>4. RetiredStaysRetired'
    BY <1>16 DEF IInv, PaymentFitsStatus, AuthorityCoversLedger, HandlersKnow, HandlerKnows,
                RetiredStaysRetired, Confirming, Callback, Goto, NewTask, Task
  <2> QED
    BY <1>16, <2>1, <2>2, <2>3, <2>4 DEF IInv
<1>17. ASSUME IInv, TypeOK', JobsApart', NEW h \in Handlers, NEW b \in Bookings,
              ApproveRequest(h, b)
      PROVE  IInv'
  <2>1. /\ PaymentFitsStatus' /\ AuthorityCoversLedger' /\ CommissionIffForfeitedOrEarned'
        /\ DeadBookingReleased' /\ RefundBackedByCapture' /\ StandingHasCapture'
        /\ Forward
    BY <1>17, RowsKept DEF ApproveRequest
  <2>2. (local[h] # Idle => HandlerKnows(local[h]))'
    BY <1>17, IssuedKept DEF IInv, PaymentFitsStatus, HandlersKnow, HandlerKnows,
                ApproveRequest, Goto, Task
  <2>3. HandlersKnow'
    BY <1>17, <2>1, <2>2, OthersKnow DEF IInv, ApproveRequest, Goto, Task
  <2>4. RetiredStaysRetired'
    BY <1>17 DEF IInv, PaymentFitsStatus, AuthorityCoversLedger, HandlersKnow, HandlerKnows,
                RetiredStaysRetired, Confirming, ApproveRequest, Goto, Task
  <2> QED
    BY <1>17, <2>1, <2>2, <2>3, <2>4 DEF IInv
<1>18. ASSUME IInv, TypeOK', JobsApart', NEW h \in Handlers, NEW b \in Bookings,
              NEW t \in Cancellations,
           NEW r \in BOOLEAN, CancelRequest(h, b, t, r)
      PROVE  IInv'
  <2>1. /\ PaymentFitsStatus' /\ AuthorityCoversLedger' /\ CommissionIffForfeitedOrEarned'
        /\ DeadBookingReleased' /\ RefundBackedByCapture' /\ StandingHasCapture'
        /\ Forward
    BY <1>18, RowsKept DEF CancelRequest
  <2>2. (local[h] # Idle => HandlerKnows(local[h]))'
    BY <1>18, IssuedKept DEF IInv, PaymentFitsStatus, HandlersKnow, HandlerKnows,
                CancelRequest, Goto, Task
  <2>3. HandlersKnow'
    BY <1>18, <2>1, <2>2, OthersKnow DEF IInv, CancelRequest, Goto, Task
  <2>4. RetiredStaysRetired'
    BY <1>18 DEF IInv, PaymentFitsStatus, AuthorityCoversLedger, HandlersKnow, HandlerKnows,
                RetiredStaysRetired, Confirming, CancelRequest, Goto, Task
  <2> QED
    BY <1>18, <2>1, <2>2, <2>3, <2>4 DEF IInv
<1>19. ASSUME IInv, TypeOK', JobsApart', NEW h \in Handlers, NEW b \in Bookings, SelectStale(h, b)
      PROVE  IInv'
  <2>1. /\ PaymentFitsStatus' /\ AuthorityCoversLedger' /\ CommissionIffForfeitedOrEarned'
        /\ DeadBookingReleased' /\ RefundBackedByCapture' /\ StandingHasCapture'
        /\ Forward
    BY <1>19, RowsKept DEF SelectStale
  <2>2. (local[h] # Idle => HandlerKnows(local[h]))'
    BY <1>19, IssuedKept DEF IInv, PaymentFitsStatus, HandlersKnow, HandlerKnows,
                SelectStale, Goto, NewTask, Task
  <2>3. HandlersKnow'
    BY <1>19, <2>1, <2>2, OthersKnow, ZenonT(40) DEF IInv, SelectStale, Goto, NewTask, Task
  <2>4. RetiredStaysRetired'
    BY <1>19 DEF IInv, PaymentFitsStatus, AuthorityCoversLedger, HandlersKnow, HandlerKnows,
                RetiredStaysRetired, Confirming, SelectStale, Goto, NewTask, Task
  <2> QED
    BY <1>19, <2>1, <2>2, <2>3, <2>4 DEF IInv
<1>20. ASSUME IInv, TypeOK', JobsApart', NEW b \in Bookings, CreateManual(b)
      PROVE  IInv'
  <2>1. \A c \in Bookings : Issued(c)' = Issued(c)
    BY <1>20, IssuedKept DEF CreateManual
  <2>2. Forward
    BY <1>20, <2>1 DEF IInv, Forward, PaymentFitsStatus, HandlersKnow, HandlerKnows,
                CreateManual, SetStatus
  <2>3. HandlersKnow'
    BY <1>20, <2>2, AllKnow DEF IInv, CreateManual
  <2>4. RetiredStaysRetired'
    BY <1>20 DEF IInv, PaymentFitsStatus, AuthorityCoversLedger, HandlersKnow, HandlerKnows,
                RetiredStaysRetired, Confirming, CreateManual, SetStatus
  <2>5. PaymentFitsStatus'
    BY <1>20 DEF IInv, PaymentFitsStatus, HandlersKnow, HandlerKnows, RetiredStaysRetired,
                Confirming, CreateManual, SetStatus
  <2>6. AuthorityCoversLedger'
    BY <1>20, IssuedSessions DEF IInv, AuthorityCoversLedger, HandlersKnow, HandlerKnows,
                CreateManual, SetStatus
  <2>7. CommissionIffForfeitedOrEarned'
    BY <1>20 DEF IInv, CommissionIffForfeitedOrEarned, PaymentFitsStatus, HandlersKnow,
                HandlerKnows, CreateManual, SetStatus
  <2>8. DeadBookingReleased'
    BY <1>20 DEF IInv, DeadBookingReleased, PaymentFitsStatus, HandlersKnow, HandlerKnows,
                CreateManual, SetStatus
  <2>9. RefundBackedByCapture'
    BY <1>20, <2>2 DEF IInv, Forward, RefundBackedByCapture, PaymentFitsStatus,
                HandlersKnow, HandlerKnows, CreateManual, SetStatus
  <2>10. StandingHasCapture'
    BY <1>20, <2>2 DEF IInv, Forward, StandingHasCapture, PaymentFitsStatus,
                HandlersKnow, HandlerKnows, CreateManual, SetStatus
  <2> QED
    BY <1>20, <2>1, <2>2, <2>3, <2>4, <2>5, <2>6, <2>7, <2>8, <2>9, <2>10 DEF IInv
<1>21. ASSUME IInv, TypeOK', JobsApart', NEW b \in Bookings, Reject(b)
      PROVE  IInv'
  <2>1. \A c \in Bookings : Issued(c)' = Issued(c)
    BY <1>21, IssuedKept DEF Reject
  <2>2. Forward
    BY <1>21, <2>1 DEF IInv, Forward, PaymentFitsStatus, HandlersKnow, HandlerKnows, Reject,
                SetStatus, ReleaseBookingHold
  <2>3. HandlersKnow'
    BY <1>21, <2>2, AllKnow DEF IInv, Reject
  <2>4. RetiredStaysRetired'
    BY <1>21 DEF IInv, PaymentFitsStatus, AuthorityCoversLedger, HandlersKnow, HandlerKnows,
                RetiredStaysRetired, Confirming, Reject, SetStatus, ReleaseBookingHold
  <2>5. PaymentFitsStatus'
    BY <1>21 DEF IInv, PaymentFitsStatus, HandlersKnow, HandlerKnows, RetiredStaysRetired,
                Confirming, Reject, SetStatus, ReleaseBookingHold
  <2>6. AuthorityCoversLedger'
    BY <1>21, IssuedSessions DEF IInv, AuthorityCoversLedger, HandlersKnow, HandlerKnows,
                Reject, SetStatus, ReleaseBookingHold
  <2>7. CommissionIffForfeitedOrEarned'
    BY <1>21 DEF IInv, CommissionIffForfeitedOrEarned, PaymentFitsStatus, HandlersKnow,
                HandlerKnows, Reject, SetStatus, ReleaseBookingHold
  <2>8. DeadBookingReleased'
    BY <1>21 DEF IInv, DeadBookingReleased, PaymentFitsStatus, HandlersKnow, HandlerKnows,
                Reject, SetStatus, ReleaseBookingHold
  <2>9. RefundBackedByCapture'
    BY <1>21, <2>2 DEF IInv, Forward, RefundBackedByCapture, PaymentFitsStatus,
                HandlersKnow, HandlerKnows, Reject, SetStatus, ReleaseBookingHold
  <2>10. StandingHasCapture'
    BY <1>21, <2>2 DEF IInv, Forward, StandingHasCapture, PaymentFitsStatus,
                HandlersKnow, HandlerKnows, Reject, SetStatus, ReleaseBookingHold
  <2> QED
    BY <1>21, <2>1, <2>2, <2>3, <2>4, <2>5, <2>6, <2>7, <2>8, <2>9, <2>10 DEF IInv
<1>22. ASSUME IInv, TypeOK', JobsApart', NEW b \in Bookings, NEW o \in {"completed", "no_show"},
              UpdateStatus(b, o)
      PROVE  IInv'
  <2>1. \A c \in Bookings : Issued(c)' = Issued(c)
    BY <1>22, IssuedKept DEF UpdateStatus
  <2>2. Forward
    BY <1>22, <2>1 DEF IInv, Forward, PaymentFitsStatus, HandlersKnow, HandlerKnows,
                UpdateStatus, SetStatus, RecordCommission
  <2>3. HandlersKnow'
    BY <1>22, <2>2, AllKnow DEF IInv, UpdateStatus
  <2>4. RetiredStaysRetired'
    BY <1>22 DEF IInv, PaymentFitsStatus, AuthorityCoversLedger, HandlersKnow, HandlerKnows,
                RetiredStaysRetired, Confirming, UpdateStatus, SetStatus, RecordCommission
  <2>5. PaymentFitsStatus'
    BY <1>22 DEF IInv, PaymentFitsStatus, HandlersKnow, HandlerKnows, RetiredStaysRetired,
                Confirming, UpdateStatus, SetStatus, RecordCommission
  <2>6. AuthorityCoversLedger'
    BY <1>22, IssuedSessions DEF IInv, AuthorityCoversLedger, HandlersKnow, HandlerKnows,
                UpdateStatus, SetStatus, RecordCommission
  <2>7. CommissionIffForfeitedOrEarned'
    <3>1. ~accrued[b]
      BY <1>22 DEF IInv, UpdateStatus, CommissionIffForfeitedOrEarned
    <3>2. /\ \A e \in Bookings \ {b} : accrued'[e] = accrued[e] /\ status'[e] = status[e]
          /\ accrued'[b] <=> payment[b] = "paid"
          /\ status'[b] = o /\ payment' = payment
      BY <1>22, <3>1, ZenonT(40) DEF IInv, UpdateStatus, SetStatus, RecordCommission
    <3> QED
      BY <1>22, <3>2, ZenonT(40) DEF IInv, CommissionIffForfeitedOrEarned
  <2>8. DeadBookingReleased'
    BY <1>22 DEF IInv, DeadBookingReleased, PaymentFitsStatus, HandlersKnow, HandlerKnows,
                UpdateStatus, SetStatus, RecordCommission
  <2>9. RefundBackedByCapture'
    BY <1>22, <2>2 DEF IInv, Forward, RefundBackedByCapture, PaymentFitsStatus,
                HandlersKnow, HandlerKnows, UpdateStatus, SetStatus, RecordCommission
  <2>10. StandingHasCapture'
    BY <1>22, <2>2 DEF IInv, Forward, StandingHasCapture, PaymentFitsStatus,
                HandlersKnow, HandlerKnows, UpdateStatus, SetStatus, RecordCommission
  <2> QED
    BY <1>22, <2>1, <2>2, <2>3, <2>4, <2>5, <2>6, <2>7, <2>8, <2>9, <2>10 DEF IInv
<1>23. ASSUME IInv, TypeOK', JobsApart', NEW b \in Bookings, AttemptRefund(b)
      PROVE  IInv'
  <2>1. \A c \in Bookings : Issued(c)' = Issued(c)
    BY <1>23, IssuedKept DEF AttemptRefund
  <2>2. Forward
    BY <1>23, <2>1 DEF IInv, Forward, PaymentFitsStatus, HandlersKnow, HandlerKnows,
                AttemptRefund, SetPayment
  <2>3. HandlersKnow'
    BY <1>23, <2>2, AllKnow DEF IInv, AttemptRefund
  <2>4. RetiredStaysRetired'
    BY <1>23 DEF IInv, PaymentFitsStatus, AuthorityCoversLedger, HandlersKnow, HandlerKnows,
                RetiredStaysRetired, Confirming, AttemptRefund, SetPayment
  <2>5. PaymentFitsStatus'
    BY <1>23 DEF IInv, PaymentFitsStatus, HandlersKnow, HandlerKnows, RetiredStaysRetired,
                Confirming, AttemptRefund, SetPayment
  <2>6. AuthorityCoversLedger'
    BY <1>23, IssuedSessions DEF IInv, AuthorityCoversLedger, HandlersKnow, HandlerKnows,
                AttemptRefund, SetPayment
  <2>7. CommissionIffForfeitedOrEarned'
    BY <1>23 DEF IInv, CommissionIffForfeitedOrEarned, PaymentFitsStatus, HandlersKnow,
                HandlerKnows, AttemptRefund, SetPayment
  <2>8. DeadBookingReleased'
    BY <1>23 DEF IInv, DeadBookingReleased, PaymentFitsStatus, HandlersKnow, HandlerKnows,
                AttemptRefund, SetPayment
  <2>9. RefundBackedByCapture'
    BY <1>23, <2>2 DEF IInv, Forward, RefundBackedByCapture, PaymentFitsStatus,
                HandlersKnow, HandlerKnows, AttemptRefund, SetPayment
  <2>10. StandingHasCapture'
    BY <1>23, <2>2 DEF IInv, Forward, StandingHasCapture, PaymentFitsStatus,
                HandlersKnow, HandlerKnows, AttemptRefund, SetPayment
  <2> QED
    BY <1>23, <2>1, <2>2, <2>3, <2>4, <2>5, <2>6, <2>7, <2>8, <2>9, <2>10 DEF IInv
<1>24. ASSUME IInv, TypeOK', JobsApart', NEW b \in Bookings, ExpireHold(b)
      PROVE  IInv'
  <2>1. \A c \in Bookings : Issued(c)' = Issued(c)
    BY <1>24, IssuedKept DEF ExpireHold
  <2>2. Forward
    BY <1>24, <2>1 DEF IInv, Forward, PaymentFitsStatus, HandlersKnow, HandlerKnows,
                ExpireHold, SetStatus, ReleaseBookingHold
  <2>3. HandlersKnow'
    BY <1>24, <2>2, AllKnow DEF IInv, ExpireHold
  <2>4. RetiredStaysRetired'
    BY <1>24 DEF IInv, PaymentFitsStatus, AuthorityCoversLedger, HandlersKnow, HandlerKnows,
                RetiredStaysRetired, Confirming, ExpireHold, SetStatus, ReleaseBookingHold
  <2>5. PaymentFitsStatus'
    BY <1>24 DEF IInv, PaymentFitsStatus, HandlersKnow, HandlerKnows, RetiredStaysRetired,
                Confirming, ExpireHold, SetStatus, ReleaseBookingHold
  <2>6. AuthorityCoversLedger'
    BY <1>24, IssuedSessions DEF IInv, AuthorityCoversLedger, HandlersKnow, HandlerKnows,
                ExpireHold, SetStatus, ReleaseBookingHold
  <2>7. CommissionIffForfeitedOrEarned'
    BY <1>24 DEF IInv, CommissionIffForfeitedOrEarned, PaymentFitsStatus, HandlersKnow,
                HandlerKnows, ExpireHold, SetStatus, ReleaseBookingHold
  <2>8. DeadBookingReleased'
    BY <1>24 DEF IInv, DeadBookingReleased, PaymentFitsStatus, HandlersKnow, HandlerKnows,
                ExpireHold, SetStatus, ReleaseBookingHold
  <2>9. RefundBackedByCapture'
    BY <1>24, <2>2 DEF IInv, Forward, RefundBackedByCapture, PaymentFitsStatus,
                HandlersKnow, HandlerKnows, ExpireHold, SetStatus, ReleaseBookingHold
  <2>10. StandingHasCapture'
    BY <1>24, <2>2 DEF IInv, Forward, StandingHasCapture, PaymentFitsStatus,
                HandlersKnow, HandlerKnows, ExpireHold, SetStatus, ReleaseBookingHold
  <2> QED
    BY <1>24, <2>1, <2>2, <2>3, <2>4, <2>5, <2>6, <2>7, <2>8, <2>9, <2>10 DEF IInv
<1>25. ASSUME IInv, TypeOK', JobsApart', NEW b \in Bookings, ExpireApproval(b)
      PROVE  IInv'
  <2>1. \A c \in Bookings : Issued(c)' = Issued(c)
    BY <1>25, IssuedKept DEF ExpireApproval
  <2>2. Forward
    BY <1>25, <2>1 DEF IInv, Forward, PaymentFitsStatus, HandlersKnow, HandlerKnows,
                ExpireApproval, SetStatus, ReleaseBookingHold
  <2>3. HandlersKnow'
    BY <1>25, <2>2, AllKnow DEF IInv, ExpireApproval
  <2>4. RetiredStaysRetired'
    BY <1>25 DEF IInv, PaymentFitsStatus, AuthorityCoversLedger, HandlersKnow, HandlerKnows,
                RetiredStaysRetired, Confirming, ExpireApproval, SetStatus,
                ReleaseBookingHold
  <2>5. PaymentFitsStatus'
    BY <1>25 DEF IInv, PaymentFitsStatus, HandlersKnow, HandlerKnows, RetiredStaysRetired,
                Confirming, ExpireApproval, SetStatus, ReleaseBookingHold
  <2>6. AuthorityCoversLedger'
    BY <1>25, IssuedSessions DEF IInv, AuthorityCoversLedger, HandlersKnow, HandlerKnows,
                ExpireApproval, SetStatus, ReleaseBookingHold
  <2>7. CommissionIffForfeitedOrEarned'
    BY <1>25 DEF IInv, CommissionIffForfeitedOrEarned, PaymentFitsStatus, HandlersKnow,
                HandlerKnows, ExpireApproval, SetStatus, ReleaseBookingHold
  <2>8. DeadBookingReleased'
    BY <1>25 DEF IInv, DeadBookingReleased, PaymentFitsStatus, HandlersKnow, HandlerKnows,
                ExpireApproval, SetStatus, ReleaseBookingHold
  <2>9. RefundBackedByCapture'
    BY <1>25, <2>2 DEF IInv, Forward, RefundBackedByCapture, PaymentFitsStatus,
                HandlersKnow, HandlerKnows, ExpireApproval, SetStatus, ReleaseBookingHold
  <2>10. StandingHasCapture'
    BY <1>25, <2>2 DEF IInv, Forward, StandingHasCapture, PaymentFitsStatus,
                HandlersKnow, HandlerKnows, ExpireApproval, SetStatus, ReleaseBookingHold
  <2> QED
    BY <1>25, <2>1, <2>2, <2>3, <2>4, <2>5, <2>6, <2>7, <2>8, <2>9, <2>10 DEF IInv
<1>26. ASSUME IInv, TypeOK', JobsApart', NEW b \in Bookings, WindowCloses(b)
      PROVE  IInv'
  <2>1. /\ PaymentFitsStatus' /\ AuthorityCoversLedger' /\ CommissionIffForfeitedOrEarned'
        /\ DeadBookingReleased' /\ RefundBackedByCapture' /\ StandingHasCapture'
        /\ Forward
    BY <1>26, RowsKept DEF WindowCloses
  <2>2. HandlersKnow'
    BY <1>26, <2>1, AllKnow DEF IInv, WindowCloses
  <2>3. RetiredStaysRetired'
    BY <1>26 DEF IInv, PaymentFitsStatus, AuthorityCoversLedger, HandlersKnow, HandlerKnows,
                RetiredStaysRetired, Confirming, WindowCloses
  <2> QED
    BY <1>26, <2>1, <2>2, <2>3 DEF IInv
<1>27. ASSUME IInv, TypeOK', JobsApart', NEW s \in Sessions, CustomerPays(s)
      PROVE  IInv'
  <2>1. \A c \in Bookings : Issued(c)' = Issued(c)
    BY <1>27, IssuedKept DEF CustomerPays
  <2>2. Forward
    BY <1>27, <2>1 DEF IInv, Forward, PaymentFitsStatus, HandlersKnow, HandlerKnows,
                CustomerPays
  <2>3. HandlersKnow'
    BY <1>27, <2>2, AllKnow DEF IInv, CustomerPays
  <2>4. RetiredStaysRetired'
    BY <1>27 DEF IInv, PaymentFitsStatus, AuthorityCoversLedger, HandlersKnow, HandlerKnows,
                RetiredStaysRetired, Confirming, CustomerPays
  <2>5. PaymentFitsStatus'
    BY <1>27 DEF IInv, PaymentFitsStatus, HandlersKnow, HandlerKnows, RetiredStaysRetired,
                Confirming, CustomerPays
  <2>6. AuthorityCoversLedger'
    BY <1>27, IssuedSessions DEF IInv, AuthorityCoversLedger, HandlersKnow, HandlerKnows,
                CustomerPays
  <2>7. CommissionIffForfeitedOrEarned'
    BY <1>27 DEF IInv, CommissionIffForfeitedOrEarned, PaymentFitsStatus, HandlersKnow,
                HandlerKnows, CustomerPays
  <2>8. DeadBookingReleased'
    BY <1>27 DEF IInv, DeadBookingReleased, PaymentFitsStatus, HandlersKnow, HandlerKnows,
                CustomerPays
  <2>9. RefundBackedByCapture'
    BY <1>27, <2>2 DEF IInv, Forward, RefundBackedByCapture, PaymentFitsStatus,
                HandlersKnow, HandlerKnows, CustomerPays
  <2>10. StandingHasCapture'
    BY <1>27, <2>2 DEF IInv, Forward, StandingHasCapture, PaymentFitsStatus,
                HandlersKnow, HandlerKnows, CustomerPays
  <2> QED
    BY <1>27, <2>1, <2>2, <2>3, <2>4, <2>5, <2>6, <2>7, <2>8, <2>9, <2>10 DEF IInv
<1>28. ASSUME IInv, TypeOK', JobsApart', NEW s \in Sessions, CustomerDeclines(s)
      PROVE  IInv'
  <2>1. /\ PaymentFitsStatus' /\ AuthorityCoversLedger' /\ CommissionIffForfeitedOrEarned'
        /\ DeadBookingReleased' /\ RefundBackedByCapture' /\ StandingHasCapture'
        /\ Forward
    BY <1>28, RowsKept DEF CustomerDeclines
  <2>2. HandlersKnow'
    BY <1>28, <2>1, AllKnow DEF IInv, CustomerDeclines
  <2>3. RetiredStaysRetired'
    BY <1>28 DEF IInv, PaymentFitsStatus, AuthorityCoversLedger, HandlersKnow, HandlerKnows,
                RetiredStaysRetired, Confirming, CustomerDeclines
  <2> QED
    BY <1>28, <2>1, <2>2, <2>3 DEF IInv
<1>29. ASSUME IInv, TypeOK', JobsApart', NEW h \in Handlers, Abandon(h)
      PROVE  IInv'
  <2>1. /\ PaymentFitsStatus' /\ AuthorityCoversLedger' /\ CommissionIffForfeitedOrEarned'
        /\ DeadBookingReleased' /\ RefundBackedByCapture' /\ StandingHasCapture'
        /\ Forward
    BY <1>29, RowsKept DEF Abandon
  <2>2. (local[h] # Idle => HandlerKnows(local[h]))'
    BY <1>29, IssuedKept DEF IInv, PaymentFitsStatus, HandlersKnow, HandlerKnows, Abandon,
                Done, Goto
  <2>3. HandlersKnow'
    BY <1>29, <2>1, <2>2, OthersKnow DEF IInv, Abandon, Done, Goto
  <2>4. RetiredStaysRetired'
    BY <1>29 DEF IInv, PaymentFitsStatus, AuthorityCoversLedger, HandlersKnow, HandlerKnows,
                RetiredStaysRetired, Confirming, Abandon, Done, Goto
  <2> QED
    BY <1>29, <2>1, <2>2, <2>3, <2>4 DEF IInv
<1>30. ASSUME IInv, TypeOK', JobsApart', ToggleOnline
      PROVE  IInv'
  <2>1. /\ PaymentFitsStatus' /\ AuthorityCoversLedger' /\ CommissionIffForfeitedOrEarned'
        /\ DeadBookingReleased' /\ RefundBackedByCapture' /\ StandingHasCapture'
        /\ Forward
    BY <1>30, RowsKept DEF ToggleOnline
  <2>2. HandlersKnow'
    BY <1>30, <2>1, AllKnow DEF IInv, ToggleOnline
  <2>3. RetiredStaysRetired'
    BY <1>30 DEF IInv, PaymentFitsStatus, AuthorityCoversLedger, HandlersKnow, HandlerKnows,
                RetiredStaysRetired, Confirming, ToggleOnline
  <2> QED
    BY <1>30, <2>1, <2>2, <2>3 DEF IInv
<1>31. ASSUME IInv, TypeOK', JobsApart', UNCHANGED vars
      PROVE  IInv'
  <2>1. /\ PaymentFitsStatus' /\ AuthorityCoversLedger' /\ CommissionIffForfeitedOrEarned'
        /\ DeadBookingReleased' /\ RefundBackedByCapture' /\ StandingHasCapture'
        /\ Forward
    BY <1>31, RowsKept DEF vars
  <2>2. HandlersKnow'
    BY <1>31, <2>1, AllKnow DEF IInv, vars
  <2>3. RetiredStaysRetired'
    BY <1>31 DEF IInv, RetiredStaysRetired, Confirming, vars
  <2> QED
    BY <1>31, <2>1, <2>2, <2>3 DEF IInv
<1> HIDE DEF TypeOK, Sessions, BookingStatus, PaymentStatus, SlotBlocking, Dead, Standing,
      Cancellations, Steps, JobSteps, Tasks, Idle, At, rows, gateway
<1>32. QED
  BY <1>1, <1>2, <1>3, <1>4, <1>5, <1>6, <1>7, <1>8, <1>9, <1>10, <1>11, <1>11a, <1>12,
     <1>13,
     <1>14, <1>15, <1>16, <1>17, <1>18, <1>19, <1>20, <1>21, <1>22, <1>23, <1>24, <1>25,
     <1>26, <1>27, <1>28, <1>29, <1>30, <1>31
     DEF Next, HandlerStep, HandlerStart, BookingStep

\* What a payment's status says fits the booking's, and what each paused handler knows of
\* both is still true, whatever ran in between.
THEOREM Inductive == Spec => []IInv
<1>1. IInv => TypeOK /\ JobsApart
  BY DEF IInv
<1> QED
  BY <1>1, InductiveInit, TypeStep, JobsStepApart, InductiveStep, PTL DEF Spec

-----------------------------------------------------------------------------
(* Safety.                                                                  *)

\* An appointment that stands or took place and has a Payment row is a paid one, as long as
\* no two runs of the reconciliation work on one payment.
THEOREM StandingPaid == ASSUME JobLockHolds PROVE Spec => []StandingIsPaid
<1>1. IInv => StandingIsPaid
  BY DEF IInv, PaymentFitsStatus, StandingIsPaid
<1> QED
  BY <1>1, Inductive, PTL

\* Even when runs overlap, an appointment whose deposit was asked for stands on a capture.
THEOREM StandingCaptured == Spec => []StandingHasCapture
<1>1. IInv => StandingHasCapture
  BY DEF IInv
<1> QED
  BY <1>1, Inductive, PTL

\* A commission is accrued exactly for the deposits the platform keeps.
THEOREM CommissionExact == Spec => []CommissionIffForfeitedOrEarned
<1>1. IInv => CommissionIffForfeitedOrEarned
  BY DEF IInv
<1> QED
  BY <1>1, Inductive, PTL

\* A booking that died unpaid, or whose deposit goes back, holds neither a coupon redemption
\* nor wallet money.
THEOREM DeadReleased == Spec => []DeadBookingReleased
<1>1. IInv => DeadBookingReleased
  BY DEF IInv
<1> QED
  BY <1>1, Inductive, PTL

\* No deposit counts as paid, and none is owed or sent back, without a capture behind it.
THEOREM RefundBacked == Spec => []RefundBackedByCapture
<1>1. IInv => RefundBackedByCapture
  BY DEF IInv
<1> QED
  BY <1>1, Inductive, PTL

-----------------------------------------------------------------------------
(* BookingPayment implements BookingContract.  One lemma says which pairs   *)
(* of status writes a step can commit together; two action properties and   *)
(* the refinement are read off it.                                          *)

\* The status and the payment of b change together only in these ways.  (Two overlapping
\* runs of the job have others, but neither revives a booking.)
Moves(b) ==
    LET s == status[b]
        p == payment[b]
        t == status'[b]
        q == payment'[b]
    IN  \/ ~JobLockHolds /\ (s \in Dead \cup {"completed", "no_show"} => t = s)
        \/ /\ s = "none" /\ p = "none"
           /\ <<t, q>> \in {<<"pending_approval", "none">>, <<"pending_payment", "initiated">>,
                           <<"confirmed", "none">>}
        \/ /\ s = "pending_approval" /\ p = "none"
           /\ <<t, q>> \in {<<"pending_payment", "initiated">>, <<"confirmed", "none">>}
        \/ /\ s = "pending_payment" /\ p = "initiated" /\ t = "confirmed" /\ q = "paid"
        \/ /\ s \in {"pending_approval", "pending_payment"} /\ t \in Dead
           /\ q = p \/ (p = "initiated" /\ q = "failed")
        \/ /\ s = "confirmed" /\ t \in Dead
           /\ q = p \/ (p = "paid" /\ q = "refund_pending")
        \/ /\ s = "confirmed" /\ t \in {"completed", "no_show"} /\ q = p
        \/ /\ t = s /\ s \notin Standing /\ p = "initiated" /\ q = "failed"
        \/ /\ t = s /\ s \notin Standing /\ p \in {"initiated", "failed"} /\
              q = "refund_pending"
        \/ /\ t = s /\ p = "refund_pending" /\ q = "refunded"
        \/ /\ t = s /\ q = p

\* A step writes the status and the payment of one booking at most.
OneMoves ==
    \/ UNCHANGED <<status, payment>>
    \/ \E b \in Bookings :
          /\ Moves(b)
          /\ \A e \in Bookings \ {b} : status'[e] = status[e] /\ payment'[e] = payment[e]

\* Every transaction is one of these moves of one booking.
LEMMA StepMovesOne == IInv /\ [Next]_vars => OneMoves
<1> USE SessionsAssumption DEF TypeOK, Sessions, BookingStatus, PaymentStatus, SlotBlocking,
        Dead, Standing,
      Cancellations, Steps, JobSteps, Tasks, Idle, At, rows, gateway
<1>4. ASSUME IInv, NEW h \in Handlers, MarkFailed(h)
      PROVE  OneMoves
  <2>1. local[h] \in Tasks /\ local[h] # Idle /\ HandlerKnows(local[h])
    BY <1>4 DEF IInv, HandlersKnow, MarkFailed
  <2>2. PICK b \in Bookings : b = local[h].booking
    BY <2>1
  <2>3. \A e \in Bookings \ {b} : status'[e] = status[e] /\ payment'[e] = payment[e]
    BY <1>4, <2>2 DEF IInv, MarkFailed, At, Done, Goto, CasPayment, CasStatus, SetPayment,
                SetStatus, ReleaseBookingHold
  <2>4. Moves(b)
    BY <1>4, <2>1, <2>2 DEF IInv, Moves, PaymentFitsStatus, HandlerKnows,
                RetiredStaysRetired, Confirming, MarkFailed, At, Done, Goto, CasPayment,
                CasStatus, SetPayment, SetStatus, ReleaseBookingHold
  <2> QED
    BY <2>3, <2>4 DEF OneMoves
<1>5. ASSUME IInv, NEW h \in Handlers, Capture(h)
      PROVE  OneMoves
  <2>1. local[h] \in Tasks /\ local[h] # Idle /\ HandlerKnows(local[h]) /\
        local[h].pc = "capture"
    BY <1>5 DEF IInv, HandlersKnow, Capture
  <2>2. PICK b \in Bookings : b = local[h].booking
    BY <2>1
  <2>3. \A e \in Bookings \ {b} : status'[e] = status[e] /\ payment'[e] = payment[e]
    BY <1>5, <2>2 DEF IInv, Capture, At, Goto, SetStatus, SetPayment, Continue, Task
  <2>4. JobLockHolds /\ status[b] = "pending_payment" => payment[b] = "initiated"
    BY <1>5, <2>1, <2>2 DEF IInv, RetiredStaysRetired, Confirming
  <2>5. JobLockHolds /\ status[b] \in Standing => payment[b] # "initiated"
    BY <1>5 DEF IInv, PaymentFitsStatus
  <2>6. Moves(b)
    <3>1. CASE status[b] = "pending_payment"
      BY <1>5, <2>2, <2>4, <3>1 DEF IInv, Moves, Capture, At, Goto, SetStatus, SetPayment,
                  Continue, Task
    <3>2. CASE status[b] # "pending_payment"
      BY <1>5, <2>2, <2>5, <3>2 DEF IInv, Moves, Capture, At, Goto, SetStatus, SetPayment,
                  Continue, Task
    <3> QED
      BY <3>1, <3>2
  <2> QED
    BY <2>3, <2>6 DEF OneMoves
<1>7. ASSUME IInv, NEW h \in Handlers, QueueRefund(h)
      PROVE  OneMoves
  <2>1. local[h] \in Tasks /\ local[h] # Idle /\ HandlerKnows(local[h])
    BY <1>7 DEF IInv, HandlersKnow, QueueRefund
  <2>2. PICK b \in Bookings : b = local[h].booking
    BY <2>1
  <2>3. \A e \in Bookings \ {b} : status'[e] = status[e] /\ payment'[e] = payment[e]
    BY <1>7, <2>2 DEF IInv, QueueRefund, At, Done, Goto, SetPayment
  <2>4. Moves(b)
    BY <1>7, <2>1, <2>2 DEF IInv, Moves, PaymentFitsStatus, HandlerKnows,
                RetiredStaysRetired, Confirming, QueueRefund, At, Done, Goto, SetPayment
  <2> QED
    BY <2>3, <2>4 DEF OneMoves
<1>8. ASSUME IInv, NEW h \in Handlers, NEW a \in BOOLEAN, Approve(h, a)
      PROVE  OneMoves
  <2>1. local[h] \in Tasks /\ local[h] # Idle /\ HandlerKnows(local[h])
    BY <1>8 DEF IInv, HandlersKnow, Approve
  <2>2. PICK b \in Bookings : b = local[h].booking
    BY <2>1
  <2>3. \A e \in Bookings \ {b} : status'[e] = status[e] /\ payment'[e] = payment[e]
    BY <1>8, <2>2 DEF IInv, Approve, At, Done, Goto, SetStatus, SetPayment,
                ReleaseBookingHold, ReverseWalletSpend
  <2>4. Moves(b)
    BY <1>8, <2>1, <2>2 DEF IInv, Moves, PaymentFitsStatus, HandlerKnows,
                RetiredStaysRetired, Confirming, Approve, At, Done, Goto, SetStatus,
                SetPayment, ReleaseBookingHold, ReverseWalletSpend
  <2> QED
    BY <2>3, <2>4 DEF OneMoves
<1>9. ASSUME IInv, NEW h \in Handlers, Cancel(h)
      PROVE  OneMoves
  <2>1. local[h] \in Tasks /\ local[h] # Idle /\ HandlerKnows(local[h])
    BY <1>9 DEF IInv, HandlersKnow, Cancel
  <2>2. PICK b \in Bookings : b = local[h].booking
    BY <2>1
  <2>3. \A e \in Bookings \ {b} : status'[e] = status[e] /\ payment'[e] = payment[e]
    BY <1>9, <2>2 DEF IInv, Cancel, At, Done, Goto, SetStatus, SetPayment, CasPayment,
                ReleaseBookingHold, RecordCommission
  <2>4. Moves(b)
    BY <1>9, <2>1, <2>2 DEF IInv, Moves, PaymentFitsStatus, HandlerKnows,
                RetiredStaysRetired, Confirming, Cancel, At, Done, Goto, SetStatus,
                SetPayment, CasPayment, ReleaseBookingHold, RecordCommission
  <2> QED
    BY <2>3, <2>4 DEF OneMoves
<1>10. ASSUME IInv, NEW h \in Handlers, RetirePayment(h)
      PROVE  OneMoves
  <2>1. local[h] \in Tasks /\ local[h] # Idle /\ HandlerKnows(local[h])
    BY <1>10 DEF IInv, HandlersKnow, RetirePayment
  <2>2. PICK b \in Bookings : b = local[h].booking
    BY <2>1
  <2>3. \A e \in Bookings \ {b} : status'[e] = status[e] /\ payment'[e] = payment[e]
    BY <1>10, <2>2 DEF IInv, RetirePayment, At, Done, Goto, SetPayment
  <2>4. Moves(b)
    BY <1>10, <2>1, <2>2 DEF IInv, Moves, PaymentFitsStatus, HandlerKnows,
                RetiredStaysRetired, Confirming, RetirePayment, At, Done, Goto, SetPayment
  <2> QED
    BY <2>3, <2>4 DEF OneMoves
<1>12. ASSUME IInv, NEW h \in Handlers, ReconcileConfirm(h)
      PROVE  OneMoves
  <2>1. local[h] \in Tasks /\ local[h] # Idle /\ HandlerKnows(local[h]) /\
        local[h].pc = "reconcile_confirm"
    BY <1>12 DEF IInv, HandlersKnow, ReconcileConfirm
  <2>2. PICK b \in Bookings : b = local[h].booking
    BY <2>1
  <2>3. \A e \in Bookings \ {b} : status'[e] = status[e] /\ payment'[e] = payment[e]
    BY <1>12, <2>2 DEF IInv, ReconcileConfirm, At, Done, Goto, SetStatus, CasPayment,
                SetPayment
  <2>4. JobLockHolds /\ status[b] = "pending_payment" => payment[b] = "initiated"
    BY <1>12, <2>1, <2>2 DEF IInv, RetiredStaysRetired, Confirming
  <2>5. JobLockHolds /\ status[b] \in Standing => payment[b] # "initiated"
    BY <1>12 DEF IInv, PaymentFitsStatus
  <2>6. Moves(b)
    <3>1. CASE status[b] = "pending_payment"
      BY <1>12, <2>2, <2>4, <3>1 DEF IInv, Moves, ReconcileConfirm, At, Done, Goto,
                  SetStatus, CasPayment, SetPayment
    <3>2. CASE status[b] # "pending_payment"
      BY <1>12, <2>2, <2>5, <3>2 DEF IInv, Moves, ReconcileConfirm, At, Done, Goto,
                  SetStatus, CasPayment, SetPayment
    <3> QED
      BY <3>1, <3>2
  <2> QED
    BY <2>3, <2>6 DEF OneMoves
<1>13. ASSUME IInv, NEW h \in Handlers, ReconcileDecline(h)
      PROVE  OneMoves
  <2>1. local[h] \in Tasks /\ local[h] # Idle /\ HandlerKnows(local[h])
    BY <1>13 DEF IInv, HandlersKnow, ReconcileDecline
  <2>2. PICK b \in Bookings : b = local[h].booking
    BY <2>1
  <2>3. \A e \in Bookings \ {b} : status'[e] = status[e] /\ payment'[e] = payment[e]
    BY <1>13, <2>2 DEF IInv, ReconcileDecline, At, Done, Goto, CasStatus, SetStatus,
                CasPayment, SetPayment, ReleaseBookingHold
  <2>4. Moves(b)
    BY <1>13, <2>1, <2>2 DEF IInv, Moves, PaymentFitsStatus, HandlerKnows,
                RetiredStaysRetired, Confirming, ReconcileDecline, At, Done, Goto,
                CasStatus, SetStatus, CasPayment, SetPayment, ReleaseBookingHold
  <2> QED
    BY <2>3, <2>4 DEF OneMoves
<1>14. ASSUME IInv, NEW h \in Handlers, NEW b \in Bookings, NEW m \in BOOLEAN,
              NEW d \in BOOLEAN,
           NEW p \in SUBSET Perks, CreateHold(h, b, m, d, p)
      PROVE  OneMoves
  <2>1. \A e \in Bookings \ {b} : status'[e] = status[e] /\ payment'[e] = payment[e]
    BY <1>14 DEF IInv, CreateHold, Goto, NewTask, Task, SetStatus, SetPayment
  <2>2. Moves(b)
    BY <1>14 DEF IInv, Moves, PaymentFitsStatus, CreateHold, Goto, NewTask, Task, SetStatus,
                SetPayment
  <2> QED
    BY <2>1, <2>2 DEF OneMoves
<1>20. ASSUME IInv, NEW b \in Bookings, CreateManual(b)
      PROVE  OneMoves
  <2>1. \A e \in Bookings \ {b} : status'[e] = status[e] /\ payment'[e] = payment[e]
    BY <1>20 DEF IInv, CreateManual, SetStatus
  <2>2. Moves(b)
    BY <1>20 DEF IInv, Moves, PaymentFitsStatus, CreateManual, SetStatus
  <2> QED
    BY <2>1, <2>2 DEF OneMoves
<1>21. ASSUME IInv, NEW b \in Bookings, Reject(b)
      PROVE  OneMoves
  <2>1. \A e \in Bookings \ {b} : status'[e] = status[e] /\ payment'[e] = payment[e]
    BY <1>21 DEF IInv, Reject, SetStatus, ReleaseBookingHold
  <2>2. Moves(b)
    BY <1>21 DEF IInv, Moves, PaymentFitsStatus, Reject, SetStatus, ReleaseBookingHold
  <2> QED
    BY <2>1, <2>2 DEF OneMoves
<1>22. ASSUME IInv, NEW b \in Bookings, NEW o \in {"completed", "no_show"}, UpdateStatus(b, o)
      PROVE  OneMoves
  <2>1. \A e \in Bookings \ {b} : status'[e] = status[e] /\ payment'[e] = payment[e]
    BY <1>22 DEF IInv, UpdateStatus, SetStatus, RecordCommission
  <2>2. Moves(b)
    BY <1>22 DEF IInv, Moves, PaymentFitsStatus, UpdateStatus, SetStatus, RecordCommission
  <2> QED
    BY <2>1, <2>2 DEF OneMoves
<1>23. ASSUME IInv, NEW b \in Bookings, AttemptRefund(b)
      PROVE  OneMoves
  <2>1. \A e \in Bookings \ {b} : status'[e] = status[e] /\ payment'[e] = payment[e]
    BY <1>23 DEF IInv, AttemptRefund, SetPayment
  <2>2. Moves(b)
    BY <1>23 DEF IInv, Moves, PaymentFitsStatus, AttemptRefund, SetPayment
  <2> QED
    BY <2>1, <2>2 DEF OneMoves
<1>24. ASSUME IInv, NEW b \in Bookings, ExpireHold(b)
      PROVE  OneMoves
  <2>1. \A e \in Bookings \ {b} : status'[e] = status[e] /\ payment'[e] = payment[e]
    BY <1>24 DEF IInv, ExpireHold, SetStatus, ReleaseBookingHold
  <2>2. Moves(b)
    BY <1>24 DEF IInv, Moves, PaymentFitsStatus, ExpireHold, SetStatus, ReleaseBookingHold
  <2> QED
    BY <2>1, <2>2 DEF OneMoves
<1>25. ASSUME IInv, NEW b \in Bookings, ExpireApproval(b)
      PROVE  OneMoves
  <2>1. \A e \in Bookings \ {b} : status'[e] = status[e] /\ payment'[e] = payment[e]
    BY <1>25 DEF IInv, ExpireApproval, SetStatus, ReleaseBookingHold
  <2>2. Moves(b)
    BY <1>25 DEF IInv, Moves, PaymentFitsStatus, ExpireApproval, SetStatus,
                ReleaseBookingHold
  <2> QED
    BY <2>1, <2>2 DEF OneMoves
<1> HIDE DEF TypeOK, Sessions, BookingStatus, PaymentStatus, SlotBlocking, Dead, Standing,
      Cancellations, Steps, JobSteps, Tasks, Idle, At, rows, gateway
<1>40. ASSUME NEW h \in Handlers, RequestPayment(h)
      PROVE  UNCHANGED <<status, payment>>
  BY <1>40 DEF RequestPayment, rows
<1>41. ASSUME NEW h \in Handlers, PersistAuthority(h)
      PROVE  UNCHANGED <<status, payment>>
  BY <1>41 DEF PersistAuthority, rows
<1>42. ASSUME NEW h \in Handlers, VerifyPayment(h)
      PROVE  UNCHANGED <<status, payment>>
  BY <1>42 DEF VerifyPayment, rows
<1>43. ASSUME NEW h \in Handlers, Recover(h)
      PROVE  UNCHANGED <<status, payment>>
  BY <1>43 DEF Recover, rows
<1>44. ASSUME NEW h \in Handlers, VerifyAny(h)
      PROVE  UNCHANGED <<status, payment>>
  BY <1>44 DEF VerifyAny, rows
<1>44a. ASSUME NEW h \in Handlers, LoadAuthorities(h)
      PROVE  UNCHANGED <<status, payment>>
  BY <1>44a DEF LoadAuthorities, rows
<1>45. ASSUME NEW h \in Handlers, NEW b \in Bookings, RetryPayment(h, b)
      PROVE  UNCHANGED <<status, payment>>
  BY <1>45 DEF RetryPayment, rows
<1>46. ASSUME NEW h \in Handlers, NEW b \in Bookings, NEW s \in Sessions, NEW k \in BOOLEAN,
              Callback(h, b, s, k)
      PROVE  UNCHANGED <<status, payment>>
  BY <1>46 DEF Callback, rows
<1>47. ASSUME NEW h \in Handlers, NEW b \in Bookings, ApproveRequest(h, b)
      PROVE  UNCHANGED <<status, payment>>
  BY <1>47 DEF ApproveRequest, rows
<1>48. ASSUME NEW h \in Handlers, NEW b \in Bookings, NEW t \in Cancellations,
           NEW r \in BOOLEAN, CancelRequest(h, b, t, r)
      PROVE  UNCHANGED <<status, payment>>
  BY <1>48 DEF CancelRequest, rows
<1>49. ASSUME NEW h \in Handlers, NEW b \in Bookings, SelectStale(h, b)
      PROVE  UNCHANGED <<status, payment>>
  BY <1>49 DEF SelectStale, rows
<1>50. ASSUME NEW b \in Bookings, WindowCloses(b)
      PROVE  UNCHANGED <<status, payment>>
  BY <1>50 DEF WindowCloses, rows
<1>51. ASSUME NEW s \in Sessions, CustomerPays(s)
      PROVE  UNCHANGED <<status, payment>>
  BY <1>51 DEF CustomerPays, rows
<1>52. ASSUME NEW s \in Sessions, CustomerDeclines(s)
      PROVE  UNCHANGED <<status, payment>>
  BY <1>52 DEF CustomerDeclines, rows
<1>53. ASSUME NEW h \in Handlers, Abandon(h)
      PROVE  UNCHANGED <<status, payment>>
  BY <1>53 DEF Abandon, rows
<1>54. ASSUME ToggleOnline
      PROVE  UNCHANGED <<status, payment>>
  BY <1>54 DEF ToggleOnline, rows
<1>60. ASSUME UNCHANGED vars
      PROVE  UNCHANGED <<status, payment>>
  BY <1>60 DEF vars, rows
<1>61. QED
  BY <1>4, <1>5, <1>7, <1>8, <1>9, <1>10, <1>12, <1>13, <1>14, <1>20, <1>21, <1>22, <1>23,
     <1>24, <1>25, <1>40, <1>41, <1>42, <1>43, <1>44, <1>44a, <1>45, <1>46, <1>47, <1>48,
     <1>49,
     <1>50, <1>51, <1>52, <1>53, <1>54, <1>60
     DEF OneMoves, Next, HandlerStep, HandlerStart, BookingStep

-----------------------------------------------------------------------------
(* Action properties.                                                       *)

\* No callback, retry, job or admin revives a dead booking or rewrites an outcome.
THEOREM FinalStays == Spec => FinalStaysFinal
<1>1. IInv /\ [Next]_vars =>
        [\A b \in Bookings :
            status[b] \in Dead \cup {"completed", "no_show"} => status'[b] = status[b]]_vars
  BY StepMovesOne DEF OneMoves, Moves, Dead, Standing
<1> QED
  BY <1>1, Inductive, PTL DEF Spec, FinalStaysFinal

\* A payment's status only moves forward, as long as no two runs of the reconciliation work
\* on one payment.
THEOREM PaymentForward == ASSUME JobLockHolds PROVE Spec => PaymentMovesForward
<1>1. ASSUME IInv, [Next]_vars, NEW b \in Bookings, payment'[b] # payment[b]
      PROVE  <<payment[b], payment'[b]>> \in
                ({<<"none", "initiated">>, <<"paid", "refund_pending">>,
                  <<"refund_pending", "refunded">>, <<"failed", "refund_pending">>}
                 \cup {"initiated"} \X {"paid", "failed", "refund_pending"})
  BY <1>1, StepMovesOne DEF OneMoves, Moves
<1>2. IInv /\ [Next]_vars =>
        [\A b \in Bookings :
          payment'[b] # payment[b] =>
              <<payment[b], payment'[b]>> \in
                  ({<<"none", "initiated">>, <<"paid", "refund_pending">>,
                    <<"refund_pending", "refunded">>, <<"failed", "refund_pending">>}
                   \cup {"initiated"} \X {"paid", "failed", "refund_pending"})]_vars
  BY <1>1
<1> QED
  BY <1>2, Inductive, PTL DEF Spec, PaymentMovesForward

-----------------------------------------------------------------------------
(* Refinement.                                                              *)

\* The contract's variables as this module's state.
slotOf == [b \in Bookings |-> SlotOf[status[b]]]
depositOf == [b \in Bookings |-> DepositOf[payment[b]]]

\* A move of one booking changes one entry of each abstract variable.
LEMMA AbstractMove ==
    ASSUME TypeOK, TypeOK', NEW b \in Bookings,
           \A e \in Bookings \ {b} : status'[e] = status[e] /\ payment'[e] = payment[e]
    PROVE  /\ slotOf' = [slotOf EXCEPT ![b] = SlotOf[status'[b]]]
           /\ depositOf' = [depositOf EXCEPT ![b] = DepositOf[payment'[b]]]
           /\ slotOf[b] = SlotOf[status[b]] /\ depositOf[b] = DepositOf[payment[b]]
<1>1. slotOf' = [slotOf EXCEPT ![b] = SlotOf[status'[b]]]
  BY DEF slotOf
<1>2. depositOf' = [depositOf EXCEPT ![b] = DepositOf[payment'[b]]]
  BY DEF depositOf
<1> QED
  BY <1>1, <1>2 DEF slotOf, depositOf

\* How the statuses are seen by the contract.
LEMMA SlotTable ==
    /\ SlotOf["none"] = "free" /\ SlotOf["confirmed"] = "booked"
    /\ SlotOf["pending_approval"] = "held" /\ SlotOf["pending_payment"] = "held"
    /\ SlotOf["completed"] = "done" /\ SlotOf["no_show"] = "done"
    /\ \A x \in Dead : SlotOf[x] = "released"
    /\ \A x \in BookingStatus \ Standing : SlotOf[x] \notin {"booked", "done"}
  BY DEF SlotOf, BookingStatus, Dead, SlotBlocking, Standing

\* How the payment statuses are seen by the contract.
LEMMA DepositTable ==
    /\ DepositOf["none"] = "none" /\ DepositOf["initiated"] = "awaited"
    /\ DepositOf["paid"] = "kept" /\ DepositOf["failed"] = "void"
    /\ DepositOf["refund_pending"] = "owed" /\ DepositOf["refunded"] = "returned"
  BY DEF DepositOf, PaymentStatus

\* Every move of the code is an action of the contract, or changes nothing it can see.
LEMMA MoveKeepsContract ==
    ASSUME JobLockHolds, TypeOK, TypeOK', NEW b \in Bookings, Moves(b),
           \A e \in Bookings \ {b} : status'[e] = status[e] /\ payment'[e] = payment[e]
    PROVE  Contract!Next \/ UNCHANGED Contract!vars
<1>1. /\ slotOf' = [slotOf EXCEPT ![b] = SlotOf[status'[b]]]
      /\ depositOf' = [depositOf EXCEPT ![b] = DepositOf[payment'[b]]]
      /\ slotOf[b] = SlotOf[status[b]] /\ depositOf[b] = DepositOf[payment[b]]
  BY AbstractMove
<1> DEFINE Writes(x, y) == /\ slotOf' = [slotOf EXCEPT ![b] = x]
                           /\ depositOf' = [depositOf EXCEPT ![b] = y]
<1> DEFINE s == status[b]
           p == payment[b]
           t == status'[b]
           q == payment'[b]
<1>2. s \in BookingStatus /\ t \in BookingStatus /\ p \in PaymentStatus /\ q \in PaymentStatus
  BY DEF TypeOK
<1>4. CASE s = "none" /\ p = "none" /\ <<t, q>> \in {<<"pending_approval", "none">>,
              <<"pending_payment", "initiated">>, <<"confirmed", "none">>}
  <2>1. slotOf[b] = "free" /\ (\/ Writes("held", "none") \/ Writes("held", "awaited")
                                \/ Writes("booked", "none"))
    BY <1>1, <1>2, <1>4, SlotTable, DepositTable, ZenonT(40)
  <2>2. Contract!Open(b)
    BY <2>1 DEF Contract!Open, Contract!Move, slotOf, depositOf
  <2> QED
    BY <2>2 DEF Contract!Next
<1>5. CASE s = "pending_approval" /\ p = "none" /\ t = "pending_payment" /\ q = "initiated"
  <2>1. slotOf[b] = "held" /\ depositOf[b] = "none" /\ Writes("held", "awaited")
    BY <1>1, <1>2, <1>5, SlotTable, DepositTable
  <2>2. Contract!AskDeposit(b)
    BY <2>1 DEF Contract!AskDeposit, Contract!Move, slotOf, depositOf
  <2> QED
    BY <2>2 DEF Contract!Next
<1>6. CASE \/ s = "pending_approval" /\ p = "none" /\ t = "confirmed" /\ q = "none"
           \/ s = "pending_payment" /\ p = "initiated" /\ t = "confirmed" /\ q = "paid"
  <2>1. /\ slotOf[b] = "held"
        /\ \/ depositOf[b] = "none" /\ Writes("booked", "none")
           \/ depositOf[b] = "awaited" /\ Writes("booked", "kept")
    BY <1>1, <1>2, <1>6, SlotTable, DepositTable, ZenonT(40)
  <2>2. Contract!Book(b)
    BY <2>1 DEF Contract!Book, Contract!Move, slotOf, depositOf
  <2> QED
    BY <2>2 DEF Contract!Next
<1>7. CASE /\ s \in {"pending_approval", "pending_payment"} /\ t \in Dead
           /\ q = p \/ (p = "initiated" /\ q = "failed")
  <2>1. /\ slotOf[b] = "held"
        /\ \/ Writes("released", depositOf[b])
           \/ depositOf[b] = "awaited" /\ Writes("released", "void")
    BY <1>1, <1>2, <1>7, SlotTable, DepositTable, ZenonT(40)
  <2>2. Contract!Release(b)
    BY <2>1 DEF Contract!Release, Contract!Move, slotOf, depositOf
  <2> QED
    BY <2>2 DEF Contract!Next
<1>8. CASE /\ s = "confirmed" /\ t \in Dead
           /\ q = p \/ (p = "paid" /\ q = "refund_pending")
  <2>1. /\ slotOf[b] = "booked"
        /\ \/ Writes("released", depositOf[b])
           \/ depositOf[b] = "kept" /\ Writes("released", "owed")
    BY <1>1, <1>2, <1>8, SlotTable, DepositTable
  <2>2. Contract!CallOff(b)
    BY <2>1 DEF Contract!CallOff, Contract!Move, slotOf, depositOf
  <2> QED
    BY <2>2 DEF Contract!Next
<1>9. CASE s = "confirmed" /\ t \in {"completed", "no_show"} /\ q = p
  <2>1. slotOf[b] = "booked" /\ Writes("done", depositOf[b])
    BY <1>1, <1>2, <1>9, SlotTable, DepositTable, ZenonT(40)
  <2>2. Contract!Finish(b)
    BY <2>1 DEF Contract!Finish, Contract!Move, slotOf, depositOf
  <2> QED
    BY <2>2 DEF Contract!Next
<1>10. CASE t = s /\ s \notin Standing /\ p = "initiated" /\ q = "failed"
  <2>1. /\ slotOf[b] \notin {"booked", "done"} /\ depositOf[b] = "awaited"
        /\ Writes(slotOf[b], "void")
    BY <1>1, <1>2, <1>10, SlotTable, DepositTable
  <2>2. Contract!GiveUp(b)
    BY <2>1 DEF Contract!GiveUp, Contract!Move, slotOf, depositOf
  <2> QED
    BY <2>2 DEF Contract!Next
<1>11. CASE /\ t = s /\ s \notin Standing /\ p \in {"initiated", "failed"}
            /\ q = "refund_pending"
  <2>1. /\ slotOf[b] \notin {"booked", "done"} /\ depositOf[b] \in {"awaited", "void"}
        /\ Writes(slotOf[b], "owed")
    BY <1>1, <1>2, <1>11, SlotTable, DepositTable
  <2>2. Contract!LateCapture(b)
    BY <2>1 DEF Contract!LateCapture, Contract!Move, slotOf, depositOf
  <2> QED
    BY <2>2 DEF Contract!Next
<1>12. CASE t = s /\ p = "refund_pending" /\ q = "refunded"
  <2>1. depositOf[b] = "owed" /\ Writes(slotOf[b], "returned")
    BY <1>1, <1>2, <1>12, SlotTable, DepositTable
  <2>2. Contract!Refund(b)
    BY <2>1 DEF Contract!Refund, Contract!Move, slotOf, depositOf
  <2> QED
    BY <2>2 DEF Contract!Next
<1>13. CASE t = s /\ q = p
  BY <1>13 DEF TypeOK, Contract!vars
<1>14. QED
  BY <1>4, <1>5, <1>6, <1>7, <1>8, <1>9, <1>10, <1>11, <1>12, <1>13 DEF Moves

\* Whatever interleaves, short of two runs of the reconciliation working on one payment, the
\* code keeps the promises of BookingContract: a released slot is
\* never booked again by the booking that lost it, a deposit is kept only with a booking
\* that was booked, and late money is owed back.
THEOREM Refinement == ASSUME JobLockHolds PROVE Spec => ImplementsContract
<1>1. Init => Contract!Init
  BY DEF Init, Contract!Init, SlotOf, DepositOf, BookingStatus, PaymentStatus
<1>2. IInv /\ IInv' /\ [Next]_vars => [Contract!Next]_(Contract!vars)
  <2> SUFFICES ASSUME IInv, IInv', [Next]_vars
               PROVE  [Contract!Next]_(Contract!vars)
    OBVIOUS
  <2>1. CASE UNCHANGED <<status, payment>>
    BY <2>1 DEF Contract!vars
  <2>2. ASSUME NEW b \in Bookings, Moves(b),
               \A e \in Bookings \ {b} : status'[e] = status[e] /\ payment'[e] = payment[e]
        PROVE  [Contract!Next]_(Contract!vars)
    BY <2>2, MoveKeepsContract DEF IInv
  <2> QED
    BY <2>1, <2>2, StepMovesOne DEF OneMoves
<1> QED
  BY <1>1, <1>2, Inductive, PTL DEF Spec, Contract!Spec, ImplementsContract

=============================================================================
