------------------------------ MODULE OfficeProofs ------------------------------
(***************************************************************************)
(* Proofs about Office, component by component, from the assumptions that   *)
(* Office states of its constants.  Reviews, Handles and Invoices are proved *)
(* as modules of their own and their theorems are taken over; Standing,     *)
(* Plans, Billing, ChairTime and Reminders are proved here, each from the    *)
(* invariant that opens its section.                                         *)
(***************************************************************************)
EXTENDS Office, Sequences, FiniteSetTheorems, TLAPS

-----------------------------------------------------------------------------
(* Reviews, Handles and Invoices are proved in modules of their own.  What   *)
(* follows takes their theorems over: the instances that Office moves are    *)
(* those the theorems are about, definition by definition.                   *)

ReviewsThms == INSTANCE ReviewsProofs WITH local <- reviewing
HandlesThms == INSTANCE HandlesProofs WITH local <- renaming
InvoicesThms == INSTANCE InvoicesProofs WITH status <- invoice, local <- invoicing

\* Office runs the reviews of a salon as Reviews says.
LEMMA ReviewsInOffice == OfficeSpec => ReviewsThms!Spec
<1>1. Reviewing!Init => ReviewsThms!Init
  BY DEF Reviewing!Init, Reviewing!Idle, ReviewsThms!Init, ReviewsThms!Idle
<1>2. [Reviewing!Next]_reviewsVars => [ReviewsThms!Next]_(ReviewsThms!vars)
  BY DEF Reviewing!Next, Reviewing!Stars, Reviewing!Create, Reviewing!Update, Reviewing!Remove,
         Reviewing!Moderate, Reviewing!ModerateWorkerRating, Reviewing!WriteReview,
         Reviewing!RecomputeSalonRating, Reviewing!RecomputeWorkerRating, Reviewing!Commit,
         Reviewing!UpdateMine, Reviewing!SaveSalon, Reviewing!UpdateWorker,
         Reviewing!SaveWorker, Reviewing!RatesNext, Reviewing!Rollback, Reviewing!Served, Reviewing!Decide, Reviewing!Write, Reviewing!At,
         Reviewing!SalonTaken, Reviewing!ReviewFree, Reviewing!Goto, Reviewing!rows,
         Reviewing!averages, Reviewing!SalonFree, Reviewing!StarsAfter, Reviewing!After,
         Reviewing!Idle, Reviewing!RatesWorker, Reviewing!WorkerFree, Reviewing!ScoreAfter,
         Reviewing!RatingAfter, Reviewing!InTransaction, Reviewing!SalonHeldBy,
         Reviewing!StarsOver, Reviewing!StatusOver, ReviewsThms!Next, ReviewsThms!Stars,
         ReviewsThms!Create, ReviewsThms!Update, ReviewsThms!Remove, ReviewsThms!Moderate,
         ReviewsThms!ModerateWorkerRating, ReviewsThms!WriteReview,
         ReviewsThms!RecomputeSalonRating, ReviewsThms!RecomputeWorkerRating,
         ReviewsThms!Commit, ReviewsThms!UpdateMine, ReviewsThms!SaveSalon,
         ReviewsThms!UpdateWorker, ReviewsThms!SaveWorker, ReviewsThms!RatesNext,
         ReviewsThms!Rollback, ReviewsThms!Served, ReviewsThms!Decide,
         ReviewsThms!Write, ReviewsThms!At, ReviewsThms!SalonTaken, ReviewsThms!ReviewFree,
         ReviewsThms!Goto, ReviewsThms!rows, ReviewsThms!averages, ReviewsThms!SalonFree,
         ReviewsThms!StarsAfter, ReviewsThms!After, ReviewsThms!Idle, ReviewsThms!RatesWorker,
         ReviewsThms!WorkerFree, ReviewsThms!ScoreAfter, ReviewsThms!RatingAfter,
         ReviewsThms!InTransaction, ReviewsThms!SalonHeldBy, ReviewsThms!StarsOver,
         ReviewsThms!StatusOver, ReviewsThms!vars, ReviewsThms!rows, ReviewsThms!averages,
         reviewsVars
<1>3. OfficeInit => Reviewing!Init
  BY DEF OfficeInit
<1>4. [OfficeNext]_OfficeVars => [Reviewing!Next]_reviewsVars
  BY DEF OfficeNext, OfficeVars, reviewsVars
<1> QED BY <1>1, <1>2, <1>3, <1>4, PTL DEF OfficeSpec, ReviewsThms!Spec

\* The averages shown stay those of the published rows, but for an owner's stale save.
THEOREM AveragesRight == OfficeSpec => AveragesKept
<1>1. [ReviewsThms!AveragesFollow]_(ReviewsThms!vars)
          => [office = "reviews" => Reviewing!AveragesFollow]_reviewsVars
  BY DEF Reviewing!Commit, Reviewing!Idle, Reviewing!At, Reviewing!Goto, Reviewing!RatesWorker,
         Reviewing!InTransaction, Reviewing!After, Reviewing!StarsAfter, Reviewing!RatingAfter,
         Reviewing!ScoreAfter, Reviewing!StatusOver, Reviewing!StarsOver, Reviewing!SaveSalon,
         Reviewing!SaveWorker, Reviewing!SalonTaken, Reviewing!WorkerFree, Reviewing!rows,
         Reviewing!averages, Reviewing!AveragesFollow, Reviewing!Matches, Reviewing!MatchesOf,
         Reviewing!Published, Reviewing!PublishedOf, Reviewing!Recomputes, Reviewing!RecomputesOf,
         Reviewing!StaleSave, Reviewing!StaleSaveOf, ReviewsThms!Commit, ReviewsThms!Idle,
         ReviewsThms!At, ReviewsThms!Goto, ReviewsThms!RatesWorker, ReviewsThms!InTransaction,
         ReviewsThms!After, ReviewsThms!StarsAfter, ReviewsThms!RatingAfter,
         ReviewsThms!ScoreAfter, ReviewsThms!StatusOver, ReviewsThms!StarsOver,
         ReviewsThms!SaveSalon, ReviewsThms!SaveWorker, ReviewsThms!SalonTaken,
         ReviewsThms!WorkerFree, ReviewsThms!rows, ReviewsThms!averages,
         ReviewsThms!AveragesFollow, ReviewsThms!Matches, ReviewsThms!MatchesOf,
         ReviewsThms!Published, ReviewsThms!PublishedOf, ReviewsThms!Recomputes,
         ReviewsThms!RecomputesOf, ReviewsThms!StaleSave, ReviewsThms!StaleSaveOf,
         ReviewsThms!vars, reviewsVars
<1> QED BY <1>1, ReviewsInOffice, ReviewsThms!AveragesStay, PTL
        DEF AveragesKept, ReviewsThms!AveragesKept

\* Only two new reviews ever wait for each other.
THEOREM NewReviewsCollide == OfficeSpec => []OnlyNewReviewsCollide
<1>1. ReviewsThms!OnlyNewReviewsCollide => OnlyNewReviewsCollide
  BY DEF Reviewing!OnlyNewReviewsCollide, Reviewing!WaitsFor, Reviewing!At,
         Reviewing!InTransaction, Reviewing!SalonTaken, Reviewing!SalonHeldBy, Reviewing!Idle,
         Reviewing!RatesWorker, Reviewing!RatesNext, ReviewsThms!OnlyNewReviewsCollide, ReviewsThms!WaitsFor,
         ReviewsThms!At, ReviewsThms!InTransaction, ReviewsThms!SalonTaken,
         ReviewsThms!SalonHeldBy, ReviewsThms!Idle, ReviewsThms!RatesWorker,
         ReviewsThms!RatesNext, OnlyNewReviewsCollide
<1> QED BY <1>1, ReviewsInOffice, ReviewsThms!NoOtherDeadlock, PTL

\* Office runs the invoices of a month as Invoices says.
LEMMA InvoicesInOffice == OfficeSpec => InvoicesThms!Spec
<1>1. Invoicing!Init => InvoicesThms!Init
  BY DEF Invoicing!Init, Invoicing!Idle, InvoicesThms!Init, InvoicesThms!Idle
<1>2. [Invoicing!Next]_invoicesVars => [InvoicesThms!Next]_(InvoicesThms!vars)
  BY DEF Invoicing!Next, Invoicing!RecordCommission, Invoicing!Select, Invoicing!Generate,
         Invoicing!CommitInvoice, Invoicing!Sum, Invoicing!RecordPayment,
         Invoicing!CommitPayment, Invoicing!Rollback, Invoicing!invoice, Invoicing!Idle,
         Invoicing!Goto, Invoicing!Task, Invoicing!At, Invoicing!InvoiceFree,
         Invoicing!StatusOver, Invoicing!Locked, Invoicing!Cardinality, InvoicesThms!Next,
         InvoicesThms!RecordCommission, InvoicesThms!Select, InvoicesThms!Generate,
         InvoicesThms!CommitInvoice, InvoicesThms!Sum, InvoicesThms!RecordPayment,
         InvoicesThms!CommitPayment, InvoicesThms!Rollback, InvoicesThms!invoice,
         InvoicesThms!Idle, InvoicesThms!Goto, InvoicesThms!Task, InvoicesThms!At,
         InvoicesThms!InvoiceFree, InvoicesThms!StatusOver, InvoicesThms!Locked,
         InvoicesThms!Cardinality, InvoicesThms!vars, InvoicesThms!invoice, invoicesVars
<1>3. OfficeInit => Invoicing!Init
  BY DEF OfficeInit
<1>4. [OfficeNext]_OfficeVars => [Invoicing!Next]_invoicesVars
  BY DEF OfficeNext, OfficeVars, invoicesVars
<1> QED BY <1>1, <1>2, <1>3, <1>4, PTL DEF OfficeSpec, InvoicesThms!Spec

\* Total and status of an invoice agree with its items and payments.
THEOREM TotalsRight == OfficeSpec => []TotalsMatchItems
<1>1. InvoicesThms!TotalsMatchItems => TotalsMatchItems
  BY DEF Invoicing!TotalsMatchItems, Invoicing!Sum, Invoicing!Cardinality,
         InvoicesThms!TotalsMatchItems, InvoicesThms!Sum, InvoicesThms!Cardinality,
         TotalsMatchItems
<1> QED BY <1>1, InvoicesInOffice, InvoicesThms!TotalsMatch, PTL

\* Payments of an invoice are neither lost nor counted twice.
THEOREM PaymentsRight == OfficeSpec => []PaymentsCount
<1>1. InvoicesThms!PaymentsCount => PaymentsCount
  BY DEF Invoicing!PaymentsCount, Invoicing!Sum, Invoicing!Cardinality,
         InvoicesThms!PaymentsCount, InvoicesThms!Sum, InvoicesThms!Cardinality, PaymentsCount
<1> QED BY <1>1, InvoicesInOffice, InvoicesThms!PaymentsAddUp, PTL

\* Office runs the renames of salons as Handles says.
LEMMA HandlesInOffice == OfficeSpec => HandlesThms!Spec
<1>1. Renames!Init => HandlesThms!Init
  BY DEF Renames!Init, Renames!Idle, HandlesThms!Init, HandlesThms!Idle
<1>2. [Renames!Next]_handlesVars => [HandlesThms!Next]_(HandlesThms!vars)
  BY DEF Renames!Next, Renames!UpdateHandle, Renames!UpdateMine, Renames!WriteSlug,
         Renames!CommitRename, Renames!SaveEdit, Renames!Rollback, Renames!Idle, Renames!Goto,
         Renames!Task, Renames!At, Renames!RowFree, Renames!EntryFree, Renames!Live,
         Renames!MayTake, HandlesThms!Next, HandlesThms!UpdateHandle, HandlesThms!UpdateMine,
         HandlesThms!WriteSlug, HandlesThms!CommitRename, HandlesThms!SaveEdit,
         HandlesThms!Rollback, HandlesThms!Idle, HandlesThms!Goto, HandlesThms!Task,
         HandlesThms!At, HandlesThms!RowFree, HandlesThms!EntryFree, HandlesThms!Live,
         HandlesThms!MayTake, HandlesThms!vars, handlesVars
<1>3. OfficeInit => Renames!Init
  BY DEF OfficeInit
<1>4. [OfficeNext]_OfficeVars => [Renames!Next]_handlesVars
  BY DEF OfficeNext, OfficeVars, handlesVars
<1> QED BY <1>1, <1>2, <1>3, <1>4, PTL DEF OfficeSpec, HandlesThms!Spec

\* A link that led to a salon keeps leading to it.
THEOREM LinksStay == OfficeSpec => LinksKeepLeading
<1>1. HandlesThms!FirstNamesDiffer
  BY FirstNameAssumption, NullAssumption DEF HandlesThms!FirstNamesDiffer
<1>2. [HandlesThms!LinksLeadOn]_(HandlesThms!vars)
          => [office = "handles" => Renames!LinksLeadOn]_handlesVars
  BY DEF Renames!LinksLeadOn, Renames!LeadsTo, Renames!AdminTakes, Renames!StaleEdit,
         Renames!Live, Renames!CommitRename, Renames!SaveEdit, Renames!At, Renames!MayTake,
         Renames!Goto, Renames!Idle, Renames!RowFree, Renames!EntryFree,
         HandlesThms!LinksLeadOn, HandlesThms!LeadsTo, HandlesThms!AdminTakes,
         HandlesThms!StaleEdit, HandlesThms!Live, HandlesThms!CommitRename,
         HandlesThms!SaveEdit, HandlesThms!At, HandlesThms!MayTake, HandlesThms!Goto,
         HandlesThms!Idle, HandlesThms!RowFree, HandlesThms!EntryFree, handlesVars,
         HandlesThms!vars
<1>3. HandlesThms!Spec => HandlesThms!LinksKeepLeading
  BY <1>1, HandlesThms!LinksLead
<1> QED BY <1>2, <1>3, HandlesInOffice, PTL DEF LinksKeepLeading, HandlesThms!LinksKeepLeading

-----------------------------------------------------------------------------
(* Standing.                                                                *)

\* What is written to salons.status and suspended_cause is typed, and concerns one salon.
LEMMA StandingPut ==
    ASSUME Moderation!TypeOK, NEW s \in Moderated, NEW st \in Moderation!Status,
           NEW c \in Moderation!Cause, Moderation!Put(s, st, c)
    PROVE  /\ standing' \in [Moderated -> Moderation!Status]
           /\ cause' \in [Moderated -> Moderation!Cause]
           /\ standing'[s] = st /\ cause'[s] = c
           /\ \A r \in Moderated \ {s} : standing'[r] = standing[r] /\ cause'[r] = cause[r]
BY DEF Moderation!TypeOK, Moderation!Put

\* A request at work holds a task.
LEMMA StandingTask ==
    ASSUME Moderation!TypeOK, NEW h \in Handlers, NEW op, Moderation!At(h, op)
    PROVE  /\ deciding[h] \in Moderation!Tasks /\ deciding[h] # Moderation!Idle
           /\ deciding[h].salon \in Moderated /\ deciding[h].op = op
           /\ deciding[h].status \in Moderation!Status /\ deciding[h].cause \in Moderation!Cause
BY DEF Moderation!TypeOK, Moderation!At, Moderation!Tasks

LEMMA StandingGoto ==
    ASSUME Moderation!TypeOK, NEW h \in Handlers,
           NEW t \in Moderation!Tasks \cup {Moderation!Idle}, Moderation!Goto(h, t)
    PROVE  deciding' \in [Handlers -> Moderation!Tasks \cup {Moderation!Idle}]
BY DEF Moderation!TypeOK, Moderation!Goto

LEMMA StandingBegin ==
    ASSUME Moderation!TypeOK, NEW h \in Handlers, NEW s \in Moderated,
           NEW op \in {"approve", "resubmit", "edit"}, Moderation!Begin(h, op, s)
    PROVE  Moderation!TypeOK' /\ UNCHANGED <<standing, cause>>
<1>1. [op |-> op, salon |-> s, status |-> standing[s], cause |-> cause[s]] \in Moderation!Tasks
  BY DEF Moderation!TypeOK, Moderation!Tasks
<1>2. deciding' \in [Handlers -> Moderation!Tasks \cup {Moderation!Idle}]
  BY <1>1, StandingGoto DEF Moderation!Begin
<1> QED BY <1>2 DEF Moderation!TypeOK, Moderation!Begin

\* What a step does to the rows, action by action, and that it keeps them typed.
LEMMA StandingStep ==
    ASSUME Moderation!TypeOK, [Moderation!Next]_standingVars
    PROVE  Moderation!TypeOK' /\ Moderation!LiftedByDecision
<1> USE DEF Moderation!Status, Moderation!Cause
<1>1. CASE UNCHANGED standingVars
  BY <1>1
     DEF standingVars, Moderation!TypeOK, Moderation!LiftedByDecision, Moderation!SuspendedByAdmin
<1>2. ASSUME NEW s \in Moderated, Moderation!CreateForOwner(s)
      PROVE  Moderation!TypeOK' /\ Moderation!LiftedByDecision
  <2>1. /\ standing' \in [Moderated -> Moderation!Status]
        /\ cause' \in [Moderated -> Moderation!Cause]
        /\ \A r \in Moderated \ {s} : standing'[r] = standing[r] /\ cause'[r] = cause[r]
    BY <1>2, StandingPut DEF Moderation!CreateForOwner
  <2>2. Moderation!TypeOK'
    BY <1>2, <2>1 DEF Moderation!TypeOK, Moderation!CreateForOwner
  <2>3. Moderation!LiftedByDecision
    BY <1>2, <2>1
       DEF Moderation!LiftedByDecision, Moderation!SuspendedByAdmin, Moderation!CreateForOwner
  <2> QED BY <2>2, <2>3
<1>3. ASSUME NEW s \in Moderated, Moderation!RejectSalon(s)
      PROVE  Moderation!TypeOK' /\ Moderation!LiftedByDecision
  <2>0. cause[s] \in Moderation!Cause
    BY DEF Moderation!TypeOK
  <2>1. /\ standing' \in [Moderated -> Moderation!Status]
        /\ cause' \in [Moderated -> Moderation!Cause]
        /\ \A r \in Moderated \ {s} : standing'[r] = standing[r] /\ cause'[r] = cause[r]
    BY <1>3, <2>0, StandingPut DEF Moderation!RejectSalon
  <2>2. Moderation!TypeOK'
    BY <1>3, <2>1 DEF Moderation!TypeOK, Moderation!RejectSalon
  <2>3. Moderation!LiftedByDecision
    BY <1>3, <2>1
       DEF Moderation!LiftedByDecision, Moderation!SuspendedByAdmin, Moderation!AdminDecides
  <2> QED BY <2>2, <2>3
<1>4. ASSUME NEW s \in Moderated, Moderation!SuspendSalon(s)
      PROVE  Moderation!TypeOK' /\ Moderation!LiftedByDecision
  <2>1. /\ standing' \in [Moderated -> Moderation!Status]
        /\ cause' \in [Moderated -> Moderation!Cause]
        /\ standing'[s] = "suspended" /\ cause'[s] = "admin"
        /\ \A r \in Moderated \ {s} : standing'[r] = standing[r] /\ cause'[r] = cause[r]
    BY <1>4, StandingPut DEF Moderation!SuspendSalon
  <2>2. Moderation!TypeOK'
    BY <1>4, <2>1 DEF Moderation!TypeOK, Moderation!SuspendSalon
  <2>3. Moderation!LiftedByDecision
    BY <2>1 DEF Moderation!LiftedByDecision, Moderation!SuspendedByAdmin
  <2> QED BY <2>2, <2>3
<1>5. ASSUME NEW s \in Moderated, Moderation!SuspendOwner(s)
      PROVE  Moderation!TypeOK' /\ Moderation!LiftedByDecision
  <2>0. owner' \in [Moderated -> {"active", "suspended"}]
    BY <1>5 DEF Moderation!SuspendOwner, Moderation!TypeOK
  <2>1. /\ standing' \in [Moderated -> Moderation!Status]
        /\ cause' \in [Moderated -> Moderation!Cause]
        /\ \A r \in Moderated \ {s} : standing'[r] = standing[r] /\ cause'[r] = cause[r]
        /\ standing[s] # "approved" => standing'[s] = standing[s] /\ cause'[s] = cause[s]
    BY <1>5, StandingPut DEF Moderation!SuspendOwner, Moderation!TypeOK
  <2>2. Moderation!TypeOK'
    BY <1>5, <2>0, <2>1 DEF Moderation!TypeOK, Moderation!SuspendOwner
  <2>3. Moderation!LiftedByDecision
    BY <2>1 DEF Moderation!LiftedByDecision, Moderation!SuspendedByAdmin
  <2> QED BY <2>2, <2>3
<1>6. ASSUME NEW s \in Moderated, Moderation!ReactivateOwner(s)
      PROVE  Moderation!TypeOK' /\ Moderation!LiftedByDecision
  <2>0. owner' \in [Moderated -> {"active", "suspended"}]
    BY <1>6 DEF Moderation!ReactivateOwner, Moderation!TypeOK
  <2>1. /\ standing' \in [Moderated -> Moderation!Status]
        /\ cause' \in [Moderated -> Moderation!Cause]
        /\ \A r \in Moderated \ {s} : standing'[r] = standing[r] /\ cause'[r] = cause[r]
        /\ cause[s] # "owner_suspended" => standing'[s] = standing[s] /\ cause'[s] = cause[s]
    BY <1>6, StandingPut DEF Moderation!ReactivateOwner, Moderation!Restorable, Moderation!TypeOK
  <2>2. Moderation!TypeOK'
    BY <1>6, <2>0, <2>1 DEF Moderation!TypeOK, Moderation!ReactivateOwner
  <2>3. Moderation!LiftedByDecision
    BY <2>1 DEF Moderation!LiftedByDecision, Moderation!SuspendedByAdmin
  <2> QED BY <2>2, <2>3
<1>7. ASSUME NEW s \in Moderated, NEW h \in Handlers,
             \/ Moderation!ResubmitMine(h, s)
             \/ Moderation!UpdateMine(h, s)
             \/ Moderation!ApproveSalon(h, s)
      PROVE  Moderation!TypeOK' /\ Moderation!LiftedByDecision
  <2>1. Moderation!TypeOK' /\ UNCHANGED <<standing, cause>>
    BY <1>7, StandingBegin
       DEF Moderation!ResubmitMine, Moderation!UpdateMine, Moderation!ApproveSalon
  <2> QED BY <2>1 DEF Moderation!LiftedByDecision, Moderation!SuspendedByAdmin
<1>8. ASSUME NEW h \in Handlers, Moderation!Resubmit(h)
      PROVE  Moderation!TypeOK' /\ Moderation!LiftedByDecision
  <2> DEFINE s == deciding[h].salon
  <2>0. s \in Moderated /\ cause[s] \in Moderation!Cause
    BY <1>8, StandingTask DEF Moderation!Resubmit, Moderation!TypeOK
  <2>1. /\ standing' \in [Moderated -> Moderation!Status]
        /\ cause' \in [Moderated -> Moderation!Cause]
        /\ \A r \in Moderated \ {s} : standing'[r] = standing[r] /\ cause'[r] = cause[r]
    BY <1>8, <2>0, StandingPut DEF Moderation!Resubmit
  <2>2. deciding' \in [Handlers -> Moderation!Tasks \cup {Moderation!Idle}]
    BY <1>8, StandingGoto DEF Moderation!Resubmit, Moderation!End
  <2>3. Moderation!TypeOK'
    BY <1>8, <2>1, <2>2 DEF Moderation!TypeOK, Moderation!Resubmit
  <2>4. Moderation!LiftedByDecision
    BY <1>8, <2>0, <2>1
       DEF Moderation!LiftedByDecision, Moderation!SuspendedByAdmin, Moderation!Resubmit
  <2> QED BY <2>3, <2>4
<1>9. ASSUME NEW h \in Handlers, Moderation!SaveEdit(h)
      PROVE  Moderation!TypeOK' /\ Moderation!LiftedByDecision
  <2> DEFINE t == deciding[h]
  <2>0. t.salon \in Moderated /\ t.status \in Moderation!Status /\ t.cause \in Moderation!Cause
    BY <1>9, StandingTask DEF Moderation!SaveEdit
  <2>1. /\ standing' \in [Moderated -> Moderation!Status]
        /\ cause' \in [Moderated -> Moderation!Cause]
        /\ standing'[t.salon] = t.status /\ cause'[t.salon] = t.cause
        /\ \A r \in Moderated \ {t.salon} : standing'[r] = standing[r] /\ cause'[r] = cause[r]
    BY <1>9, <2>0, StandingPut DEF Moderation!SaveEdit
  <2>2. deciding' \in [Handlers -> Moderation!Tasks \cup {Moderation!Idle}]
    BY <1>9, StandingGoto DEF Moderation!SaveEdit, Moderation!End
  <2>3. Moderation!TypeOK'
    BY <1>9, <2>1, <2>2 DEF Moderation!TypeOK, Moderation!SaveEdit
  <2>4. ASSUME NEW s \in Moderated, Moderation!SuspendedByAdmin(s), ~Moderation!SuspendedByAdmin(s)'
        PROVE  Moderation!StaleEdit(s)
    <3>1. s = t.salon
      BY <2>1, <2>4 DEF Moderation!SuspendedByAdmin
    <3>2. <<t.status, t.cause>> # <<standing[s], cause[s]>>
      BY <2>1, <2>4, <3>1 DEF Moderation!SuspendedByAdmin
    <3> QED BY <1>9, <3>1, <3>2 DEF Moderation!StaleEdit
  <2> QED BY <2>3, <2>4 DEF Moderation!LiftedByDecision
<1>10. ASSUME NEW h \in Handlers, Moderation!Approve(h)
       PROVE  Moderation!TypeOK' /\ Moderation!LiftedByDecision
  <2> DEFINE s == deciding[h].salon
  <2>0. s \in Moderated /\ deciding[h] # Moderation!Idle
    BY <1>10, StandingTask DEF Moderation!Approve
  <2>1. /\ standing' \in [Moderated -> Moderation!Status]
        /\ cause' \in [Moderated -> Moderation!Cause]
        /\ \A r \in Moderated \ {s} : standing'[r] = standing[r] /\ cause'[r] = cause[r]
    BY <1>10, <2>0, StandingPut DEF Moderation!Approve
  <2>2. deciding' \in [Handlers -> Moderation!Tasks \cup {Moderation!Idle}]
    BY <1>10, StandingGoto DEF Moderation!Approve, Moderation!End
  <2>3. Moderation!TypeOK'
    BY <1>10, <2>1, <2>2 DEF Moderation!TypeOK, Moderation!Approve
  <2>4. Moderation!LiftedByDecision
    BY <1>10, <2>0, <2>1
       DEF Moderation!LiftedByDecision, Moderation!SuspendedByAdmin, Moderation!AdminDecides
  <2> QED BY <2>3, <2>4
<1>11. ASSUME NEW h \in Handlers, Moderation!Abandon(h)
       PROVE  Moderation!TypeOK' /\ Moderation!LiftedByDecision
  <2>1. deciding' \in [Handlers -> Moderation!Tasks \cup {Moderation!Idle}]
    BY <1>11, StandingGoto DEF Moderation!Abandon, Moderation!End
  <2> QED
    BY <1>11, <2>1
       DEF Moderation!Abandon, Moderation!TypeOK, Moderation!LiftedByDecision,
           Moderation!SuspendedByAdmin
<1> QED BY <1>1, <1>2, <1>3, <1>4, <1>5, <1>6, <1>7, <1>8, <1>9, <1>10, <1>11 DEF Moderation!Next

\* An admin's suspension ends by an admin's decision, or by an owner's edit begun before it.
THEOREM SuspensionKept == OfficeSpec => SuspensionNeedsDecision
<1>1. OfficeInit => Moderation!TypeOK
  BY DEF OfficeInit, Moderation!Init, Moderation!TypeOK, Moderation!Status, Moderation!Cause
<1>2. [OfficeNext]_OfficeVars => [Moderation!Next]_standingVars
  BY DEF OfficeNext, OfficeVars, standingVars
<1>3. Moderation!TypeOK /\ [OfficeNext]_OfficeVars => Moderation!TypeOK'
  BY <1>2, StandingStep
<1>4. Moderation!TypeOK /\ [OfficeNext]_OfficeVars =>
          [office = "standing" => Moderation!LiftedByDecision]_standingVars
  BY <1>2, StandingStep
<1> QED BY <1>1, <1>3, <1>4, PTL DEF OfficeSpec, SuspensionNeedsDecision

-----------------------------------------------------------------------------
(* Plans.                                                                   *)

\* What an update checked on the plan as it was read: the default stays on and active.
Checked(t) ==
    t.op = "update" =>
        /\ t.wasDefault => t.isDefault # "off"
        /\ t.isDefault = "on" \/ (t.isDefault = "keep" /\ t.wasDefault) => t.isActive # "off"

PlansInv ==
    /\ Planning!TypeOK
    /\ \A h \in Handlers : planning[h] # Planning!Idle => Checked(planning[h])

LEMMA PlansTask ==
    ASSUME PlansInv, NEW h \in Handlers, planning[h] # Planning!Idle
    PROVE  /\ planning[h] \in Planning!Tasks /\ Checked(planning[h])
           /\ planning[h].plan \in PlanNames /\ planning[h].salon \in Subscribers \cup {None}
           /\ planning[h].isDefault \in Planning!Flags /\ planning[h].isActive \in Planning!Flags
           /\ planning[h].wasDefault \in BOOLEAN
BY DEF PlansInv, Planning!TypeOK, Planning!Tasks

\* One request goes on as t, or is done; the rows stay typed.
LEMMA PlansStep ==
    ASSUME PlansInv, NEW h \in Handlers, NEW t \in Planning!Tasks \cup {Planning!Idle},
           Planning!Goto(h, t), t # Planning!Idle => Checked(t),
           plans' \subseteq PlanNames, default' \subseteq plans', sold' \subseteq plans',
           planOf' \in [Subscribers -> plans' \cup {None}]
    PROVE  PlansInv'
<1>1. /\ planning' \in [Handlers -> Planning!Tasks \cup {Planning!Idle}]
      /\ planning'[h] = t
      /\ \A g \in Handlers \ {h} : planning'[g] = planning[g]
  BY DEF PlansInv, Planning!TypeOK, Planning!Goto
<1>2. \A g \in Handlers : planning'[g] # Planning!Idle => Checked(planning'[g])
  BY <1>1 DEF PlansInv
<1>3. (\A g \in Handlers : planning[g] # Planning!Idle => Checked(planning[g]))'
  BY <1>2 DEF Planning!Idle, Checked
<1> QED BY <1>1, <1>3 DEF PlansInv, Planning!TypeOK

LEMMA PlansBegin ==
    ASSUME PlansInv, NEW h \in Handlers, NEW op \in {"update", "remove", "assign", "found"},
           NEW p \in PlanNames, NEW s \in Subscribers \cup {None},
           NEW d \in Planning!Flags, NEW a \in Planning!Flags, Planning!Begin(h, op, p, s, d, a),
           op = "update" => (d = "off" => p \notin default)
                            /\ (Planning!On(p \in default, d) => Planning!On(p \in sold, a))
    PROVE  PlansInv' /\ UNCHANGED <<default, sold>>
<1> DEFINE t == [op |-> op, plan |-> p, salon |-> s, isDefault |-> d, isActive |-> a,
                 wasDefault |-> p \in default]
<1>1. t \in Planning!Tasks
  BY DEF Planning!Tasks
<1>2. Checked(t)
  BY DEF Checked, Planning!On, Planning!Flags
<1>3. Planning!Goto(h, t) /\ UNCHANGED <<plans, default, sold, planOf>>
  BY DEF Planning!Begin
<1> HIDE DEF t
<1> QED BY <1>1, <1>2, <1>3, PlansStep DEF PlansInv, Planning!TypeOK

LEMMA CommitUpdateKeeps ==
    ASSUME PlansInv, NEW h \in Handlers, Planning!CommitUpdate(h)
    PROVE  PlansInv' /\ Planning!FallbackKept
<1> DEFINE t == planning[h]
           rest == IF t.isDefault = "on" /\ ~t.wasDefault THEN {} ELSE default
<1>0. /\ t # Planning!Idle /\ t.op = "update" /\ Checked(t)
      /\ t.plan \in PlanNames /\ t.isDefault \in Planning!Flags /\ t.isActive \in Planning!Flags
      /\ t.wasDefault \in BOOLEAN
  BY PlansTask DEF Planning!CommitUpdate, Planning!At
<1>1. Planning!Goto(h, Planning!Idle) /\ UNCHANGED <<plans, planOf>>
  BY DEF Planning!CommitUpdate
<1>2. IF t.plan \in plans
      THEN /\ t.isDefault = "on" => rest \subseteq {t.plan}
           /\ default' = Planning!Switch(rest, t.plan, t.isDefault)
           /\ sold' = Planning!Switch(sold, t.plan, t.isActive)
      ELSE default' = rest /\ sold' = sold
  BY DEF Planning!CommitUpdate
<1>3. default \subseteq plans /\ sold \subseteq plans /\ plans \subseteq PlanNames
  BY DEF PlansInv, Planning!TypeOK
<1>4. default' \subseteq plans' /\ sold' \subseteq plans'
  BY <1>1, <1>2, <1>3 DEF Planning!Switch
<1>5. PlansInv'
  BY <1>1, <1>3, <1>4, PlansStep DEF PlansInv, Planning!TypeOK
<1>6. ASSUME NEW p \in sold, default = {p}, ~Planning!StaleChange
      PROVE  Planning!HasFallback'
  <2>1. /\ t.plan \in plans
        /\ t.wasDefault <=> t.plan \in default
        /\ t.isDefault = "on" => t.plan \in sold
    BY <1>0, <1>6 DEF Planning!StaleChange
  <2>2. CASE t.plan = p
    <3>1. t.wasDefault /\ t.isDefault # "off" /\ t.isActive # "off"
      BY <1>0, <1>6, <2>1, <2>2 DEF Checked, Planning!Flags
    <3>2. default' = {p} /\ sold \subseteq sold'
      BY <1>2, <1>6, <2>1, <2>2, <3>1 DEF Planning!Switch
    <3> QED BY <1>6, <3>2 DEF Planning!HasFallback
  <2>3. CASE t.plan # p /\ t.isDefault = "on"
    <3>1. ~t.wasDefault /\ t.isActive # "off" /\ t.plan \in sold
      BY <1>0, <1>6, <2>1, <2>3 DEF Checked
    <3>2. default' = {t.plan} /\ t.plan \in sold'
      BY <1>2, <2>1, <2>3, <3>1 DEF Planning!Switch
    <3> QED BY <3>2 DEF Planning!HasFallback
  <2>4. CASE t.plan # p /\ t.isDefault # "on"
    <3>1. default' = {p} /\ p \in sold'
      BY <1>2, <1>6, <2>1, <2>4 DEF Planning!Switch
    <3> QED BY <3>1 DEF Planning!HasFallback
  <2> QED BY <2>2, <2>3, <2>4
<1> QED BY <1>5, <1>6 DEF Planning!FallbackKept, Planning!HasFallback

LEMMA CommitRemoveKeeps ==
    ASSUME PlansInv, NEW h \in Handlers, Planning!CommitRemove(h)
    PROVE  PlansInv' /\ Planning!FallbackKept
<1> DEFINE p == planning[h].plan
<1>1. /\ Planning!Goto(h, Planning!Idle)
      /\ plans' = plans \ {p} /\ default' = default \ {p} /\ sold' = sold \ {p}
      /\ planOf' = planOf /\ \A s \in Subscribers : planOf[s] # p
  BY DEF Planning!CommitRemove
<1>2. planOf' \in [Subscribers -> plans' \cup {None}]
  BY <1>1 DEF PlansInv, Planning!TypeOK
<1>3. PlansInv'
  BY <1>1, <1>2, PlansStep DEF PlansInv, Planning!TypeOK
<1>4. Planning!HasFallback => Planning!HasFallback' \/ Planning!StaleChange
  <2>1. CASE p \in default
    BY <2>1 DEF Planning!StaleChange
  <2>2. CASE p \notin default
    BY <1>1, <2>2 DEF Planning!HasFallback
  <2> QED BY <2>1, <2>2
<1> QED BY <1>3, <1>4 DEF Planning!FallbackKept

LEMMA SubscribeKeeps ==
    ASSUME PlansInv, NEW h \in Handlers, Planning!Subscribe(h)
    PROVE  PlansInv' /\ UNCHANGED <<default, sold>>
<1>1. planOf' \in [Subscribers -> plans' \cup {None}]
  BY DEF PlansInv, Planning!TypeOK, Planning!Subscribe
<1> QED BY <1>1, PlansStep DEF PlansInv, Planning!TypeOK, Planning!Subscribe

\* Every step keeps the invariant and the default, unless what it is about changed meanwhile.
LEMMA PlansKept ==
    ASSUME PlansInv, [Planning!Next]_plansVars
    PROVE  PlansInv' /\ Planning!FallbackKept
<1> USE DEF Planning!FallbackKept, Planning!HasFallback
<1>1. CASE UNCHANGED plansVars
  BY <1>1 DEF plansVars, PlansInv, Planning!TypeOK
<1>2. ASSUME NEW p \in PlanNames, Planning!Create(p)
      PROVE  PlansInv' /\ Planning!FallbackKept
  BY <1>2 DEF PlansInv, Planning!TypeOK, Planning!Create
<1>3. ASSUME NEW h \in Handlers, NEW p \in PlanNames, NEW d \in Planning!Flags, NEW a \in Planning!Flags,
             Planning!Update(h, p, d, a)
      PROVE  PlansInv' /\ Planning!FallbackKept
  <2>1. PlansInv' /\ UNCHANGED <<default, sold>>
    BY <1>3, PlansBegin DEF Planning!Update
  <2> QED BY <2>1
<1>4. ASSUME NEW h \in Handlers, NEW p \in PlanNames, NEW s \in Subscribers,
             \/ Planning!AssignPlan(h, s, p)
             \/ Planning!CreateDefaultSubscription(h, s, p)
      PROVE  PlansInv' /\ Planning!FallbackKept
  <2>1. PlansInv' /\ UNCHANGED <<default, sold>>
    BY <1>4, PlansBegin
       DEF Planning!AssignPlan, Planning!CreateDefaultSubscription, Planning!Flags
  <2> QED BY <2>1
<1>5. ASSUME NEW h \in Handlers, NEW p \in PlanNames, Planning!Remove(h, p)
      PROVE  PlansInv' /\ Planning!FallbackKept
  <2>1. PlansInv' /\ UNCHANGED <<default, sold>>
    BY <1>5, PlansBegin DEF Planning!Remove, Planning!Flags
  <2> QED BY <2>1
<1>6. ASSUME NEW h \in Handlers, Planning!Subscribe(h)
      PROVE  PlansInv' /\ Planning!FallbackKept
  BY <1>6, SubscribeKeeps
<1>7. ASSUME NEW h \in Handlers, Planning!Abandon(h)
      PROVE  PlansInv' /\ Planning!FallbackKept
  <2>1. PlansInv' /\ UNCHANGED <<default, sold>>
    BY <1>7, PlansStep DEF Planning!Abandon, PlansInv, Planning!TypeOK
  <2> QED BY <2>1
<1> QED BY <1>1, <1>2, <1>3, <1>4, <1>5, <1>6, <1>7, CommitUpdateKeeps, CommitRemoveKeeps
           DEF Planning!Next

\* The default plan stays and may be assigned, unless a plan changed between its check and its
\* write.
THEOREM FallbackKept == OfficeSpec => FallbackStays
<1>1. OfficeInit => PlansInv
  BY PlanAssumption DEF OfficeInit, Planning!Init, PlansInv, Planning!TypeOK
<1>2. [OfficeNext]_OfficeVars => [Planning!Next]_plansVars
  BY DEF OfficeNext, OfficeVars, plansVars
<1>3. PlansInv /\ [OfficeNext]_OfficeVars => PlansInv'
  BY <1>2, PlansKept
<1>4. PlansInv /\ [OfficeNext]_OfficeVars => [office = "plans" => Planning!FallbackKept]_plansVars
  BY <1>2, PlansKept
<1> QED BY <1>1, <1>3, <1>4, PTL DEF OfficeSpec, FallbackStays

-----------------------------------------------------------------------------
(* Billing.                                                                 *)

\* Cardinality is that of FiniteSets in every instance of a module that extends it.
LEMMA BillingCounts == \A S : BillingDesk!Cardinality(S) = Cardinality(S)
BY DEF BillingDesk!Cardinality, Cardinality

\* Fewer periods are no more, and one more than some is at most one more.
LEMMA PeriodsCounted ==
    ASSUME NEW S \in SUBSET Periods, NEW T \in SUBSET Periods
    PROVE  /\ BillingDesk!Cardinality(S) \in Nat
           /\ T \subseteq S => BillingDesk!Cardinality(T) <= BillingDesk!Cardinality(S)
           /\ \A p \in Periods :
                 T \subseteq S \cup {p} => BillingDesk!Cardinality(T) <= BillingDesk!Cardinality(S) + 1
<1>1. IsFiniteSet(S) /\ IsFiniteSet(T)
  BY DiscountAssumption, FS_Subset
<1>2. Cardinality(S) \in Nat /\ Cardinality(T) \in Nat
  BY <1>1, FS_CardinalityType
<1>3. T \subseteq S => Cardinality(T) <= Cardinality(S)
  BY <1>1, FS_Subset
<1>4. ASSUME NEW p \in Periods, T \subseteq S \cup {p}
      PROVE  Cardinality(T) <= Cardinality(S) + 1
  <2>1. IsFiniteSet(S \cup {p}) /\ Cardinality(S \cup {p}) <= Cardinality(S) + 1
    BY <1>1, <1>2, FS_AddElement
  <2>2. Cardinality(T) <= Cardinality(S \cup {p}) /\ Cardinality(S \cup {p}) \in Nat
    BY <1>4, <2>1, FS_Subset, FS_CardinalityType
  <2> QED BY <1>2, <2>1, <2>2
<1> QED BY <1>2, <1>3, <1>4, BillingCounts

LEMMA BillingTask ==
    ASSUME BillingDesk!TypeOK, NEW h \in Handlers, billing[h] # BillingDesk!Idle
    PROVE  /\ billing[h] \in BillingDesk!Tasks
           /\ billing[h].pc \in {"checked", "counted"} /\ billing[h].period \in Periods
           /\ billing[h].salon \in Salons /\ billing[h].coupon \in Discounts \cup {None}
BY DEF BillingDesk!TypeOK, BillingDesk!Tasks

\* What a transaction that goes on as t must know of the rows it will write, or has locked.
BillingKnown(h, t) ==
    /\ period'[t.period] = "none"
    /\ \A g \in Handlers \ {h} : billing[g] # BillingDesk!Idle => billing[g].period # t.period
    /\ t.pc = "checked" => t.coupon \in CappedDiscounts
    /\ t.pc = "counted" /\ t.coupon \in CappedDiscounts =>
          /\ BillingDesk!Cardinality({p \in Periods : taken'[p] = t.coupon}) < DiscountCap
          /\ \A g \in Handlers \ {h} : BillingDesk!Locks(g) => billing[g].coupon # t.coupon

\* One transaction steps, and leaves alone what the others hold.
LEMMA BillingHeld ==
    ASSUME BillingDesk!IInv, NEW h \in Handlers, NEW t \in BillingDesk!Tasks \cup {BillingDesk!Idle},
           BillingDesk!Goto(h, t), t # BillingDesk!Idle => BillingKnown(h, t),
           \A g \in Handlers \ {h} :
              /\ billing[g] # BillingDesk!Idle => period'[billing[g].period] = "none"
              /\ BillingDesk!Locks(g) =>
                    \A p \in Periods : taken'[p] = billing[g].coupon => taken[p] = billing[g].coupon
    PROVE  /\ billing' \in [Handlers -> BillingDesk!Tasks \cup {BillingDesk!Idle}]
           /\ BillingDesk!PeriodHeld' /\ BillingDesk!CouponHeld'
<1>1. /\ billing' \in [Handlers -> BillingDesk!Tasks \cup {BillingDesk!Idle}]
      /\ billing'[h] = t
      /\ \A g \in Handlers \ {h} : billing'[g] = billing[g]
  BY DEF BillingDesk!IInv, BillingDesk!TypeOK, BillingDesk!Goto
<1>2. BillingDesk!PeriodHeld'
  BY <1>1 DEF BillingDesk!IInv, BillingDesk!PeriodHeld, BillingKnown, BillingDesk!Idle
<1>3. BillingDesk!CouponHeld'
  <2> SUFFICES ASSUME NEW g \in Handlers
               PROVE  /\ BillingDesk!At(g, "checked")' => billing'[g].coupon \in CappedDiscounts
                      /\ BillingDesk!Locks(g)' =>
                            /\ BillingDesk!Cardinality({p \in Periods : taken'[p] = billing'[g].coupon}) < DiscountCap
                            /\ \A k \in Handlers :
                                  BillingDesk!Locks(k)' /\ billing'[k].coupon = billing'[g].coupon => k = g
    BY DEF BillingDesk!CouponHeld, BillingDesk!Redemptions
  <2> USE DEF BillingDesk!At, BillingDesk!Locks, BillingDesk!Idle
  <2>1. CASE g = h
    BY <1>1, <2>1 DEF BillingKnown
  <2>2. CASE g # h
    <3>1. BillingDesk!At(g, "checked")' => billing'[g].coupon \in CappedDiscounts
      BY <1>1, <2>2 DEF BillingDesk!IInv, BillingDesk!CouponHeld
    <3>2. ASSUME BillingDesk!Locks(g)'
          PROVE  BillingDesk!Cardinality({p \in Periods : taken'[p] = billing'[g].coupon}) < DiscountCap
      <4> DEFINE S == {p \in Periods : taken[p] = billing[g].coupon}
                 T == {p \in Periods : taken'[p] = billing[g].coupon}
      <4>1. BillingDesk!Locks(g) /\ billing'[g] = billing[g]
        BY <1>1, <2>2, <3>2
      <4>2. BillingDesk!Cardinality(S) < DiscountCap
        BY <4>1 DEF BillingDesk!IInv, BillingDesk!CouponHeld, BillingDesk!Redemptions
      <4>3. T \subseteq S
        BY <2>2, <4>1
      <4>4. /\ BillingDesk!Cardinality(T) <= BillingDesk!Cardinality(S)
            /\ BillingDesk!Cardinality(S) \in Nat /\ BillingDesk!Cardinality(T) \in Nat
        BY <4>3, PeriodsCounted
      <4> QED BY <4>1, <4>2, <4>4, DiscountAssumption
    <3>3. ASSUME BillingDesk!Locks(g)', NEW k \in Handlers, BillingDesk!Locks(k)',
                 billing'[k].coupon = billing'[g].coupon
          PROVE  k = g
      BY <1>1, <2>2, <3>3 DEF BillingDesk!IInv, BillingDesk!CouponHeld, BillingKnown
    <3> QED BY <3>1, <3>2, <3>3
  <2> QED BY <2>1, <2>2
<1> QED BY <1>1, <1>2, <1>3

LEMMA BillingCreate ==
    ASSUME BillingDesk!IInv, NEW h \in Handlers, NEW p \in Periods, NEW s \in Salons,
           NEW c \in Discounts \cup {None}, BillingDesk!CreatePeriod(h, p, s, c)
    PROVE  BillingDesk!IInv'
<1> DEFINE t == [pc |-> IF c \in CappedDiscounts THEN "checked" ELSE "counted",
                 period |-> p, salon |-> s, coupon |-> c]
<1>1. t \in BillingDesk!Tasks
  BY DEF BillingDesk!Tasks
<1>2. BillingKnown(h, t)
  BY DEF BillingDesk!CreatePeriod, BillingKnown
<1>3. BillingDesk!Goto(h, t) /\ UNCHANGED <<period, salon, discount, taken>>
  BY DEF BillingDesk!CreatePeriod
<1> HIDE DEF t
<1>4. /\ billing' \in [Handlers -> BillingDesk!Tasks \cup {BillingDesk!Idle}]
      /\ BillingDesk!PeriodHeld' /\ BillingDesk!CouponHeld'
  BY <1>1, <1>2, <1>3, BillingHeld DEF BillingDesk!IInv, BillingDesk!PeriodHeld
<1> QED
  BY <1>3, <1>4
     DEF BillingDesk!IInv, BillingDesk!TypeOK, BillingDesk!DiscountsCount, BillingDesk!Redemptions

LEMMA BillingLock ==
    ASSUME BillingDesk!IInv, NEW h \in Handlers, BillingDesk!LockCoupon(h)
    PROVE  BillingDesk!IInv'
<1> DEFINE t == [billing[h] EXCEPT !.pc = "counted"]
<1>1. /\ billing[h] # BillingDesk!Idle /\ billing[h] \in BillingDesk!Tasks
      /\ billing[h].coupon \in CappedDiscounts
  BY BillingTask
     DEF BillingDesk!LockCoupon, BillingDesk!At, BillingDesk!IInv, BillingDesk!CouponHeld
<1>2. /\ t \in BillingDesk!Tasks /\ t.pc = "counted"
      /\ t.period = billing[h].period /\ t.coupon = billing[h].coupon
  BY <1>1 DEF BillingDesk!Tasks
<1>3. BillingDesk!Goto(h, t) /\ UNCHANGED <<period, salon, discount, taken>>
  BY DEF BillingDesk!LockCoupon
<1> HIDE DEF t
<1>4. /\ BillingDesk!Cardinality({p \in Periods : taken'[p] = t.coupon}) < DiscountCap
      /\ \A g \in Handlers \ {h} : BillingDesk!Locks(g) => billing[g].coupon # t.coupon
  BY <1>2, <1>3 DEF BillingDesk!LockCoupon, BillingDesk!CouponFree, BillingDesk!Redemptions
<1>5. BillingKnown(h, t)
  BY <1>1, <1>2, <1>3, <1>4 DEF BillingKnown, BillingDesk!IInv, BillingDesk!PeriodHeld
<1>6. /\ billing' \in [Handlers -> BillingDesk!Tasks \cup {BillingDesk!Idle}]
      /\ BillingDesk!PeriodHeld' /\ BillingDesk!CouponHeld'
  BY <1>2, <1>3, <1>5, BillingHeld DEF BillingDesk!IInv, BillingDesk!PeriodHeld
<1> QED
  BY <1>3, <1>6
     DEF BillingDesk!IInv, BillingDesk!TypeOK, BillingDesk!DiscountsCount, BillingDesk!Redemptions

LEMMA BillingCommit ==
    ASSUME BillingDesk!IInv, NEW h \in Handlers, BillingDesk!CommitPeriod(h)
    PROVE  BillingDesk!IInv'
<1> DEFINE t == billing[h]
<1>1. /\ t # BillingDesk!Idle /\ t.pc = "counted" /\ t.period \in Periods
      /\ t.salon \in Salons /\ t.coupon \in Discounts \cup {None}
  BY BillingTask DEF BillingDesk!CommitPeriod, BillingDesk!At, BillingDesk!IInv
<1>2. /\ t.coupon # None => ~BillingDesk!UsedBy(t.coupon, t.salon)
      /\ period' = [period EXCEPT ![t.period] = "pending"]
      /\ salon' = [salon EXCEPT ![t.period] = t.salon]
      /\ discount' = [discount EXCEPT ![t.period] = t.coupon]
      /\ taken' = [taken EXCEPT ![t.period] = t.coupon]
      /\ BillingDesk!Goto(h, BillingDesk!Idle)
  BY DEF BillingDesk!CommitPeriod
<1>3. BillingDesk!TypeOK /\ BillingDesk!DiscountsCount /\ BillingDesk!PeriodHeld /\ BillingDesk!CouponHeld
  BY DEF BillingDesk!IInv
<1>4. /\ period' \in [Periods -> {"none", "pending", "paid", "comped", "void"}]
      /\ salon' \in [Periods -> Salons \cup {None}]
      /\ discount' \in [Periods -> Discounts \cup {None}]
      /\ taken' \in [Periods -> Discounts \cup {None}]
      /\ period'[t.period] = "pending" /\ salon'[t.period] = t.salon
      /\ discount'[t.period] = t.coupon /\ taken'[t.period] = t.coupon
      /\ \A p \in Periods \ {t.period} :
            /\ period'[p] = period[p] /\ salon'[p] = salon[p]
            /\ discount'[p] = discount[p] /\ taken'[p] = taken[p]
  BY <1>1, <1>2, <1>3 DEF BillingDesk!TypeOK
<1> HIDE DEF t
<1>5. None \notin CappedDiscounts
  BY NullAssumption, DiscountAssumption
<1>6. ASSUME NEW g \in Handlers \ {h}
      PROVE  /\ billing[g] # BillingDesk!Idle => period'[billing[g].period] = "none"
             /\ BillingDesk!Locks(g) =>
                   \A p \in Periods : taken'[p] = billing[g].coupon => taken[p] = billing[g].coupon
  <2>1. ASSUME billing[g] # BillingDesk!Idle
        PROVE  period'[billing[g].period] = "none"
    <3>1. billing[g].period \in Periods /\ billing[g].period # t.period
      BY <1>1, <1>3, <2>1, BillingTask DEF t, BillingDesk!PeriodHeld
    <3> QED BY <1>3, <1>4, <2>1, <3>1 DEF BillingDesk!PeriodHeld
  <2>2. ASSUME BillingDesk!Locks(g)
        PROVE  billing[g].coupon # t.coupon
    <3>1. CASE t.coupon \in CappedDiscounts
      <4>1. BillingDesk!Locks(h)
        BY <1>1, <3>1 DEF t, BillingDesk!Locks, BillingDesk!At
      <4> QED BY <1>3, <2>2, <4>1 DEF t, BillingDesk!CouponHeld
    <3>2. CASE t.coupon \notin CappedDiscounts
      BY <2>2, <3>2 DEF BillingDesk!Locks
    <3> QED BY <3>1, <3>2
  <2> QED BY <1>4, <2>1, <2>2
<1>7. /\ billing' \in [Handlers -> BillingDesk!Tasks \cup {BillingDesk!Idle}]
      /\ BillingDesk!PeriodHeld' /\ BillingDesk!CouponHeld'
  BY <1>2, <1>6, BillingHeld
<1>8. ASSUME NEW c \in CappedDiscounts
      PROVE  BillingDesk!Cardinality({p \in Periods : taken'[p] = c}) <= DiscountCap
  <2> DEFINE S == {p \in Periods : taken[p] = c}
             T == {p \in Periods : taken'[p] = c}
  <2>1. /\ BillingDesk!Cardinality(S) <= DiscountCap
        /\ BillingDesk!Cardinality(S) \in Nat /\ BillingDesk!Cardinality(T) \in Nat
        /\ DiscountCap \in Nat
    BY <1>3, PeriodsCounted, DiscountAssumption
       DEF BillingDesk!DiscountsCount, BillingDesk!Redemptions
  <2>2. CASE c = t.coupon
    <3>1. BillingDesk!Locks(h)
      BY <1>1, <2>2 DEF t, BillingDesk!Locks, BillingDesk!At
    <3>2. BillingDesk!Cardinality(S) < DiscountCap
      BY <1>3, <2>2, <3>1 DEF t, BillingDesk!CouponHeld, BillingDesk!Redemptions
    <3>3. T \subseteq S \cup {t.period}
      BY <1>4
    <3>4. BillingDesk!Cardinality(T) <= BillingDesk!Cardinality(S) + 1
      BY <1>1, <3>3, PeriodsCounted
    <3> QED BY <2>1, <3>2, <3>4
  <2>3. CASE c # t.coupon
    <3>1. T \subseteq S
      BY <1>4, <2>3
    <3>2. BillingDesk!Cardinality(T) <= BillingDesk!Cardinality(S)
      BY <3>1, PeriodsCounted
    <3> QED BY <2>1, <3>2
  <2> QED BY <2>2, <2>3
<1>9. ASSUME NEW p \in Periods, NEW q \in Periods,
             taken'[p] # None, taken'[p] = taken'[q], salon'[p] = salon'[q]
      PROVE  p = q
  <2>1. \A r \in Periods : taken[r] = t.coupon /\ salon[r] = t.salon => t.coupon = None
    BY <1>2 DEF BillingDesk!UsedBy, BillingDesk!Redemptions
  <2> QED BY <1>1, <1>3, <1>4, <1>9, <2>1 DEF BillingDesk!DiscountsCount
<1>10. \A p \in Periods :
          taken'[p] = IF period'[p] \in {"none", "void"} THEN None ELSE discount'[p]
  BY <1>3, <1>4 DEF BillingDesk!DiscountsCount
<1>11. BillingDesk!DiscountsCount'
  BY <1>8, <1>9, <1>10 DEF BillingDesk!DiscountsCount, BillingDesk!Redemptions
<1>12. BillingDesk!TypeOK'
  BY <1>4, <1>7 DEF BillingDesk!TypeOK
<1> QED BY <1>7, <1>11, <1>12 DEF BillingDesk!IInv

LEMMA BillingStatus ==
    ASSUME BillingDesk!IInv, NEW p \in Periods, NEW st \in {"paid", "comped", "void"},
           BillingDesk!SetStatus(p, st)
    PROVE  BillingDesk!IInv'
<1>1. BillingDesk!TypeOK /\ BillingDesk!DiscountsCount /\ BillingDesk!PeriodHeld /\ BillingDesk!CouponHeld
  BY DEF BillingDesk!IInv
<1>2. /\ UNCHANGED <<salon, discount, billing>>
      /\ period[p] = "pending"
      /\ period' \in [Periods -> {"none", "pending", "paid", "comped", "void"}]
      /\ taken' \in [Periods -> Discounts \cup {None}]
      /\ period'[p] = st /\ taken'[p] = IF st = "void" THEN None ELSE taken[p]
      /\ \A q \in Periods \ {p} : period'[q] = period[q] /\ taken'[q] = taken[q]
  BY <1>1 DEF BillingDesk!TypeOK, BillingDesk!SetStatus
<1>3. \A q \in Periods : taken'[q] \in {taken[q], None}
  BY <1>2
<1>4. BillingDesk!TypeOK'
  BY <1>1, <1>2 DEF BillingDesk!TypeOK
<1>5. BillingDesk!PeriodHeld'
  BY <1>1, <1>2, BillingTask DEF BillingDesk!PeriodHeld
<1> DEFINE old(c) == BillingDesk!Cardinality({q \in Periods : taken[q] = c})
           new(c) == BillingDesk!Cardinality({q \in Periods : taken'[q] = c})
<1>6. ASSUME NEW c \in CappedDiscounts
      PROVE  new(c) <= old(c) /\ new(c) \in Nat /\ old(c) \in Nat
  <2>1. c # None
    BY NullAssumption, DiscountAssumption
  <2>2. {q \in Periods : taken'[q] = c} \subseteq {q \in Periods : taken[q] = c}
    BY <1>3, <2>1
  <2> QED BY <2>2, PeriodsCounted
<1>7. DiscountCap \in Nat
  BY DiscountAssumption
<1>8. BillingDesk!CouponHeld'
  <2> SUFFICES ASSUME NEW h \in Handlers
               PROVE  /\ BillingDesk!At(h, "checked") => billing[h].coupon \in CappedDiscounts
                      /\ BillingDesk!Locks(h) =>
                            /\ BillingDesk!Cardinality({q \in Periods : taken'[q] = billing[h].coupon}) < DiscountCap
                            /\ \A g \in Handlers :
                                  BillingDesk!Locks(g) /\ billing[g].coupon = billing[h].coupon => g = h
    BY <1>2
       DEF BillingDesk!CouponHeld, BillingDesk!Redemptions, BillingDesk!Locks, BillingDesk!At,
           BillingDesk!Idle
  <2>1. ASSUME BillingDesk!Locks(h)
        PROVE  BillingDesk!Cardinality({q \in Periods : taken'[q] = billing[h].coupon}) < DiscountCap
    <3>1. billing[h].coupon \in CappedDiscounts
      BY <2>1 DEF BillingDesk!Locks
    <3>2. old(billing[h].coupon) < DiscountCap
      BY <1>1, <2>1 DEF BillingDesk!CouponHeld, BillingDesk!Redemptions
    <3>3. new(billing[h].coupon) < DiscountCap
      <4> HIDE DEF old, new
      <4> QED BY <1>6, <1>7, <3>1, <3>2
    <3> QED BY <3>3
  <2> QED BY <1>1, <2>1 DEF BillingDesk!CouponHeld
<1>9. BillingDesk!DiscountsCount'
  <2>1. \A q \in Periods : taken'[q] = IF period'[q] \in {"none", "void"} THEN None ELSE discount'[q]
    BY <1>1, <1>2 DEF BillingDesk!DiscountsCount
  <2>2. \A c \in CappedDiscounts : new(c) <= DiscountCap
    <3>1. \A c \in CappedDiscounts : old(c) <= DiscountCap
      BY <1>1 DEF BillingDesk!DiscountsCount, BillingDesk!Redemptions
    <3> HIDE DEF old, new
    <3> QED BY <1>6, <1>7, <3>1
  <2>3. \A q, r \in Periods :
            taken'[q] # None /\ taken'[q] = taken'[r] /\ salon'[q] = salon'[r] => q = r
    BY <1>1, <1>2, <1>3 DEF BillingDesk!DiscountsCount
  <2> QED BY <2>1, <2>2, <2>3 DEF BillingDesk!DiscountsCount, BillingDesk!Redemptions
<1> QED BY <1>4, <1>5, <1>8, <1>9 DEF BillingDesk!IInv

LEMMA BillingRollback ==
    ASSUME BillingDesk!IInv, NEW h \in Handlers, BillingDesk!Rollback(h)
    PROVE  BillingDesk!IInv'
<1>1. BillingDesk!Goto(h, BillingDesk!Idle) /\ UNCHANGED <<period, salon, discount, taken>>
  BY DEF BillingDesk!Rollback
<1>2. /\ billing' \in [Handlers -> BillingDesk!Tasks \cup {BillingDesk!Idle}]
      /\ BillingDesk!PeriodHeld' /\ BillingDesk!CouponHeld'
  BY <1>1, BillingHeld DEF BillingDesk!IInv, BillingDesk!PeriodHeld
<1> QED
  BY <1>1, <1>2
     DEF BillingDesk!IInv, BillingDesk!TypeOK, BillingDesk!DiscountsCount, BillingDesk!Redemptions

LEMMA BillingInit ==
    ASSUME BillingDesk!Init
    PROVE  BillingDesk!IInv
<1>1. BillingDesk!TypeOK /\ BillingDesk!PeriodHeld /\ BillingDesk!CouponHeld
  BY DEF BillingDesk!Init, BillingDesk!TypeOK, BillingDesk!PeriodHeld, BillingDesk!CouponHeld,
         BillingDesk!Locks, BillingDesk!At
<1>2. \A c \in CappedDiscounts : BillingDesk!Cardinality({p \in Periods : taken[p] = c}) <= DiscountCap
  <2> SUFFICES ASSUME NEW c \in CappedDiscounts
               PROVE  BillingDesk!Cardinality({p \in Periods : taken[p] = c}) <= DiscountCap
    OBVIOUS
  <2>1. {p \in Periods : taken[p] = c} = {}
    BY NullAssumption, DiscountAssumption DEF BillingDesk!Init
  <2> QED BY <2>1, FS_EmptySet, BillingCounts, DiscountAssumption
<1>3. BillingDesk!DiscountsCount
  BY <1>2 DEF BillingDesk!Init, BillingDesk!DiscountsCount, BillingDesk!Redemptions
<1> QED BY <1>1, <1>3 DEF BillingDesk!IInv

LEMMA BillingStep ==
    ASSUME BillingDesk!IInv, [BillingDesk!Next]_billingVars
    PROVE  BillingDesk!IInv'
<1>1. CASE UNCHANGED billingVars
  BY <1>1 DEF billingVars, BillingDesk!IInv, BillingDesk!TypeOK, BillingDesk!DiscountsCount,
              BillingDesk!Redemptions, BillingDesk!PeriodHeld, BillingDesk!CouponHeld,
              BillingDesk!Locks, BillingDesk!At, BillingDesk!Idle
<1>2. CASE BillingDesk!Next
  BY <1>2, BillingCreate, BillingLock, BillingCommit, BillingStatus, BillingRollback
     DEF BillingDesk!Next
<1> QED BY <1>1, <1>2

\* A coupon is consumed by the periods that are owed, within its cap and once per salon.
THEOREM DiscountsAddUp == OfficeSpec => []DiscountsCount
<1>1. OfficeInit => BillingDesk!IInv
  BY BillingInit DEF OfficeInit
<1>2. BillingDesk!IInv /\ [OfficeNext]_OfficeVars => BillingDesk!IInv'
  BY BillingStep DEF OfficeNext, OfficeVars, billingVars
<1>3. BillingDesk!IInv => DiscountsCount
  BY DEF BillingDesk!IInv, DiscountsCount
<1> QED BY <1>1, <1>2, <1>3, PTL DEF OfficeSpec

-----------------------------------------------------------------------------
(* ChairTime.                                                               *)

ChairsTyped ==
    /\ hours \subseteq Chairs!Intervals
    /\ closed \in Chairs!Intervals \cup {<<"none">>, <<"whole-day">>}
    /\ capacity \in Nat
    /\ busy \in [Bookings -> Chairs!Intervals \cup {Chairs!NoTime}]

LEMMA ChairsInit == Chairs!Init => ChairsTyped
BY BoundsAssumption DEF Chairs!Init, ChairsTyped

LEMMA ChairsStep == ChairsTyped /\ [Chairs!Next]_chairsVars => ChairsTyped'
<1> SUFFICES ASSUME ChairsTyped, [Chairs!Next]_chairsVars PROVE ChairsTyped'
  OBVIOUS
<1>1. CASE UNCHANGED chairsVars
  BY <1>1 DEF chairsVars, ChairsTyped
<1>2. ASSUME NEW b \in Bookings, Chairs!Free(b) PROVE ChairsTyped'
  BY <1>2 DEF Chairs!Free, ChairsTyped
<1>3. ASSUME NEW b \in Bookings, NEW i \in Chairs!Intervals, Chairs!Book(b, i) PROVE ChairsTyped'
  BY <1>3 DEF Chairs!Book, ChairsTyped
<1>4. ASSUME NEW n \in 1..MaxChairs, Chairs!SetCapacity(n) PROVE ChairsTyped'
  BY <1>4, BoundsAssumption DEF Chairs!SetCapacity, ChairsTyped
<1> QED BY <1>1, <1>2, <1>3, <1>4 DEF Chairs!Next

LEMMA IntervalType ==
    ASSUME NEW i \in Chairs!Intervals
    PROVE  /\ i[1] \in 0..DayEnd /\ i[2] \in 0..DayEnd /\ i[1] < i[2]
           /\ i = <<i[1], i[2]>> /\ i # <<"none">> /\ i # <<"whole-day">>
BY BoundsAssumption DEF Chairs!Intervals

\* What SubtractInterval leaves of an interval: intervals, of the ticks outside the exception.
LEMMA Subtracted ==
    ASSUME NEW i \in Chairs!Intervals, NEW x \in Chairs!Intervals
    PROVE  /\ Chairs!SubtractInterval(i, x) \subseteq Chairs!Intervals
           /\ \A m \in Int :
                 (\E p \in Chairs!SubtractInterval(i, x) : Chairs!In(m, p))
                     <=> Chairs!In(m, i) /\ ~Chairs!In(m, x)
<1> USE BoundsAssumption DEF Chairs!In
<1>0. /\ i[1] \in 0..DayEnd /\ i[2] \in 0..DayEnd /\ i[1] < i[2] /\ i = <<i[1], i[2]>>
      /\ x[1] \in 0..DayEnd /\ x[2] \in 0..DayEnd /\ x[1] < x[2]
  BY IntervalType
<1>1. CASE ~Chairs!Overlap(i, x)
  <2>1. Chairs!SubtractInterval(i, x) = {i}
    BY <1>1 DEF Chairs!SubtractInterval
  <2>2. i[1] >= x[2] \/ i[2] <= x[1]
    BY <1>0, <1>1 DEF Chairs!Overlap
  <2> QED BY <1>0, <2>1, <2>2
<1>2. CASE Chairs!Overlap(i, x)
  <2> DEFINE left == <<i[1], x[1]>>
             right == <<x[2], i[2]>>
  <2>1. Chairs!SubtractInterval(i, x) = {p \in {left, right} : p[1] < p[2]}
    BY <1>2 DEF Chairs!SubtractInterval
  <2>2. left[1] = i[1] /\ left[2] = x[1] /\ right[1] = x[2] /\ right[2] = i[2]
    OBVIOUS
  <2>3. left \in (0..DayEnd) \X (0..DayEnd) /\ right \in (0..DayEnd) \X (0..DayEnd)
    BY <1>0
  <2>4. Chairs!SubtractInterval(i, x) \subseteq Chairs!Intervals
    BY <2>1, <2>3 DEF Chairs!Intervals
  <2>5. i[1] < x[2] /\ i[2] > x[1]
    BY <1>2 DEF Chairs!Overlap
  <2>6. ASSUME NEW m \in Int
        PROVE  (\E p \in Chairs!SubtractInterval(i, x) : Chairs!In(m, p))
                   <=> Chairs!In(m, i) /\ ~Chairs!In(m, x)
    <3> HIDE DEF left, right
    <3>1. (\E p \in Chairs!SubtractInterval(i, x) : Chairs!In(m, p))
              <=> \/ left[1] < left[2] /\ Chairs!In(m, left)
                  \/ right[1] < right[2] /\ Chairs!In(m, right)
      BY <2>1
    <3> QED BY <1>0, <2>2, <2>5, <3>1
  <2> QED BY <2>4, <2>6
<1> QED BY <1>1, <1>2

\* The ranges that are left are intervals, and of exactly the open ticks.
LEMMA RangesOpen ==
    ASSUME ChairsTyped
    PROVE  /\ Chairs!OpenRanges \subseteq Chairs!Intervals
           /\ \A m \in Int : m \in Chairs!OpenTicks <=> \E i \in Chairs!OpenRanges : Chairs!In(m, i)
<1>1. \A m \in Int, i \in Chairs!Intervals : Chairs!In(m, i) => m \in 0..(DayEnd - 1)
  BY IntervalType, BoundsAssumption DEF Chairs!In
<1>2. CASE closed = <<"whole-day">>
  <2>1. Chairs!OpenRanges = {} /\ \A m : ~Chairs!OpenAt(m)
    BY <1>2 DEF Chairs!OpenRanges, Chairs!OpenAt
  <2> QED BY <2>1 DEF Chairs!OpenTicks
<1>3. CASE closed = <<"none">>
  <2>0. <<"none">> # <<"whole-day">> /\ closed \notin Chairs!Intervals
    BY <1>3, IntervalType
  <2>1. Chairs!OpenRanges = hours
    BY <1>3, <2>0 DEF Chairs!OpenRanges
  <2>2. \A m : Chairs!OpenAt(m) <=> \E i \in hours : Chairs!In(m, i)
    BY <1>3, <2>0 DEF Chairs!OpenAt
  <2> QED BY <1>1, <2>1, <2>2 DEF Chairs!OpenTicks, ChairsTyped
<1>4. CASE closed \in Chairs!Intervals
  <2>0. closed # <<"none">> /\ closed # <<"whole-day">>
    BY <1>4, IntervalType
  <2>1. Chairs!OpenRanges = UNION {Chairs!SubtractInterval(i, closed) : i \in hours}
    BY <2>0 DEF Chairs!OpenRanges
  <2>2. \A i \in hours : i \in Chairs!Intervals
    BY DEF ChairsTyped
  <2>3. Chairs!OpenRanges \subseteq Chairs!Intervals
    BY <1>4, <2>1, <2>2, Subtracted
  <2>4. ASSUME NEW m \in Int
        PROVE  (\E i \in Chairs!OpenRanges : Chairs!In(m, i))
                   <=> (\E i \in hours : Chairs!In(m, i)) /\ ~Chairs!In(m, closed)
    BY <1>4, <2>1, <2>2, Subtracted
  <2>5. \A m \in Int : Chairs!OpenAt(m) <=> \E i \in Chairs!OpenRanges : Chairs!In(m, i)
    BY <1>4, <2>0, <2>4 DEF Chairs!OpenAt
  <2> QED BY <1>1, <2>3, <2>5 DEF Chairs!OpenTicks
<1> QED BY <1>2, <1>3, <1>4 DEF ChairsTyped

LEMMA ChairsCount == \A S : Chairs!Cardinality(S) = Cardinality(S)
BY DEF Chairs!Cardinality, Cardinality

\* The bookings that overlap a slot are at least those of each of its ticks, and exactly
\* those of its tick if it has only one.
LEMMA TicksOfSlot ==
    ASSUME ChairsTyped, NEW s \in Int, NEW d \in Nat \ {0}, NEW m \in s..(s + d - 1)
    PROVE  /\ \A b \in Chairs!Blocking : Chairs!In(m, busy[b]) => Chairs!Overlap(busy[b], <<s, s + d>>)
           /\ d = 1 => \A b \in Chairs!Blocking :
                           Chairs!Overlap(busy[b], <<s, s + d>>) => Chairs!In(m, busy[b])
<1> SUFFICES ASSUME NEW b \in Chairs!Blocking
             PROVE  /\ Chairs!In(m, busy[b]) => Chairs!Overlap(busy[b], <<s, s + d>>)
                    /\ d = 1 /\ Chairs!Overlap(busy[b], <<s, s + d>>) => Chairs!In(m, busy[b])
  OBVIOUS
<1>1. busy[b] \in Chairs!Intervals
  BY DEF ChairsTyped, Chairs!Blocking
<1>2. busy[b][1] \in Int /\ busy[b][2] \in Int
  BY <1>1, IntervalType, BoundsAssumption
<1>3. <<s, s + d>>[1] = s /\ <<s, s + d>>[2] = s + d
  OBVIOUS
<1> QED BY <1>2, <1>3 DEF Chairs!In, Chairs!Overlap

LEMMA BlockingFinite ==
    ASSUME NEW S \in SUBSET Chairs!Blocking, NEW T \in SUBSET S
    PROVE  /\ Chairs!Cardinality(S) \in Nat /\ Chairs!Cardinality(T) \in Nat
           /\ Chairs!Cardinality(T) <= Chairs!Cardinality(S)
           /\ Chairs!Cardinality(S) = 0 <=> S = {}
<1>1. IsFiniteSet(S)
  BY FiniteAssumption, FS_Subset DEF Chairs!Blocking
<1>2. IsFiniteSet(T)
  BY <1>1, FS_Subset
<1> QED BY <1>1, <1>2, FS_Subset, FS_CardinalityType, FS_EmptySet, ChairsCount

\* Every tick of a slot that is offered is good, and every good tick is offered.
LEMMA OfferedGood ==
    ASSUME ChairsTyped
    PROVE  Chairs!OfferedAndFree
<1> SUFFICES ASSUME NEW now \in -1..DayEnd, NEW forWorker \in BOOLEAN
             PROVE  LET Good(m) == /\ m \in Chairs!OpenTicks /\ m > now
                                   /\ Chairs!BusyAt(m, Bookings) < capacity
                                   /\ forWorker => ~off /\ Chairs!BusyAt(m, OfWorker) = 0
                    IN  /\ \A d \in 1..DayEnd : \A s \in Chairs!AvailableSlots(d, now, forWorker) :
                              \A m \in s..(s + d - 1) : Good(m)
                        /\ {m \in Chairs!OpenTicks : Good(m)} = Chairs!AvailableSlots(1, now, forWorker)
  BY DEF Chairs!OfferedAndFree
<1> DEFINE Good(m) == /\ m \in Chairs!OpenTicks /\ m > now
                      /\ Chairs!BusyAt(m, Bookings) < capacity
                      /\ forWorker => ~off /\ Chairs!BusyAt(m, OfWorker) = 0
           Seen(s, d) == {b \in Chairs!Blocking : Chairs!Overlap(busy[b], <<s, s + d>>)}
           BusyThen(m, bs) == {b \in bs \cap Chairs!Blocking : Chairs!In(m, busy[b])}
<1>0. now \in Int /\ capacity \in Nat /\ DayEnd \in Nat /\ OfWorker \subseteq Bookings
  BY BoundsAssumption, OfWorkerAssumption DEF ChairsTyped
<1>1. \A m, bs : Chairs!BusyAt(m, bs) = Chairs!Cardinality(BusyThen(m, bs))
  BY DEF Chairs!BusyAt
<1>2. ASSUME NEW d \in 1..DayEnd, NEW s
      PROVE  s \in Chairs!AvailableSlots(d, now, forWorker) <=>
                 /\ \E i \in Chairs!OpenRanges : s \in Chairs!Grid(i, d)
                 /\ s > now
                 /\ Chairs!Cardinality(Seen(s, d)) < capacity
                 /\ forWorker => ~off /\ \A b \in Chairs!Blocking \cap OfWorker :
                                              ~Chairs!Overlap(busy[b], <<s, s + d>>)
  BY DEF Chairs!AvailableSlots
<1>3. ASSUME NEW d \in 1..DayEnd, NEW s \in Chairs!AvailableSlots(d, now, forWorker),
             NEW m \in s..(s + d - 1)
      PROVE  Good(m)
  <2>1. PICK i \in Chairs!OpenRanges : s \in Chairs!Grid(i, d)
    BY <1>2
  <2>2. i \in Chairs!Intervals /\ i[1] \in Int /\ i[2] \in Int
    BY <1>0, RangesOpen, IntervalType
  <2>3. s \in Int /\ i[1] <= s /\ s <= i[2] - d /\ m \in Int
    BY <1>0, <2>1, <2>2 DEF Chairs!Grid
  <2>4. Chairs!In(m, i)
    BY <1>0, <2>2, <2>3 DEF Chairs!In
  <2>5. m \in Chairs!OpenTicks /\ m > now
    <3>1. s > now
      BY <1>2
    <3>2. m \in Chairs!OpenTicks
      BY <2>3, <2>4, RangesOpen
    <3> QED BY <1>0, <2>3, <3>1, <3>2
  <2>6. BusyThen(m, Bookings) \subseteq Seen(s, d)
    BY <2>3, TicksOfSlot
  <2>7. Chairs!BusyAt(m, Bookings) < capacity
    <3>1. /\ Chairs!Cardinality(BusyThen(m, Bookings)) <= Chairs!Cardinality(Seen(s, d))
          /\ Chairs!Cardinality(BusyThen(m, Bookings)) \in Nat /\ Chairs!Cardinality(Seen(s, d)) \in Nat
      BY <2>6, BlockingFinite
    <3> QED BY <1>0, <1>1, <1>2, <3>1
  <2>8. ASSUME forWorker
        PROVE  ~off /\ Chairs!BusyAt(m, OfWorker) = 0
    <3>1. ~off /\ \A b \in Chairs!Blocking \cap OfWorker : ~Chairs!Overlap(busy[b], <<s, s + d>>)
      BY <1>2, <2>8
    <3>2. BusyThen(m, OfWorker) = {}
      BY <2>3, <3>1, TicksOfSlot
    <3>3. Chairs!Cardinality(BusyThen(m, OfWorker)) = 0
      BY <3>2, BlockingFinite
    <3> QED BY <1>1, <3>1, <3>3
  <2> QED BY <2>5, <2>7, <2>8
<1>4. ASSUME NEW m, m \in Chairs!OpenTicks, Good(m)
      PROVE  m \in Chairs!AvailableSlots(1, now, forWorker)
  <2>1. m \in Int /\ m \in m..(m + 1 - 1) /\ 1 \in 1..DayEnd
    BY <1>0, <1>4 DEF Chairs!OpenTicks
  <2>2. PICK i \in Chairs!OpenRanges : Chairs!In(m, i)
    BY <1>4, <2>1, RangesOpen
  <2>3. i[1] \in Int /\ i[2] \in Int
    BY <1>0, <2>2, RangesOpen, IntervalType
  <2>4. m \in i[1]..(i[2] - 1) /\ (m - i[1]) % 1 = 0
    BY <2>1, <2>2, <2>3 DEF Chairs!In
  <2>5. m \in Chairs!Grid(i, 1)
    BY <2>4 DEF Chairs!Grid
  <2>6. Seen(m, 1) = BusyThen(m, Bookings)
    BY <2>1, TicksOfSlot DEF Chairs!Blocking
  <2>7. ASSUME forWorker, NEW b \in Chairs!Blocking \cap OfWorker
        PROVE  ~off /\ ~Chairs!Overlap(busy[b], <<m, m + 1>>)
    <3>1. BusyThen(m, OfWorker) = {}
      BY <1>1, <1>4, <2>7, BlockingFinite
    <3>2. ~Chairs!In(m, busy[b])
      BY <2>7, <3>1
    <3> QED BY <1>4, <2>1, <2>7, <3>2, TicksOfSlot
  <2>8. forWorker => ~off
    BY <1>4
  <2> QED BY <1>1, <1>2, <1>4, <2>1, <2>5, <2>6, <2>7, <2>8
<1>5. ASSUME NEW s \in Chairs!AvailableSlots(1, now, forWorker)
      PROVE  s \in Chairs!OpenTicks /\ Good(s)
  <2>1. PICK i \in Chairs!OpenRanges : s \in Chairs!Grid(i, 1)
    BY DEF Chairs!AvailableSlots
  <2>2. i[1] \in 0..DayEnd /\ i[2] \in 0..DayEnd
    BY RangesOpen, IntervalType
  <2>3. s \in Int /\ i[1] <= s /\ s <= i[2] - 1
    BY <1>0, <2>1, <2>2 DEF Chairs!Grid
  <2>4. 1 \in 1..DayEnd /\ s \in s..(s + 1 - 1)
    BY <1>0, <2>2, <2>3
  <2> QED BY <1>3, <2>4
<1> QED BY <1>3, <1>4, <1>5

\* Every slot offered is open and free throughout, and no free tick is withheld.
THEOREM SlotsOffered == OfficeSpec => []OfferedAndFree
<1>1. OfficeInit => ChairsTyped
  BY ChairsInit DEF OfficeInit
<1>2. ChairsTyped /\ [OfficeNext]_OfficeVars => ChairsTyped'
  BY ChairsStep DEF OfficeNext, OfficeVars, chairsVars
<1>3. ChairsTyped => OfferedAndFree
  BY OfferedGood DEF OfferedAndFree
<1> QED BY <1>1, <1>2, <1>3, PTL DEF OfficeSpec

-----------------------------------------------------------------------------
(* Folds over finite sets.  The induction theorems of the library take an   *)
(* operator; a fold needs only that a set of subsets has a least one.       *)

\* Induction over the subsets of a finite set.
LEMMA SubsetInduction ==
    ASSUME NEW S, IsFiniteSet(S), NEW P,
           \A s \in SUBSET S : (\A r \in SUBSET s : r # s => r \in P) => s \in P
    PROVE  \A s \in SUBSET S : s \in P
<1> DEFINE Bad == {s \in SUBSET S : s \notin P}
<1> SUFFICES ASSUME Bad # {} PROVE FALSE
  OBVIOUS
<1>1. Bad \subseteq FiniteSubsetsOf(S)
  BY FS_FiniteSubsetsOfFinite
<1>2. IsWellFoundedOn(StrictSubsetOrdering(S), FiniteSubsetsOf(S))
  BY FS_StrictSubsetOrderingWellFounded
<1> HIDE DEF Bad
<1>3. PICK s \in Bad : \A r \in Bad : <<r, s>> \notin StrictSubsetOrdering(S)
  BY <1>1, <1>2, WFMin
<1> USE DEF Bad
<1>4. ASSUME NEW r \in SUBSET s, r # s PROVE r \in P
  BY <1>3, <1>4 DEF StrictSubsetOrdering
<1> QED BY <1>3, <1>4

\* What a fold over a set is: c is the order in which it takes its elements.
Folds(g, S, c, base, op) ==
    g = [s \in SUBSET S |-> IF s = {} THEN base ELSE op[<<c[s], g[s \ {c[s]}]>>]]

LEMMA FoldUnique ==
    ASSUME NEW S, IsFiniteSet(S), NEW c, \A s \in SUBSET S : s # {} => c[s] \in s,
           NEW base, NEW op, NEW g, NEW h, Folds(g, S, c, base, op), Folds(h, S, c, base, op)
    PROVE  g = h
<1> DEFINE P == {s \in SUBSET S : g[s] = h[s]}
<1>1. ASSUME NEW s \in SUBSET S, \A r \in SUBSET s : r # s => r \in P
      PROVE  s \in P
  <2>1. CASE s = {}
    BY <2>1 DEF Folds
  <2>2. CASE s # {}
    <3>1. s \ {c[s]} \in P
      BY <1>1, <2>2
    <3> QED BY <2>2, <3>1 DEF Folds
  <2> QED BY <2>1, <2>2
<1> HIDE DEF P
<1>2. \A s \in SUBSET S : s \in P
  BY <1>1, SubsetInduction
<1> USE DEF P
<1>3. ASSUME NEW s \in SUBSET S
      PROVE  (IF s = {} THEN base ELSE op[<<c[s], g[s \ {c[s]}]>>])
                 = (IF s = {} THEN base ELSE op[<<c[s], h[s \ {c[s]}]>>])
  <2>1. s \ {c[s]} \in SUBSET S
    OBVIOUS
  <2> QED BY <1>2, <2>1
<1>4. [s \in SUBSET S |-> IF s = {} THEN base ELSE op[<<c[s], g[s \ {c[s]}]>>]]
          = [s \in SUBSET S |-> IF s = {} THEN base ELSE op[<<c[s], h[s \ {c[s]}]>>]]
  BY <1>3
<1> QED BY <1>4 DEF Folds

LEMMA FoldExists ==
    ASSUME NEW S, IsFiniteSet(S), NEW c, \A s \in SUBSET S : s # {} => c[s] \in s,
           NEW base, NEW op
    PROVE  \E g : Folds(g, S, c, base, op)
<1> DEFINE P == {s \in SUBSET S : \E g : Folds(g, s, c, base, op)}
           F(s) == CHOOSE g : Folds(g, s, c, base, op)
<1>1. ASSUME NEW s \in SUBSET S, \A r \in SUBSET s : r # s => r \in P
      PROVE  s \in P
  <2> DEFINE rest(r) == r \ {c[r]}
             g == [r \in SUBSET s |-> IF r = {} THEN base ELSE op[<<c[r], F(rest(r))[rest(r)]>>]]
  <2>1. ASSUME NEW r \in SUBSET s, r # {}
        PROVE  rest(r) \in SUBSET s /\ rest(r) # s /\ Folds(F(rest(r)), rest(r), c, base, op)
    <3>1. rest(r) \in SUBSET s /\ rest(r) # s
      BY <2>1
    <3>2. \E f : Folds(f, rest(r), c, base, op)
      BY <1>1, <3>1
    <3> QED BY <3>1, <3>2
  <2>2. ASSUME NEW r \in SUBSET s, r # {}
        PROVE  g[rest(r)] = F(rest(r))[rest(r)]
    <3> DEFINE q == rest(r)
               p == rest(q)
    <3>1. q \in SUBSET s /\ Folds(F(q), q, c, base, op)
      BY <2>1, <2>2
    <3>2. CASE q = {}
      <4>1. F(q)[q] = base
        BY <3>1, <3>2 DEF Folds
      <4> QED BY <3>1, <3>2, <4>1
    <3>3. CASE q # {}
      <4>1. p \in SUBSET s /\ p \in SUBSET q /\ Folds(F(p), p, c, base, op)
        BY <2>1, <3>1, <3>3
      <4> DEFINE f == [t \in SUBSET p |-> F(q)[t]]
      <4>2. Folds(f, p, c, base, op)
        <5>1. ASSUME NEW t \in SUBSET p
              PROVE  f[t] = IF t = {} THEN base ELSE op[<<c[t], f[t \ {c[t]}]>>]
          <6>1. t \in SUBSET q /\ t \ {c[t]} \in SUBSET p
            BY <4>1
          <6>2. F(q)[t] = IF t = {} THEN base ELSE op[<<c[t], F(q)[t \ {c[t]}]>>]
            BY <3>1, <6>1 DEF Folds
          <6>3. f[t] = F(q)[t] /\ f[t \ {c[t]}] = F(q)[t \ {c[t]}]
            BY <6>1
          <6> HIDE DEF F, f
          <6> QED BY <6>2, <6>3
        <5> HIDE DEF F
        <5>2. f = [t \in SUBSET p |-> IF t = {} THEN base ELSE op[<<c[t], f[t \ {c[t]}]>>]]
          BY <5>1
        <5> QED BY <5>2 DEF Folds
      <4> HIDE DEF f
      <4>3. IsFiniteSet(p) /\ \A t \in SUBSET p : t # {} => c[t] \in t
        BY <4>1, FS_Subset
      <4> HIDE DEF F, p
      <4>4. f = F(p)
        BY <4>1, <4>2, <4>3, FoldUnique
      <4> USE DEF f
      <4>5. F(q)[p] = F(p)[p]
        BY <4>4
      <4> USE DEF p
      <4>6. F(q)[q] = op[<<c[q], F(q)[p]>>]
        BY <3>1, <3>3 DEF Folds
      <4> QED BY <3>1, <3>3, <4>5, <4>6
    <3> QED BY <3>2, <3>3
  <2>3. Folds(g, s, c, base, op)
    <3> HIDE DEF F
    <3>1. ASSUME NEW r \in SUBSET s
          PROVE  g[r] = IF r = {} THEN base ELSE op[<<c[r], g[r \ {c[r]}]>>]
      BY <2>2
    <3> HIDE DEF g
    <3>2. DOMAIN g = SUBSET s /\ g = [r \in SUBSET s |-> g[r]]
      BY DEF g
    <3> QED BY <3>1, <3>2 DEF Folds
  <2> QED BY <2>3
<1> HIDE DEF P
<1>2. \A s \in SUBSET S : s \in P
  BY <1>1, SubsetInduction
<1> USE DEF P
<1> QED BY <1>2

UnionOf(K, S) == UNION {K[x] : x \in S}

\* What a sum over S is: of the sizes of the sets K[x], which c takes in some order.
Sums(g, S, c, K) ==
    g = [s \in SUBSET S |-> IF s = {} THEN 0 ELSE Cardinality(K[c[s]]) + g[s \ {c[s]}]]

LEMMA UnionSplit ==
    ASSUME NEW S, IsFiniteSet(S), NEW K,
           \A x \in S : IsFiniteSet(K[x]),
           \A x, y \in S : x # y => K[x] \cap K[y] = {},
           NEW x \in S, IsFiniteSet(UnionOf(K, S \ {x}))
    PROVE  /\ IsFiniteSet(UnionOf(K, S))
           /\ Cardinality(UnionOf(K, S))
                 = Cardinality(K[x]) + Cardinality(UnionOf(K, S \ {x}))
<1> DEFINE U == UnionOf(K, S)
           R == UnionOf(K, S \ {x})
<1>1. U = K[x] \cup R /\ K[x] \cap R = {}
  BY DEF UnionOf
<1>2. IsFiniteSet(K[x]) /\ IsFiniteSet(R)
  OBVIOUS
<1> HIDE DEF U, R
<1>3. /\ IsFiniteSet(U)
      /\ Cardinality(U) = Cardinality(K[x]) + Cardinality(R) - Cardinality({})
  BY <1>1, <1>2, FS_Union
<1>4. Cardinality(K[x]) \in Nat /\ Cardinality(R) \in Nat /\ Cardinality({}) = 0
  BY <1>2, FS_CardinalityType, FS_EmptySet
<1>5. Cardinality(U) = Cardinality(K[x]) + Cardinality(R)
  BY <1>3, <1>4
<1> QED BY <1>3, <1>5 DEF U, R

\* A sum of sizes of disjoint sets is the size of their union, in whatever order it is made.
LEMMA SumOfDisjoint ==
    ASSUME NEW S, IsFiniteSet(S), NEW c, \A s \in SUBSET S : s # {} => c[s] \in s, NEW K,
           \A x \in S : IsFiniteSet(K[x]),
           \A x, y \in S : x # y => K[x] \cap K[y] = {}
    PROVE  /\ IsFiniteSet(UnionOf(K, S))
           /\ \E g : Sums(g, S, c, K)
           /\ \A g : Sums(g, S, c, K) => g[S] = Cardinality(UnionOf(K, S))
<1> DEFINE U(s) == UnionOf(K, s)
           P == {s \in SUBSET S : IsFiniteSet(U(s))}
<1>1. ASSUME NEW s \in SUBSET S, s # {}
      PROVE  /\ s \ {c[s]} \in SUBSET s /\ s \ {c[s]} # s
             /\ IsFiniteSet(U(s \ {c[s]})) =>
                   /\ IsFiniteSet(U(s))
                   /\ Cardinality(U(s)) = Cardinality(K[c[s]]) + Cardinality(U(s \ {c[s]}))
  <2>1. c[s] \in s /\ s \ {c[s]} \in SUBSET s /\ s \ {c[s]} # s
    BY <1>1
  <2>2. IsFiniteSet(s) /\ \A x, y \in s : x # y => K[x] \cap K[y] = {}
    BY FS_Subset
  <2>3. \A x \in s : IsFiniteSet(K[x])
    OBVIOUS
  <2> DEFINE r == s \ {c[s]}
  <2>4. ASSUME IsFiniteSet(UnionOf(K, r))
        PROVE  /\ IsFiniteSet(UnionOf(K, s))
               /\ Cardinality(UnionOf(K, s))
                     = Cardinality(K[c[s]]) + Cardinality(UnionOf(K, r))
    BY <2>1, <2>2, <2>3, <2>4, UnionSplit
  <2> QED BY <2>1, <2>4
<1>2. U({}) = {}
  BY DEF UnionOf
<1>0. IsFiniteSet({}) /\ Cardinality({}) = 0
  BY FS_EmptySet
<1> HIDE DEF U
<1>3. \A s \in SUBSET S : s \in P
  <2>1. ASSUME NEW s \in SUBSET S, \A r \in SUBSET s : r # s => r \in P
        PROVE  s \in P
    <3>1. CASE s = {}
      BY <1>0, <1>2, <3>1
    <3>2. CASE s # {}
      <4>1. s \ {c[s]} \in P
        BY <1>1, <2>1, <3>2
      <4> QED BY <1>1, <3>2, <4>1
    <3> QED BY <3>1, <3>2
  <2> HIDE DEF P
  <2> QED BY <2>1, SubsetInduction
<1>4. \E g : Sums(g, S, c, K)
  <2> DEFINE g == [s \in SUBSET S |-> Cardinality(U(s))]
  <2>1. ASSUME NEW s \in SUBSET S
        PROVE  g[s] = IF s = {} THEN 0 ELSE Cardinality(K[c[s]]) + g[s \ {c[s]}]
    <3>1. CASE s = {}
      BY <1>0, <1>2, <3>1
    <3>2. CASE s # {}
      <4>1. s \ {c[s]} \in SUBSET S
        OBVIOUS
      <4> QED BY <1>1, <1>3, <3>2, <4>1
    <3> QED BY <3>1, <3>2
  <2>2. g = [s \in SUBSET S |-> g[s]]
    OBVIOUS
  <2> HIDE DEF g
  <2>3. Sums(g, S, c, K)
    BY <2>1, <2>2 DEF Sums
  <2> QED BY <2>3
<1>5. ASSUME NEW g, Sums(g, S, c, K)
      PROVE  g[S] = Cardinality(U(S))
  <2> DEFINE Q == {s \in SUBSET S : g[s] = Cardinality(U(s))}
  <2>1. ASSUME NEW s \in SUBSET S, \A r \in SUBSET s : r # s => r \in Q
        PROVE  s \in Q
    <3>1. g[s] = IF s = {} THEN 0 ELSE Cardinality(K[c[s]]) + g[s \ {c[s]}]
      BY <1>5 DEF Sums
    <3>2. CASE s = {}
      BY <1>0, <1>2, <3>1, <3>2
    <3>3. CASE s # {}
      <4>1. s \ {c[s]} \in SUBSET S /\ s \ {c[s]} \in Q
        BY <1>1, <2>1, <3>3
      <4> QED BY <1>1, <1>3, <3>1, <3>3, <4>1
    <3> QED BY <3>2, <3>3
  <2> HIDE DEF Q
  <2>2. \A s \in SUBSET S : s \in Q
    BY <2>1, SubsetInduction
  <2> USE DEF Q
  <2> QED BY <2>2
<1> USE DEF U
<1> QED BY <1>3, <1>4, <1>5

\* Of some numbers up to a bound there is a greatest.
LEMMA Greatest ==
    ASSUME NEW n \in Nat, NEW T, T \subseteq 0..n, T # {}
    PROVE  \E m \in T : \A k \in T : k <= m
<1> DEFINE R == {n - k : k \in T}
           Less == {p \in Nat \X Nat : p[1] < p[2]}
<1>1. OpToRel(<, Nat) = Less
  BY DEF OpToRel
<1>2. IsWellFoundedOn(Less, Nat)
  BY <1>1, NatLessThanWellFounded
<1>3. R \subseteq Nat /\ R # {}
  <2>1. \A k \in T : n - k \in Nat
    OBVIOUS
  <2> QED BY <2>1
<1> HIDE DEF R, Less
<1>4. PICK r \in R : \A q \in R : <<q, r>> \notin Less
  BY <1>2, <1>3, WFMin
<1> USE DEF R, Less
<1>5. PICK m \in T : r = n - m
  BY <1>4
<1>6. \A k \in T : ~(n - k < n - m)
  BY <1>3, <1>4, <1>5
<1>7. \A k \in T : k <= m
  BY <1>6
<1> QED BY <1>7

LEMMA MaxOfTwo ==
    ASSUME NEW a \in Int, NEW b \in Int
    PROVE  /\ Chairs!Max({a, b}) = IF a >= b THEN a ELSE b
           /\ Chairs!Min({a, b}) = IF a <= b THEN a ELSE b
<1>1. Chairs!Max({a, b}) \in {a, b} /\ \A y \in {a, b} : Chairs!Max({a, b}) >= y
  <2>1. \E x \in {a, b} : \A y \in {a, b} : x >= y
    <3>1. CASE a >= b
      BY <3>1
    <3>2. CASE ~(a >= b)
      BY <3>2
    <3> QED BY <3>1, <3>2
  <2> QED BY <2>1 DEF Chairs!Max
<1>2. Chairs!Min({a, b}) \in {a, b} /\ \A y \in {a, b} : Chairs!Min({a, b}) <= y
  <2>1. \E x \in {a, b} : \A y \in {a, b} : x <= y
    <3>1. CASE a <= b
      BY <3>1
    <3>2. CASE ~(a <= b)
      BY <3>2
    <3> QED BY <3>1, <3>2
  <2> QED BY <2>1 DEF Chairs!Min
<1> QED BY <1>1, <1>2

\* The ticks of an interval.
TicksOf(i) == {m \in 0..(DayEnd - 1) : Chairs!In(m, i)}

LEMMA TicksCounted ==
    ASSUME NEW i \in Chairs!Intervals
    PROVE  IsFiniteSet(TicksOf(i)) /\ Cardinality(TicksOf(i)) = i[2] - i[1]
<1>1. i[1] \in Int /\ i[2] \in Int /\ 0 <= i[1] /\ i[1] < i[2] /\ i[2] <= DayEnd
  BY IntervalType, BoundsAssumption
<1>2. TicksOf(i) = i[1]..(i[2] - 1)
  BY <1>1, BoundsAssumption DEF TicksOf, Chairs!In
<1>3. IsFiniteSet(i[1]..(i[2] - 1)) /\ Cardinality(i[1]..(i[2] - 1)) = (i[2] - 1) - i[1] + 1
  <2>1. /\ IsFiniteSet(i[1]..(i[2] - 1))
        /\ Cardinality(i[1]..(i[2] - 1))
              = IF i[1] > i[2] - 1 THEN 0 ELSE (i[2] - 1) - i[1] + 1
    <3>1. i[2] - 1 \in Int
      BY <1>1
    <3> QED BY <1>1, <3>1, FS_Interval
  <2> QED BY <1>1, <2>1
<1> QED BY <1>1, <1>2, <1>3

LEMMA CommonCounted ==
    ASSUME NEW i \in Chairs!Intervals, NEW j \in Chairs!Intervals
    PROVE  /\ IsFiniteSet(TicksOf(i) \cap TicksOf(j))
           /\ Chairs!Common(i, j) = Cardinality(TicksOf(i) \cap TicksOf(j))
<1>1. /\ i[1] \in Int /\ i[2] \in Int /\ 0 <= i[1] /\ i[1] < i[2] /\ i[2] <= DayEnd
      /\ j[1] \in Int /\ j[2] \in Int /\ 0 <= j[1] /\ j[1] < j[2] /\ j[2] <= DayEnd
  BY IntervalType, BoundsAssumption
<1> DEFINE first == IF i[1] >= j[1] THEN i[1] ELSE j[1]
           last == IF i[2] <= j[2] THEN i[2] ELSE j[2]
<1>2. TicksOf(i) \cap TicksOf(j) = first..(last - 1)
  BY <1>1, BoundsAssumption DEF TicksOf, Chairs!In
<1>3. Chairs!Max({i[1], j[1]}) = first /\ Chairs!Min({i[2], j[2]}) = last
  BY <1>1, MaxOfTwo
<1>4. first \in Int /\ last \in Int
  BY <1>1
<1> HIDE DEF first, last
<1>5. Chairs!Common(i, j) = IF 0 >= last - first THEN 0 ELSE last - first
  BY <1>3, <1>4, MaxOfTwo DEF Chairs!Common
<1>6. /\ IsFiniteSet(first..(last - 1))
      /\ Cardinality(first..(last - 1)) = IF first > last - 1 THEN 0 ELSE (last - 1) - first + 1
  <2>1. last - 1 \in Int
    BY <1>4
  <2> QED BY <1>4, <2>1, FS_Interval
<1>7. Chairs!Common(i, j) = Cardinality(first..(last - 1))
  BY <1>4, <1>5, <1>6
<1> QED BY <1>2, <1>6, <1>7

-----------------------------------------------------------------------------
(* Merging.                                                                 *)

\* What merging the intervals of s has made: the same ticks, in intervals with gaps between.
Merged(m, s) ==
    /\ m \in Seq(Chairs!Intervals)
    /\ m = <<>> => s = {}
    /\ \A k \in 1..Len(m) : \E j \in s : m[k][1] = j[1]
    /\ \A k, l \in 1..Len(m) : k < l => m[k][2] < m[l][1]
    /\ \A t \in Int : (\E k \in 1..Len(m) : Chairs!In(t, m[k])) <=> \E j \in s : Chairs!In(t, j)

LEMMA SequenceOps ==
    /\ \A s : Chairs!Last(s) = s[Len(s)]
    /\ \A s : Chairs!Front(s) = SubSeq(s, 1, Len(s) - 1)
    /\ \A s, x : Chairs!Append(s, x) = Append(s, x)
BY DEF Chairs!Last, Chairs!Front

\* All but the last element.
LEMMA SubSeqFront ==
    ASSUME NEW S, NEW m \in Seq(S), m # <<>>
    PROVE  /\ SubSeq(m, 1, Len(m) - 1) \in Seq(S)
           /\ Len(SubSeq(m, 1, Len(m) - 1)) = Len(m) - 1
           /\ \A k \in 1..(Len(m) - 1) : SubSeq(m, 1, Len(m) - 1)[k] = m[k]
<1> DEFINE n == Len(m) - 1
<1>1. n \in Nat /\ n <= Len(m) /\ Len(m) \in Nat
  OBVIOUS
<1>2. \A k \in 1..n : m[k] \in S
  BY <1>1
<1>3. SubSeq(m, 1, n) = [k \in 1..n |-> m[k]]
  BY <1>1
<1>4. [k \in 1..n |-> m[k]] \in Seq(S)
  BY <1>1, <1>2
<1>5. Len([k \in 1..n |-> m[k]]) = n
  BY <1>1, <1>4
<1> QED BY <1>3, <1>4, <1>5

\* Merging one more, which starts after the others, keeps it so.
LEMMA MergeKeeps ==
    ASSUME NEW s, s \subseteq Chairs!Intervals, NEW i \in Chairs!Intervals,
           \A j \in s : j[1] <= i[1], NEW m, Merged(m, s)
    PROVE  Merged(Chairs!Merge(i, m), s \cup {i})
<1> DEFINE n == Len(m)
           last == m[n]
<1>0. /\ m \in Seq(Chairs!Intervals) /\ n \in Nat
      /\ i[1] \in Int /\ i[2] \in Int /\ i[1] < i[2]
      /\ \A k \in 1..n : m[k] \in Chairs!Intervals
      /\ \A k \in 1..n : m[k][1] \in Int /\ m[k][2] \in Int /\ m[k][1] < m[k][2]
  BY IntervalType, BoundsAssumption DEF Merged
<1>1. \A k \in 1..n : m[k][1] <= i[1]
  BY DEF Merged
<1>2. CASE m = <<>>
  <2>1. Chairs!Merge(i, m) = <<i>>
    BY <1>2 DEF Chairs!Merge
  <2>2. s = {}
    BY <1>2 DEF Merged
  <2>3. <<i>> \in Seq(Chairs!Intervals) /\ Len(<<i>>) = 1 /\ <<i>>[1] = i /\ <<i>> # <<>>
    OBVIOUS
  <2>4. \A k \in 1..Len(<<i>>) : k = 1
    BY <2>3
  <2> QED BY <2>1, <2>2, <2>3, <2>4 DEF Merged
<1>3. CASE m # <<>> /\ ~(i[1] <= last[2])
  <2> DEFINE new == Append(m, i)
  <2>1. Chairs!Merge(i, m) = new
    BY <1>3, SequenceOps DEF Chairs!Merge
  <2>2. n \in 1..n
    BY <1>0, <1>3
  <2>3. /\ new \in Seq(Chairs!Intervals) /\ Len(new) = n + 1 /\ new[n + 1] = i
        /\ \A k \in 1..n : new[k] = m[k]
        /\ new # <<>>
    BY <1>0
  <2> HIDE DEF new, n, last
  <2>4. \A k \in 1..(n + 1) : k \in 1..n \/ k = n + 1
    BY <1>0
  <2>5. \A k \in 1..n : m[k][2] < i[1]
    <3>1. ASSUME NEW k \in 1..n PROVE m[k][2] < i[1]
      <4>1. k = n \/ k < n
        BY <1>0
      <4>2. k < n => m[k][2] < last[1]
        BY <2>2 DEF Merged, n, last
      <4>3. last[1] < last[2] /\ last[2] < i[1] /\ last[1] \in Int /\ last[2] \in Int
        BY <1>0, <1>3, <2>2 DEF last
      <4> QED BY <1>0, <4>1, <4>2, <4>3 DEF last
    <3> QED BY <3>1
  <2>6. ASSUME NEW k \in 1..(n + 1) PROVE \E j \in s \cup {i} : new[k][1] = j[1]
    <3>1. k \in 1..n => \E j \in s : m[k][1] = j[1]
      BY DEF Merged, n
    <3> QED BY <2>3, <2>4, <3>1
  <2>7. ASSUME NEW k \in 1..(n + 1), NEW l \in 1..(n + 1), k < l PROVE new[k][2] < new[l][1]
    <3>1. k \in 1..n
      BY <1>0, <2>7
    <3>2. l \in 1..n => m[k][2] < m[l][1]
      BY <2>7, <3>1 DEF Merged, n
    <3> QED BY <2>3, <2>4, <2>5, <3>1, <3>2
  <2>8. ASSUME NEW t \in Int
        PROVE  (\E k \in 1..(n + 1) : Chairs!In(t, new[k])) <=> \E j \in s \cup {i} : Chairs!In(t, j)
    <3>1. (\E k \in 1..n : Chairs!In(t, m[k])) <=> \E j \in s : Chairs!In(t, j)
      BY DEF Merged, n
    <3>2. (\E k \in 1..(n + 1) : Chairs!In(t, new[k]))
              <=> (\E k \in 1..n : Chairs!In(t, m[k])) \/ Chairs!In(t, i)
      <4>1. 1..n \subseteq 1..(n + 1) /\ n + 1 \in 1..(n + 1)
        BY <1>0
      <4> QED BY <2>3, <2>4, <4>1
    <3> QED BY <3>1, <3>2
  <2> QED BY <2>1, <2>3, <2>6, <2>7, <2>8 DEF Merged
<1>4. CASE m # <<>> /\ i[1] <= last[2]
  <2> DEFINE end == IF last[2] >= i[2] THEN last[2] ELSE i[2]
             both == <<last[1], end>>
             front == SubSeq(m, 1, n - 1)
             new == Append(front, both)
  <2>1. n \in 1..n /\ n - 1 \in Nat
    BY <1>0, <1>4
  <2>0. last[1] \in Int /\ last[2] \in Int /\ last[1] < last[2] /\ last[1] <= i[1]
    BY <1>0, <1>1, <2>1
  <2>2. Chairs!Max({last[2], i[2]}) = end
    BY <1>0, <2>0, MaxOfTwo
  <2>3. Chairs!Merge(i, m) = new
    BY <1>4, <2>2, SequenceOps DEF Chairs!Merge
  <2>4. both \in Chairs!Intervals
    <3>1. last \in Chairs!Intervals
      BY <1>0, <2>1
    <3>2. /\ last[1] \in 0..DayEnd /\ last[2] \in 0..DayEnd
          /\ i[1] \in 0..DayEnd /\ i[2] \in 0..DayEnd
      BY <3>1, IntervalType
    <3> HIDE DEF last
    <3>3. end \in 0..DayEnd /\ last[1] < end
      BY <1>0, <2>0, <3>2
    <3>4. both \in (0..DayEnd) \X (0..DayEnd) /\ both[1] < both[2]
      BY <3>2, <3>3
    <3> QED BY <3>4 DEF Chairs!Intervals
  <2>5. /\ front \in Seq(Chairs!Intervals) /\ Len(front) = n - 1
        /\ \A k \in 1..(n - 1) : front[k] = m[k]
    BY <1>0, <1>4, SubSeqFront
  <2> HIDE DEF front, both
  <2>6. /\ new \in Seq(Chairs!Intervals) /\ Len(new) = n /\ new[n] = both
        /\ \A k \in 1..(n - 1) : new[k] = m[k]
        /\ new # <<>>
    BY <1>0, <2>1, <2>4, <2>5
  <2>7. both[1] = last[1] /\ both[2] = end
    BY DEF both
  <2>8. \A t \in Int : Chairs!In(t, both) <=> Chairs!In(t, last) \/ Chairs!In(t, i)
    <3> HIDE DEF last
    <3> QED BY <1>0, <1>4, <2>0, <2>7 DEF Chairs!In
  <2>9. \A k \in 1..n : k \in 1..(n - 1) \/ k = n
    BY <1>0
  <2> HIDE DEF new, n
  <2>10. ASSUME NEW k \in 1..n PROVE \E j \in s \cup {i} : new[k][1] = j[1]
    <3>1. \E j \in s : m[k][1] = j[1]
      BY DEF Merged, n
    <3> QED BY <2>6, <2>7, <2>9, <3>1
  <2>11. ASSUME NEW k \in 1..n, NEW l \in 1..n, k < l PROVE new[k][2] < new[l][1]
    <3>1. k \in 1..(n - 1)
      BY <1>0, <2>11
    <3>2. m[k][2] < m[l][1]
      BY <2>11 DEF Merged, n
    <3> QED BY <2>6, <2>7, <2>9, <3>1, <3>2
  <2>12. ASSUME NEW t \in Int
         PROVE  (\E k \in 1..n : Chairs!In(t, new[k])) <=> \E j \in s \cup {i} : Chairs!In(t, j)
    <3>1. (\E k \in 1..n : Chairs!In(t, m[k])) <=> \E j \in s : Chairs!In(t, j)
      BY DEF Merged, n
    <3>2. (\E k \in 1..n : Chairs!In(t, new[k]))
              <=> (\E k \in 1..n : Chairs!In(t, m[k])) \/ Chairs!In(t, i)
      <4>1. 1..(n - 1) \subseteq 1..n
        BY <1>0
      <4> QED BY <2>1, <2>6, <2>8, <2>9, <4>1
    <3> QED BY <3>1, <3>2
  <2> QED BY <2>3, <2>6, <2>10, <2>11, <2>12 DEF Merged
<1> QED BY <1>2, <1>3, <1>4

\* The intervals that merging makes of the opening ranges: disjoint, and of the same ticks.
LEMMA MergedRanges ==
    ASSUME NEW S, S \subseteq Chairs!Intervals, IsFiniteSet(S)
    PROVE  \E m : Merged(m, S) /\ Chairs!MergeIntervals(S) = {m[k] : k \in 1..Len(m)}
<1> DEFINE c == [s \in SUBSET S |-> Chairs!LastToStart(s)]
           op == [u \in S \X Seq(Chairs!Intervals) |-> Chairs!Merge(u[1], u[2])]
           Made(g) == g = [s \in SUBSET S |->
                              IF s = {} THEN <<>>
                              ELSE LET i == Chairs!LastToStart(s) IN Chairs!Merge(i, g[s \ {i}])]
<1>1. ASSUME NEW s \in SUBSET S, s # {}
      PROVE  c[s] = Chairs!LastToStart(s) /\ c[s] \in s /\ \A j \in s : j[1] <= c[s][1]
  <2>1. \A j \in s : j[1] \in 0..DayEnd
    BY IntervalType
  <2>2. {j[1] : j \in s} \subseteq 0..DayEnd /\ {j[1] : j \in s} # {}
    BY <1>1, <2>1
  <2>3. PICK n \in {j[1] : j \in s} : \A k \in {j[1] : j \in s} : k <= n
    BY <2>2, Greatest, BoundsAssumption
  <2>4. \E i \in s : \A j \in s : j[1] <= i[1]
    BY <2>3
  <2> QED BY <2>4 DEF Chairs!LastToStart
<1>2. \A s \in SUBSET S : s # {} => c[s] \in s
  BY <1>1
<1> HIDE DEF c
<1>3. Merged(<<>>, {})
  BY DEF Merged
<1>4. ASSUME NEW g, NEW s \in SUBSET S, s # {}, Merged(g[s \ {c[s]}], s \ {c[s]})
      PROVE  Merged(Chairs!Merge(c[s], g[s \ {c[s]}]), s)
  <2>1. /\ s \ {c[s]} \subseteq Chairs!Intervals /\ c[s] \in Chairs!Intervals
        /\ \A j \in s \ {c[s]} : j[1] <= c[s][1]
        /\ (s \ {c[s]}) \cup {c[s]} = s
    BY <1>1, <1>4
  <2> HIDE DEF c
  <2>2. Merged(Chairs!Merge(c[s], g[s \ {c[s]}]), (s \ {c[s]}) \cup {c[s]})
    BY <1>4, <2>1, MergeKeeps
  <2> QED BY <2>1, <2>2
<1>5. \E g : Made(g)
  <2>1. PICK g : Folds(g, S, c, <<>>, op)
    BY <1>2, FoldExists
  <2> DEFINE P == {s \in SUBSET S : Merged(g[s], s)}
  <2>2. ASSUME NEW s \in SUBSET S, \A r \in SUBSET s : r # s => r \in P
        PROVE  /\ s \in P
               /\ g[s] = IF s = {} THEN <<>> ELSE Chairs!Merge(c[s], g[s \ {c[s]}])
    <3>1. g[s] = IF s = {} THEN <<>> ELSE op[<<c[s], g[s \ {c[s]}]>>]
      BY <2>1 DEF Folds
    <3>2. CASE s = {}
      BY <1>3, <3>1, <3>2
    <3>3. CASE s # {}
      <4>1. s \ {c[s]} \in P /\ c[s] \in S
        BY <1>2, <2>2, <3>3
      <4>2. g[s \ {c[s]}] \in Seq(Chairs!Intervals)
        BY <4>1 DEF Merged
      <4>3. g[s] = Chairs!Merge(c[s], g[s \ {c[s]}])
        BY <3>1, <3>3, <4>1, <4>2
      <4>4. Merged(Chairs!Merge(c[s], g[s \ {c[s]}]), s)
        BY <1>4, <3>3, <4>1
      <4> QED BY <3>3, <4>3, <4>4
    <3> QED BY <3>2, <3>3
  <2> HIDE DEF P
  <2>3. \A s \in SUBSET S : s \in P
    BY <2>2, SubsetInduction
  <2>4. ASSUME NEW s \in SUBSET S
        PROVE  g[s] = IF s = {} THEN <<>>
                      ELSE LET i == Chairs!LastToStart(s) IN Chairs!Merge(i, g[s \ {i}])
    <3>1. \A r \in SUBSET s : r # s => r \in P
      BY <2>3
    <3> QED BY <1>1, <2>2, <3>1
  <2>5. g = [s \in SUBSET S |-> g[s]]
    BY <2>1 DEF Folds
  <2>6. Made(g)
    BY <2>4, <2>5
  <2> QED BY <2>6
<1> DEFINE g == CHOOSE f : Made(f)
<1>6. Made(g)
  BY <1>5
<1>7. Chairs!MergeIntervals(S) = Chairs!Range(g[S])
  BY DEF Chairs!MergeIntervals, Chairs!MapThenFoldSet
<1> HIDE DEF g
<1> DEFINE P == {s \in SUBSET S : Merged(g[s], s)}
<1>8. ASSUME NEW s \in SUBSET S, \A r \in SUBSET s : r # s => r \in P
      PROVE  s \in P
  <2>1. g[s] = IF s = {} THEN <<>> ELSE Chairs!Merge(c[s], g[s \ {c[s]}])
    BY <1>1, <1>6
  <2>2. CASE s = {}
    BY <1>3, <2>1, <2>2
  <2>3. CASE s # {}
    <3>1. s \ {c[s]} \in P
      BY <1>2, <1>8, <2>3
    <3> QED BY <1>4, <2>1, <2>3, <3>1
  <2> QED BY <2>2, <2>3
<1> HIDE DEF P
<1>9. \A s \in SUBSET S : s \in P
  BY <1>8, SubsetInduction
<1> USE DEF P
<1>10. Merged(g[S], S)
  BY <1>9
<1>11. DOMAIN g[S] = 1..Len(g[S])
  BY <1>10 DEF Merged
<1>12. Chairs!Range(g[S]) = {g[S][k] : k \in 1..Len(g[S])}
  BY <1>11 DEF Chairs!Range
<1> QED BY <1>7, <1>10, <1>12

LEMMA IntervalsFinite == IsFiniteSet(Chairs!Intervals)
<1>1. IsFiniteSet(0..DayEnd)
  BY BoundsAssumption, FS_Interval
<1>2. IsFiniteSet((0..DayEnd) \X (0..DayEnd))
  BY <1>1, FS_Product
<1>3. Chairs!Intervals \subseteq (0..DayEnd) \X (0..DayEnd)
  BY DEF Chairs!Intervals
<1> QED BY <1>2, <1>3, FS_Subset

\* The merged opening hours: every open tick lies in exactly one of them.
LEMMA DayMerged ==
    ASSUME ChairsTyped
    PROVE  LET M == Chairs!MergeIntervals(Chairs!OpenRanges)
           IN  /\ M \subseteq Chairs!Intervals /\ IsFiniteSet(M)
               /\ \A i, j \in M : i # j => TicksOf(i) \cap TicksOf(j) = {}
               /\ Chairs!OpenTicks = UNION {TicksOf(i) : i \in M}
<1> DEFINE S == Chairs!OpenRanges
           M == Chairs!MergeIntervals(S)
<1>1. S \subseteq Chairs!Intervals /\ IsFiniteSet(S)
  BY RangesOpen, IntervalsFinite, FS_Subset
<1>2. PICK m : Merged(m, S) /\ M = {m[k] : k \in 1..Len(m)}
  BY <1>1, MergedRanges
<1>3. \A k \in 1..Len(m) : m[k] \in Chairs!Intervals
  BY <1>2 DEF Merged
<1>4. M \subseteq Chairs!Intervals
  BY <1>2, <1>3
<1>5. IsFiniteSet(M)
  BY <1>4, IntervalsFinite, FS_Subset
<1>6. ASSUME NEW k \in 1..Len(m), NEW l \in 1..Len(m), k < l
      PROVE  TicksOf(m[k]) \cap TicksOf(m[l]) = {}
  <2>1. m[k][2] < m[l][1] /\ m[k][2] \in Int /\ m[l][1] \in Int
    BY <1>2, <1>3, <1>6, IntervalType, BoundsAssumption DEF Merged
  <2> QED BY <2>1, BoundsAssumption DEF TicksOf, Chairs!In
<1>7. ASSUME NEW i \in M, NEW j \in M, i # j
      PROVE  TicksOf(i) \cap TicksOf(j) = {}
  <2>1. PICK k \in 1..Len(m), l \in 1..Len(m) : i = m[k] /\ j = m[l]
    BY <1>2
  <2>2. Len(m) \in Nat
    BY <1>2 DEF Merged
  <2>3. k < l \/ l < k
    BY <1>7, <2>1, <2>2
  <2> QED BY <1>6, <2>1, <2>3
<1>8. \A t \in Int : (\E i \in M : Chairs!In(t, i)) <=> \E i \in S : Chairs!In(t, i)
  BY <1>2 DEF Merged
<1>9. \A t \in Int : t \in Chairs!OpenTicks <=> \E i \in M : Chairs!In(t, i)
  BY <1>8, RangesOpen
<1>10. Chairs!OpenTicks \subseteq 0..(DayEnd - 1) /\ 0..(DayEnd - 1) \subseteq Int
  BY BoundsAssumption DEF Chairs!OpenTicks
<1>11. Chairs!OpenTicks = UNION {TicksOf(i) : i \in M}
  BY <1>9, <1>10 DEF TicksOf
<1> QED BY <1>4, <1>5, <1>7, <1>11

\* Minutes is the number of ticks of disjoint intervals.
LEMMA MinutesCounted ==
    ASSUME NEW M, M \subseteq Chairs!Intervals, IsFiniteSet(M),
           \A i, j \in M : i # j => TicksOf(i) \cap TicksOf(j) = {}
    PROVE  Chairs!Minutes(M) = Cardinality(UNION {TicksOf(i) : i \in M})
<1> DEFINE c == [s \in SUBSET M |-> CHOOSE x \in s : TRUE]
           K == [i \in M |-> TicksOf(i)]
           val(s, f) == LET x == CHOOSE x \in s : TRUE IN (x[2] - x[1]) + f[s \ {x}]
           Made(f) == f = [s \in SUBSET M |-> IF s = {} THEN 0 ELSE val(s, f)]
<1>1. \A s \in SUBSET M : s # {} => c[s] \in s /\ c[s] = CHOOSE x \in s : TRUE
  OBVIOUS
<1>2. \A i \in M : IsFiniteSet(K[i]) /\ Cardinality(K[i]) = i[2] - i[1]
  BY TicksCounted
<1>3. \A i, j \in M : i # j => K[i] \cap K[j] = {}
  OBVIOUS
<1>4. UnionOf(K, M) = UNION {TicksOf(i) : i \in M}
  BY DEF UnionOf
<1>5. \A s \in SUBSET M : \A f : val(s, f) = (c[s][2] - c[s][1]) + f[s \ {c[s]}]
  OBVIOUS
<1> DEFINE g == CHOOSE f : Made(f)
<1>6. Chairs!Minutes(M) = g[M]
  BY DEF Chairs!Minutes, Chairs!MapThenSumSet, Chairs!MapThenFoldSet
<1> HIDE DEF c, K, val, g
<1>7. ASSUME NEW h PROVE Made(h) <=> Sums(h, M, c, K)
  <2>1. ASSUME NEW s \in SUBSET M
        PROVE  (IF s = {} THEN 0 ELSE val(s, h))
                   = (IF s = {} THEN 0 ELSE Cardinality(K[c[s]]) + h[s \ {c[s]}])
    <3>1. CASE s = {}
      BY <3>1
    <3>2. CASE s # {}
      <4>1. c[s] \in M
        BY <1>1, <3>2
      <4>2. Cardinality(K[c[s]]) = c[s][2] - c[s][1]
        BY <1>2, <4>1
      <4> QED BY <1>5, <3>2, <4>2
    <3> QED BY <3>1, <3>2
  <2>2. [s \in SUBSET M |-> IF s = {} THEN 0 ELSE val(s, h)]
            = [s \in SUBSET M |-> IF s = {} THEN 0 ELSE Cardinality(K[c[s]]) + h[s \ {c[s]}]]
    BY <2>1
  <2> QED BY <2>2 DEF Sums
<1> HIDE DEF Made
<1>8. /\ \E h : Sums(h, M, c, K)
      /\ \A h : Sums(h, M, c, K) => h[M] = Cardinality(UnionOf(K, M))
  BY <1>1, <1>2, <1>3, SumOfDisjoint
<1>9. Made(g)
  BY <1>7, <1>8 DEF g
<1> QED BY <1>4, <1>6, <1>7, <1>8, <1>9

\* The open minutes a booking takes up.
LEMMA MinutesOfCounted ==
    ASSUME ChairsTyped, NEW b \in Chairs!Blocking
    PROVE  /\ IsFiniteSet(Chairs!OpenTicks \cap TicksOf(busy[b]))
           /\ Chairs!MinutesOf(b) = Cardinality(Chairs!OpenTicks \cap TicksOf(busy[b]))
<1> DEFINE M == Chairs!MergeIntervals(Chairs!OpenRanges)
           B == busy[b]
           c == [s \in SUBSET M |-> CHOOSE x \in s : TRUE]
           K == [i \in M |-> TicksOf(B) \cap TicksOf(i)]
           val(s, f) == LET x == CHOOSE x \in s : TRUE IN Chairs!Common(B, x) + f[s \ {x}]
           Made(f) == f = [s \in SUBSET M |-> IF s = {} THEN 0 ELSE val(s, f)]
<1>0. /\ M \subseteq Chairs!Intervals /\ IsFiniteSet(M)
      /\ \A i, j \in M : i # j => TicksOf(i) \cap TicksOf(j) = {}
      /\ Chairs!OpenTicks = UNION {TicksOf(i) : i \in M}
  BY DayMerged
<1>b. B \in Chairs!Intervals
  BY DEF ChairsTyped, Chairs!Blocking
<1> DEFINE g == CHOOSE f : Made(f)
<1>6. Chairs!MinutesOf(b) = g[M]
  BY DEF Chairs!MinutesOf, Chairs!MapThenSumSet, Chairs!MapThenFoldSet
<1> HIDE DEF M, B
<1>1. \A s \in SUBSET M : s # {} => c[s] \in s /\ c[s] = CHOOSE x \in s : TRUE
  OBVIOUS
<1>2. \A i \in M : IsFiniteSet(K[i]) /\ Cardinality(K[i]) = Chairs!Common(B, i)
  BY <1>0, <1>b, CommonCounted
<1>3. \A i, j \in M : i # j => K[i] \cap K[j] = {}
  BY <1>0
<1>4. UnionOf(K, M) = Chairs!OpenTicks \cap TicksOf(B)
  BY <1>0 DEF UnionOf
<1>5. \A s \in SUBSET M : \A f : val(s, f) = Chairs!Common(B, c[s]) + f[s \ {c[s]}]
  OBVIOUS
<1> HIDE DEF c, K, val, g
<1>7. ASSUME NEW h PROVE Made(h) <=> Sums(h, M, c, K)
  <2>1. ASSUME NEW s \in SUBSET M
        PROVE  (IF s = {} THEN 0 ELSE val(s, h))
                   = (IF s = {} THEN 0 ELSE Cardinality(K[c[s]]) + h[s \ {c[s]}])
    <3>1. CASE s = {}
      BY <3>1
    <3>2. CASE s # {}
      <4>1. c[s] \in M
        BY <1>1, <3>2
      <4>2. Cardinality(K[c[s]]) = Chairs!Common(B, c[s])
        BY <1>2, <4>1
      <4> QED BY <1>5, <3>2, <4>2
    <3> QED BY <3>1, <3>2
  <2>2. [s \in SUBSET M |-> IF s = {} THEN 0 ELSE val(s, h)]
            = [s \in SUBSET M |-> IF s = {} THEN 0 ELSE Cardinality(K[c[s]]) + h[s \ {c[s]}]]
    BY <2>1
  <2> QED BY <2>2 DEF Sums
<1> HIDE DEF Made
<1>8. /\ IsFiniteSet(UnionOf(K, M))
      /\ \E h : Sums(h, M, c, K)
      /\ \A h : Sums(h, M, c, K) => h[M] = Cardinality(UnionOf(K, M))
  BY <1>0, <1>1, <1>2, <1>3, SumOfDisjoint
<1>9. Made(g)
  BY <1>7, <1>8 DEF g
<1>10. /\ IsFiniteSet(Chairs!OpenTicks \cap TicksOf(B))
       /\ Chairs!MinutesOf(b) = Cardinality(Chairs!OpenTicks \cap TicksOf(B))
  BY <1>4, <1>6, <1>7, <1>8, <1>9
<1> QED BY <1>10 DEF B

\* A row or a column of a table.
LEMMA PairedWith ==
    ASSUME NEW x, NEW T, IsFiniteSet(T)
    PROVE  /\ IsFiniteSet({x} \X T) /\ Cardinality({x} \X T) = Cardinality(T)
           /\ IsFiniteSet(T \X {x}) /\ Cardinality(T \X {x}) = Cardinality(T)
<1>1. IsFiniteSet({x}) /\ Cardinality({x}) = 1 /\ Cardinality(T) \in Nat
  BY FS_Singleton, FS_CardinalityType
<1>2. /\ IsFiniteSet({x} \X T) /\ Cardinality({x} \X T) = 1 * Cardinality(T)
      /\ IsFiniteSet(T \X {x}) /\ Cardinality(T \X {x}) = Cardinality(T) * 1
  BY <1>1, FS_Product
<1> QED BY <1>1, <1>2

\* Two sums of the same sizes are the same.
LEMMA SameSum ==
    ASSUME NEW S, IsFiniteSet(S), NEW J, NEW K,
           \A x \in S : IsFiniteSet(J[x]) /\ IsFiniteSet(K[x]),
           \A x, y \in S : x # y => J[x] \cap J[y] = {} /\ K[x] \cap K[y] = {},
           \A x \in S : Cardinality(J[x]) = Cardinality(K[x])
    PROVE  /\ IsFiniteSet(UnionOf(J, S)) /\ IsFiniteSet(UnionOf(K, S))
           /\ Cardinality(UnionOf(J, S)) = Cardinality(UnionOf(K, S))
<1> DEFINE c == [s \in SUBSET S |-> CHOOSE x \in s : TRUE]
<1>1. \A s \in SUBSET S : s # {} => c[s] \in s
  OBVIOUS
<1> HIDE DEF c
<1>2. PICK g : Sums(g, S, c, J)
  BY <1>1, SumOfDisjoint
<1>3. ASSUME NEW s \in SUBSET S
      PROVE  (IF s = {} THEN 0 ELSE Cardinality(J[c[s]]) + g[s \ {c[s]}])
                 = (IF s = {} THEN 0 ELSE Cardinality(K[c[s]]) + g[s \ {c[s]}])
  BY <1>1
<1>4. [s \in SUBSET S |-> IF s = {} THEN 0 ELSE Cardinality(J[c[s]]) + g[s \ {c[s]}]]
          = [s \in SUBSET S |-> IF s = {} THEN 0 ELSE Cardinality(K[c[s]]) + g[s \ {c[s]}]]
  BY <1>3
<1>5. Sums(g, S, c, K)
  BY <1>2, <1>4 DEF Sums
<1>6. /\ IsFiniteSet(UnionOf(J, S))
      /\ \A h : Sums(h, S, c, J) => h[S] = Cardinality(UnionOf(J, S))
  BY <1>1, SumOfDisjoint
<1>k. /\ \A x \in S : IsFiniteSet(K[x])
      /\ \A x, y \in S : x # y => K[x] \cap K[y] = {}
  OBVIOUS
<1>7. /\ IsFiniteSet(UnionOf(K, S))
      /\ \A h : Sums(h, S, c, K) => h[S] = Cardinality(UnionOf(K, S))
  BY <1>1, <1>k, SumOfDisjoint
<1> QED BY <1>2, <1>5, <1>6, <1>7

Taken(b) == Chairs!OpenTicks \cap TicksOf(busy[b])
Load(m) == Chairs!BusyAt(m, Bookings)

LEMMA DayFinite == IsFiniteSet(Chairs!Blocking) /\ IsFiniteSet(Chairs!OpenTicks)
<1>1. IsFiniteSet(0..(DayEnd - 1))
  BY BoundsAssumption, FS_Interval
<1>2. Chairs!OpenTicks \subseteq 0..(DayEnd - 1) /\ Chairs!Blocking \subseteq Bookings
  BY DEF Chairs!OpenTicks, Chairs!Blocking
<1> QED BY <1>1, <1>2, FS_Subset, FiniteAssumption

\* The booked minutes: every booking takes the open ticks it covers.
LEMMA BookedCounted ==
    ASSUME ChairsTyped
    PROVE  LET T == {u \in Chairs!Blocking \X Chairs!OpenTicks : u[2] \in Taken(u[1])}
           IN  IsFiniteSet(T) /\ Chairs!BookedMinutes = Cardinality(T)
<1> DEFINE M == Chairs!Blocking
           T == {u \in M \X Chairs!OpenTicks : u[2] \in Taken(u[1])}
           c == [s \in SUBSET M |-> CHOOSE x \in s : TRUE]
           K == [b \in M |-> {b} \X Taken(b)]
           val(s, f) == LET x == CHOOSE x \in s : TRUE IN Chairs!MinutesOf(x) + f[s \ {x}]
           Made(f) == f = [s \in SUBSET M |-> IF s = {} THEN 0 ELSE val(s, f)]
<1>0. \A b \in M : IsFiniteSet(Taken(b)) /\ Cardinality(Taken(b)) = Chairs!MinutesOf(b)
  BY MinutesOfCounted DEF Taken
<1> DEFINE g == CHOOSE f : Made(f)
<1>6. Chairs!BookedMinutes = g[M]
  BY DEF Chairs!BookedMinutes, Chairs!MapThenSumSet, Chairs!MapThenFoldSet
<1>f. IsFiniteSet(M)
  BY DayFinite
<1> HIDE DEF M
<1>1. \A s \in SUBSET M : s # {} => c[s] \in s /\ c[s] = CHOOSE x \in s : TRUE
  OBVIOUS
<1>2. \A b \in M : IsFiniteSet(K[b]) /\ Cardinality(K[b]) = Chairs!MinutesOf(b)
  BY <1>0, PairedWith
<1>3. \A a, b \in M : a # b => K[a] \cap K[b] = {}
  OBVIOUS
<1>4. UnionOf(K, M) = T
  BY DEF UnionOf, Taken
<1>5. \A s \in SUBSET M : \A f : val(s, f) = Chairs!MinutesOf(c[s]) + f[s \ {c[s]}]
  OBVIOUS
<1> HIDE DEF c, K, val, g, T
<1>7. ASSUME NEW h PROVE Made(h) <=> Sums(h, M, c, K)
  <2>1. ASSUME NEW s \in SUBSET M
        PROVE  (IF s = {} THEN 0 ELSE val(s, h))
                   = (IF s = {} THEN 0 ELSE Cardinality(K[c[s]]) + h[s \ {c[s]}])
    <3>1. CASE s = {}
      BY <3>1
    <3>2. CASE s # {}
      <4>1. c[s] \in M
        BY <1>1, <3>2
      <4>2. Cardinality(K[c[s]]) = Chairs!MinutesOf(c[s])
        BY <1>2, <4>1
      <4> QED BY <1>5, <3>2, <4>2
    <3> QED BY <3>1, <3>2
  <2>2. [s \in SUBSET M |-> IF s = {} THEN 0 ELSE val(s, h)]
            = [s \in SUBSET M |-> IF s = {} THEN 0 ELSE Cardinality(K[c[s]]) + h[s \ {c[s]}]]
    BY <2>1
  <2> QED BY <2>2 DEF Sums
<1> HIDE DEF Made
<1>8. /\ IsFiniteSet(UnionOf(K, M))
      /\ \E h : Sums(h, M, c, K)
      /\ \A h : Sums(h, M, c, K) => h[M] = Cardinality(UnionOf(K, M))
  BY <1>f, <1>1, <1>2, <1>3, SumOfDisjoint
<1>9. Made(g)
  BY <1>7, <1>8 DEF g
<1>10. IsFiniteSet(T) /\ Chairs!BookedMinutes = Cardinality(T)
  BY <1>4, <1>6, <1>7, <1>8, <1>9
<1> QED BY <1>10 DEF T, M

LEMMA LoadType == ChairsTyped => \A m : Load(m) \in Nat
<1>1. \A m : IsFiniteSet({b \in Bookings \cap Chairs!Blocking : Chairs!In(m, busy[b])})
  BY DayFinite, FS_Subset
<1> QED BY <1>1, ChairsCount, FS_CardinalityType DEF Load, Chairs!BusyAt

\* The free chair-time, tick by tick: the chairs above the load.
LEMMA FreeCounted ==
    ASSUME ChairsTyped
    PROVE  LET F == {u \in Chairs!OpenTicks \X (1..capacity) : u[2] > Load(u[1])}
           IN  /\ IsFiniteSet(F)
               /\ Chairs!MapThenSumSet(
                      LAMBDA m : Chairs!Max({0, capacity - Chairs!BusyAt(m, Bookings)}),
                      Chairs!OpenTicks) = Cardinality(F)
<1> DEFINE M == Chairs!OpenTicks
           F == {u \in M \X (1..capacity) : u[2] > Load(u[1])}
           n(m) == Chairs!Max({0, capacity - Chairs!BusyAt(m, Bookings)})
           c == [s \in SUBSET M |-> CHOOSE x \in s : TRUE]
           K == [m \in M |-> {m} \X ((Load(m) + 1)..capacity)]
           val(s, f) == LET x == CHOOSE x \in s : TRUE IN n(x) + f[s \ {x}]
           Made(f) == f = [s \in SUBSET M |-> IF s = {} THEN 0 ELSE val(s, f)]
           sum == Chairs!MapThenSumSet(
                      LAMBDA m : Chairs!Max({0, capacity - Chairs!BusyAt(m, Bookings)}), M)
<1>c. capacity \in Nat /\ \A m : Load(m) \in Nat
  BY LoadType DEF ChairsTyped
<1>0. ASSUME NEW m \in M
      PROVE  /\ IsFiniteSet((Load(m) + 1)..capacity)
             /\ Cardinality((Load(m) + 1)..capacity) = n(m)
  <2>1. n(m) = IF 0 >= capacity - Load(m) THEN 0 ELSE capacity - Load(m)
    BY <1>c, MaxOfTwo DEF Load
  <2>2. /\ IsFiniteSet((Load(m) + 1)..capacity)
        /\ Cardinality((Load(m) + 1)..capacity)
              = IF Load(m) + 1 > capacity THEN 0 ELSE capacity - (Load(m) + 1) + 1
    <3>1. Load(m) + 1 \in Int /\ capacity \in Int
      BY <1>c
    <3> QED BY <3>1, FS_Interval
  <2> HIDE DEF n
  <2> QED BY <1>c, <2>1, <2>2
<1> DEFINE g == CHOOSE f : Made(f)
<1>6. sum = g[M]
  BY DEF Chairs!MapThenSumSet, Chairs!MapThenFoldSet
<1>f. IsFiniteSet(M)
  BY DayFinite
<1> HIDE DEF M, n, sum
<1>1. \A s \in SUBSET M : s # {} => c[s] \in s /\ c[s] = CHOOSE x \in s : TRUE
  OBVIOUS
<1>2. \A m \in M : IsFiniteSet(K[m]) /\ Cardinality(K[m]) = n(m)
  BY <1>0, PairedWith
<1>3. \A a, b \in M : a # b => K[a] \cap K[b] = {}
  OBVIOUS
<1>4. UnionOf(K, M) = F
  <2>1. \A m, k : k \in (Load(m) + 1)..capacity <=> k \in 1..capacity /\ k > Load(m)
    BY <1>c
  <2> QED BY <2>1 DEF UnionOf
<1>5. \A s \in SUBSET M : \A f : val(s, f) = n(c[s]) + f[s \ {c[s]}]
  OBVIOUS
<1> HIDE DEF c, K, val, g, F
<1>7. ASSUME NEW h PROVE Made(h) <=> Sums(h, M, c, K)
  <2>1. ASSUME NEW s \in SUBSET M
        PROVE  (IF s = {} THEN 0 ELSE val(s, h))
                   = (IF s = {} THEN 0 ELSE Cardinality(K[c[s]]) + h[s \ {c[s]}])
    <3>1. CASE s = {}
      BY <3>1
    <3>2. CASE s # {}
      <4>1. c[s] \in M
        BY <1>1, <3>2
      <4>2. Cardinality(K[c[s]]) = n(c[s])
        BY <1>2, <4>1
      <4> QED BY <1>5, <3>2, <4>2
    <3> QED BY <3>1, <3>2
  <2>2. [s \in SUBSET M |-> IF s = {} THEN 0 ELSE val(s, h)]
            = [s \in SUBSET M |-> IF s = {} THEN 0 ELSE Cardinality(K[c[s]]) + h[s \ {c[s]}]]
    BY <2>1
  <2> QED BY <2>2 DEF Sums
<1> HIDE DEF Made
<1>8. /\ IsFiniteSet(UnionOf(K, M))
      /\ \E h : Sums(h, M, c, K)
      /\ \A h : Sums(h, M, c, K) => h[M] = Cardinality(UnionOf(K, M))
  BY <1>f, <1>1, <1>2, <1>3, SumOfDisjoint
<1>9. Made(g)
  BY <1>7, <1>8 DEF g
<1>10. IsFiniteSet(F) /\ sum = Cardinality(F)
  BY <1>4, <1>6, <1>7, <1>8, <1>9
<1> QED BY <1>10 DEF F, M, sum

\* The table of bookings and open ticks, counted by columns.
LEMMA LoadCounted ==
    ASSUME ChairsTyped
    PROVE  LET T == {u \in Chairs!Blocking \X Chairs!OpenTicks : u[2] \in Taken(u[1])}
               B == {u \in Chairs!OpenTicks \X Nat : u[2] \in 1..Load(u[1])}
           IN  IsFiniteSet(B) /\ Cardinality(T) = Cardinality(B)
<1> DEFINE M == Chairs!OpenTicks
           T == {u \in Chairs!Blocking \X M : u[2] \in Taken(u[1])}
           B == {u \in M \X Nat : u[2] \in 1..Load(u[1])}
           at(m) == {b \in Bookings \cap Chairs!Blocking : Chairs!In(m, busy[b])}
           J == [m \in M |-> at(m) \X {m}]
           K == [m \in M |-> {m} \X (1..Load(m))]
<1>1. \A m \in M : Load(m) = Cardinality(at(m)) /\ IsFiniteSet(at(m))
  BY ChairsCount, DayFinite, FS_Subset DEF Load, Chairs!BusyAt
<1>2. \A m \in M : IsFiniteSet(1..Load(m)) /\ Cardinality(1..Load(m)) = Load(m)
  <2> SUFFICES ASSUME NEW m \in M
               PROVE  IsFiniteSet(1..Load(m)) /\ Cardinality(1..Load(m)) = Load(m)
    OBVIOUS
  <2>1. Load(m) \in Nat /\ Load(m) \in Int
    BY LoadType
  <2>2. Cardinality(1..Load(m)) = IF 1 > Load(m) THEN 0 ELSE Load(m) - 1 + 1
    BY <2>1, FS_Interval
  <2>3. IsFiniteSet(1..Load(m))
    BY <2>1, FS_Interval
  <2> QED BY <2>1, <2>2, <2>3
<1>3. UnionOf(J, M) = T
  <2>1. \A m \in M : \A b : b \in at(m) <=> b \in Chairs!Blocking /\ m \in Taken(b)
    BY BoundsAssumption DEF Taken, TicksOf, Chairs!Blocking, Chairs!OpenTicks
  <2> HIDE DEF at, M
  <2> QED BY <2>1 DEF UnionOf
<1>4. UnionOf(K, M) = B
  BY DEF UnionOf
<1>5. IsFiniteSet(M)
  BY DayFinite
<1> HIDE DEF M, at, T, B
<1>6. \A m \in M : /\ IsFiniteSet(J[m]) /\ IsFiniteSet(K[m])
                   /\ Cardinality(J[m]) = Cardinality(K[m])
  <2> SUFFICES ASSUME NEW m \in M
               PROVE  /\ IsFiniteSet(J[m]) /\ IsFiniteSet(K[m])
                      /\ Cardinality(J[m]) = Cardinality(K[m])
    OBVIOUS
  <2>1. IsFiniteSet(at(m) \X {m}) /\ Cardinality(at(m) \X {m}) = Load(m)
    BY <1>1, PairedWith
  <2>2. IsFiniteSet({m} \X (1..Load(m))) /\ Cardinality({m} \X (1..Load(m))) = Load(m)
    BY <1>2, PairedWith
  <2> QED BY <2>1, <2>2
<1>7. \A l, m \in M : l # m => J[l] \cap J[m] = {} /\ K[l] \cap K[m] = {}
  OBVIOUS
<1> HIDE DEF J, K
<1>8. /\ IsFiniteSet(UnionOf(K, M))
      /\ Cardinality(UnionOf(J, M)) = Cardinality(UnionOf(K, M))
  BY <1>5, <1>6, <1>7, SameSum
<1>9. IsFiniteSet(B) /\ Cardinality(T) = Cardinality(B)
  BY <1>3, <1>4, <1>8
<1> QED BY <1>9 DEF B, T, M

LEMMA FreeTime == ChairsTyped => FreeTimeExact
<1> SUFFICES ASSUME ChairsTyped PROVE FreeTimeExact
  OBVIOUS
<1> DEFINE O == Chairs!OpenTicks
           T == {u \in Chairs!Blocking \X O : u[2] \in Taken(u[1])}
           B == {u \in O \X Nat : u[2] \in 1..Load(u[1])}
           F == {u \in O \X (1..capacity) : u[2] > Load(u[1])}
           G == O \X (1..capacity)
           free == Chairs!MapThenSumSet(
                       LAMBDA m : Chairs!Max({0, capacity - Chairs!BusyAt(m, Bookings)}),
                       Chairs!OpenTicks)
<1>1. capacity \in Nat /\ \A m : Load(m) \in Nat
  BY LoadType DEF ChairsTyped
<1>2. Chairs!OpenMinutes = Cardinality(O)
  BY DayMerged, MinutesCounted DEF Chairs!OpenMinutes
<1>3. IsFiniteSet(T) /\ Chairs!BookedMinutes = Cardinality(T)
  BY BookedCounted
<1>4. IsFiniteSet(B) /\ Cardinality(T) = Cardinality(B)
  BY LoadCounted
<1>5. IsFiniteSet(F) /\ free = Cardinality(F)
  BY FreeCounted
<1>6. IsFiniteSet(G) /\ Cardinality(G) = Cardinality(O) * capacity
  <2>1. IsFiniteSet(1..capacity) /\ Cardinality(1..capacity) = capacity
    <3>1. capacity \in Int
      BY <1>1
    <3>2. /\ IsFiniteSet(1..capacity)
          /\ Cardinality(1..capacity) = IF 1 > capacity THEN 0 ELSE capacity - 1 + 1
      BY <3>1, FS_Interval
    <3> QED BY <1>1, <3>2
  <2> QED BY <2>1, DayFinite, FS_Product
<1>7. G \subseteq B \cup F
  BY <1>1
<1>8. B \cap F = {}
  BY <1>1
<1>9. ASSUME ~Chairs!Overbooked PROVE G = B \cup F
  <2>1. \A m \in O : Load(m) <= capacity
    BY <1>1, <1>9 DEF Chairs!Overbooked, Load
  <2> QED BY <1>1, <1>7, <2>1
<1>10. /\ Chairs!FreeMinutes <= free
       /\ ~Chairs!Overbooked => Chairs!FreeMinutes = free
       => FreeTimeExact
  BY DEF FreeTimeExact, Chairs!FreeTimeExact
<1> HIDE DEF O, T, B, F, G, free
<1>11. /\ IsFiniteSet(B \cup F)
       /\ Cardinality(B \cup F) = Cardinality(B) + Cardinality(F) - Cardinality(B \cap F)
  BY <1>4, <1>5, FS_Union
<1>12. /\ Cardinality(B) \in Nat /\ Cardinality(F) \in Nat /\ Cardinality(G) \in Nat
       /\ Cardinality(B \cap F) = 0
  BY <1>4, <1>5, <1>6, <1>8, FS_CardinalityType, FS_EmptySet
<1>13. Cardinality(G) <= Cardinality(B) + Cardinality(F)
  <2>1. Cardinality(G) <= Cardinality(B \cup F)
    BY <1>7, <1>11, FS_Subset
  <2> QED BY <1>11, <1>12, <2>1
<1>14. ~Chairs!Overbooked => Cardinality(G) = Cardinality(B) + Cardinality(F)
  <2>1. ASSUME ~Chairs!Overbooked
        PROVE  Cardinality(G) = Cardinality(B \cup F)
    BY <1>9, <2>1
  <2> QED BY <1>11, <1>12, <2>1
<1>15. Chairs!FreeMinutes = Chairs!Max({0, Cardinality(G) - Cardinality(B)})
  BY <1>2, <1>3, <1>4, <1>6 DEF Chairs!FreeMinutes
<1>16. Chairs!FreeMinutes = IF 0 >= Cardinality(G) - Cardinality(B)
                            THEN 0 ELSE Cardinality(G) - Cardinality(B)
  <2>1. Cardinality(G) - Cardinality(B) \in Int
    BY <1>12
  <2> QED BY <1>15, <2>1, MaxOfTwo
<1>17. /\ Chairs!FreeMinutes <= free
       /\ ~Chairs!Overbooked => Chairs!FreeMinutes = free
  BY <1>5, <1>12, <1>13, <1>14, <1>16
<1> QED BY <1>10, <1>17

\* The chair-time shown to the owner is the chair-time that is free, counted tick by tick.
THEOREM FreeTimeRight == OfficeSpec => []FreeTimeExact
<1>1. OfficeInit => ChairsTyped
  BY ChairsInit DEF OfficeInit
<1>2. ChairsTyped /\ [OfficeNext]_OfficeVars => ChairsTyped'
  BY ChairsStep DEF OfficeNext, OfficeVars, chairsVars
<1> QED BY <1>1, <1>2, FreeTime, PTL DEF OfficeSpec

-----------------------------------------------------------------------------
(* Reminders.                                                               *)

\* What a run holds: the bookings it has yet to claim, when it read them, the one in hand.
RunOf == [pc : Reminding!Steps, due : SUBSET Qualifying, read : [Qualifying -> Reminding!Times],
          at : Qualifying \cup {None}]

LEMMA RunTyped ==
    ASSUME Reminding!TypeOK, NEW r \in Runs
    PROVE  /\ reminding[r] \in RunOf /\ reminding[r].pc \in Reminding!Steps
           /\ reminding[r].due \subseteq Qualifying /\ reminding[r].at \in Qualifying \cup {None}
           /\ reminding[r].read \in [Qualifying -> Reminding!Times]
BY DEF Reminding!TypeOK, RunOf

\* The SMS of a run for the booking in hand.
Telling(r, b, answered) == [run |-> r, time |-> reminding[r].read[b], answered |-> answered]

LEMMA TimesTyped ==
    ASSUME Reminding!TypeOK, NEW r \in Runs, NEW b \in Qualifying
    PROVE  /\ time[b] \in Reminding!Times /\ reminding[r].read[b] \in Reminding!Times
           /\ Reminding!Times \subseteq Nat
BY RunTyped, BoundsAssumption DEF Reminding!TypeOK, Reminding!Times

LEMMA GotoStep ==
    ASSUME Reminding!TypeOK, NEW r \in Runs, NEW pc \in Reminding!Steps, Reminding!Goto(r, pc)
    PROVE  /\ reminding' \in [Runs -> RunOf]
           /\ \A q \in Runs \ {r} : reminding'[q] = reminding[q]
           /\ reminding'[r].pc = pc /\ reminding'[r].due = reminding[r].due
           /\ reminding'[r].read = reminding[r].read /\ reminding'[r].at = reminding[r].at
<1>1. reminding[r] \in RunOf /\ reminding \in [Runs -> RunOf]
  BY RunTyped DEF Reminding!TypeOK, RunOf
<1>2. reminding' = [reminding EXCEPT ![r] = [reminding[r] EXCEPT !.pc = pc]]
  BY DEF Reminding!Goto
<1>3. [reminding[r] EXCEPT !.pc = pc] \in RunOf
  BY <1>1 DEF RunOf
<1> QED BY <1>1, <1>2, <1>3 DEF RunOf

LEMMA MarksExplained ==
    ASSUME Reminding!TypeOK',
           \A q \in Runs, a \in Qualifying : remindedAt'[a] = q => Reminding!Explained(q, a)'
    PROVE  Reminding!MarkedMeansTold'
<1>1. \A a \in Qualifying : remindedAt'[a] # None => remindedAt'[a] \in Runs
  BY DEF Reminding!TypeOK
<1>2. (\A q \in Runs, a \in Qualifying : remindedAt[a] = q => Reminding!Explained(q, a))'
  OBVIOUS
<1> QED BY <1>1, <1>2 DEF Reminding!MarkedMeansTold, Reminding!Explained, Reminding!Holds

LEMMA RemindersInit ==
    ASSUME Reminding!Init
    PROVE  Reminding!IInv
<1>1. 0 \in Reminding!Times
  BY BoundsAssumption DEF Reminding!Times
<1>2. Reminding!TypeOK
  BY <1>1 DEF Reminding!Init, Reminding!TypeOK, Reminding!Steps
<1>3. \A r \in Runs, b \in Qualifying : ~Reminding!Holds(r, b)
  BY DEF Reminding!Init, Reminding!Holds
<1>4. Reminding!ReadBefore
  BY DEF Reminding!Init, Reminding!ReadBefore
<1>5. Reminding!ClaimedOnce /\ Reminding!MarkStands /\ Reminding!MarkedMeansTold
  BY <1>3, NullAssumption
     DEF Reminding!Init, Reminding!ClaimedOnce, Reminding!MarkStands, Reminding!MarkedMeansTold
<1> QED BY <1>2, <1>4, <1>5 DEF Reminding!IInv

LEMMA FindKeeps ==
    ASSUME Reminding!IInv, NEW r \in Runs, Reminding!Find(r)
    PROVE  Reminding!IInv'
<1>1. /\ Reminding!TypeOK /\ Reminding!ReadBefore /\ Reminding!ClaimedOnce
      /\ Reminding!MarkStands /\ Reminding!MarkedMeansTold
  BY DEF Reminding!IInv
<1>2. PICK due1 \in SUBSET {b \in Qualifying : confirmed[b] /\ remindedAt[b] = None /\ approved} :
          reminding' = [reminding EXCEPT ![r] = [pc |-> "loop", due |-> due1, read |-> time, at |-> None]]
  BY DEF Reminding!Find
<1>3. /\ reminding[r].pc = "new"
      /\ UNCHANGED <<confirmed, time, remindedAt, approved, told, gaveUp>>
  BY DEF Reminding!Find, Reminding!bookings
<1>4. [pc |-> "loop", due |-> due1, read |-> time, at |-> None] \in RunOf
  BY <1>1 DEF RunOf, Reminding!Steps, Reminding!TypeOK
<1>5. /\ reminding' \in [Runs -> RunOf]
      /\ \A q \in Runs \ {r} : reminding'[q] = reminding[q]
      /\ reminding'[r].pc = "loop" /\ reminding'[r].due = due1
      /\ reminding'[r].read = time /\ reminding'[r].at = None
  BY <1>1, <1>2, <1>4 DEF Reminding!TypeOK, RunOf
<1>6. Reminding!TypeOK'
  BY <1>1, <1>3, <1>5 DEF Reminding!TypeOK, RunOf
<1>7. Reminding!ReadBefore'
  BY <1>1, <1>3, <1>5, TimesTyped DEF Reminding!ReadBefore
<1>8. \A q \in Runs, b \in Qualifying :
          /\ q # r => (Reminding!Holds(q, b)' <=> Reminding!Holds(q, b))
          /\ ~Reminding!Holds(r, b)' /\ ~Reminding!Holds(r, b)
  BY <1>3, <1>5 DEF Reminding!Holds
<1>9. Reminding!ClaimedOnce'
  BY <1>1, <1>3, <1>5, <1>8 DEF Reminding!ClaimedOnce
<1>10. Reminding!MarkStands'
  BY <1>1, <1>3, <1>5, <1>8 DEF Reminding!MarkStands, Reminding!Settled
<1>11. Reminding!MarkedMeansTold'
  <2>1. \A b \in Qualifying : remindedAt[b] # r
    BY <1>1, <1>3 DEF Reminding!ClaimedOnce
  <2>2. ASSUME NEW q \in Runs, NEW a \in Qualifying, remindedAt'[a] = q
        PROVE  Reminding!Explained(q, a)'
    <3>1. q # r /\ remindedAt[a] = q /\ Reminding!Explained(q, a)
      BY <1>1, <1>3, <2>1, <2>2, NullAssumption DEF Reminding!MarkedMeansTold
    <3> QED BY <1>3, <1>5, <1>8, <3>1 DEF Reminding!Explained, Reminding!Settled
  <2> QED BY <1>6, <2>2, MarksExplained
<1> QED BY <1>6, <1>7, <1>9, <1>10, <1>11 DEF Reminding!IInv

LEMMA ClaimKeeps ==
    ASSUME Reminding!IInv, NEW r \in Runs, NEW b \in Qualifying, Reminding!Claim(r, b)
    PROVE  Reminding!IInv'
<1>1. /\ Reminding!TypeOK /\ Reminding!ReadBefore /\ Reminding!ClaimedOnce
      /\ Reminding!MarkStands /\ Reminding!MarkedMeansTold
  BY DEF Reminding!IInv
<1>2. /\ reminding[r].pc = "loop" /\ b \in reminding[r].due
      /\ UNCHANGED <<confirmed, time, approved, told, gaveUp>>
  BY DEF Reminding!Claim
<1>3. reminding[r] \in RunOf /\ reminding \in [Runs -> RunOf]
  BY <1>1, RunTyped DEF Reminding!TypeOK, RunOf
<1>4. CASE remindedAt[b] = None
  <2> DEFINE t == [reminding[r] EXCEPT !.due = @ \ {b}, !.pc = "claimed", !.at = b]
  <2>1. /\ reminding' = [reminding EXCEPT ![r].due = @ \ {b}, ![r].pc = "claimed", ![r].at = b]
        /\ remindedAt' = [remindedAt EXCEPT ![b] = r]
    BY <1>4 DEF Reminding!Claim
  <2>2. /\ reminding' \in [Runs -> RunOf]
        /\ \A q \in Runs \ {r} : reminding'[q] = reminding[q]
        /\ reminding'[r].pc = "claimed" /\ reminding'[r].due = reminding[r].due \ {b}
        /\ reminding'[r].read = reminding[r].read /\ reminding'[r].at = b
    BY <1>3, <2>1 DEF RunOf, Reminding!Steps
  <2>3. /\ remindedAt' \in [Qualifying -> Runs \cup {None}]
        /\ remindedAt'[b] = r /\ \A a \in Qualifying \ {b} : remindedAt'[a] = remindedAt[a]
    BY <1>1, <2>1 DEF Reminding!TypeOK
  <2>4. Reminding!TypeOK'
    BY <1>1, <1>2, <2>2, <2>3 DEF Reminding!TypeOK, RunOf
  <2>5. Reminding!ReadBefore'
    BY <1>1, <1>2, <2>2 DEF Reminding!ReadBefore
  <2>6. /\ \A q \in Runs \ {r}, a \in Qualifying : Reminding!Holds(q, a)' <=> Reminding!Holds(q, a)
        /\ \A a \in Qualifying : (Reminding!Holds(r, a)' <=> a = b) /\ ~Reminding!Holds(r, a)
    BY <1>2, <2>2 DEF Reminding!Holds
  <2>7. Reminding!ClaimedOnce'
    BY <1>1, <1>2, <2>2, <2>3, <2>6 DEF Reminding!ClaimedOnce
  <2>8. Reminding!MarkStands'
    <3>1. \A u \in told[b] : u.run \in Runs
      BY <1>1 DEF Reminding!TypeOK, Reminding!Tellings
    <3>2. \A u \in told[b] : ~Reminding!Settled(b, u)
      BY <1>1, <1>4, <3>1, NullAssumption DEF Reminding!MarkStands
    <3>3. ASSUME NEW q \in Runs, NEW a \in Qualifying
          PROVE  /\ Reminding!Holds(q, a)' /\ reminding'[q].read[a] = time'[a] => remindedAt'[a] = q
                 /\ \A u \in told'[a] : Reminding!Settled(a, u) => remindedAt'[a] = u.run
                 /\ \A u \in told'[a] : u.time <= time'[a]
      BY <1>1, <1>2, <1>4, <2>2, <2>3, <2>6, <3>2, NullAssumption DEF Reminding!MarkStands
    <3> QED BY <1>2, <3>3 DEF Reminding!MarkStands, Reminding!Settled
  <2>9. Reminding!MarkedMeansTold'
    <3>1. ASSUME NEW q \in Runs, NEW a \in Qualifying, remindedAt'[a] = q
          PROVE  Reminding!Explained(q, a)'
      <4>1. CASE a = b
        BY <2>3, <2>6, <3>1, <4>1 DEF Reminding!Explained
      <4>2. CASE a # b
        <5>1. remindedAt[a] = q /\ Reminding!Explained(q, a)
          BY <1>1, <2>3, <3>1, <4>2, NullAssumption DEF Reminding!MarkedMeansTold
        <5>2. /\ reminding'[q].read = reminding[q].read
              /\ Reminding!Holds(q, a) => Reminding!Holds(q, a)'
          BY <2>2, <2>6
        <5> QED BY <1>2, <5>1, <5>2 DEF Reminding!Explained, Reminding!Settled
      <4> QED BY <4>1, <4>2
    <3> QED BY <2>4, <3>1, MarksExplained
  <2> QED BY <2>4, <2>5, <2>7, <2>8, <2>9 DEF Reminding!IInv
<1>5. CASE remindedAt[b] # None
  <2>1. reminding' = [reminding EXCEPT ![r].due = @ \ {b}] /\ UNCHANGED remindedAt
    BY <1>5 DEF Reminding!Claim
  <2>2. /\ reminding' \in [Runs -> RunOf]
        /\ \A q \in Runs \ {r} : reminding'[q] = reminding[q]
        /\ reminding'[r].pc = reminding[r].pc /\ reminding'[r].due = reminding[r].due \ {b}
        /\ reminding'[r].read = reminding[r].read /\ reminding'[r].at = reminding[r].at
    BY <1>3, <2>1 DEF RunOf, Reminding!Steps
  <2>3. \A q \in Runs :
            /\ reminding'[q].pc = reminding[q].pc /\ reminding'[q].due \subseteq reminding[q].due
            /\ reminding'[q].read = reminding[q].read /\ reminding'[q].at = reminding[q].at
    BY <2>2
  <2>4. Reminding!TypeOK'
    BY <1>1, <1>2, <2>1, <2>2 DEF Reminding!TypeOK, RunOf
  <2>5. \A q \in Runs, a \in Qualifying : Reminding!Holds(q, a)' <=> Reminding!Holds(q, a)
    BY <2>3 DEF Reminding!Holds
  <2>6. Reminding!ReadBefore' /\ Reminding!ClaimedOnce' /\ Reminding!MarkStands'
    BY <1>1, <1>2, <2>1, <2>3, <2>5
       DEF Reminding!ReadBefore, Reminding!ClaimedOnce, Reminding!MarkStands, Reminding!Settled
  <2>8. Reminding!MarkedMeansTold'
    <3>1. ASSUME NEW q \in Runs, NEW a \in Qualifying, remindedAt'[a] = q
          PROVE  Reminding!Explained(q, a)'
      BY <1>1, <1>2, <2>1, <2>3, <2>5, <3>1, NullAssumption
         DEF Reminding!MarkedMeansTold, Reminding!Explained, Reminding!Settled
    <3> QED BY <2>4, <3>1, MarksExplained
  <2> QED BY <2>4, <2>6, <2>8 DEF Reminding!IInv
<1> QED BY <1>4, <1>5

\* A run that has begun goes on with what it holds, or lets go of it: what it then writes to
\* the mark, or what becomes known of it, must explain the mark.
LEMMA RunGoesOn ==
    ASSUME Reminding!IInv, NEW r \in Runs, NEW pc \in Reminding!Steps, Reminding!Goto(r, pc),
           pc # "new", UNCHANGED <<confirmed, time, approved>>, NEW answered \in BOOLEAN,
           \A a \in Qualifying : Reminding!Holds(r, a)' => Reminding!Holds(r, a),
           reminding[r].pc = "failed" =>
              pc = "failed" \/ \A a \in Qualifying : ~Reminding!Holds(r, a)',
           remindedAt' \in [Qualifying -> Runs \cup {None}],
           told' \in [Qualifying -> SUBSET Reminding!Tellings],
           gaveUp' \in [Qualifying -> SUBSET Runs],
           \A a \in Qualifying : told[a] \subseteq told'[a] /\ gaveUp[a] \subseteq gaveUp'[a],
           \A a \in Qualifying : remindedAt'[a] # remindedAt[a] =>
              /\ remindedAt[a] = r /\ remindedAt'[a] = None
              /\ Reminding!Holds(r, a) /\ ~Reminding!Holds(r, a)',
           \A a \in Qualifying : told'[a] # told[a] =>
              /\ Reminding!Holds(r, a) /\ remindedAt'[a] = remindedAt[a]
              /\ told'[a] = told[a] \cup {Telling(r, a, answered)}
              /\ Reminding!Holds(r, a)' => pc = "failed" /\ ~answered,
           \A a \in Qualifying :
              remindedAt'[a] = r /\ Reminding!Holds(r, a) /\ ~Reminding!Holds(r, a)' =>
                 Reminding!Explained(r, a)'
    PROVE  Reminding!IInv'
<1>1. /\ Reminding!TypeOK /\ Reminding!ReadBefore /\ Reminding!ClaimedOnce
      /\ Reminding!MarkStands /\ Reminding!MarkedMeansTold
  BY DEF Reminding!IInv
<1>2. /\ reminding' \in [Runs -> RunOf]
      /\ \A q \in Runs \ {r} : reminding'[q] = reminding[q]
      /\ reminding'[r].pc = pc
      /\ \A q \in Runs : reminding'[q].due = reminding[q].due /\ reminding'[q].read = reminding[q].read
  BY <1>1, GotoStep
<1>3. \A q \in Runs \ {r}, a \in Qualifying : Reminding!Holds(q, a)' <=> Reminding!Holds(q, a)
  BY <1>2 DEF Reminding!Holds
<1>4. Reminding!TypeOK'
  BY <1>1, <1>2 DEF Reminding!TypeOK, RunOf
<1>5. Reminding!ReadBefore'
  BY <1>1, <1>2 DEF Reminding!ReadBefore
<1>a. \A a \in Qualifying : \A t \in told'[a] \ told[a] :
          /\ Reminding!Holds(r, a) /\ remindedAt'[a] = remindedAt[a]
          /\ t.run = r /\ t.time = reminding[r].read[a] /\ t.answered = answered
          /\ Reminding!Holds(r, a)' => pc = "failed" /\ ~answered
  BY DEF Telling
<1>6. Reminding!ClaimedOnce'
  <2> SUFFICES ASSUME NEW q \in Runs, NEW a \in Qualifying
               PROVE  /\ reminding'[q].pc = "new" => a \notin reminding'[q].due /\ remindedAt'[a] # q
                      /\ a \in reminding'[q].due => ~Reminding!Holds(q, a)'
                      /\ reminding'[q].pc = "new" \/ a \in reminding'[q].due
                            \/ (Reminding!Holds(q, a)' /\ reminding'[q].pc # "failed")
                            => \A t \in told'[a] : t.run # q
                      /\ Reminding!Holds(q, a)' => \A t \in told'[a] : t.run = q => ~t.answered
    BY DEF Reminding!ClaimedOnce
  <2>1. CASE q = r
    <3>1. a \in reminding'[q].due => ~Reminding!Holds(q, a)
      BY <1>1, <1>2 DEF Reminding!ClaimedOnce
    <3>2. a \in reminding'[q].due \/ (Reminding!Holds(q, a)' /\ pc # "failed")
             => \A t \in told'[a] : t.run # q
      BY <1>1, <1>2, <1>a, <2>1, <3>1 DEF Reminding!ClaimedOnce
    <3>3. Reminding!Holds(q, a)' => \A t \in told'[a] : t.run = q => ~t.answered
      BY <1>1, <1>a, <2>1 DEF Reminding!ClaimedOnce
    <3> QED BY <1>2, <2>1, <3>1, <3>2, <3>3
  <2>2. CASE q # r
    <3>1. \A t \in told'[a] : t.run = q => t \in told[a]
      BY <1>a, <2>2
    <3>2. reminding[q].pc = "new" => remindedAt'[a] # q
      BY <1>1, <2>2, NullAssumption DEF Reminding!ClaimedOnce
    <3> QED BY <1>1, <1>2, <1>3, <2>2, <3>1, <3>2 DEF Reminding!ClaimedOnce
  <2> QED BY <2>1, <2>2
<1>7. Reminding!MarkStands'
  <2> SUFFICES ASSUME NEW q \in Runs, NEW a \in Qualifying
               PROVE  /\ Reminding!Holds(q, a)' /\ reminding'[q].read[a] = time'[a] => remindedAt'[a] = q
                      /\ \A t \in told'[a] : t.answered /\ t.time = time'[a] => remindedAt'[a] = t.run
                      /\ \A t \in told'[a] : t.time <= time'[a]
    BY DEF Reminding!MarkStands, Reminding!Settled
  <2>1. ASSUME Reminding!Holds(q, a)', reminding'[q].read[a] = time'[a]
        PROVE  remindedAt'[a] = q
    <3>1. remindedAt[a] = q
      BY <1>1, <1>2, <1>3, <2>1 DEF Reminding!MarkStands
    <3> QED BY <2>1, <3>1
  <2>2. ASSUME NEW t \in told[a], t.answered, t.time = time'[a]
        PROVE  remindedAt'[a] = t.run
    <3>1. remindedAt[a] = t.run
      BY <1>1, <2>2 DEF Reminding!MarkStands, Reminding!Settled
    <3>2. remindedAt'[a] # remindedAt[a] => t.run # r
      BY <1>1, <2>2 DEF Reminding!ClaimedOnce
    <3> QED BY <3>1, <3>2
  <2>3. ASSUME NEW t \in told'[a] \ told[a], t.time = time'[a]
        PROVE  remindedAt'[a] = t.run
    BY <1>1, <1>a, <2>3 DEF Reminding!MarkStands
  <2>4. \A t \in told'[a] : t.time <= time'[a]
    BY <1>1, <1>a DEF Reminding!MarkStands, Reminding!ReadBefore
  <2> QED BY <2>1, <2>2, <2>3, <2>4
<1>8. ASSUME NEW q \in Runs, NEW a \in Qualifying, remindedAt'[a] = q
      PROVE  Reminding!Explained(q, a)'
  <2>1. remindedAt[a] = q /\ Reminding!Explained(q, a)
    BY <1>1, <1>8, NullAssumption DEF Reminding!MarkedMeansTold
  <2>2. CASE q = r /\ Reminding!Holds(r, a) /\ ~Reminding!Holds(r, a)'
    BY <1>8, <2>2
  <2>3. CASE Reminding!Holds(q, a) => Reminding!Holds(q, a)'
    BY <1>2, <2>1, <2>3 DEF Reminding!Explained, Reminding!Settled
  <2> QED BY <1>3, <2>2, <2>3
<1>9. Reminding!MarkedMeansTold'
  BY <1>4, <1>8, MarksExplained
<1> QED BY <1>4, <1>5, <1>6, <1>7, <1>9 DEF Reminding!IInv

LEMMA CheckSalonKeeps ==
    ASSUME Reminding!IInv, NEW r \in Runs, Reminding!CheckSalon(r)
    PROVE  Reminding!IInv'
<1>1. Reminding!TypeOK
  BY DEF Reminding!IInv
<1>2. PICK pc \in {"sending", "failed"} : Reminding!Goto(r, pc)
  BY DEF Reminding!CheckSalon
<1>3. /\ pc \in Reminding!Steps /\ reminding[r].pc = "claimed"
      /\ UNCHANGED <<confirmed, time, remindedAt, approved, told, gaveUp>>
  BY <1>2 DEF Reminding!CheckSalon, Reminding!bookings, Reminding!Steps
<1>4. \A a \in Qualifying : Reminding!Holds(r, a)' <=> Reminding!Holds(r, a)
  BY <1>1, <1>2, <1>3, GotoStep DEF Reminding!Holds
<1> QED BY <1>1, <1>2, <1>3, <1>4, RunGoesOn DEF Reminding!TypeOK

\* What follows when a run lets go of the booking in hand.
LEMMA LetsGo ==
    ASSUME Reminding!TypeOK, NEW r \in Runs, NEW pc \in {"loop", "over"}, Reminding!Goto(r, pc)
    PROVE  /\ pc \in Reminding!Steps
           /\ \A a \in Qualifying : ~Reminding!Holds(r, a)'
BY GotoStep DEF Reminding!Holds, Reminding!Steps

LEMMA LookupFailsKeeps ==
    ASSUME Reminding!IInv, NEW r \in Runs, Reminding!LookupFails(r)
    PROVE  Reminding!IInv'
<1>1. Reminding!TypeOK
  BY DEF Reminding!IInv
<1>2. /\ reminding[r].pc \in {"claimed", "sending", "failed"} /\ Reminding!Goto(r, "loop")
      /\ gaveUp' = [gaveUp EXCEPT ![reminding[r].at] = @ \cup {r}]
      /\ UNCHANGED <<confirmed, time, remindedAt, approved, told>>
  BY DEF Reminding!LookupFails, Reminding!bookings
<1>3. /\ gaveUp' \in [Qualifying -> SUBSET Runs]
      /\ \A a \in Qualifying : gaveUp[a] \subseteq gaveUp'[a]
      /\ \A a \in Qualifying : reminding[r].at = a => r \in gaveUp'[a]
  BY <1>1, <1>2 DEF Reminding!TypeOK
<1>4. \A a \in Qualifying : Reminding!Holds(r, a) => Reminding!Explained(r, a)'
  BY <1>3 DEF Reminding!Holds, Reminding!Explained
<1> QED BY <1>1, <1>2, <1>3, <1>4, LetsGo, RunGoesOn DEF Reminding!TypeOK

\* What the gateway delivers for a run is for the booking in hand, and if the run then lets
\* go of it, explains the mark.
LEMMA Delivered ==
    ASSUME Reminding!TypeOK, NEW r \in Runs, NEW answered \in BOOLEAN,
           reminding[r].pc = "sending", Reminding!Deliver(r, answered)
    PROVE  /\ told' \in [Qualifying -> SUBSET Reminding!Tellings]
           /\ \A a \in Qualifying : told[a] \subseteq told'[a]
           /\ \A a \in Qualifying : Reminding!Holds(r, a) =>
                 told'[a] = told[a] \cup {Telling(r, a, answered)}
           /\ \A a \in Qualifying : told'[a] # told[a] => Reminding!Holds(r, a)
<1>1. \A a \in Qualifying : Telling(r, a, answered) \in Reminding!Tellings
  BY TimesTyped DEF Telling, Reminding!Tellings
<1>2. \A a \in Qualifying : Reminding!Holds(r, a) <=> a = reminding[r].at
  BY DEF Reminding!Holds
<1>3. \A a \in Qualifying : told'[a] =
          IF a = reminding[r].at THEN told[a] \cup {Telling(r, a, answered)} ELSE told[a]
  BY DEF Reminding!TypeOK, Reminding!Deliver, Telling
<1>4. told' \in [Qualifying -> SUBSET Reminding!Tellings]
  <2>1. told' = [a \in Qualifying |-> told'[a]]
    BY DEF Reminding!TypeOK, Reminding!Deliver
  <2>2. \A a \in Qualifying : told[a] \in SUBSET Reminding!Tellings
    BY DEF Reminding!TypeOK
  <2>3. \A a \in Qualifying : told'[a] \in SUBSET Reminding!Tellings
    BY <1>1, <1>3, <2>2
  <2> QED BY <2>1, <2>3
<1> QED BY <1>2, <1>3, <1>4

LEMMA SendKeeps ==
    ASSUME Reminding!IInv, NEW r \in Runs, Reminding!Send(r)
    PROVE  Reminding!IInv'
<1>1. Reminding!TypeOK /\ Reminding!ReadBefore
  BY DEF Reminding!IInv
<1>2. reminding[r].pc = "sending" /\ UNCHANGED <<confirmed, time, remindedAt, approved, gaveUp>>
  BY DEF Reminding!Send, Reminding!bookings
<1>3. "failed" \in Reminding!Steps /\ "loop" \in Reminding!Steps
  BY DEF Reminding!Steps
<1>4. ASSUME Reminding!Deliver(r, TRUE), Reminding!Goto(r, "loop")
      PROVE  Reminding!IInv'
  <2>1. /\ told' \in [Qualifying -> SUBSET Reminding!Tellings]
        /\ \A a \in Qualifying : told[a] \subseteq told'[a]
        /\ \A a \in Qualifying : Reminding!Holds(r, a) =>
              told'[a] = told[a] \cup {Telling(r, a, TRUE)}
        /\ \A a \in Qualifying : told'[a] # told[a] => Reminding!Holds(r, a)
    BY <1>1, <1>2, <1>4, Delivered
  <2>2. reminding'[r].read = reminding[r].read /\ \A a \in Qualifying : ~Reminding!Holds(r, a)'
    BY <1>1, <1>3, <1>4, GotoStep DEF Reminding!Holds
  <2>3. ASSUME NEW a \in Qualifying, Reminding!Holds(r, a)
        PROVE  Reminding!Explained(r, a)'
    <3> DEFINE t == Telling(r, a, TRUE)
    <3>1. t \in told'[a] /\ t.run = r /\ t.answered /\ t.time = reminding[r].read[a]
      BY <2>1, <2>3 DEF Telling
    <3>2. reminding[r].read[a] <= time[a] /\ reminding[r].read[a] \in Nat /\ time[a] \in Nat
      BY <1>1, TimesTyped DEF Reminding!ReadBefore
    <3>3. CASE reminding[r].read[a] = time[a]
      BY <1>2, <3>1, <3>3 DEF Reminding!Explained, Reminding!Settled
    <3>4. CASE reminding[r].read[a] < time[a]
      BY <1>2, <2>2, <3>4 DEF Reminding!Explained
    <3> QED BY <3>2, <3>3, <3>4
  <2> QED BY <1>1, <1>2, <1>3, <1>4, <2>1, <2>2, <2>3, RunGoesOn DEF Reminding!TypeOK
<1>5. ASSUME Reminding!Goto(r, "failed"), Reminding!Deliver(r, FALSE) \/ UNCHANGED told
      PROVE  Reminding!IInv'
  <2>1. \A a \in Qualifying : Reminding!Holds(r, a)' <=> Reminding!Holds(r, a)
    BY <1>1, <1>2, <1>3, <1>5, GotoStep DEF Reminding!Holds
  <2>2. CASE Reminding!Deliver(r, FALSE)
    <3>1. /\ told' \in [Qualifying -> SUBSET Reminding!Tellings]
          /\ \A a \in Qualifying : told[a] \subseteq told'[a]
          /\ \A a \in Qualifying : Reminding!Holds(r, a) =>
                told'[a] = told[a] \cup {Telling(r, a, FALSE)}
          /\ \A a \in Qualifying : told'[a] # told[a] => Reminding!Holds(r, a)
      BY <1>1, <1>2, <2>2, Delivered
    <3> QED BY <1>1, <1>2, <1>3, <1>5, <2>1, <3>1, RunGoesOn DEF Reminding!TypeOK
  <2>3. CASE UNCHANGED told
    BY <1>1, <1>2, <1>3, <1>5, <2>1, <2>3, RunGoesOn DEF Reminding!TypeOK
  <2> QED BY <1>5, <2>2, <2>3
<1> QED BY <1>4, <1>5 DEF Reminding!Send

LEMMA ReleaseKeeps ==
    ASSUME Reminding!IInv, NEW r \in Runs, Reminding!Release(r)
    PROVE  Reminding!IInv'
<1>1. Reminding!TypeOK
  BY DEF Reminding!IInv
<1>2. /\ reminding[r].pc = "failed" /\ Reminding!Goto(r, "loop")
      /\ remindedAt' = [b \in Qualifying |->
                           IF b = reminding[r].at /\ remindedAt[b] = r THEN None ELSE remindedAt[b]]
      /\ UNCHANGED <<confirmed, time, approved, told, gaveUp>>
  BY DEF Reminding!Release
<1>3. \A a \in Qualifying : Reminding!Holds(r, a) <=> a = reminding[r].at
  BY <1>2 DEF Reminding!Holds
<1>4. /\ remindedAt' \in [Qualifying -> Runs \cup {None}]
      /\ \A a \in Qualifying : remindedAt'[a] # remindedAt[a] =>
            remindedAt[a] = r /\ remindedAt'[a] = None /\ Reminding!Holds(r, a)
      /\ \A a \in Qualifying : Reminding!Holds(r, a) => remindedAt'[a] # r
  BY <1>1, <1>2, <1>3, NullAssumption DEF Reminding!TypeOK
<1> QED BY <1>1, <1>2, <1>4, LetsGo, RunGoesOn DEF Reminding!TypeOK

LEMMA DieKeeps ==
    ASSUME Reminding!IInv, NEW r \in Runs, Reminding!Die(r)
    PROVE  Reminding!IInv'
<1>1. Reminding!TypeOK
  BY DEF Reminding!IInv
<1>2. /\ Reminding!Goto(r, "over")
      /\ gaveUp' = [b \in Qualifying |-> IF Reminding!Holds(r, b) THEN gaveUp[b] \cup {r} ELSE gaveUp[b]]
      /\ UNCHANGED <<confirmed, time, remindedAt, approved>>
      /\ UNCHANGED told \/ (reminding[r].pc = "sending" /\ Reminding!Deliver(r, FALSE))
  BY DEF Reminding!Die, Reminding!bookings
<1>3. /\ gaveUp' \in [Qualifying -> SUBSET Runs]
      /\ \A a \in Qualifying : gaveUp[a] \subseteq gaveUp'[a]
      /\ \A a \in Qualifying : Reminding!Holds(r, a) => r \in gaveUp'[a]
  BY <1>1, <1>2 DEF Reminding!TypeOK
<1>4. \A a \in Qualifying : Reminding!Holds(r, a) => Reminding!Explained(r, a)'
  BY <1>3 DEF Reminding!Explained
<1>5. CASE UNCHANGED told
  BY <1>1, <1>2, <1>3, <1>4, <1>5, LetsGo, RunGoesOn DEF Reminding!TypeOK
<1>6. CASE reminding[r].pc = "sending" /\ Reminding!Deliver(r, FALSE)
  <2>1. /\ told' \in [Qualifying -> SUBSET Reminding!Tellings]
        /\ \A a \in Qualifying : told[a] \subseteq told'[a]
        /\ \A a \in Qualifying : Reminding!Holds(r, a) =>
              told'[a] = told[a] \cup {Telling(r, a, FALSE)}
        /\ \A a \in Qualifying : told'[a] # told[a] => Reminding!Holds(r, a)
    BY <1>1, <1>6, Delivered
  <2> QED BY <1>1, <1>2, <1>3, <1>4, <2>1, LetsGo, RunGoesOn DEF Reminding!TypeOK
<1> QED BY <1>2, <1>5, <1>6

LEMMA RescheduleKeeps ==
    ASSUME Reminding!IInv, NEW b \in Qualifying, Reminding!Reschedule(b)
    PROVE  Reminding!IInv'
<1>1. /\ Reminding!TypeOK /\ Reminding!ReadBefore /\ Reminding!ClaimedOnce
      /\ Reminding!MarkStands /\ Reminding!MarkedMeansTold
  BY DEF Reminding!IInv
<1>2. /\ time[b] < MaxMoves /\ UNCHANGED <<confirmed, approved, reminding, told, gaveUp>>
      /\ time' = [time EXCEPT ![b] = @ + 1]
      /\ remindedAt' = [remindedAt EXCEPT ![b] = None]
  BY DEF Reminding!Reschedule
<1>3. /\ time' \in [Qualifying -> Reminding!Times] /\ remindedAt' \in [Qualifying -> Runs \cup {None}]
      /\ time'[b] = time[b] + 1 /\ remindedAt'[b] = None
      /\ \A a \in Qualifying \ {b} : time'[a] = time[a] /\ remindedAt'[a] = remindedAt[a]
  BY <1>1, <1>2, BoundsAssumption DEF Reminding!TypeOK, Reminding!Times
<1>4. Reminding!TypeOK'
  BY <1>1, <1>2, <1>3 DEF Reminding!TypeOK
<1>5. \A r \in Runs, a \in Qualifying : Reminding!Holds(r, a)' <=> Reminding!Holds(r, a)
  BY <1>2 DEF Reminding!Holds
<1>6. \A r \in Runs : /\ reminding[r].read[b] < time'[b]
                      /\ \A t \in told[b] : t.time < time'[b] /\ t.time \in Nat
  BY <1>1, <1>3, TimesTyped
     DEF Reminding!ReadBefore, Reminding!MarkStands, Reminding!TypeOK, Reminding!Tellings
<1>7. Reminding!ReadBefore'
  <2>1. \A r \in Runs, a \in Qualifying : reminding[r].read[a] \in Nat /\ time'[a] \in Nat
    BY <1>1, <1>4, TimesTyped DEF Reminding!TypeOK, Reminding!Times
  <2> QED BY <1>1, <1>2, <1>3, <1>6, <2>1 DEF Reminding!ReadBefore
<1>8. Reminding!ClaimedOnce'
  BY <1>1, <1>2, <1>3, <1>5, NullAssumption DEF Reminding!ClaimedOnce
<1>9. Reminding!MarkStands'
  <2> SUFFICES ASSUME NEW r \in Runs, NEW a \in Qualifying
               PROVE  /\ Reminding!Holds(r, a)' /\ reminding'[r].read[a] = time'[a] => remindedAt'[a] = r
                      /\ \A t \in told'[a] : t.answered /\ t.time = time'[a] => remindedAt'[a] = t.run
                      /\ \A t \in told'[a] : t.time <= time'[a]
    BY DEF Reminding!MarkStands, Reminding!Settled
  <2>1. CASE a # b
    BY <1>1, <1>2, <1>3, <1>5, <2>1 DEF Reminding!MarkStands, Reminding!Settled
  <2>2. CASE a = b
    <3>1. time'[b] \in Nat /\ reminding[r].read[b] \in Nat /\ Reminding!Times \subseteq Nat
      BY <1>1, <1>3, TimesTyped
    <3>2. \A t \in told'[b] : t.time < time'[b] /\ t.time \in Nat
      BY <1>2, <1>6
    <3> QED BY <1>2, <1>6, <2>2, <3>1, <3>2
  <2> QED BY <2>1, <2>2
<1>10. ASSUME NEW r \in Runs, NEW a \in Qualifying, remindedAt'[a] = r
       PROVE  Reminding!Explained(r, a)'
  BY <1>1, <1>2, <1>3, <1>5, <1>10, NullAssumption
     DEF Reminding!MarkedMeansTold, Reminding!Explained, Reminding!Settled
<1> QED BY <1>4, <1>7, <1>8, <1>9, <1>10, MarksExplained DEF Reminding!IInv

\* What does not concern the marks: a booking ends, a salon is moderated, nothing happens.
LEMMA OthersKeep ==
    ASSUME Reminding!IInv, UNCHANGED <<time, remindedAt, reminding, told, gaveUp>>,
           confirmed' \in [Qualifying -> BOOLEAN], approved' \in BOOLEAN
    PROVE  Reminding!IInv'
BY DEF Reminding!IInv, Reminding!TypeOK, Reminding!ReadBefore, Reminding!ClaimedOnce,
       Reminding!MarkStands, Reminding!MarkedMeansTold, Reminding!Explained, Reminding!Holds,
       Reminding!Settled

LEMMA RemindersStep ==
    ASSUME Reminding!IInv, [Reminding!Next]_remindersVars
    PROVE  Reminding!IInv'
<1>0. confirmed \in [Qualifying -> BOOLEAN] /\ approved \in BOOLEAN
  BY DEF Reminding!IInv, Reminding!TypeOK
<1>1. CASE UNCHANGED remindersVars
  BY <1>0, <1>1, OthersKeep DEF remindersVars
<1>2. ASSUME NEW b \in Qualifying, Reminding!End(b) PROVE Reminding!IInv'
  BY <1>0, <1>2, OthersKeep DEF Reminding!End
<1>3. CASE Reminding!Moderate
  BY <1>0, <1>3, OthersKeep DEF Reminding!Moderate
<1> QED
  BY <1>1, <1>2, <1>3, FindKeeps, ClaimKeeps, CheckSalonKeeps, LookupFailsKeeps, SendKeeps,
     ReleaseKeeps, DieKeeps, RescheduleKeeps
     DEF Reminding!Next

LEMMA RemindersInvariant == OfficeSpec => []Reminding!IInv
<1>1. OfficeInit => Reminding!IInv
  BY RemindersInit DEF OfficeInit
<1>2. Reminding!IInv /\ [OfficeNext]_OfficeVars => Reminding!IInv'
  BY RemindersStep DEF OfficeNext, OfficeVars, remindersVars
<1> QED BY <1>1, <1>2, PTL DEF OfficeSpec

\* Once a run has the answer that the customer was told the time that stands, no other run has
\* it and none is left that would tell it.
THEOREM ToldOnce == OfficeSpec => []RemindedOnce
<1>1. Reminding!IInv => RemindedOnce
  <2> SUFFICES ASSUME Reminding!IInv, NEW b \in Qualifying, NEW t \in told[b],
                      t.answered, t.time = time[b]
               PROVE  /\ \A u \in told[b] : u.answered /\ u.time = time[b] => u = t
                      /\ \A r \in Runs : Reminding!Holds(r, b) => reminding[r].read[b] < time[b]
    BY DEF RemindedOnce, Reminding!RemindedOnce, Reminding!Settled
  <2>1. /\ Reminding!TypeOK /\ Reminding!ReadBefore /\ Reminding!ClaimedOnce
        /\ Reminding!MarkStands
    BY DEF Reminding!IInv
  <2>2. told[b] \subseteq Reminding!Tellings /\ \A u \in told[b] : u.run \in Runs
    BY <2>1 DEF Reminding!TypeOK, Reminding!Tellings
  <2>3. \A u \in told[b] : u.answered /\ u.time = time[b] => remindedAt[b] = u.run
    BY <2>1, <2>2 DEF Reminding!MarkStands, Reminding!Settled
  <2>4. ASSUME NEW u \in told[b], u.answered, u.time = time[b]
        PROVE  u = t
    BY <2>2, <2>3, <2>4 DEF Reminding!Tellings
  <2>5. ASSUME NEW r \in Runs, Reminding!Holds(r, b)
        PROVE  reminding[r].read[b] < time[b]
    <3>1. reminding[r].read[b] # time[b]
      BY <2>1, <2>3, <2>5 DEF Reminding!MarkStands, Reminding!ClaimedOnce
    <3>2. reminding[r].read[b] <= time[b] /\ reminding[r].read[b] \in Nat /\ time[b] \in Nat
      BY <2>1, TimesTyped DEF Reminding!ReadBefore
    <3> QED BY <3>1, <3>2
  <2> QED BY <2>4, <2>5
<1> QED BY <1>1, RemindersInvariant, PTL

\* A mark is explained by what became of the run that set it.
THEOREM MarksTold == OfficeSpec => []MarkedMeansTold
<1>1. Reminding!IInv => MarkedMeansTold
  BY DEF Reminding!IInv, MarkedMeansTold
<1> QED BY <1>1, RemindersInvariant, PTL

=============================================================================
