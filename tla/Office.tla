--------------------------------- MODULE Office ---------------------------------
(***************************************************************************)
(* The components beside the booking, each with its own instance and        *)
(* checked on its own: a behaviour picks one of them, and the others rest   *)
(* in their initial states.  Where two of them write the same row - an      *)
(* owner's save writes the whole salon, its status, slug and averages - each *)
(* has an action of its own for the write of its columns.                   *)
(***************************************************************************)
EXTENDS Rewards

CONSTANTS
    Workers, WorkerOf, MaxStars,                    \* Reviews
    Moderated,                                      \* Standing: its salons
    Salons, Names, FirstName,                       \* Handles; the salons of Billing as well
    Transactions,                                   \* Invoices
    Subscribers, PlanNames, FirstPlan,              \* Plans
    Periods, Discounts, CappedDiscounts, DiscountCap,   \* Billing
    Runs, MaxMoves,                                 \* Reminders
    OfWorker, DayEnd, MaxChairs                     \* ChairTime

\* makeSlug gives every salon a handle of its own.
ASSUME FirstNameAssumption ==
    /\ FirstName \in [Salons -> Names]
    /\ \A r, s \in Salons : FirstName[r] = FirstName[s] => r = s
\* NULL is no row, name or time.
ASSUME NullAssumption == None \notin Salons \cup PlanNames \cup Discounts \cup Runs
ASSUME PlanAssumption == FirstPlan \in PlanNames
ASSUME DiscountAssumption ==
    /\ IsFiniteSet(Periods)
    /\ CappedDiscounts \subseteq Discounts
    /\ DiscountCap \in Nat \ {0}
ASSUME BoundsAssumption == {MaxMoves, DayEnd, MaxChairs} \subseteq Nat
ASSUME OfWorkerAssumption == OfWorker \subseteq Bookings

VARIABLES
    office,    \* the component that moves
    review, stars, rating, score, average, averageOf, reviewing,
    standing, cause, owner, deciding,
    slug, released, renaming,
    recorded, items, total, paidTotal, payments, invoice, invoicing,
    plans, default, sold, planOf, planning,
    period, salon, discount, taken, billing,
    confirmed, time, remindedAt, approved, reminding, told, gaveUp,
    hours, closed, capacity, off, busy

reviewsVars == <<review, stars, rating, score, average, averageOf, reviewing>>
standingVars == <<standing, cause, owner, deciding>>
handlesVars == <<slug, released, renaming>>
invoicesVars == <<recorded, items, total, paidTotal, payments, invoice, invoicing>>
plansVars == <<plans, default, sold, planOf, planning>>
billingVars == <<period, salon, discount, taken, billing>>
remindersVars == <<confirmed, time, remindedAt, approved, reminding, told, gaveUp>>
chairsVars == <<hours, closed, capacity, off, busy>>

Reviewing == INSTANCE Reviews WITH local <- reviewing
Moderation == INSTANCE Standing WITH
    Salons <- Moderated, status <- standing, local <- deciding
Renames == INSTANCE Handles WITH local <- renaming
Invoicing == INSTANCE Invoices WITH status <- invoice, local <- invoicing
Planning == INSTANCE Plans WITH
    Names <- PlanNames, Salons <- Subscribers, First <- FirstPlan, active <- sold, local <- planning
BillingDesk == INSTANCE Billing WITH
    Coupons <- Discounts, Capped <- CappedDiscounts, Cap <- DiscountCap,
    coupon <- discount, redemption <- taken, local <- billing
Reminding == INSTANCE Reminders WITH Bookings <- Qualifying, local <- reminding
Chairs == INSTANCE ChairTime

OfficeInit ==
    /\ office \in {"rewards", "reviews", "standing", "handles", "invoices", "plans", "billing",
                  "reminders", "chairs"}
    /\ Init
    \* A customer without a referral is as one whose referral expired before anything happened.
    /\ \A u \in Invitees : referral[u] = IF office = "rewards" THEN "awaiting" ELSE "none"
    /\ office # "rewards" => \A u \in Invitees : event[u] = "paid"   \* which then is never read
    /\ Reviewing!Init /\ Moderation!Init /\ Renames!Init
    /\ Invoicing!Init /\ Planning!Init /\ BillingDesk!Init /\ Reminding!Init /\ Chairs!Init
    /\ office # "chairs" => hours = {} /\ closed = <<"none">> /\ off = FALSE

OfficeNext ==
    /\ UNCHANGED office
    /\ IF office = "rewards" THEN Next ELSE UNCHANGED vars
    /\ IF office = "reviews" THEN Reviewing!Next ELSE UNCHANGED reviewsVars
    /\ IF office = "standing" THEN Moderation!Next ELSE UNCHANGED standingVars
    /\ IF office = "handles" THEN Renames!Next ELSE UNCHANGED handlesVars
    /\ IF office = "invoices" THEN Invoicing!Next ELSE UNCHANGED invoicesVars
    /\ IF office = "plans" THEN Planning!Next ELSE UNCHANGED plansVars
    /\ IF office = "billing" THEN BillingDesk!Next ELSE UNCHANGED billingVars
    /\ IF office = "reminders" THEN Reminding!Next ELSE UNCHANGED remindersVars
    /\ IF office = "chairs" THEN Chairs!Next ELSE UNCHANGED chairsVars

OfficeVars ==
    <<office, vars, reviewsVars, standingVars, handlesVars, invoicesVars, plansVars,
      billingVars, remindersVars, chairsVars>>
OfficeSpec == OfficeInit /\ [][OfficeNext]_OfficeVars

-----------------------------------------------------------------------------
(* The properties of the components, as their modules state them.  A        *)
(* component at rest, in its initial state, is not asked for its own.       *)

\* Reviews: the averages stay those of the published rows, but for an owner's stale save.
AveragesKept == [][office = "reviews" => Reviewing!AveragesFollow]_reviewsVars
\* Reviews: only two new reviews ever wait for each other.
OnlyNewReviewsCollide == office = "reviews" => Reviewing!OnlyNewReviewsCollide
\* Standing: an admin's suspension ends by an admin's decision, or by an edit begun before it.
SuspensionNeedsDecision == [][office = "standing" => Moderation!LiftedByDecision]_standingVars
\* Handles: a link that led to a salon keeps leading to it through every rename.
LinksKeepLeading == [][office = "handles" => Renames!LinksLeadOn]_handlesVars
\* Invoices: total and status agree with the items and payments, late commissions included.
TotalsMatchItems == office = "invoices" => Invoicing!TotalsMatchItems
\* Invoices: payments are neither lost nor counted twice nor more than is owed.
PaymentsCount == office = "invoices" => Invoicing!PaymentsCount
\* Plans: the default plan stays, unless a plan changed between its check and its write.
FallbackStays == [][office = "plans" => Planning!FallbackKept]_plansVars
\* Billing: coupons are consumed by the periods that are owed, within cap and once per salon.
DiscountsCount == office = "billing" => BillingDesk!DiscountsCount
\* Reminders: once the gateway has answered for the time that stands, nobody tells it again.
RemindedOnce == office = "reminders" => Reminding!RemindedOnce
\* Reminders: a booking marked as reminded was, but for the exceptions the module names.
MarkedMeansTold == office = "reminders" => Reminding!MarkedMeansTold
\* ChairTime: every slot offered is open and free throughout, and no free tick is withheld.
OfferedAndFree == office = "chairs" => Chairs!OfferedAndFree
\* ChairTime: the owner is shown the free chair-time, unless chairs went away under bookings.
FreeTimeExact == office = "chairs" => Chairs!FreeTimeExact

=============================================================================
