-------------------------------- MODULE Billing --------------------------------
(***************************************************************************)
(* What salons owe for their subscriptions: billing periods an admin        *)
(* creates, perhaps at a discount, and settles later.  The redemption of a  *)
(* subscription coupon is written with the period and given back when the   *)
(* period is voided.                                                        *)
(***************************************************************************)
EXTENDS Naturals, FiniteSets

CONSTANTS Periods,    \* billing periods that may be created
          Salons, Coupons, Handlers,
          Capped,     \* coupons with max_redemptions
          Cap,        \* their max_redemptions
          None

VARIABLES
    period,      \* subscription_billing_periods.status, "none" before the row exists
    salon,       \* its salon_id
    coupon,      \* its coupon_id
    redemption,  \* its row of subscription_coupon_redemptions, as the coupon's name
    local        \* what each transaction holds

vars == <<period, salon, coupon, redemption, local>>

Idle == [pc |-> "idle"]
\* "checked": the coupon is good and unused by the salon; "counted": its row is locked and its
\* cap not reached.
Tasks == [pc : {"checked", "counted"}, period : Periods, salon : Salons, coupon : Coupons \cup {None}]
Goto(h, task) == local' = [local EXCEPT ![h] = task]
At(h, pc) == local[h] # Idle /\ local[h].pc = pc

Redemptions(c) == {p \in Periods : redemption[p] = c}
UsedBy(c, s) == \E p \in Redemptions(c) : salon[p] = s

Init ==
    /\ period = [p \in Periods |-> "none"]
    /\ salon = [p \in Periods |-> None]
    /\ coupon = [p \in Periods |-> None]
    /\ redemption = [p \in Periods |-> None]
    /\ local = [h \in Handlers |-> Idle]

-----------------------------------------------------------------------------

\* createPeriod up to the unlocked look at the coupon's redemptions.
CreatePeriod(h, p, s, c) ==
    /\ local[h] = Idle
    /\ period[p] = "none" /\ \A g \in Handlers : local[g] # Idle => local[g].period # p
    /\ c # None => ~UsedBy(c, s)
    /\ Goto(h, [pc |-> IF c \in Capped THEN "checked" ELSE "counted", period |-> p, salon |-> s, coupon |-> c])
    /\ UNCHANGED <<period, salon, coupon, redemption>>

\* SELECT ... FOR UPDATE of the capped coupon, then the count of its redemptions.
Locks(h) == At(h, "counted") /\ local[h].coupon \in Capped
CouponFreeUnlocked(c) == TRUE   \* mutant: the count without the row lock
CouponFree(c) == \A h \in Handlers : Locks(h) => local[h].coupon # c

LockCoupon(h) ==
    /\ At(h, "checked")
    /\ CouponFree(local[h].coupon)
    /\ Cardinality(Redemptions(local[h].coupon)) < Cap
    /\ Goto(h, [local[h] EXCEPT !.pc = "counted"])
    /\ UNCHANGED <<period, salon, coupon, redemption>>

CommitPeriod(h) ==
    /\ At(h, "counted")
    /\ LET t == local[h]
       IN  /\ t.coupon # None => ~UsedBy(t.coupon, t.salon)   \* UNIQUE (coupon_id, salon_id)
           /\ period' = [period EXCEPT ![t.period] = "pending"]
           /\ salon' = [salon EXCEPT ![t.period] = t.salon]
           /\ coupon' = [coupon EXCEPT ![t.period] = t.coupon]
           /\ redemption' = [redemption EXCEPT ![t.period] = t.coupon]
    /\ Goto(h, Idle)

\* setStatus is one conditional UPDATE and, for a void period, a DELETE.
SetStatusBlind(p, st) ==   \* mutant: last writer wins
    /\ period[p] # "none"
    /\ period' = [period EXCEPT ![p] = st]
    /\ redemption' = [redemption EXCEPT ![p] = IF st = "void" THEN None ELSE @]
    /\ UNCHANGED <<salon, coupon, local>>
SetStatus(p, st) ==
    /\ period[p] = "pending"
    /\ period' = [period EXCEPT ![p] = st]
    /\ redemption' = [redemption EXCEPT ![p] = IF st = "void" THEN None ELSE @]
    /\ UNCHANGED <<salon, coupon, local>>

Rollback(h) == local[h] # Idle /\ Goto(h, Idle) /\ UNCHANGED <<period, salon, coupon, redemption>>

Next ==
    \/ \E h \in Handlers :
          \/ \E p \in Periods, s \in Salons, c \in Coupons \cup {None} : CreatePeriod(h, p, s, c)
          \/ LockCoupon(h) \/ CommitPeriod(h) \/ Rollback(h)
    \/ \E p \in Periods, st \in {"paid", "comped", "void"} : SetStatus(p, st)

Spec == Init /\ [][Next]_vars

-----------------------------------------------------------------------------

TypeOK ==
    /\ period \in [Periods -> {"none", "pending", "paid", "comped", "void"}]
    /\ salon \in [Periods -> Salons \cup {None}]
    /\ coupon \in [Periods -> Coupons \cup {None}]
    /\ redemption \in [Periods -> Coupons \cup {None}]
    /\ local \in [Handlers -> Tasks \cup {Idle}]

\* A coupon is consumed by exactly the discounted periods that are or were owed, by no salon
\* twice and, if it is capped, by no more of them than its cap, whatever creations and
\* voidings run into one another.
DiscountsCount ==
    /\ \A p \in Periods : redemption[p] = IF period[p] \in {"none", "void"} THEN None ELSE coupon[p]
    /\ \A c \in Capped : Cardinality(Redemptions(c)) <= Cap
    /\ \A p, q \in Periods :
          redemption[p] # None /\ redemption[p] = redemption[q] /\ salon[p] = salon[q] => p = q

-----------------------------------------------------------------------------
(* The inductive invariant: a locked coupon's cap is still not reached.     *)

CouponHeld ==
    \A h \in Handlers :
        /\ At(h, "checked") => local[h].coupon \in Capped
        /\ Locks(h) => /\ Cardinality(Redemptions(local[h].coupon)) < Cap
                       /\ \A g \in Handlers : Locks(g) /\ local[g].coupon = local[h].coupon => g = h

PeriodHeld ==
    \A h \in Handlers : local[h] # Idle =>
        /\ period[local[h].period] = "none"
        /\ \A g \in Handlers : local[g] # Idle /\ local[g].period = local[h].period => g = h

IInv ==
    /\ TypeOK
    /\ CouponHeld
    /\ PeriodHeld
    /\ DiscountsCount

=============================================================================
