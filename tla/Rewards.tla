------------------------------- MODULE Rewards -------------------------------
(***************************************************************************)
(* The customer's money inside the platform: wallet balances, capped        *)
(* coupons, and the referral rewards that are paid out in both.  A booking  *)
(* stakes wallet money and a coupon when it is made and gives them back     *)
(* when it dies unpaid or refunded; the booking of an invited customer may  *)
(* earn the inviter and the invitee a reward, and the refund of that        *)
(* booking takes the reward back.  Every transaction locks the rows it is   *)
(* going to write and goes on from what it read; rows that it only reads    *)
(* may change under it.  What a booking goes through otherwise is           *)
(* BookingPayment's matter, how a refund is made RefundClaim's.             *)
(***************************************************************************)
EXTENDS Integers, FiniteSets

CONSTANTS Referrer,       \* the customer whose code is used
          Invitees,       \* customers who registered with it, or without any
          Bookings, Handlers,
          Qualifying,     \* bookings made online, at the salon the referral names
          Platform,       \* a coupon that is good at every salon
          None,
          ReferrerKind, ReferredKind,   \* what each side of a referral is paid in
          Value,          \* amount of a wallet reward
          Deposit,        \* deposit of a booking
          PlatformCap,    \* max_redemptions of the platform coupon
          MaxAdjust       \* bound on what an admin credits to one customer

Customers == {Referrer} \cup Invitees
Sides == {"referrer", "referred"}
Rewarded == Invitees \X Sides
Coupons == {Platform} \cup Rewarded

ASSUME NamesAssumption ==
    /\ Referrer \notin Invitees
    /\ None \notin Customers \cup Bookings \cup Coupons
    /\ Platform \notin Rewarded
    /\ Qualifying \subseteq Bookings
ASSUME FiniteAssumption == IsFiniteSet(Bookings) /\ IsFiniteSet(Invitees)
ASSUME KindAssumption == {ReferrerKind, ReferredKind} \subseteq {"wallet", "coupon"}
ASSUME AmountAssumption ==
    /\ {Value, Deposit, PlatformCap} \subseteq Nat \ {0}
    /\ MaxAdjust \in Nat

VARIABLES
    referral,    \* referrals.status, by referred_user_id
    due,         \* its expires_at has passed
    event,       \* referrals.qualifying_event
    qualifying,  \* referrals.qualifying_booking_id
    reward,      \* referral_rewards: "kept" is granted with a reversal_reason
    shortfall,   \* referral_rewards.reversal_shortfall_amount
    active,      \* coupons.is_active
    status,      \* bookings.status
    customer,    \* bookings.user_id
    payment,     \* payments.status
    stake,       \* bookings.wallet_amount_used
    redemption,  \* the booking's row of coupon_redemptions
    balance,     \* wallet_balances
    adjusted,    \* sum of the admin_adjustment rows of wallet_transactions
    local        \* what each transaction holds

referrals == <<referral, due, event, qualifying>>
rewards == <<reward, shortfall, active>>
bookings == <<status, customer, payment>>
wallets == <<balance, adjusted>>
vars == <<referrals, rewards, bookings, stake, redemption, wallets, local>>

ReferralStatus == {"none", "awaiting", "granted", "expired", "cancelled"}
\* "held" waits for approval or payment, "dead" is every DEAD_BOOKING_STATUSES.
BookingStatus == {"none", "held", "standing", "completed", "dead"}
PaymentStatus == {"none", "paid", "refund_pending", "refunded"}
Ops == {"hold", "release", "cancel", "grant", "reverse", "expire", "adjust"}
\* "ready": decided and nothing locked; "coupon", "wallet": about to lock these rows;
\* "commit": everything locked.
Steps == {"ready", "coupon", "wallet", "commit"}

Idle == [pc |-> "idle"]
Tasks == [pc : Steps, op : Ops, booking : Bookings \cup {None}, user : Customers,
          coupon : Coupons \cup {None}, voids : SUBSET Sides, wallets : SUBSET Customers,
          amount : Int, seen : [Customers -> Nat]]
NothingSeen == [v \in Customers |-> 0]
Task(pc, op, b, u, c, voids, ws, n) ==
    [pc |-> pc, op |-> op, booking |-> b, user |-> u, coupon |-> c, voids |-> voids,
     wallets |-> ws, amount |-> n, seen |-> NothingSeen]
\* A transaction that touches no wallet has none to lock.
Then(ws) == IF ws = {} THEN "commit" ELSE "wallet"
Goto(h, task) == local' = [local EXCEPT ![h] = task]
At(h, pc, op) == local[h] # Idle /\ local[h].pc = pc /\ local[h].op = op

Least(m, n) == IF m < n THEN m ELSE n
Kind(s) == IF s = "referrer" THEN ReferrerKind ELSE ReferredKind
Beneficiary(u, s) == IF s = "referrer" THEN Referrer ELSE u
\* The side of u's referral that pays v into the wallet, if any.
WalletSides(u, v) == {s \in Sides : Kind(s) = "wallet" /\ Beneficiary(u, s) = v}

TypeOK ==
    /\ referral \in [Invitees -> ReferralStatus]
    /\ due \in [Invitees -> BOOLEAN]
    /\ event \in [Invitees -> {"completed", "paid"}]
    /\ qualifying \in [Invitees -> Bookings \cup {None}]
    /\ reward \in [Rewarded -> {"none", "granted", "kept", "reversed"}]
    /\ shortfall \in [Rewarded -> Nat]
    /\ active \in [Coupons -> BOOLEAN]
    /\ status \in [Bookings -> BookingStatus]
    /\ customer \in [Bookings -> Customers \cup {None}]
    /\ \A b \in Bookings : status[b] # "none" => customer[b] \in Customers
    /\ payment \in [Bookings -> PaymentStatus]
    /\ \A b \in Bookings : payment[b] # "none" => status[b] # "none"
    /\ stake \in [Bookings -> Nat]
    /\ redemption \in [Bookings -> Coupons \cup {None}]
    /\ balance \in [Customers -> Nat]
    /\ adjusted \in [Customers -> Int]
    /\ local \in [Handlers -> Tasks \cup {Idle}]

Init ==
    /\ referral \in [Invitees -> {"none", "awaiting"}]
    /\ due = [u \in Invitees |-> FALSE]
    /\ event \in [Invitees -> {"completed", "paid"}]
    /\ qualifying = [u \in Invitees |-> None]
    /\ reward = [x \in Rewarded |-> "none"]
    /\ shortfall = [x \in Rewarded |-> 0]
    /\ active = [c \in Coupons |-> c = Platform]
    /\ status = [b \in Bookings |-> "none"]
    /\ customer = [b \in Bookings |-> None]
    /\ payment = [b \in Bookings |-> "none"]
    /\ stake = [b \in Bookings |-> 0]
    /\ redemption = [b \in Bookings |-> None]
    /\ balance = [v \in Customers |-> 0]
    /\ adjusted = [v \in Customers |-> 0]
    /\ local = [h \in Handlers |-> Idle]

-----------------------------------------------------------------------------
(* Row locks: a row is locked while a transaction that took it is under way. *)

Holding(h, ops, pcs) == local[h] # Idle /\ local[h].op \in ops /\ local[h].pc \in pcs
ReferralFreeUnlocked(u) == TRUE   \* mutant: no SELECT ... FOR UPDATE
ReferralFree(u) ==
    \A h \in Handlers : Holding(h, {"grant", "reverse"}, {"wallet", "commit"}) => local[h].user # u
CouponFree(c) ==
    \A h \in Handlers : Holding(h, {"hold"}, {"wallet", "commit"}) => local[h].coupon # c
WalletFreeUnlocked(v) == TRUE   \* mutant: no SELECT ... FOR UPDATE
WalletFree(v) ==
    \A h \in Handlers : Holding(h, Ops, {"commit"}) => v \notin local[h].wallets

\* lockOrCreateBalance of every wallet the transaction is going to write.
LockWallets(h) ==
    /\ local[h] # Idle /\ local[h].pc = "wallet"
    /\ \A v \in local[h].wallets : WalletFree(v)
    /\ Goto(h, [local[h] EXCEPT !.pc = "commit",
                    !.seen = [v \in Customers |-> IF v \in local[h].wallets THEN balance[v] ELSE 0]])
    /\ UNCHANGED <<referrals, rewards, bookings, stake, redemption, wallets>>

\* The transaction rolls back, finds nothing to do, or its process dies.
Rollback(h) ==
    /\ local[h] # Idle
    /\ Goto(h, Idle)
    /\ UNCHANGED <<referrals, rewards, bookings, stake, redemption, wallets>>

\* credit and debit of one wallet that is locked: from the balance seen.
Move(u, seen, n) == balance' = [balance EXCEPT ![u] = IF n = 0 THEN @ ELSE seen + n]

-----------------------------------------------------------------------------
(* Bookings: createHold stakes, releaseBookingHold gives back.              *)

Redemptions(c) == {b \in Bookings : redemption[b] = c}
UsedBy(c, u) == \E b \in Redemptions(c) : customer[b] = u
CapOf(c) == IF c = Platform THEN PlatformCap ELSE 1
IssuedTo(c, u) == c = Platform \/ (c # Platform /\ Beneficiary(c[1], c[2]) = u)
Ongoing(b) == \E h \in Handlers : local[h] # Idle /\ local[h].booking = b

\* createHold up to the unlocked read of the coupon; without one it goes on to the wallet.
CreateHold(h, b, u, c, w) ==
    /\ local[h] = Idle
    /\ status[b] = "none" /\ ~Ongoing(b)
    /\ c # None => active[c] /\ IssuedTo(c, u) /\ ~UsedBy(c, u)
    /\ LET ws == IF w THEN {u} ELSE {}
       IN  Goto(h, Task(IF c = None THEN Then(ws) ELSE "coupon", "hold", b, u, c, {}, ws, Deposit))
    /\ UNCHANGED <<referrals, rewards, bookings, stake, redemption, wallets>>

\* The capped coupon's row is locked, its redemptions are counted; is_active is not read again.
LockCouponRacy(h) ==   \* mutant: the count without the row lock
    /\ At(h, "coupon", "hold")
    /\ Cardinality(Redemptions(local[h].coupon)) < CapOf(local[h].coupon)
    /\ Goto(h, [local[h] EXCEPT !.pc = Then(local[h].wallets)])
    /\ UNCHANGED <<referrals, rewards, bookings, stake, redemption, wallets>>
LockCoupon(h) ==
    /\ At(h, "coupon", "hold")
    /\ CouponFree(local[h].coupon)
    /\ Cardinality(Redemptions(local[h].coupon)) < CapOf(local[h].coupon)
    /\ Goto(h, [local[h] EXCEPT !.pc = Then(local[h].wallets)])
    /\ UNCHANGED <<referrals, rewards, bookings, stake, redemption, wallets>>

\* The debit is capped at the balance; with nothing left to collect, or with collection
\* switched off, the booking needs no payment.
CommitHold(h, collect) ==
    /\ At(h, "commit", "hold")
    /\ LET t == local[h]
           used == IF collect /\ t.wallets # {} THEN Least(t.amount, t.seen[t.user]) ELSE 0
       IN  /\ t.coupon # None => ~UsedBy(t.coupon, t.user)   \* UNIQUE (coupon_id, user_id)
           /\ status' = [status EXCEPT ![t.booking] =
                             IF used = t.amount \/ ~collect THEN "standing" ELSE "held"]
           /\ customer' = [customer EXCEPT ![t.booking] = t.user]
           /\ stake' = [stake EXCEPT ![t.booking] = used]
           /\ redemption' = [redemption EXCEPT ![t.booking] = t.coupon]
           /\ Move(t.user, t.seen[t.user], -used)
    /\ Goto(h, Idle)
    /\ UNCHANGED <<referrals, rewards, payment, adjusted>>

\* Everything that gives a stake back reads it first.
BeginRelease(h, b) ==
    /\ local[h] = Idle
    /\ status[b] \in {"held", "standing"}
    /\ LET ws == IF stake[b] > 0 THEN {customer[b]} ELSE {}
       IN  Goto(h, Task(Then(ws), IF status[b] = "held" THEN "release" ELSE "cancel", b, customer[b],
                        None, {}, ws, stake[b]))
    /\ UNCHANGED <<referrals, rewards, bookings, stake, redemption, wallets>>

\* reverseWalletSpend: the stake is cleared and credited only if it is still what was read.
GivenBack(b, read) == IF stake[b] = read THEN read ELSE 0

\* An unpaid booking ends; the status UPDATE is conditional.  A declined payment releases
\* even if that UPDATE lost (blind).
EndUnpaid(h, blind) ==
    /\ At(h, "commit", "release")
    /\ LET t == local[h]
           b == t.booking
       IN  /\ status[b] = "held" \/ blind
           /\ status' = [status EXCEPT ![b] = IF @ = "held" THEN "dead" ELSE @]
           /\ redemption' = [redemption EXCEPT ![b] = None]
           /\ stake' = [stake EXCEPT ![b] = 0]
           /\ Move(t.user, t.seen[t.user], GivenBack(b, t.amount))
    /\ Goto(h, Idle)
    /\ UNCHANGED <<referrals, rewards, customer, payment, adjusted>>

\* A request is approved while collection is off: the stake goes back, the coupon was used.
ApproveUncollected(h) ==
    /\ At(h, "commit", "release")
    /\ LET t == local[h]
           b == t.booking
       IN  /\ status[b] = "held"
           /\ status' = [status EXCEPT ![b] = "standing"]
           /\ stake' = [stake EXCEPT ![b] = 0]
           /\ Move(t.user, t.seen[t.user], GivenBack(b, t.amount))
    /\ Goto(h, Idle)
    /\ UNCHANGED <<referrals, rewards, customer, payment, redemption, adjusted>>

\* A booking is cancelled in time: what was paid becomes a refund.
CancelPaid(h) ==
    /\ At(h, "commit", "cancel")
    /\ LET t == local[h]
           b == t.booking
       IN  /\ status[b] = "standing"
           /\ status' = [status EXCEPT ![b] = "dead"]
           /\ payment' = [payment EXCEPT ![b] = IF @ = "paid" THEN "refund_pending" ELSE @]
           /\ redemption' = [redemption EXCEPT ![b] = None]
           /\ stake' = [stake EXCEPT ![b] = 0]
           /\ Move(t.user, t.seen[t.user], GivenBack(b, t.amount))
    /\ Goto(h, Idle)
    /\ UNCHANGED <<referrals, rewards, customer, adjusted>>

\* The deposit is captured.
Pay(b) ==
    /\ status[b] = "held"
    /\ status' = [status EXCEPT ![b] = "standing"]
    /\ payment' = [payment EXCEPT ![b] = "paid"]
    /\ UNCHANGED <<referrals, rewards, customer, stake, redemption, wallets, local>>

\* A late cancellation or a no-show: the salon keeps deposit and stake.
Forfeit(b) ==
    /\ status[b] = "standing"
    /\ status' = [status EXCEPT ![b] = "dead"]
    /\ UNCHANGED <<referrals, rewards, customer, payment, stake, redemption, wallets, local>>

\* updateStatus commits; tryGrantReward comes after.
Complete(h, b) ==
    /\ local[h] = Idle
    /\ status[b] = "standing"
    /\ status' = [status EXCEPT ![b] = "completed"]
    /\ Goto(h, Task("ready", "grant", b, customer[b], None, {}, {}, 0))
    /\ UNCHANGED <<referrals, rewards, customer, payment, stake, redemption, wallets>>

\* attemptRefund records the refund; reverseIfNeeded comes after.
Refund(h, b) ==
    /\ local[h] = Idle
    /\ payment[b] = "refund_pending"
    /\ payment' = [payment EXCEPT ![b] = "refunded"]
    /\ Goto(h, Task("ready", "reverse", b, customer[b], None, {}, {}, 0))
    /\ UNCHANGED <<referrals, rewards, status, customer, stake, redemption, wallets>>

\* An admin corrects a balance; a debit that would be capped is rolled back.
Adjust(h, u, n) ==
    /\ local[h] = Idle
    /\ n # 0 /\ adjusted[u] + n <= MaxAdjust
    /\ Goto(h, Task("wallet", "adjust", None, u, None, {}, {u}, n))
    /\ UNCHANGED <<referrals, rewards, bookings, stake, redemption, wallets>>

CommitAdjust(h) ==
    /\ At(h, "commit", "adjust")
    /\ LET t == local[h]
       IN  /\ t.seen[t.user] + t.amount >= 0
           /\ adjusted[t.user] + t.amount <= MaxAdjust
           /\ Move(t.user, t.seen[t.user], t.amount)
           /\ adjusted' = [adjusted EXCEPT ![t.user] = @ + t.amount]
    /\ Goto(h, Idle)
    /\ UNCHANGED <<referrals, rewards, bookings, stake, redemption>>

-----------------------------------------------------------------------------
(* Referrals.  They begin with a registration, before the first state.      *)

\* expires_at passes.
FallDue(u) ==
    /\ referral[u] = "awaiting" /\ ~due[u]
    /\ due' = [due EXCEPT ![u] = TRUE]
    /\ UNCHANGED <<referral, event, qualifying, rewards, bookings, stake, redemption, wallets, local>>

\* ReferralExpiryJob: the subquery picks the row, the UPDATE tests the status again once it
\* has the row lock.
SelectExpired(h, u) ==
    /\ local[h] = Idle
    /\ referral[u] = "awaiting" /\ due[u]
    /\ Goto(h, Task("ready", "expire", None, u, None, {}, {}, 0))
    /\ UNCHANGED <<referrals, rewards, bookings, stake, redemption, wallets>>

ExpireSelected(h) ==   \* mutant: the outer WHERE is only id IN (...)
    /\ At(h, "ready", "expire")
    /\ ReferralFree(local[h].user)
    /\ referral' = [referral EXCEPT ![local[h].user] = "expired"]
    /\ Goto(h, Idle)
    /\ UNCHANGED <<due, event, qualifying, rewards, bookings, stake, redemption, wallets>>
Expire(h) ==
    /\ At(h, "ready", "expire")
    /\ ReferralFree(local[h].user)
    /\ referral' = [referral EXCEPT ![local[h].user] = IF @ = "awaiting" THEN "expired" ELSE @]
    /\ Goto(h, Idle)
    /\ UNCHANGED <<due, event, qualifying, rewards, bookings, stake, redemption, wallets>>

\* The admin's cancel.
CancelReferral(u) ==
    /\ referral[u] = "awaiting" /\ ReferralFree(u)
    /\ referral' = [referral EXCEPT ![u] = "cancelled"]
    /\ UNCHANGED <<due, event, qualifying, rewards, bookings, stake, redemption, wallets, local>>

\* tryGrantReward: the referral is locked; booking and payment are only read.
Grantable(u, b, e) ==
    /\ referral[u] = "awaiting" /\ event[u] = e /\ ~due[u]
    /\ b \in Qualifying /\ customer[b] = u
    /\ e = "paid" => payment[b] = "paid"

BeginGrant(h, u, b) ==
    /\ ReferralFree(u)
    /\ Goto(h, Task("wallet", "grant", b, u, None, {},
                    {Referrer} \cup {v \in {u} : WalletSides(u, v) # {}}, 0))
    /\ UNCHANGED <<referrals, rewards, bookings, stake, redemption, wallets>>

\* Called by updateStatus after a completion, and by ReferralGrantJob's sweep.
GrantCompleted(h) ==
    /\ At(h, "ready", "grant")
    /\ local[h].user \in Invitees
    /\ Grantable(local[h].user, local[h].booking, "completed")
    /\ BeginGrant(h, local[h].user, local[h].booking)

SweepGrant(h, u, b) ==
    /\ local[h] = Idle
    /\ Grantable(u, b, "paid")
    /\ BeginGrant(h, u, b)

\* Both sides are paid, in wallet money or as a coupon for one redemption.
CommitGrant(h) ==
    /\ At(h, "commit", "grant")
    /\ LET t == local[h]
           u == t.user
       IN  /\ reward' = [x \in Rewarded |-> IF x[1] = u THEN "granted" ELSE reward[x]]
           /\ active' = [c \in Coupons |-> IF c # Platform /\ c[1] = u THEN Kind(c[2]) = "coupon"
                                           ELSE active[c]]
           /\ balance' = [v \in Customers |-> IF WalletSides(u, v) # {} THEN t.seen[v] + Value
                                              ELSE balance[v]]
           /\ referral' = [referral EXCEPT ![u] = "granted"]
           /\ qualifying' = [qualifying EXCEPT ![u] = t.booking]
    /\ Goto(h, Idle)
    /\ UNCHANGED <<due, event, shortfall, bookings, stake, redemption, adjusted>>

\* reverseIfNeeded: referral and rewards are locked, the redemptions of a coupon only read.
BeginReverse(h) ==
    /\ At(h, "ready", "reverse")
    /\ LET t == local[h]
           u == t.user
           given == {s \in Sides : reward[<<u, s>>] \in {"granted", "kept"}}
       IN  /\ u \in Invitees
           /\ referral[u] = "granted" /\ qualifying[u] = t.booking
           /\ ReferralFree(u)
           /\ LET ws == {v \in Customers : WalletSides(u, v) \cap given # {}}
              IN  Goto(h, Task(Then(ws), "reverse", t.booking, u, None,
                      {s \in given : Kind(s) = "coupon" /\ Redemptions(<<u, s>>) = {}}, ws, 0))
    /\ UNCHANGED <<referrals, rewards, bookings, stake, redemption, wallets>>

\* A wallet reward is debited as far as the balance goes; a coupon is voided, unless it was
\* found redeemed.
ShortOf(seen) == Value - Least(Value, seen)
CommitReverse(h) ==
    /\ At(h, "commit", "reverse")
    /\ LET t == local[h]
           u == t.user
           Of(x) == x[1] = u /\ reward[x] \in {"granted", "kept"}
           Debited(x) == Of(x) /\ Kind(x[2]) = "wallet"
       IN  /\ \A s \in t.voids : CouponFree(<<u, s>>)
           /\ reward' = [x \in Rewarded |->
                             IF ~Of(x) THEN reward[x]
                             ELSE IF Debited(x) \/ x[2] \in t.voids THEN "reversed" ELSE "kept"]
           /\ shortfall' = [x \in Rewarded |->
                                IF Debited(x) THEN ShortOf(t.seen[Beneficiary(u, x[2])])
                                ELSE shortfall[x]]
           /\ active' = [c \in Coupons |-> active[c] /\ ~(c # Platform /\ c[1] = u /\ c[2] \in t.voids)]
           /\ balance' = [v \in Customers |-> IF v \in t.wallets THEN t.seen[v] - Least(Value, t.seen[v])
                                              ELSE balance[v]]
    /\ Goto(h, Idle)
    /\ UNCHANGED <<referrals, bookings, stake, redemption, adjusted>>

-----------------------------------------------------------------------------

Transaction(h) ==
    \/ LockWallets(h)
    \/ LockCoupon(h)
    \/ \E collect \in BOOLEAN : CommitHold(h, collect)
    \/ \E blind \in BOOLEAN : EndUnpaid(h, blind)
    \/ ApproveUncollected(h)
    \/ CancelPaid(h)
    \/ CommitAdjust(h)
    \/ Expire(h)
    \/ GrantCompleted(h)
    \/ CommitGrant(h)
    \/ BeginReverse(h)
    \/ CommitReverse(h)
    \/ Rollback(h)

Next ==
    \/ \E h \in Handlers :
          \/ Transaction(h)
          \/ \E b \in Bookings, u \in Customers, c \in Coupons \cup {None}, w \in BOOLEAN :
                CreateHold(h, b, u, c, w)
          \/ \E b \in Bookings : BeginRelease(h, b) \/ Complete(h, b) \/ Refund(h, b)
          \/ \E u \in Customers, n \in {-1, 1} : Adjust(h, u, n)
          \/ \E u \in Invitees : SelectExpired(h, u)
          \/ \E u \in Invitees, b \in Bookings : SweepGrant(h, u, b)
    \/ \E b \in Bookings : Pay(b) \/ Forfeit(b)
    \/ \E u \in Invitees : FallDue(u) \/ CancelReferral(u)

Spec == Init /\ [][Next]_vars

-----------------------------------------------------------------------------

\* What is left of a reward in its beneficiary's wallet: a reversal leaves what it was short of.
Left(x) == IF Kind(x[2]) # "wallet" \/ reward[x] = "none" THEN 0
           ELSE IF reward[x] = "reversed" THEN shortfall[x] ELSE Value

\* The sum of f over S, counted unit by unit.
Units(f, S) == UNION {{x} \X (1..f[x]) : x \in S}
Total(f, S) == Cardinality(Units(f, S))
Staked(v) == Total(stake, {b \in Bookings : customer[b] = v})
Lefts == [x \in Rewarded |-> Left(x)]
PaidIn(v) == Total(Lefts, {x \in Rewarded : Beneficiary(x[1], x[2]) = v})

\* Money conservation: whatever holds, releases, grants, reversals and corrections run into
\* one another, a customer has in the wallet and staked on bookings exactly what rewards
\* and admins paid in, less what was taken back; no release or reversal counts twice and
\* none is lost.
MoneyConserved == \A v \in Customers : balance[v] + Staked(v) = adjusted[v] + PaidIn(v)

\* A capped coupon is never redeemed beyond its cap, by bookings of whatever salons at once,
\* nor by one customer twice.
CouponsWithinCap ==
    \A c \in Coupons :
        /\ Cardinality(Redemptions(c)) <= CapOf(c)
        /\ \A a, b \in Redemptions(c) : customer[a] = customer[b] => a = b

\* A referral has paid both sides or none, and no expiry, cancellation or racing grant
\* leaves rewards on a referral that is not granted.
PaidOnceGranted ==
    \A u \in Invitees, s \in Sides :
        /\ reward[<<u, s>>] # "none" <=> referral[u] = "granted"
        /\ qualifying[u] # None <=> referral[u] = "granted"

-----------------------------------------------------------------------------
(* The inductive invariant: what a transaction knows between two of its steps. *)

TaskFits(t) ==
    /\ t.op \in {"hold", "release", "cancel", "grant", "reverse"} => t.booking \in Bookings
    /\ t.op = "hold" => t.amount = Deposit
    /\ t.pc = "coupon" => t.coupon # None
    /\ t.op = "expire" \/ (t.op \in {"grant", "reverse"} /\ t.pc # "ready") => t.user \in Invitees

TasksFit == \A h \in Handlers : local[h] # Idle => TaskFits(local[h])

\* A referral's row is locked once, and is then still as it was found.
ReferralLocked(h) == Holding(h, {"grant", "reverse"}, {"wallet", "commit"})
ReferralHeld ==
    \A h \in Handlers : ReferralLocked(h) =>
        /\ referral[local[h].user] = IF local[h].op = "grant" THEN "awaiting" ELSE "granted"
        /\ \A g \in Handlers : ReferralLocked(g) /\ local[g].user = local[h].user => g = h

\* A coupon's row is locked once, and its cap is then still not reached.
CouponLocked(h) == Holding(h, {"hold"}, {"wallet", "commit"}) /\ local[h].coupon # None
CouponHeld ==
    \A h \in Handlers : CouponLocked(h) =>
        /\ Cardinality(Redemptions(local[h].coupon)) < CapOf(local[h].coupon)
        /\ \A g \in Handlers : CouponLocked(g) /\ local[g].coupon = local[h].coupon => g = h

RowsInv ==
    /\ TypeOK
    /\ TasksFit
    /\ ReferralHeld
    /\ CouponHeld
    /\ PaidOnceGranted
    /\ CouponsWithinCap

\* A booking that is not made yet belongs to nobody and has nothing staked on it.
UnmadeBlank == \A b \in Bookings : status[b] = "none" => customer[b] = None /\ stake[b] = 0

\* The wallets that the reward of u was paid into, as far as it still stands.
Given(u) == {s \in Sides : reward[<<u, s>>] \in {"granted", "kept"}}
WalletsToDebit(u) == {v \in Customers : WalletSides(u, v) \cap Given(u) # {}}

\* What a transaction read of a booking or of a referral is out of date only where its
\* commit looks again; a locked wallet still holds what was seen in it.
MoneyFits(t) ==
    /\ t.op = "hold" => status[t.booking] = "none" /\ t.wallets \subseteq {t.user}
    /\ t.op \in {"release", "cancel"} =>
          /\ status[t.booking] # "none" /\ customer[t.booking] = t.user
          /\ stake[t.booking] \in {t.amount, 0}
          /\ t.wallets = IF t.amount > 0 THEN {t.user} ELSE {}
    /\ t.op = "adjust" => t.wallets = {t.user}
    /\ t.op = "grant" /\ t.pc \in {"wallet", "commit"} =>
          t.wallets = {Referrer} \cup {v \in {t.user} : WalletSides(t.user, v) # {}}
    /\ t.op = "reverse" /\ t.pc \in {"wallet", "commit"} => t.wallets = WalletsToDebit(t.user)
    /\ t.pc = "commit" => \A v \in t.wallets : t.seen[v] = balance[v]

MoneyHeld == \A h \in Handlers : local[h] # Idle => MoneyFits(local[h])

\* A booking is made by one transaction, a wallet's row locked by one.
Apart(t, r) ==
    /\ t.op = "hold" /\ r.op = "hold" => t.booking # r.booking
    /\ t.pc = "commit" /\ r.pc = "commit" => t.wallets \cap r.wallets = {}
TasksApart ==
    \A h, g \in Handlers : local[h] # Idle /\ local[g] # Idle /\ h # g => Apart(local[h], local[g])

MoneyInv == UnmadeBlank /\ MoneyHeld /\ TasksApart /\ MoneyConserved

IInv == RowsInv /\ MoneyInv

=============================================================================
