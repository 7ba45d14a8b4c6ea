---------------------------- MODULE RewardsProofs ----------------------------
(***************************************************************************)
(* Proofs about Rewards for every number of customers, bookings and         *)
(* transactions, every cap and amount.  The invariant says what the row     *)
(* locks keep true between the steps of a transaction: a locked referral is *)
(* still as it was found, a locked coupon still below its cap, a locked     *)
(* wallet holds what was seen in it.  The first half is about rows, the     *)
(* second, which rests on it, about the money in them.                      *)
(***************************************************************************)
EXTENDS Rewards, FiniteSetTheorems, TLAPS

\* The transaction h takes the step from local[h] to t.
LEMMA GotoType ==
    ASSUME TypeOK, NEW h \in Handlers, NEW t \in Tasks \cup {Idle}, Goto(h, t)
    PROVE  /\ local' \in [Handlers -> Tasks \cup {Idle}]
           /\ local'[h] = t
           /\ \A g \in Handlers \ {h} : local'[g] = local[g]
BY DEF TypeOK, Goto

\* What Task makes has the fields it is given.
LEMMA TaskType ==
    ASSUME NEW pc \in Steps, NEW op \in Ops, NEW b \in Bookings \cup {None}, NEW u \in Customers,
           NEW c \in Coupons \cup {None}, NEW voids \in SUBSET Sides, NEW ws \in SUBSET Customers,
           NEW n \in Int
    PROVE  /\ Task(pc, op, b, u, c, voids, ws, n) \in Tasks
           /\ Task(pc, op, b, u, c, voids, ws, n) # Idle
           /\ Task(pc, op, b, u, c, voids, ws, n).pc = pc
           /\ Task(pc, op, b, u, c, voids, ws, n).op = op
           /\ Task(pc, op, b, u, c, voids, ws, n).booking = b
           /\ Task(pc, op, b, u, c, voids, ws, n).user = u
           /\ Task(pc, op, b, u, c, voids, ws, n).coupon = c
           /\ Task(pc, op, b, u, c, voids, ws, n).amount = n
<1>1. NothingSeen \in [Customers -> Nat]
  BY DEF NothingSeen
<1>2. Task(pc, op, b, u, c, voids, ws, n) \in Tasks
  BY <1>1 DEF Task, Tasks
<1>3. Task(pc, op, b, u, c, voids, ws, n) # Idle
  BY DEF Task, Idle, Steps
<1> QED BY <1>2, <1>3 DEF Task

LEMMA TaskWallets ==
    \A pc, op, b, u, c, voids, ws, n : Task(pc, op, b, u, c, voids, ws, n).wallets = ws
BY DEF Task

LEMMA IdleNoTask == Idle \notin Tasks
<1> SUFFICES ASSUME Idle \in Tasks PROVE FALSE
  OBVIOUS
<1>1. Idle.pc \in Steps
  BY DEF Tasks
<1>2. Idle.pc = "idle"
  BY DEF Idle
<1> QED BY <1>1, <1>2 DEF Steps

LEMMA ThenStep == \A ws : Then(ws) \in {"commit", "wallet"}
BY DEF Then

\* What at most one redemption more does to a coupon's count.
LEMMA OneMore ==
    ASSUME NEW S \in SUBSET Bookings, NEW T \in SUBSET Bookings, NEW b \in Bookings,
           T \subseteq S \cup {b}, NEW n \in Nat, Cardinality(S) < n
    PROVE  Cardinality(T) <= n
<1>1. IsFiniteSet(S)
  BY FiniteAssumption, FS_Subset
<1>2. Cardinality(S) \in Nat
  BY <1>1, FS_CardinalityType
<1>3. IsFiniteSet(S \cup {b})
  BY <1>1, FS_AddElement
<1>4. Cardinality(S \cup {b}) = IF b \in S THEN Cardinality(S) ELSE Cardinality(S) + 1
  BY <1>1, FS_AddElement
<1>5. IsFiniteSet(T) /\ Cardinality(T) <= Cardinality(S \cup {b})
  BY <1>3, FS_Subset
<1>6. Cardinality(T) \in Nat
  BY <1>5, FS_CardinalityType
<1> QED BY <1>2, <1>4, <1>5, <1>6

LEMMA Fewer ==
    ASSUME NEW S \in SUBSET Bookings, NEW T \in SUBSET S
    PROVE  Cardinality(T) <= Cardinality(S) /\ Cardinality(S) \in Nat /\ Cardinality(T) \in Nat
<1>1. IsFiniteSet(S)
  BY FiniteAssumption, FS_Subset
<1> QED BY <1>1, FS_Subset, FS_CardinalityType

LEMMA CapType == \A c \in Coupons : CapOf(c) \in Nat \ {0}
BY AmountAssumption DEF CapOf

-----------------------------------------------------------------------------
(* The locks.                                                               *)

\* The redemptions of a coupon after the step.
Redeemed(c) == {b \in Bookings : redemption'[b] = c}

\* What a transaction that goes on as t must know of the rows it locks then.
LocksRight(h, t) ==
    /\ t.op \in {"grant", "reverse"} /\ t.pc \in {"wallet", "commit"} =>
          /\ referral'[t.user] = IF t.op = "grant" THEN "awaiting" ELSE "granted"
          /\ \A g \in Handlers \ {h} : ReferralLocked(g) => local[g].user # t.user
    /\ t.op = "hold" /\ t.pc \in {"wallet", "commit"} /\ t.coupon # None =>
          /\ Cardinality(Redeemed(t.coupon)) < CapOf(t.coupon)
          /\ \A g \in Handlers \ {h} : CouponLocked(g) => local[g].coupon # t.coupon

\* One transaction steps, and leaves alone what the others have locked.
LEMMA LocksStep ==
    ASSUME RowsInv, NEW h \in Handlers, NEW t \in Tasks \cup {Idle}, Goto(h, t),
           t # Idle => TaskFits(t) /\ LocksRight(h, t),
           redemption' \in [Bookings -> Coupons \cup {None}],
           \A g \in Handlers \ {h} :
              /\ ReferralLocked(g) => referral'[local[g].user] = referral[local[g].user]
              /\ CouponLocked(g) => Redeemed(local[g].coupon) \subseteq Redemptions(local[g].coupon)
    PROVE  TasksFit' /\ ReferralHeld' /\ CouponHeld'
<1>1. /\ local' \in [Handlers -> Tasks \cup {Idle}]
      /\ local'[h] = t
      /\ \A g \in Handlers \ {h} : local'[g] = local[g]
  BY GotoType DEF RowsInv
<1>2. TasksFit'
  BY <1>1 DEF RowsInv, TasksFit, TaskFits
<1>3. ReferralHeld'
  <2> SUFFICES ASSUME NEW g \in Handlers, ReferralLocked(g)'
               PROVE  /\ referral'[local'[g].user] =
                             IF local'[g].op = "grant" THEN "awaiting" ELSE "granted"
                      /\ \A k \in Handlers :
                            ReferralLocked(k)' /\ local'[k].user = local'[g].user => k = g
    BY DEF ReferralHeld
  <2>1. CASE g = h
    <3>1. t # Idle /\ t.op \in {"grant", "reverse"} /\ t.pc \in {"wallet", "commit"}
      BY <1>1, <2>1 DEF ReferralLocked, Holding
    <3>2. LocksRight(h, t)
      BY <3>1
    <3> QED BY <1>1, <2>1, <3>1, <3>2 DEF LocksRight, ReferralLocked, Holding
  <2>2. CASE g # h
    <3>1. ReferralLocked(g) /\ local'[g] = local[g]
      BY <1>1, <2>2 DEF ReferralLocked, Holding
    <3>2. referral'[local'[g].user] = IF local'[g].op = "grant" THEN "awaiting" ELSE "granted"
      BY <2>2, <3>1 DEF RowsInv, ReferralHeld
    <3>3. ASSUME NEW k \in Handlers, ReferralLocked(k)', local'[k].user = local'[g].user
          PROVE  k = g
      <4>1. CASE k = h
        <5>1. t # Idle /\ t.op \in {"grant", "reverse"} /\ t.pc \in {"wallet", "commit"}
          BY <1>1, <3>3, <4>1 DEF ReferralLocked, Holding
        <5> QED BY <1>1, <2>2, <3>1, <3>3, <4>1, <5>1 DEF LocksRight
      <4>2. CASE k # h
        BY <1>1, <2>2, <3>1, <3>3, <4>2 DEF RowsInv, ReferralHeld, ReferralLocked, Holding
      <4> QED BY <4>1, <4>2
    <3> QED BY <3>2, <3>3
  <2> QED BY <2>1, <2>2
<1>4. CouponHeld'
  <2> SUFFICES ASSUME NEW g \in Handlers, CouponLocked(g)'
               PROVE  /\ Cardinality(Redeemed(local'[g].coupon)) < CapOf(local'[g].coupon)
                      /\ \A k \in Handlers :
                            CouponLocked(k)' /\ local'[k].coupon = local'[g].coupon => k = g
    BY DEF CouponHeld, Redemptions, Redeemed
  <2>1. CASE g = h
    <3>1. t # Idle /\ t.op = "hold" /\ t.pc \in {"wallet", "commit"} /\ t.coupon # None
      BY <1>1, <2>1 DEF CouponLocked, Holding
    <3>2. LocksRight(h, t)
      BY <3>1
    <3> QED BY <1>1, <2>1, <3>1, <3>2 DEF LocksRight, CouponLocked, Holding
  <2>2. CASE g # h
    <3>1. CouponLocked(g) /\ local'[g] = local[g]
      BY <1>1, <2>2 DEF CouponLocked, Holding
    <3>2. /\ Cardinality(Redemptions(local[g].coupon)) < CapOf(local[g].coupon)
          /\ local[g].coupon \in Coupons
      BY <3>1, GotoType DEF RowsInv, CouponHeld, TypeOK, Tasks, CouponLocked, Holding
    <3>3. Cardinality(Redeemed(local'[g].coupon)) < CapOf(local'[g].coupon)
      <4> DEFINE c == local[g].coupon
                 S == Redemptions(c)
                 T == Redeemed(c)
      <4>1. T \in SUBSET S /\ S \in SUBSET Bookings
        BY <2>2, <3>1 DEF Redemptions, Redeemed
      <4>2. Cardinality(T) <= Cardinality(S) /\ Cardinality(S) \in Nat /\ Cardinality(T) \in Nat
        BY <4>1, Fewer
      <4>3. CapOf(c) \in Nat
        BY <3>2, CapType
      <4>4. Cardinality(T) < CapOf(c)
        BY <3>2, <4>2, <4>3
      <4> QED BY <3>1, <4>4
    <3>4. ASSUME NEW k \in Handlers, CouponLocked(k)', local'[k].coupon = local'[g].coupon
          PROVE  k = g
      <4>1. CASE k = h
        <5>1. t # Idle /\ t.op = "hold" /\ t.pc \in {"wallet", "commit"} /\ t.coupon # None
          BY <1>1, <3>4, <4>1 DEF CouponLocked, Holding
        <5> QED BY <1>1, <2>2, <3>1, <3>4, <4>1, <5>1 DEF LocksRight
      <4>2. CASE k # h
        BY <1>1, <2>2, <3>1, <3>4, <4>2 DEF RowsInv, CouponHeld, CouponLocked, Holding
      <4> QED BY <4>1, <4>2
    <3> QED BY <3>3, <3>4
  <2> QED BY <2>1, <2>2
<1> QED BY <1>2, <1>3, <1>4

-----------------------------------------------------------------------------
(* The steps.                                                               *)

\* A step that only moves one transaction on.
LEMMA QuietStep ==
    ASSUME RowsInv, NEW h \in Handlers, NEW t \in Tasks \cup {Idle}, Goto(h, t),
           t # Idle => TaskFits(t) /\ LocksRight(h, t),
           UNCHANGED <<referrals, rewards, bookings, stake, redemption, wallets>>
    PROVE  RowsInv'
<1>1. /\ UNCHANGED <<referral, due, event, qualifying, reward, shortfall, active>>
      /\ UNCHANGED <<status, customer, payment, stake, redemption, balance, adjusted>>
  BY DEF referrals, rewards, bookings, wallets
<1>2. TypeOK'
  BY <1>1, GotoType DEF RowsInv, TypeOK
<1>3. TasksFit' /\ ReferralHeld' /\ CouponHeld'
  BY <1>1, LocksStep DEF RowsInv, TypeOK, Redeemed, Redemptions
<1>4. PaidOnceGranted' /\ CouponsWithinCap'
  BY <1>1 DEF RowsInv, PaidOnceGranted, CouponsWithinCap, Redemptions
<1> QED BY <1>2, <1>3, <1>4 DEF RowsInv

\* Giving redemptions back keeps every cap.
LEMMA CapShrink ==
    ASSUME RowsInv, customer' = customer,
           \A b \in Bookings : redemption'[b] \in {redemption[b], None}
    PROVE  /\ redemption' \in [Bookings -> Coupons \cup {None}] => CouponsWithinCap'
           /\ \A c \in Coupons : Redeemed(c) \subseteq Redemptions(c)
<1>1. \A c \in Coupons : Redeemed(c) \subseteq Redemptions(c)
  BY NamesAssumption DEF Redeemed, Redemptions
<1>2. ASSUME redemption' \in [Bookings -> Coupons \cup {None}], NEW c \in Coupons
      PROVE  /\ Cardinality(Redeemed(c)) <= CapOf(c)
             /\ \A a, b \in Redeemed(c) : customer'[a] = customer'[b] => a = b
  <2>1. Redemptions(c) \in SUBSET Bookings /\ Redeemed(c) \in SUBSET Redemptions(c)
    BY <1>1 DEF Redemptions
  <2>2. /\ Cardinality(Redeemed(c)) <= Cardinality(Redemptions(c))
        /\ Cardinality(Redeemed(c)) \in Nat /\ Cardinality(Redemptions(c)) \in Nat
    BY <2>1, Fewer
  <2>3. Cardinality(Redemptions(c)) <= CapOf(c) /\ CapOf(c) \in Nat
    BY CapType DEF RowsInv, CouponsWithinCap
  <2>4. Cardinality(Redeemed(c)) <= CapOf(c)
    BY <2>2, <2>3
  <2>5. \A a, b \in Redemptions(c) : customer[a] = customer[b] => a = b
    BY DEF RowsInv, CouponsWithinCap
  <2> QED BY <2>1, <2>4, <2>5
<1> QED BY <1>1, <1>2 DEF CouponsWithinCap, Redemptions, Redeemed

LEMMA LockWalletsStep ==
    ASSUME RowsInv, NEW h \in Handlers, LockWallets(h) PROVE RowsInv'
<1> DEFINE seen == [v \in Customers |-> IF v \in local[h].wallets THEN balance[v] ELSE 0]
           t == [local[h] EXCEPT !.pc = "commit", !.seen = seen]
<1>1. local[h] \in Tasks /\ local[h] # Idle /\ local[h].pc = "wallet" /\ Goto(h, t)
  BY DEF LockWallets, RowsInv, TypeOK
<1>2. seen \in [Customers -> Nat]
  BY DEF RowsInv, TypeOK
<1>3. /\ t \in Tasks /\ t.pc = "commit" /\ t.op = local[h].op /\ t.user = local[h].user
      /\ t.coupon = local[h].coupon /\ t.amount = local[h].amount /\ t.booking = local[h].booking
  BY <1>1, <1>2 DEF Tasks, Steps
<1>4. TaskFits(t)
  BY <1>1, <1>3 DEF RowsInv, TasksFit, TaskFits
<1>5. LocksRight(h, t)
  BY <1>1, <1>3 DEF LocksRight, LockWallets, referrals, RowsInv, ReferralHeld, CouponHeld, ReferralLocked,
                    CouponLocked, Holding, Redeemed, Redemptions
<1> QED BY <1>1, <1>3, <1>4, <1>5, QuietStep DEF LockWallets

LEMMA RollbackStep ==
    ASSUME RowsInv, NEW h \in Handlers, Rollback(h) PROVE RowsInv'
BY QuietStep DEF Rollback

LEMMA CreateHoldStep ==
    ASSUME RowsInv, NEW h \in Handlers, NEW b \in Bookings, NEW u \in Customers,
           NEW c \in Coupons \cup {None}, NEW w \in BOOLEAN, CreateHold(h, b, u, c, w)
    PROVE  RowsInv'
<1> DEFINE ws == IF w THEN {u} ELSE {}
           pc == IF c = None THEN Then(ws) ELSE "coupon"
           t == Task(pc, "hold", b, u, c, {}, ws, Deposit)
<1>1. pc \in Steps /\ "hold" \in Ops /\ {} \in SUBSET Sides /\ ws \in SUBSET Customers /\ Deposit \in Int
  BY ThenStep, AmountAssumption DEF Steps, Ops
<1>2. /\ t \in Tasks /\ t.pc = pc /\ t.op = "hold" /\ t.booking = b /\ t.user = u
      /\ t.coupon = c /\ t.amount = Deposit
  <2> HIDE DEF pc, ws
  <2> QED BY <1>1, TaskType
<1>3. TaskFits(t)
  BY <1>2, ThenStep DEF TaskFits
<1>4. LocksRight(h, t)
  BY <1>2, ThenStep DEF LocksRight
<1>5. Goto(h, t) /\ UNCHANGED <<referrals, rewards, bookings, stake, redemption, wallets>>
  BY DEF CreateHold
<1> HIDE DEF t
<1> QED BY <1>2, <1>3, <1>4, <1>5, QuietStep

LEMMA LockCouponStep ==
    ASSUME RowsInv, NEW h \in Handlers, LockCoupon(h) PROVE RowsInv'
<1> DEFINE t == [local[h] EXCEPT !.pc = Then(local[h].wallets)]
<1>1. /\ local[h] \in Tasks /\ local[h] # Idle /\ local[h].pc = "coupon" /\ local[h].op = "hold"
      /\ Goto(h, t) /\ local[h].coupon # None
  BY DEF LockCoupon, At, RowsInv, TypeOK, TasksFit, TaskFits
<1>2. /\ t \in Tasks /\ t.pc \in {"wallet", "commit"} /\ t.op = "hold" /\ t.coupon = local[h].coupon
      /\ t.amount = local[h].amount /\ t.booking = local[h].booking
  BY <1>1, ThenStep DEF Tasks, Steps
<1>3. TaskFits(t)
  BY <1>1, <1>2 DEF RowsInv, TasksFit, TaskFits
<1>4. \A g \in Handlers : CouponLocked(g) => local[g].coupon # local[h].coupon
  BY DEF LockCoupon, CouponFree, CouponLocked, Holding
<1>5. redemption' = redemption /\ Cardinality(Redemptions(local[h].coupon)) < CapOf(local[h].coupon)
  BY DEF LockCoupon
<1>6. LocksRight(h, t)
  BY <1>2, <1>4, <1>5 DEF LocksRight, Redeemed, Redemptions
<1> QED BY <1>1, <1>2, <1>3, <1>6, QuietStep DEF LockCoupon

LEMMA BeginReleaseStep ==
    ASSUME RowsInv, NEW h \in Handlers, NEW b \in Bookings, BeginRelease(h, b) PROVE RowsInv'
<1> DEFINE ws == IF stake[b] > 0 THEN {customer[b]} ELSE {}
           op == IF status[b] = "held" THEN "release" ELSE "cancel"
           t == Task(Then(ws), op, b, customer[b], None, {}, ws, stake[b])
<1>1. /\ customer[b] \in Customers /\ ws \in SUBSET Customers /\ stake[b] \in Int
      /\ op \in Ops /\ Then(ws) \in Steps
  BY ThenStep DEF BeginRelease, RowsInv, TypeOK, Ops, Steps
<1>2. t \in Tasks /\ t.pc = Then(ws) /\ t.op = op /\ t.booking = b
  <2> DEFINE u == customer[b]
             n == stake[b]
  <2>1. b \in Bookings \cup {None} /\ None \in Coupons \cup {None} /\ {} \in SUBSET Sides
    OBVIOUS
  <2>2. u \in Customers /\ n \in Int /\ t = Task(Then(ws), op, b, u, None, {}, ws, n)
    BY <1>1
  <2> HIDE DEF ws, op, u, n, t
  <2>3. Task(Then(ws), op, b, u, None, {}, ws, n) \in Tasks
    BY <1>1, <2>1, <2>2, TaskType
  <2> QED BY <2>2, <2>3 DEF Task
<1>3. TaskFits(t)
  BY <1>2, ThenStep DEF TaskFits
<1>4. LocksRight(h, t)
  BY <1>2 DEF LocksRight
<1>5. Goto(h, t) /\ UNCHANGED <<referrals, rewards, bookings, stake, redemption, wallets>>
  BY DEF BeginRelease
<1> HIDE DEF t
<1> QED BY <1>2, <1>3, <1>4, <1>5, QuietStep

LEMMA AdjustStep ==
    ASSUME RowsInv, NEW h \in Handlers, NEW u \in Customers, NEW n \in {-1, 1}, Adjust(h, u, n)
    PROVE  RowsInv'
<1> DEFINE t == Task("wallet", "adjust", None, u, None, {}, {u}, n)
<1>1. t \in Tasks /\ t.pc = "wallet" /\ t.op = "adjust"
  BY TaskType DEF Steps, Ops
<1>2. TaskFits(t) /\ LocksRight(h, t)
  BY <1>1 DEF TaskFits, LocksRight
<1>3. Goto(h, t) /\ UNCHANGED <<referrals, rewards, bookings, stake, redemption, wallets>>
  BY DEF Adjust
<1> HIDE DEF t
<1> QED BY <1>1, <1>2, <1>3, QuietStep

LEMMA SelectExpiredStep ==
    ASSUME RowsInv, NEW h \in Handlers, NEW u \in Invitees, SelectExpired(h, u) PROVE RowsInv'
<1> DEFINE t == Task("ready", "expire", None, u, None, {}, {}, 0)
<1>1. t \in Tasks /\ t.pc = "ready" /\ t.op = "expire" /\ t.user = u
  BY TaskType DEF Steps, Ops, Customers
<1>2. TaskFits(t) /\ LocksRight(h, t)
  BY <1>1 DEF TaskFits, LocksRight
<1>3. Goto(h, t) /\ UNCHANGED <<referrals, rewards, bookings, stake, redemption, wallets>>
  BY DEF SelectExpired
<1> HIDE DEF t
<1> QED BY <1>1, <1>2, <1>3, QuietStep

LEMMA BeginGrantStep ==
    ASSUME RowsInv, NEW h \in Handlers, NEW u \in Invitees, NEW b \in Bookings,
           referral[u] = "awaiting", BeginGrant(h, u, b)
    PROVE  RowsInv'
<1> DEFINE ws == {Referrer} \cup {v \in {u} : WalletSides(u, v) # {}}
           t == Task("wallet", "grant", b, u, None, {}, ws, 0)
<1>1. ws \in SUBSET Customers /\ u \in Customers
  BY DEF Customers
<1>2. t \in Tasks /\ t.pc = "wallet" /\ t.op = "grant" /\ t.user = u /\ t.booking = b
  <2> HIDE DEF ws
  <2> QED BY <1>1, TaskType DEF Steps, Ops
<1>3. TaskFits(t)
  BY <1>2 DEF TaskFits
<1>4. Goto(h, t) /\ UNCHANGED <<referrals, rewards, bookings, stake, redemption, wallets>>
  BY DEF BeginGrant
<1>5. \A g \in Handlers : ReferralLocked(g) => local[g].user # u
  BY DEF BeginGrant, ReferralFree, ReferralLocked, Holding
<1>6. LocksRight(h, t)
  BY <1>2, <1>4, <1>5 DEF LocksRight, referrals
<1> HIDE DEF t
<1> QED BY <1>2, <1>3, <1>4, <1>6, QuietStep

LEMMA GrantCompletedStep ==
    ASSUME RowsInv, NEW h \in Handlers, GrantCompleted(h) PROVE RowsInv'
<1>1. local[h].user \in Invitees /\ local[h].booking \in Bookings
  BY NamesAssumption DEF GrantCompleted, Grantable, At, RowsInv, TypeOK, Tasks, TasksFit, TaskFits
<1> QED BY <1>1, BeginGrantStep DEF GrantCompleted, Grantable

LEMMA SweepGrantStep ==
    ASSUME RowsInv, NEW h \in Handlers, NEW u \in Invitees, NEW b \in Bookings, SweepGrant(h, u, b)
    PROVE  RowsInv'
BY BeginGrantStep DEF SweepGrant, Grantable

LEMMA BeginReverseStep ==
    ASSUME RowsInv, NEW h \in Handlers, BeginReverse(h) PROVE RowsInv'
<1> DEFINE u == local[h].user
           b == local[h].booking
           given == {s \in Sides : reward[<<u, s>>] \in {"granted", "kept"}}
           ws == {v \in Customers : WalletSides(u, v) \cap given # {}}
           voids == {s \in given : Kind(s) = "coupon" /\ Redemptions(<<u, s>>) = {}}
           t == Task(Then(ws), "reverse", b, u, None, voids, ws, 0)
<1>1. /\ Goto(h, t) /\ UNCHANGED <<referrals, rewards, bookings, stake, redemption, wallets>>
      /\ u \in Invitees /\ referral[u] = "granted" /\ ReferralFree(u)
  BY DEF BeginReverse
<1>2. b \in Bookings /\ u \in Customers
  BY <1>1 DEF BeginReverse, At, RowsInv, TasksFit, TaskFits, Customers
<1>3. voids \in SUBSET Sides /\ ws \in SUBSET Customers /\ Then(ws) \in {"wallet", "commit"}
  BY ThenStep
<1>4. t \in Tasks /\ t.pc = Then(ws) /\ t.op = "reverse" /\ t.user = u /\ t.booking = b
  <2>1. Then(ws) \in Steps /\ "reverse" \in Ops
    BY <1>3 DEF Steps, Ops
  <2> HIDE DEF voids, ws, u, b
  <2> QED BY <1>2, <1>3, <2>1, TaskType
<1>5. TaskFits(t)
  BY <1>1, <1>2, <1>3, <1>4 DEF TaskFits
<1>6. \A g \in Handlers : ReferralLocked(g) => local[g].user # u
  BY <1>1 DEF ReferralFree, ReferralLocked, Holding
<1>7. LocksRight(h, t)
  <2> referral' = referral
    BY <1>1 DEF referrals
  <2> QED BY <1>1, <1>4, <1>6 DEF LocksRight
<1> HIDE DEF t
<1> QED BY <1>1, <1>4, <1>5, <1>7, QuietStep

\* A commit that gives redemptions back, or none, and leaves the referrals alone.
LEMMA CommitStep ==
    ASSUME RowsInv, NEW h \in Handlers, Goto(h, Idle), TypeOK',
           UNCHANGED <<referrals, reward>>, customer' = customer,
           \A b \in Bookings : redemption'[b] \in {redemption[b], None}
    PROVE  RowsInv'
<1>1. redemption' \in [Bookings -> Coupons \cup {None}]
  BY DEF TypeOK
<1>2. CouponsWithinCap' /\ \A c \in Coupons : Redeemed(c) \subseteq Redemptions(c)
  BY <1>1, CapShrink
<1>3. \A g \in Handlers : CouponLocked(g) => local[g].coupon \in Coupons
  BY DEF RowsInv, TypeOK, Tasks, CouponLocked, Holding
<1>4. TasksFit' /\ ReferralHeld' /\ CouponHeld'
  BY <1>1, <1>2, <1>3, LocksStep DEF referrals
<1>5. PaidOnceGranted'
  BY DEF RowsInv, PaidOnceGranted, referrals
<1> QED BY <1>2, <1>4, <1>5 DEF RowsInv

LEMMA BalanceType ==
    ASSUME TypeOK, NEW u, NEW n \in Int, NEW m \in Int, Move(u, m, n), m + n >= 0
    PROVE  balance' \in [Customers -> Nat]
<1>1. CASE n = 0
  BY <1>1 DEF TypeOK, Move
<1>2. CASE n # 0
  <2>1. m + n \in Nat
    OBVIOUS
  <2>2. balance' = [balance EXCEPT ![u] = m + n]
    BY <1>2 DEF Move
  <2> QED BY <2>1, <2>2 DEF TypeOK
<1> QED BY <1>1, <1>2

LEMMA BackType ==
    ASSUME TypeOK, NEW b \in Bookings, NEW n \in Int
    PROVE  GivenBack(b, n) \in Nat
BY DEF TypeOK, GivenBack

LEMMA SeenType ==
    ASSUME RowsInv, NEW h \in Handlers, local[h] # Idle
    PROVE  /\ local[h] \in Tasks /\ local[h].user \in Customers
           /\ local[h].seen[local[h].user] \in Nat /\ local[h].amount \in Int
BY DEF RowsInv, TypeOK, Tasks

LEMMA EndUnpaidStep ==
    ASSUME RowsInv, NEW h \in Handlers, NEW blind \in BOOLEAN, EndUnpaid(h, blind) PROVE RowsInv'
<1> DEFINE b == local[h].booking
           n == local[h].seen[local[h].user]
<1>1. local[h] # Idle /\ b \in Bookings /\ n \in Nat /\ GivenBack(b, local[h].amount) \in Nat
  BY SeenType, BackType DEF EndUnpaid, At, RowsInv, TasksFit, TaskFits
<1>2. balance' \in [Customers -> Nat]
  BY <1>1, BalanceType DEF EndUnpaid, RowsInv
<1>3. local' \in [Handlers -> Tasks \cup {Idle}]
  BY GotoType DEF EndUnpaid, RowsInv
<1>4. /\ UNCHANGED <<referral, due, event, qualifying, reward, shortfall, active, customer, payment, adjusted>>
      /\ status' = [status EXCEPT ![b] = IF @ = "held" THEN "dead" ELSE @]
      /\ redemption' = [redemption EXCEPT ![b] = None] /\ stake' = [stake EXCEPT ![b] = 0]
  BY DEF EndUnpaid, referrals, rewards
<1>5. TypeOK'
  BY <1>1, <1>2, <1>3, <1>4 DEF RowsInv, TypeOK, BookingStatus
<1>6. \A x \in Bookings : redemption'[x] \in {redemption[x], None}
  BY <1>4 DEF RowsInv, TypeOK
<1> QED BY <1>4, <1>5, <1>6, CommitStep DEF EndUnpaid

LEMMA ApproveUncollectedStep ==
    ASSUME RowsInv, NEW h \in Handlers, ApproveUncollected(h) PROVE RowsInv'
<1> DEFINE b == local[h].booking
           n == local[h].seen[local[h].user]
<1>1. local[h] # Idle /\ b \in Bookings /\ n \in Nat /\ GivenBack(b, local[h].amount) \in Nat
  BY SeenType, BackType DEF ApproveUncollected, At, RowsInv, TasksFit, TaskFits
<1>2. balance' \in [Customers -> Nat]
  BY <1>1, BalanceType DEF ApproveUncollected, RowsInv
<1>3. local' \in [Handlers -> Tasks \cup {Idle}]
  BY GotoType DEF ApproveUncollected, RowsInv
<1>4. /\ UNCHANGED <<referral, due, event, qualifying, reward, shortfall, active, customer, payment, adjusted>>
      /\ status[b] = "held" /\ status' = [status EXCEPT ![b] = "standing"]
      /\ redemption' = redemption /\ stake' = [stake EXCEPT ![b] = 0]
  BY DEF ApproveUncollected, referrals, rewards
<1>5. TypeOK'
  BY <1>1, <1>2, <1>3, <1>4 DEF RowsInv, TypeOK, BookingStatus
<1> QED BY <1>4, <1>5, CommitStep DEF ApproveUncollected

LEMMA CancelPaidStep ==
    ASSUME RowsInv, NEW h \in Handlers, CancelPaid(h) PROVE RowsInv'
<1> DEFINE b == local[h].booking
           n == local[h].seen[local[h].user]
<1>1. local[h] # Idle /\ b \in Bookings /\ n \in Nat /\ GivenBack(b, local[h].amount) \in Nat
  BY SeenType, BackType DEF CancelPaid, At, RowsInv, TasksFit, TaskFits
<1>2. balance' \in [Customers -> Nat]
  BY <1>1, BalanceType DEF CancelPaid, RowsInv
<1>3. local' \in [Handlers -> Tasks \cup {Idle}]
  BY GotoType DEF CancelPaid, RowsInv
<1>4. /\ UNCHANGED <<referral, due, event, qualifying, reward, shortfall, active, customer, adjusted>>
      /\ status[b] = "standing" /\ status' = [status EXCEPT ![b] = "dead"]
      /\ payment' = [payment EXCEPT ![b] = IF @ = "paid" THEN "refund_pending" ELSE @]
      /\ redemption' = [redemption EXCEPT ![b] = None] /\ stake' = [stake EXCEPT ![b] = 0]
  BY DEF CancelPaid, referrals, rewards
<1>5. TypeOK'
  BY <1>1, <1>2, <1>3, <1>4 DEF RowsInv, TypeOK, BookingStatus, PaymentStatus
<1>6. \A x \in Bookings : redemption'[x] \in {redemption[x], None}
  BY <1>4 DEF RowsInv, TypeOK
<1> QED BY <1>4, <1>5, <1>6, CommitStep DEF CancelPaid

LEMMA CommitAdjustStep ==
    ASSUME RowsInv, NEW h \in Handlers, CommitAdjust(h) PROVE RowsInv'
<1>1. local[h] # Idle /\ local[h].seen[local[h].user] \in Nat /\ local[h].amount \in Int
  BY SeenType DEF CommitAdjust, At
<1>2. balance' \in [Customers -> Nat]
  BY <1>1, BalanceType DEF CommitAdjust, RowsInv
<1>3. local' \in [Handlers -> Tasks \cup {Idle}]
  BY GotoType DEF CommitAdjust, RowsInv
<1>4. /\ UNCHANGED <<referral, due, event, qualifying, reward, shortfall, active>>
      /\ UNCHANGED <<status, customer, payment, stake, redemption>>
      /\ adjusted' = [adjusted EXCEPT ![local[h].user] = @ + local[h].amount]
  BY DEF CommitAdjust, referrals, rewards, bookings
<1>5. adjusted' \in [Customers -> Int]
  <2> DEFINE u == local[h].user
             n == local[h].amount
  <2>1. adjusted \in [Customers -> Int] /\ u \in Customers /\ n \in Int
    BY <1>1, SeenType DEF RowsInv, TypeOK
  <2>2. adjusted' = [adjusted EXCEPT ![u] = @ + n]
    BY <1>4
  <2> HIDE DEF u, n
  <2>3. adjusted[u] + n \in Int
    BY <2>1
  <2> QED BY <2>1, <2>2, <2>3
<1>6. TypeOK'
  BY <1>2, <1>3, <1>4, <1>5 DEF RowsInv, TypeOK
<1> QED BY <1>4, <1>6, CommitStep DEF CommitAdjust

\* A commit that touches neither referrals nor rewards nor redemptions.
LEMMA PlainStep ==
    ASSUME RowsInv, TypeOK', UNCHANGED <<referrals, reward, redemption>>, customer' = customer, UNCHANGED local
    PROVE  RowsInv'
<1>1. TasksFit' /\ ReferralHeld' /\ CouponHeld'
  BY DEF RowsInv, TasksFit, ReferralHeld, CouponHeld, ReferralLocked, CouponLocked, Holding, Redemptions,
         referrals
<1>2. PaidOnceGranted' /\ CouponsWithinCap'
  BY DEF RowsInv, PaidOnceGranted, CouponsWithinCap, Redemptions, referrals
<1> QED BY <1>1, <1>2 DEF RowsInv

LEMMA PayStep == ASSUME RowsInv, NEW b \in Bookings, Pay(b) PROVE RowsInv'
<1>1. TypeOK'
  BY DEF Pay, RowsInv, TypeOK, BookingStatus, PaymentStatus, referrals, rewards, wallets
<1> QED BY <1>1, PlainStep DEF Pay, rewards

LEMMA ForfeitStep == ASSUME RowsInv, NEW b \in Bookings, Forfeit(b) PROVE RowsInv'
<1>1. TypeOK'
  BY DEF Forfeit, RowsInv, TypeOK, BookingStatus, referrals, rewards, wallets
<1> QED BY <1>1, PlainStep DEF Forfeit, rewards

LEMMA FallDueStep == ASSUME RowsInv, NEW u \in Invitees, FallDue(u) PROVE RowsInv'
<1>1. /\ UNCHANGED <<referral, event, qualifying, reward, shortfall, active, status, customer, payment>>
      /\ UNCHANGED <<stake, redemption, balance, adjusted, local>> /\ due' = [due EXCEPT ![u] = TRUE]
  BY DEF FallDue, rewards, bookings, wallets
<1>2. TypeOK'
  BY <1>1 DEF RowsInv, TypeOK
<1>3. TasksFit' /\ ReferralHeld' /\ CouponHeld'
  BY <1>1 DEF RowsInv, TasksFit, ReferralHeld, CouponHeld, ReferralLocked, CouponLocked, Holding, Redemptions
<1>4. PaidOnceGranted' /\ CouponsWithinCap'
  BY <1>1 DEF RowsInv, PaidOnceGranted, CouponsWithinCap, Redemptions
<1> QED BY <1>2, <1>3, <1>4 DEF RowsInv

LEMMA CompleteStep ==
    ASSUME RowsInv, NEW h \in Handlers, NEW b \in Bookings, Complete(h, b) PROVE RowsInv'
<1> DEFINE t == Task("ready", "grant", b, customer[b], None, {}, {}, 0)
<1>1. customer[b] \in Customers
  BY DEF Complete, RowsInv, TypeOK
<1>2. t \in Tasks /\ t.pc = "ready" /\ t.op = "grant" /\ t.booking = b
  <2>1. /\ "ready" \in Steps /\ "grant" \in Ops /\ 0 \in Int
        /\ {} \in SUBSET Sides /\ {} \in SUBSET Customers
        /\ b \in Bookings \cup {None} /\ None \in Coupons \cup {None}
    BY DEF Steps, Ops
  <2> QED BY <1>1, <2>1, TaskType
<1>3. /\ UNCHANGED <<referral, due, event, qualifying, reward, shortfall, active, customer, payment>>
      /\ UNCHANGED <<stake, redemption, balance, adjusted>> /\ Goto(h, t)
      /\ status' = [status EXCEPT ![b] = "completed"] /\ status[b] = "standing"
  BY DEF Complete, referrals, rewards, wallets
<1> HIDE DEF t
<1>4. TypeOK'
  BY <1>2, <1>3, GotoType DEF RowsInv, TypeOK, BookingStatus
<1>5. TaskFits(t) /\ LocksRight(h, t)
  BY <1>2 DEF TaskFits, LocksRight
<1>6. TasksFit' /\ ReferralHeld' /\ CouponHeld'
  BY <1>2, <1>3, <1>5, LocksStep DEF RowsInv, TypeOK, Redeemed, Redemptions
<1>7. PaidOnceGranted' /\ CouponsWithinCap'
  BY <1>3 DEF RowsInv, PaidOnceGranted, CouponsWithinCap, Redemptions
<1> QED BY <1>4, <1>6, <1>7 DEF RowsInv

LEMMA RefundStep ==
    ASSUME RowsInv, NEW h \in Handlers, NEW b \in Bookings, Refund(h, b) PROVE RowsInv'
<1> DEFINE t == Task("ready", "reverse", b, customer[b], None, {}, {}, 0)
<1>1. customer[b] \in Customers
  BY DEF Refund, RowsInv, TypeOK
<1>2. t \in Tasks /\ t.pc = "ready" /\ t.op = "reverse" /\ t.booking = b
  <2>1. /\ "ready" \in Steps /\ "reverse" \in Ops /\ 0 \in Int
        /\ {} \in SUBSET Sides /\ {} \in SUBSET Customers
        /\ b \in Bookings \cup {None} /\ None \in Coupons \cup {None}
    BY DEF Steps, Ops
  <2> DEFINE u == customer[b]
  <2>2. u \in Customers /\ t = Task("ready", "reverse", b, u, None, {}, {}, 0)
    BY <1>1
  <2> HIDE DEF u, t
  <2>3. Task("ready", "reverse", b, u, None, {}, {}, 0) \in Tasks
    BY <2>1, <2>2, TaskType
  <2>4. /\ Task("ready", "reverse", b, u, None, {}, {}, 0).pc = "ready"
        /\ Task("ready", "reverse", b, u, None, {}, {}, 0).op = "reverse"
        /\ Task("ready", "reverse", b, u, None, {}, {}, 0).booking = b
    BY DEF Task
  <2> QED BY <2>2, <2>3, <2>4
<1>3. /\ UNCHANGED <<referral, due, event, qualifying, reward, shortfall, active, customer, status>>
      /\ UNCHANGED <<stake, redemption, balance, adjusted>> /\ Goto(h, t)
      /\ payment' = [payment EXCEPT ![b] = "refunded"] /\ payment[b] # "none"
  BY DEF Refund, referrals, rewards, wallets
<1> HIDE DEF t
<1>4. TypeOK'
  BY <1>2, <1>3, GotoType DEF RowsInv, TypeOK, PaymentStatus
<1>5. TaskFits(t) /\ LocksRight(h, t)
  BY <1>2 DEF TaskFits, LocksRight
<1>6. TasksFit' /\ ReferralHeld' /\ CouponHeld'
  BY <1>2, <1>3, <1>5, LocksStep DEF RowsInv, TypeOK, Redeemed, Redemptions
<1>7. PaidOnceGranted' /\ CouponsWithinCap'
  BY <1>3 DEF RowsInv, PaidOnceGranted, CouponsWithinCap, Redemptions
<1> QED BY <1>4, <1>6, <1>7 DEF RowsInv

LEMMA CommitHoldStep ==
    ASSUME RowsInv, NEW h \in Handlers, NEW collect \in BOOLEAN, CommitHold(h, collect) PROVE RowsInv'
<1> DEFINE b == local[h].booking
           u == local[h].user
           c == local[h].coupon
           n == local[h].seen[u]
           used == IF collect /\ local[h].wallets # {} THEN Least(local[h].amount, n) ELSE 0
<1>1. /\ local[h] \in Tasks /\ local[h] # Idle /\ local[h].op = "hold" /\ local[h].pc = "commit"
      /\ b \in Bookings /\ u \in Customers /\ n \in Nat /\ local[h].amount \in Nat
      /\ c \in Coupons \cup {None}
  BY SeenType, AmountAssumption DEF CommitHold, At, RowsInv, TasksFit, TaskFits, Tasks
<1>2. used \in Nat /\ n - used >= 0
  BY <1>1 DEF Least
<1>3. /\ UNCHANGED <<referral, due, event, qualifying, reward, shortfall, active, payment, adjusted>>
      /\ status' = [status EXCEPT ![b] = IF used = local[h].amount \/ ~collect THEN "standing" ELSE "held"]
      /\ customer' = [customer EXCEPT ![b] = u]
      /\ stake' = [stake EXCEPT ![b] = used]
      /\ redemption' = [redemption EXCEPT ![b] = c]
      /\ Move(u, n, -used) /\ Goto(h, Idle)
      /\ c # None => ~UsedBy(c, u)
  BY DEF CommitHold, referrals, rewards
<1>4. balance' \in [Customers -> Nat]
  <2>1. -used \in Int /\ n + (-used) >= 0
    BY <1>1, <1>2
  <2> HIDE DEF used, n
  <2> QED BY <1>1, <1>3, <2>1, BalanceType DEF RowsInv
<1>5. local' \in [Handlers -> Tasks \cup {Idle}]
  BY <1>3, GotoType DEF RowsInv
<1>6. TypeOK'
  <2> HIDE DEF used, n
  <2> QED BY <1>1, <1>2, <1>3, <1>4, <1>5 DEF RowsInv, TypeOK, BookingStatus
<1>7. ASSUME NEW d \in Coupons
      PROVE  /\ Redeemed(d) \subseteq Redemptions(d) \cup {b}
             /\ d # c => Redeemed(d) \subseteq Redemptions(d)
             /\ Redeemed(d) \in SUBSET Bookings /\ Redemptions(d) \in SUBSET Bookings
  BY <1>1, <1>3, NamesAssumption DEF Redeemed, Redemptions, RowsInv, TypeOK
<1>8. ASSUME NEW g \in Handlers \ {h}, CouponLocked(g)
      PROVE  local[g].coupon \in Coupons /\ local[g].coupon # c
  BY <1>1, <1>8 DEF RowsInv, TypeOK, Tasks, CouponHeld, CouponLocked, Holding
<1>9. TasksFit' /\ ReferralHeld' /\ CouponHeld'
  BY <1>3, <1>6, <1>7, <1>8, LocksStep DEF TypeOK
<1>10. ASSUME NEW d \in Coupons
       PROVE  /\ Cardinality(Redeemed(d)) <= CapOf(d)
              /\ \A x, y \in Redeemed(d) : customer'[x] = customer'[y] => x = y
  <2>1. /\ Cardinality(Redemptions(d)) <= CapOf(d) /\ CapOf(d) \in Nat
        /\ \A x, y \in Redemptions(d) : customer[x] = customer[y] => x = y
    BY CapType DEF RowsInv, CouponsWithinCap
  <2>2. CASE d = c
    <3>1. Cardinality(Redemptions(d)) < CapOf(d)
      BY <1>1, <2>2, NamesAssumption DEF RowsInv, CouponHeld, CouponLocked, Holding
    <3>2. Cardinality(Redeemed(d)) <= CapOf(d)
      BY <1>1, <1>7, <2>1, <3>1, OneMore
    <3>3. \A x \in Redemptions(d) : customer[x] # u
      BY <1>3, <2>2, NamesAssumption DEF UsedBy
    <3>4. \A x \in Bookings : customer'[x] = IF x = b THEN u ELSE customer[x]
      BY <1>1, <1>3 DEF RowsInv, TypeOK
    <3>5. \A x, y \in Redeemed(d) : customer'[x] = customer'[y] => x = y
      BY <1>7, <2>1, <3>3, <3>4
    <3> QED BY <3>2, <3>5
  <2>3. CASE d # c
    <3>1. Redeemed(d) \in SUBSET Redemptions(d) /\ Redemptions(d) \in SUBSET Bookings
      BY <1>7, <2>3
    <3>2. /\ Cardinality(Redeemed(d)) <= Cardinality(Redemptions(d))
          /\ Cardinality(Redeemed(d)) \in Nat /\ Cardinality(Redemptions(d)) \in Nat
      BY <3>1, Fewer
    <3>3. Cardinality(Redeemed(d)) <= CapOf(d)
      BY <2>1, <3>2
    <3>4. \A x \in Redeemed(d) : x # b
      BY <1>1, <1>3, <2>3 DEF Redeemed, RowsInv, TypeOK
    <3>5. \A x \in Redeemed(d) : customer'[x] = customer[x]
      BY <1>1, <1>3, <3>4 DEF Redeemed, RowsInv, TypeOK
    <3> QED BY <2>1, <3>1, <3>3, <3>5
  <2> QED BY <2>2, <2>3
<1>11. CouponsWithinCap'
  BY <1>10 DEF CouponsWithinCap, Redemptions, Redeemed
<1>12. PaidOnceGranted'
  BY <1>3 DEF RowsInv, PaidOnceGranted
<1> QED BY <1>6, <1>9, <1>11, <1>12 DEF RowsInv

\* A commit that gives u's referral, which is awaiting and which nobody else has locked, its
\* next status.
LEMMA ReferralStep ==
    ASSUME RowsInv, NEW u \in Invitees, NEW s \in {"expired", "cancelled", "awaiting"}, TypeOK',
           referral[u] = "awaiting", referral' = [referral EXCEPT ![u] = s],
           UNCHANGED <<due, event, qualifying, reward, redemption, customer>>
    PROVE  PaidOnceGranted' /\ CouponsWithinCap'
<1>1. PaidOnceGranted'
  BY DEF RowsInv, TypeOK, PaidOnceGranted
<1>2. CouponsWithinCap'
  BY DEF RowsInv, CouponsWithinCap, Redemptions
<1> QED BY <1>1, <1>2

LEMMA ExpireStep ==
    ASSUME RowsInv, NEW h \in Handlers, Expire(h) PROVE RowsInv'
<1> DEFINE u == local[h].user
<1>1. u \in Invitees
  BY DEF Expire, At, RowsInv, TasksFit, TaskFits
<1>2. /\ UNCHANGED <<due, event, qualifying, reward, shortfall, active, status, customer, payment>>
      /\ UNCHANGED <<stake, redemption, balance, adjusted>> /\ Goto(h, Idle) /\ ReferralFree(u)
      /\ referral' = [referral EXCEPT ![u] = IF @ = "awaiting" THEN "expired" ELSE @]
  BY DEF Expire, rewards, bookings, wallets
<1>3. TypeOK'
  BY <1>2, GotoType DEF RowsInv, TypeOK, ReferralStatus
<1>4. \A g \in Handlers : ReferralLocked(g) => local[g].user # u
  BY <1>2 DEF ReferralFree, ReferralLocked, Holding
<1>5. TasksFit' /\ ReferralHeld' /\ CouponHeld'
  BY <1>1, <1>2, <1>3, <1>4, LocksStep DEF RowsInv, TypeOK, Redeemed, Redemptions
<1>6. PaidOnceGranted' /\ CouponsWithinCap'
  <2>1. CASE referral[u] = "awaiting"
    <3>1. referral' = [referral EXCEPT ![u] = "expired"]
      BY <1>2, <2>1
    <3> QED BY <1>1, <1>2, <1>3, <2>1, <3>1, ReferralStep
  <2>2. CASE referral[u] # "awaiting"
    <3>1. referral' = referral
      BY <1>2, <2>2 DEF RowsInv, TypeOK
    <3> QED BY <1>2, <3>1 DEF RowsInv, PaidOnceGranted, CouponsWithinCap, Redemptions
  <2> QED BY <2>1, <2>2
<1> QED BY <1>3, <1>5, <1>6 DEF RowsInv

LEMMA CancelReferralStep ==
    ASSUME RowsInv, NEW u \in Invitees, CancelReferral(u) PROVE RowsInv'
<1>1. /\ UNCHANGED <<due, event, qualifying, reward, shortfall, active, status, customer, payment>>
      /\ UNCHANGED <<stake, redemption, balance, adjusted, local>> /\ ReferralFree(u)
      /\ referral' = [referral EXCEPT ![u] = "cancelled"] /\ referral[u] = "awaiting"
  BY DEF CancelReferral, rewards, bookings, wallets
<1>2. TypeOK'
  BY <1>1 DEF RowsInv, TypeOK, ReferralStatus
<1>3. \A g \in Handlers : ReferralLocked(g) => referral'[local[g].user] = referral[local[g].user]
  BY <1>1 DEF ReferralFree, ReferralLocked, Holding, RowsInv, TypeOK
<1>4. TasksFit' /\ ReferralHeld' /\ CouponHeld'
  BY <1>1, <1>3 DEF RowsInv, TasksFit, ReferralHeld, CouponHeld, ReferralLocked, CouponLocked, Holding,
                    Redemptions
<1> QED BY <1>1, <1>2, <1>4, ReferralStep DEF RowsInv

LEMMA CommitGrantStep ==
    ASSUME RowsInv, NEW h \in Handlers, CommitGrant(h) PROVE RowsInv'
<1> DEFINE u == local[h].user
           b == local[h].booking
<1>1. /\ local[h] \in Tasks /\ local[h] # Idle /\ local[h].op = "grant" /\ local[h].pc = "commit"
      /\ u \in Invitees /\ b \in Bookings /\ local[h].seen \in [Customers -> Nat]
  BY DEF CommitGrant, At, RowsInv, TypeOK, TasksFit, TaskFits, Tasks
<1>2. /\ UNCHANGED <<due, event, shortfall, status, customer, payment, stake, redemption, adjusted>>
      /\ Goto(h, Idle)
      /\ reward' = [x \in Rewarded |-> IF x[1] = u THEN "granted" ELSE reward[x]]
      /\ active' = [c \in Coupons |-> IF c # Platform /\ c[1] = u THEN Kind(c[2]) = "coupon"
                                       ELSE active[c]]
      /\ balance' = [v \in Customers |-> IF WalletSides(u, v) # {} THEN local[h].seen[v] + Value
                                          ELSE balance[v]]
      /\ referral' = [referral EXCEPT ![u] = "granted"]
      /\ qualifying' = [qualifying EXCEPT ![u] = b]
  BY DEF CommitGrant, bookings
<1>3. balance' \in [Customers -> Nat]
  BY <1>1, <1>2, AmountAssumption DEF RowsInv, TypeOK
<1>4. active' \in [Coupons -> BOOLEAN]
  BY <1>2 DEF RowsInv, TypeOK
<1>5. reward' \in [Rewarded -> {"none", "granted", "kept", "reversed"}]
  BY <1>2 DEF RowsInv, TypeOK
<1>6. TypeOK'
  BY <1>1, <1>2, <1>3, <1>4, <1>5, GotoType DEF RowsInv, TypeOK, ReferralStatus
<1>7. \A g \in Handlers \ {h} : ReferralLocked(g) => referral'[local[g].user] = referral[local[g].user]
  BY <1>1, <1>2 DEF RowsInv, TypeOK, ReferralHeld, ReferralLocked, Holding
<1>8. TasksFit' /\ ReferralHeld' /\ CouponHeld'
  BY <1>2, <1>6, <1>7, LocksStep DEF RowsInv, TypeOK, Redeemed, Redemptions
<1>9. PaidOnceGranted'
  <2> SUFFICES ASSUME NEW w \in Invitees, NEW s \in Sides
               PROVE  /\ reward'[<<w, s>>] # "none" <=> referral'[w] = "granted"
                      /\ qualifying'[w] # None <=> referral'[w] = "granted"
    BY DEF PaidOnceGranted
  <2>1. reward'[<<w, s>>] = IF w = u THEN "granted" ELSE reward[<<w, s>>]
    BY <1>2 DEF Rewarded
  <2>2. /\ referral'[w] = IF w = u THEN "granted" ELSE referral[w]
        /\ qualifying'[w] = IF w = u THEN b ELSE qualifying[w]
    BY <1>1, <1>2 DEF RowsInv, TypeOK
  <2> QED BY <1>1, <2>1, <2>2, NamesAssumption DEF RowsInv, PaidOnceGranted
<1>10. CouponsWithinCap'
  BY <1>2 DEF RowsInv, CouponsWithinCap, Redemptions
<1> QED BY <1>6, <1>8, <1>9, <1>10 DEF RowsInv

LEMMA LeastType == \A n \in Nat : Value - Least(Value, n) \in Nat /\ n - Least(Value, n) \in Nat
BY AmountAssumption DEF Least

LEMMA BeneficiaryType == \A u \in Invitees, s \in Sides : Beneficiary(u, s) \in Customers
BY DEF Beneficiary, Customers

LEMMA CommitReverseStep ==
    ASSUME RowsInv, NEW h \in Handlers, CommitReverse(h) PROVE RowsInv'
<1> DEFINE u == local[h].user
           seen == local[h].seen
           voids == local[h].voids
           Of(x) == x[1] = u /\ reward[x] \in {"granted", "kept"}
           Debited(x) == Of(x) /\ Kind(x[2]) = "wallet"
<1>1. /\ local[h] \in Tasks /\ local[h] # Idle /\ seen \in [Customers -> Nat]
  BY DEF CommitReverse, At, RowsInv, TypeOK, Tasks
<1>2. /\ UNCHANGED <<referral, due, event, qualifying, status, customer, payment>>
      /\ UNCHANGED <<stake, redemption, adjusted>> /\ Goto(h, Idle)
      /\ reward' = [x \in Rewarded |->
                        IF ~Of(x) THEN reward[x]
                        ELSE IF Debited(x) \/ x[2] \in voids THEN "reversed" ELSE "kept"]
      /\ shortfall' = [x \in Rewarded |->
                           IF Debited(x) THEN ShortOf(seen[Beneficiary(u, x[2])]) ELSE shortfall[x]]
      /\ active' = [c \in Coupons |-> active[c] /\ ~(c # Platform /\ c[1] = u /\ c[2] \in voids)]
      /\ balance' = [v \in Customers |-> IF v \in local[h].wallets THEN seen[v] - Least(Value, seen[v])
                                         ELSE balance[v]]
  BY DEF CommitReverse, referrals, bookings
<1>3. reward' \in [Rewarded -> {"none", "granted", "kept", "reversed"}]
  BY <1>2 DEF RowsInv, TypeOK
<1>4. shortfall' \in [Rewarded -> Nat]
  <2> SUFFICES ASSUME NEW x \in Rewarded
               PROVE  (IF Debited(x) THEN ShortOf(seen[Beneficiary(u, x[2])]) ELSE shortfall[x]) \in Nat
    BY <1>2
  <2>1. shortfall[x] \in Nat
    BY DEF RowsInv, TypeOK
  <2>2. CASE Debited(x)
    <3>1. u \in Invitees /\ x[2] \in Sides
      BY <2>2 DEF Rewarded
    <3>2. seen[Beneficiary(u, x[2])] \in Nat
      BY <1>1, <3>1, BeneficiaryType
    <3> QED BY <2>2, <3>2, LeastType DEF ShortOf
  <2> QED BY <2>1, <2>2
<1>5. active' \in [Coupons -> BOOLEAN]
  BY <1>2 DEF RowsInv, TypeOK
<1>6. balance' \in [Customers -> Nat]
  <2>1. \A v \in Customers : seen[v] \in Nat /\ seen[v] - Least(Value, seen[v]) \in Nat /\ balance[v] \in Nat
    BY <1>1, LeastType DEF RowsInv, TypeOK
  <2> HIDE DEF seen
  <2> QED BY <1>2, <2>1
<1>7. local' \in [Handlers -> Tasks \cup {Idle}]
  BY <1>2, GotoType DEF RowsInv
<1>8. TypeOK'
  BY <1>2, <1>3, <1>4, <1>5, <1>6, <1>7 DEF RowsInv, TypeOK
<1>9. \A x \in Rewarded : reward'[x] # "none" <=> reward[x] # "none"
  BY <1>2
<1>10. PaidOnceGranted'
  <2>1. \A w \in Invitees, s \in Sides : <<w, s>> \in Rewarded
    BY DEF Rewarded
  <2> QED BY <1>2, <1>9, <2>1 DEF RowsInv, PaidOnceGranted
<1>11. TasksFit' /\ ReferralHeld' /\ CouponHeld'
  BY <1>2, LocksStep DEF RowsInv, TypeOK, Redeemed, Redemptions
<1>12. CouponsWithinCap'
  BY <1>2 DEF RowsInv, CouponsWithinCap, Redemptions
<1> QED BY <1>8, <1>10, <1>11, <1>12 DEF RowsInv

-----------------------------------------------------------------------------
(* The theorems.                                                            *)

LEMMA Base == Init => RowsInv
<1> SUFFICES ASSUME Init PROVE RowsInv
  OBVIOUS
<1>1. TypeOK
  BY DEF Init, TypeOK, ReferralStatus, BookingStatus, PaymentStatus
<1>2. TasksFit /\ ReferralHeld /\ CouponHeld
  BY DEF Init, TasksFit, ReferralHeld, CouponHeld, ReferralLocked, CouponLocked, Holding
<1>3. PaidOnceGranted
  <2>1. \A u \in Invitees, s \in Sides : <<u, s>> \in Rewarded
    BY DEF Rewarded
  <2> QED BY <2>1 DEF Init, PaidOnceGranted
<1>4. CouponsWithinCap
  <2> SUFFICES ASSUME NEW c \in Coupons
               PROVE  /\ Cardinality(Redemptions(c)) <= CapOf(c)
                      /\ \A a, b \in Redemptions(c) : customer[a] = customer[b] => a = b
    BY DEF CouponsWithinCap
  <2>1. Redemptions(c) = {}
    BY NamesAssumption DEF Init, Redemptions
  <2> QED BY <2>1, CapType, FS_EmptySet
<1> QED BY <1>1, <1>2, <1>3, <1>4 DEF RowsInv

LEMMA TransactionStep == ASSUME RowsInv, NEW h \in Handlers, Transaction(h) PROVE RowsInv'
<1>1. CASE LockWallets(h) \/ LockCoupon(h) \/ Rollback(h)
  BY <1>1, LockWalletsStep, LockCouponStep, RollbackStep
<1>2. CASE \E collect \in BOOLEAN : CommitHold(h, collect)
  BY <1>2, CommitHoldStep
<1>3. CASE \E blind \in BOOLEAN : EndUnpaid(h, blind)
  BY <1>3, EndUnpaidStep
<1>4. CASE ApproveUncollected(h) \/ CancelPaid(h) \/ CommitAdjust(h)
  BY <1>4, ApproveUncollectedStep, CancelPaidStep, CommitAdjustStep
<1>5. CASE Expire(h) \/ GrantCompleted(h) \/ CommitGrant(h)
  BY <1>5, ExpireStep, GrantCompletedStep, CommitGrantStep
<1>6. CASE BeginReverse(h) \/ CommitReverse(h)
  BY <1>6, BeginReverseStep, CommitReverseStep
<1> QED BY <1>1, <1>2, <1>3, <1>4, <1>5, <1>6 DEF Transaction

LEMMA Step == RowsInv /\ [Next]_vars => RowsInv'
<1> SUFFICES ASSUME RowsInv, [Next]_vars PROVE RowsInv'
  OBVIOUS
<1>1. ASSUME NEW h \in Handlers, Transaction(h) PROVE RowsInv'
  BY <1>1, TransactionStep
<1>2. ASSUME NEW h \in Handlers, NEW b \in Bookings, NEW u \in Customers,
             NEW c \in Coupons \cup {None}, NEW w \in BOOLEAN, CreateHold(h, b, u, c, w)
      PROVE  RowsInv'
  BY <1>2, CreateHoldStep
<1>3. ASSUME NEW h \in Handlers, NEW b \in Bookings,
             BeginRelease(h, b) \/ Complete(h, b) \/ Refund(h, b)
      PROVE  RowsInv'
  BY <1>3, BeginReleaseStep, CompleteStep, RefundStep
<1>4. ASSUME NEW h \in Handlers, NEW u \in Customers, NEW n \in {-1, 1}, Adjust(h, u, n)
      PROVE  RowsInv'
  BY <1>4, AdjustStep
<1>5. ASSUME NEW h \in Handlers, NEW u \in Invitees, SelectExpired(h, u) PROVE RowsInv'
  BY <1>5, SelectExpiredStep
<1>6. ASSUME NEW h \in Handlers, NEW u \in Invitees, NEW b \in Bookings, SweepGrant(h, u, b)
      PROVE  RowsInv'
  BY <1>6, SweepGrantStep
<1>7. ASSUME NEW b \in Bookings, Pay(b) \/ Forfeit(b) PROVE RowsInv'
  BY <1>7, PayStep, ForfeitStep
<1>8. ASSUME NEW u \in Invitees, FallDue(u) \/ CancelReferral(u) PROVE RowsInv'
  BY <1>8, FallDueStep, CancelReferralStep
<1>9. CASE UNCHANGED vars
  <2>1. UNCHANGED <<referrals, reward, redemption>> /\ customer' = customer /\ UNCHANGED local
    BY <1>9 DEF vars, rewards, bookings
  <2>2. TypeOK'
    BY <1>9 DEF vars, referrals, rewards, bookings, wallets, RowsInv, TypeOK
  <2> QED BY <2>1, <2>2, PlainStep
<1> QED BY <1>1, <1>2, <1>3, <1>4, <1>5, <1>6, <1>7, <1>8, <1>9 DEF Next

\* For any number of customers, bookings and transactions at once, what a transaction took a
\* row lock on is still as it read it when it commits.
THEOREM RowsInvariant == Spec => []RowsInv
<1> QED BY Base, Step, PTL DEF Spec

\* Every balance, stake and shortfall stays a natural number: no debit, release or reversal
\* overdraws a wallet.
THEOREM TypeCorrect == Spec => []TypeOK
<1>1. RowsInv => TypeOK
  BY DEF RowsInv
<1> QED BY <1>1, RowsInvariant, PTL

\* A referral pays both of its sides or none, and pays only while it is awaiting.
THEOREM PaidOnce == Spec => []PaidOnceGranted
<1>1. RowsInv => PaidOnceGranted
  BY DEF RowsInv
<1> QED BY <1>1, RowsInvariant, PTL

\* No interleaving of bookings, at whatever salons, redeems a coupon beyond its cap or twice
\* for one customer.
THEOREM WithinCap == Spec => []CouponsWithinCap
<1>1. RowsInv => CouponsWithinCap
  BY DEF RowsInv
<1> QED BY <1>1, RowsInvariant, PTL

-----------------------------------------------------------------------------
(* Sums of money.                                                           *)

LEMMA UpTo == \A n \in Nat : IsFiniteSet(1..n) /\ Cardinality(1..n) = n
<1> TAKE n \in Nat
<1>1. IsFiniteSet(1..n) /\ Cardinality(1..n) = IF 1 > n THEN 0 ELSE n - 1 + 1
  BY FS_Interval
<1> QED BY <1>1

\* A sum over finitely many is a number, and depends on no other value of the function.
LEMMA TotalType ==
    ASSUME NEW S, IsFiniteSet(S), NEW f, \A x \in S : f[x] \in Nat
    PROVE  IsFiniteSet(Units(f, S)) /\ Total(f, S) \in Nat
<1> DEFINE Of(x) == {x} \X (1..f[x])
           F == [x \in S |-> Of(x)]
           R == {Of(x) : x \in S}
<1>1. F \in Surjection(S, R)
  BY DEF Surjection
<1>2. IsFiniteSet(R)
  BY <1>1, FS_Surjection
<1>3. ASSUME NEW x \in S PROVE IsFiniteSet(Of(x))
  <2>1. IsFiniteSet({x}) /\ IsFiniteSet(1..f[x])
    BY FS_Singleton, UpTo
  <2> QED BY <2>1, FS_Product
<1>4. \A T \in R : IsFiniteSet(T)
  BY <1>3
<1> HIDE DEF R
<1>5. IsFiniteSet(UNION R)
  BY <1>2, <1>4, FS_UNION
<1>6. IsFiniteSet(Units(f, S))
  BY <1>5 DEF Units, R
<1> QED BY <1>6, FS_CardinalityType DEF Total

LEMMA TotalSame ==
    ASSUME NEW S, NEW f, NEW g, \A x \in S : f[x] = g[x]
    PROVE  Total(f, S) = Total(g, S)
<1>1. Units(f, S) = Units(g, S)
  BY DEF Units
<1> QED BY <1>1 DEF Total

\* A sum is that of one more, and of the others.
LEMMA TotalSplit ==
    ASSUME NEW S, IsFiniteSet(S), NEW y \in S, NEW f, \A x \in S : f[x] \in Nat
    PROVE  Total(f, S) = Total(f, S \ {y}) + f[y]
<1> DEFINE P == {y} \X (1..f[y])
           Q == Units(f, S \ {y})
<1>1. IsFiniteSet(S \ {y})
  BY FS_Difference
<1>2. IsFiniteSet(Q) /\ Cardinality(Q) \in Nat
  BY <1>1, TotalType DEF Total
<1>3. /\ IsFiniteSet({y}) /\ Cardinality({y}) = 1
      /\ IsFiniteSet(1..f[y]) /\ Cardinality(1..f[y]) = f[y]
  BY FS_Singleton, UpTo
<1>4. IsFiniteSet(P) /\ Cardinality(P) = 1 * f[y]
  BY <1>3, FS_Product
<1>5. Units(f, S) = Q \cup P
  BY DEF Units
<1>6. Q \cap P = {}
  BY DEF Units
<1>7. Cardinality(Q \cap P) = 0
  BY <1>6, FS_EmptySet
<1> HIDE DEF P, Q
<1>8. Cardinality(Q \cup P) = Cardinality(Q) + Cardinality(P) - Cardinality(Q \cap P)
  BY <1>2, <1>4, FS_Union
<1>9. f[y] \in Nat
  OBVIOUS
<1> QED BY <1>2, <1>4, <1>5, <1>7, <1>8, <1>9 DEF Total, Q

\* What one change does to a sum.
LEMMA TotalChange ==
    ASSUME NEW S, IsFiniteSet(S), NEW y \in S, NEW f, NEW g,
           \A x \in S : f[x] \in Nat /\ g[x] \in Nat,
           \A x \in S \ {y} : g[x] = f[x]
    PROVE  Total(g, S) - g[y] = Total(f, S) - f[y]
<1>1. Total(f, S) = Total(f, S \ {y}) + f[y] /\ Total(g, S) = Total(g, S \ {y}) + g[y]
  BY TotalSplit
<1>2. Total(f, S \ {y}) = Total(g, S \ {y})
  BY TotalSame
<1>3. Total(f, S \ {y}) \in Nat
  BY FS_Difference, TotalType
<1>4. f[y] \in Nat /\ g[y] \in Nat
  OBVIOUS
<1> QED BY <1>1, <1>2, <1>3, <1>4

-----------------------------------------------------------------------------
(* What the other transactions know.                                        *)

\* The rows that a transaction at t knows of are left as it needs them.
RowsKept(t) ==
    /\ t.op = "hold" => status'[t.booking] = "none"
    /\ t.op \in {"release", "cancel"} =>
          /\ status'[t.booking] # "none" /\ customer'[t.booking] = customer[t.booking]
          /\ stake'[t.booking] \in {stake[t.booking], 0}
    /\ t.op = "reverse" /\ t.pc \in {"wallet", "commit"} =>
          \A s \in Sides : reward'[<<t.user, s>>] = reward[<<t.user, s>>]
    /\ t.pc = "commit" => \A v \in t.wallets : balance'[v] = balance[v]

LEMMA KeptFits ==
    ASSUME NEW r, MoneyFits(r), RowsKept(r) PROVE MoneyFits(r)'
<1>1. r.op = "reverse" /\ r.pc \in {"wallet", "commit"} => WalletsToDebit(r.user)' = WalletsToDebit(r.user)
  <2> SUFFICES ASSUME r.op = "reverse", r.pc \in {"wallet", "commit"} 
               PROVE  WalletsToDebit(r.user)' = WalletsToDebit(r.user)
    OBVIOUS
  <2>1. Given(r.user)' = Given(r.user)
    BY DEF RowsKept, Given
  <2> QED BY <2>1 DEF WalletsToDebit, WalletSides, Kind, Beneficiary
<1>2. r.op \in {"release", "cancel"} => stake'[r.booking] \in {r.amount, 0}
  BY DEF RowsKept, MoneyFits
<1>3. r.op = "grant" /\ r.pc \in {"wallet", "commit"} =>
          r.wallets = {Referrer} \cup {v \in {r.user} : WalletSides(r.user, v)' # {}}
  BY DEF MoneyFits, WalletSides, Kind, Beneficiary
<1> QED BY <1>1, <1>2, <1>3 DEF MoneyFits, RowsKept

\* One transaction goes on as t, and leaves the rows of the others alone.
LEMMA MoneyOthers ==
    ASSUME IInv, NEW h \in Handlers, NEW t \in Tasks \cup {Idle}, Goto(h, t),
           t # Idle => /\ MoneyFits(t)'
                       /\ \A g \in Handlers \ {h} : local[g] # Idle => Apart(t, local[g]),
           \A g \in Handlers \ {h} : local[g] # Idle => RowsKept(local[g])
    PROVE  MoneyHeld' /\ TasksApart'
<1>1. local'[h] = t /\ \A g \in Handlers \ {h} : local'[g] = local[g]
  BY GotoType DEF IInv, RowsInv
<1>2. MoneyHeld'
  <2> SUFFICES ASSUME NEW g \in Handlers, local'[g] # Idle,
                      NEW r, r = local'[g]
               PROVE  MoneyFits(r)'
    BY DEF MoneyHeld
  <2>1. CASE g = h
    BY <1>1, <2>1
  <2>2. CASE g # h
    BY <1>1, <2>2, KeptFits DEF IInv, MoneyInv, MoneyHeld
  <2> QED BY <2>1, <2>2
<1>3. TasksApart'
  BY <1>1 DEF IInv, MoneyInv, TasksApart, Apart
<1> QED BY <1>2, <1>3

\* The rows that change while h steps are its own.
OwnRows(h) ==
    /\ \A b \in Bookings :
          \/ status'[b] = status[b] /\ customer'[b] = customer[b] /\ stake'[b] = stake[b]
          \/ /\ status[b] # "none" /\ status'[b] # "none" /\ customer'[b] = customer[b]
             /\ stake'[b] \in {stake[b], 0}
          \/ At(h, "commit", "hold") /\ local[h].booking = b
    /\ \A u \in Invitees, s \in Sides :
          reward'[<<u, s>>] = reward[<<u, s>>] \/ (ReferralLocked(h) /\ local[h].user = u)
    /\ \A v \in Customers :
          balance'[v] = balance[v] \/ (local[h] # Idle /\ local[h].pc = "commit" /\ v \in local[h].wallets)

LEMMA OwnRowsKept ==
    ASSUME IInv, NEW h \in Handlers, OwnRows(h), NEW g \in Handlers \ {h}, local[g] # Idle
    PROVE  RowsKept(local[g])
<1> DEFINE t == local[g]
<1>1. t \in Tasks /\ MoneyFits(t) /\ TaskFits(t) /\ (local[h] # Idle => Apart(local[h], t))
  BY DEF IInv, RowsInv, TypeOK, TasksFit, MoneyInv, MoneyHeld, TasksApart
<1>2. t.op = "hold" => status'[t.booking] = "none"
  BY <1>1 DEF OwnRows, TaskFits, MoneyFits, Apart, At
<1>3. t.op \in {"release", "cancel"} =>
          /\ status'[t.booking] # "none" /\ customer'[t.booking] = customer[t.booking]
          /\ stake'[t.booking] \in {stake[t.booking], 0}
  <2> SUFFICES ASSUME t.op \in {"release", "cancel"}
               PROVE  /\ status'[t.booking] # "none" /\ customer'[t.booking] = customer[t.booking]
                      /\ stake'[t.booking] \in {stake[t.booking], 0}
    OBVIOUS
  <2>1. t.booking \in Bookings /\ status[t.booking] # "none"
    BY <1>1 DEF TaskFits, MoneyFits
  <2>2. ~(At(h, "commit", "hold") /\ local[h].booking = t.booking)
    BY <2>1 DEF At, IInv, MoneyInv, MoneyHeld, MoneyFits
  <2> QED BY <2>1, <2>2 DEF OwnRows
<1>4. t.op = "reverse" /\ t.pc \in {"wallet", "commit"} =>
          \A s \in Sides : reward'[<<t.user, s>>] = reward[<<t.user, s>>]
  <2> SUFFICES ASSUME t.op = "reverse", t.pc \in {"wallet", "commit"}, NEW s \in Sides
               PROVE  reward'[<<t.user, s>>] = reward[<<t.user, s>>]
    OBVIOUS
  <2>1. t.user \in Invitees
    BY <1>1 DEF TaskFits
  <2>2. ReferralLocked(g)
    BY <1>1 DEF ReferralLocked, Holding, Tasks, Steps, IInv, RowsInv, TasksFit, TaskFits
  <2>3. ~(ReferralLocked(h) /\ local[h].user = t.user)
    BY <2>2 DEF IInv, RowsInv, ReferralHeld
  <2> QED BY <2>1, <2>3 DEF OwnRows
<1>5. t.pc = "commit" => \A v \in t.wallets : balance'[v] = balance[v]
  BY <1>1 DEF OwnRows, Apart, Tasks
<1> QED BY <1>2, <1>3, <1>4, <1>5 DEF RowsKept

LEMMA LeftsSame ==
    ASSUME UNCHANGED <<reward, shortfall>> PROVE Lefts' = Lefts
BY DEF Lefts, Left, Kind

\* A step that only moves one transaction on.
LEMMA QuietMoney ==
    ASSUME IInv, NEW h \in Handlers, NEW t \in Tasks \cup {Idle}, Goto(h, t),
           UNCHANGED <<referrals, rewards, bookings, stake, redemption, wallets>>,
           t # Idle => /\ MoneyFits(t)
                       /\ \A g \in Handlers \ {h} : local[g] # Idle => Apart(t, local[g])
    PROVE  MoneyInv'
<1>1. UNCHANGED <<reward, shortfall, status, customer, stake, balance, adjusted>>
  BY DEF rewards, bookings, wallets
<1>2. OwnRows(h)
  BY <1>1 DEF OwnRows
<1>3. t # Idle => MoneyFits(t)'
  BY <1>1 DEF MoneyFits, WalletsToDebit, Given, WalletSides, Kind, Beneficiary
<1>4. MoneyHeld' /\ TasksApart'
  BY <1>2, <1>3, MoneyOthers, OwnRowsKept
<1>5. UnmadeBlank'
  BY <1>1 DEF IInv, MoneyInv, UnmadeBlank
<1>6. MoneyConserved'
  BY <1>1, LeftsSame DEF IInv, MoneyInv, MoneyConserved, Staked, PaidIn, Total, Units, Beneficiary
<1> QED BY <1>4, <1>5, <1>6 DEF MoneyInv

-----------------------------------------------------------------------------
(* The steps that move one transaction on.                                  *)

\* What h has found out stands, so do the locks it has.
LEMMA OnTask ==
    ASSUME IInv, NEW h \in Handlers, local[h] # Idle
    PROVE  /\ local[h] \in Tasks /\ TaskFits(local[h]) /\ MoneyFits(local[h])
           /\ \A g \in Handlers \ {h} : local[g] # Idle => Apart(local[h], local[g])
BY DEF IInv, RowsInv, TypeOK, TasksFit, MoneyInv, MoneyHeld, TasksApart

LEMMA LockWalletsMoney ==
    ASSUME IInv, NEW h \in Handlers, LockWallets(h) PROVE MoneyInv'
<1> DEFINE seen == [v \in Customers |-> IF v \in local[h].wallets THEN balance[v] ELSE 0]
           t == [local[h] EXCEPT !.pc = "commit", !.seen = seen]
<1>1. local[h] # Idle /\ local[h].pc = "wallet" /\ Goto(h, t)
  BY DEF LockWallets
<1>2. local[h] \in Tasks /\ MoneyFits(local[h])
  BY <1>1, OnTask
<1>3. seen \in [Customers -> Nat]
  BY DEF IInv, RowsInv, TypeOK
<1>4. /\ t \in Tasks /\ t.pc = "commit" /\ t.op = local[h].op /\ t.user = local[h].user
      /\ t.wallets = local[h].wallets /\ t.amount = local[h].amount /\ t.booking = local[h].booking
      /\ t.seen = seen
  BY <1>2, <1>3 DEF Tasks, Steps
<1>5. MoneyFits(t)
  BY <1>1, <1>2, <1>4 DEF MoneyFits, Tasks
<1>6. ASSUME NEW g \in Handlers \ {h}, local[g] # Idle PROVE Apart(t, local[g])
  <2>1. Apart(local[h], local[g])
    BY <1>1, <1>6, OnTask
  <2>2. local[g].pc = "commit" => t.wallets \cap local[g].wallets = {}
    BY <1>4, <1>6, OnTask DEF LockWallets, WalletFree, Holding, Tasks
  <2> QED BY <1>4, <2>1, <2>2 DEF Apart
<1> HIDE DEF t
<1> QED BY <1>1, <1>4, <1>5, <1>6, QuietMoney DEF LockWallets

LEMMA RollbackMoney ==
    ASSUME IInv, NEW h \in Handlers, Rollback(h) PROVE MoneyInv'
BY QuietMoney DEF Rollback

LEMMA CreateHoldMoney ==
    ASSUME IInv, NEW h \in Handlers, NEW b \in Bookings, NEW u \in Customers,
           NEW c \in Coupons \cup {None}, NEW w \in BOOLEAN, CreateHold(h, b, u, c, w)
    PROVE  MoneyInv'
<1> DEFINE ws == IF w THEN {u} ELSE {}
           pc == IF c = None THEN Then(ws) ELSE "coupon"
           t == Task(pc, "hold", b, u, c, {}, ws, Deposit)
<1>1. pc \in Steps /\ "hold" \in Ops /\ {} \in SUBSET Sides /\ ws \in SUBSET Customers /\ Deposit \in Int
  BY ThenStep, AmountAssumption DEF Steps, Ops
<1>2. t \in Tasks /\ t.pc = pc /\ t.op = "hold" /\ t.booking = b /\ t.user = u /\ t.wallets = ws
  <2> HIDE DEF pc, ws
  <2>1. t \in Tasks /\ t.pc = pc /\ t.op = "hold" /\ t.booking = b /\ t.user = u
    BY <1>1, TaskType
  <2> QED BY <2>1, TaskWallets
<1>3. t.pc = "commit" => t.wallets = {}
  BY <1>2 DEF Then
<1>4. MoneyFits(t)
  BY <1>2, <1>3 DEF CreateHold, MoneyFits
<1>5. ASSUME NEW g \in Handlers \ {h}, local[g] # Idle PROVE Apart(t, local[g])
  BY <1>2, <1>3, <1>5 DEF CreateHold, Ongoing, Apart
<1>6. Goto(h, t) /\ UNCHANGED <<referrals, rewards, bookings, stake, redemption, wallets>>
  BY DEF CreateHold
<1> HIDE DEF t
<1> QED BY <1>2, <1>4, <1>5, <1>6, QuietMoney

LEMMA LockCouponMoney ==
    ASSUME IInv, NEW h \in Handlers, LockCoupon(h) PROVE MoneyInv'
<1> DEFINE t == [local[h] EXCEPT !.pc = Then(local[h].wallets)]
<1>1. local[h] # Idle /\ local[h].op = "hold" /\ Goto(h, t)
  BY DEF LockCoupon, At
<1>2. local[h] \in Tasks /\ MoneyFits(local[h])
  BY <1>1, OnTask
<1>3. /\ t \in Tasks /\ t.pc = Then(local[h].wallets) /\ t.op = "hold" /\ t.user = local[h].user
      /\ t.wallets = local[h].wallets /\ t.booking = local[h].booking
  BY <1>1, <1>2, ThenStep DEF Tasks, Steps
<1>4. t.pc = "commit" => t.wallets = {}
  BY <1>3 DEF Then
<1>5. MoneyFits(t)
  BY <1>1, <1>2, <1>3, <1>4 DEF MoneyFits
<1>6. ASSUME NEW g \in Handlers \ {h}, local[g] # Idle PROVE Apart(t, local[g])
  <2>1. Apart(local[h], local[g])
    BY <1>1, <1>6, OnTask
  <2> QED BY <1>1, <1>3, <1>4, <2>1 DEF Apart
<1> HIDE DEF t
<1> QED BY <1>1, <1>3, <1>5, <1>6, QuietMoney DEF LockCoupon

LEMMA BeginReleaseMoney ==
    ASSUME IInv, NEW h \in Handlers, NEW b \in Bookings, BeginRelease(h, b) PROVE MoneyInv'
<1> DEFINE ws == IF stake[b] > 0 THEN {customer[b]} ELSE {}
           op == IF status[b] = "held" THEN "release" ELSE "cancel"
           t == Task(Then(ws), op, b, customer[b], None, {}, ws, stake[b])
<1>1. /\ customer[b] \in Customers /\ ws \in SUBSET Customers /\ stake[b] \in Int
      /\ op \in Ops /\ Then(ws) \in Steps
  BY ThenStep DEF BeginRelease, IInv, RowsInv, TypeOK, Ops, Steps
<1>2. /\ t \in Tasks /\ t.pc = Then(ws) /\ t.op = op /\ t.booking = b /\ t.user = customer[b]
      /\ t.amount = stake[b] /\ t.wallets = ws
  <2> DEFINE u == customer[b]
             n == stake[b]
  <2>1. /\ b \in Bookings \cup {None} /\ None \in Coupons \cup {None} /\ {} \in SUBSET Sides
        /\ u \in Customers /\ n \in Int /\ t = Task(Then(ws), op, b, u, None, {}, ws, n)
    BY <1>1
  <2> HIDE DEF ws, op, u, n, t
  <2>2. /\ Task(Then(ws), op, b, u, None, {}, ws, n) \in Tasks
        /\ Task(Then(ws), op, b, u, None, {}, ws, n).pc = Then(ws)
    BY <1>1, <2>1, TaskType
  <2>3. /\ Task(Then(ws), op, b, u, None, {}, ws, n).op = op
        /\ Task(Then(ws), op, b, u, None, {}, ws, n).booking = b
        /\ Task(Then(ws), op, b, u, None, {}, ws, n).user = u
        /\ Task(Then(ws), op, b, u, None, {}, ws, n).amount = n
        /\ Task(Then(ws), op, b, u, None, {}, ws, n).wallets = ws
    BY DEF Task
  <2> QED BY <2>1, <2>2, <2>3 DEF u, n
<1>3. t.pc = "commit" => t.wallets = {}
  BY <1>2 DEF Then
<1>4. MoneyFits(t)
  BY <1>2, <1>3 DEF BeginRelease, MoneyFits
<1>5. ASSUME NEW g \in Handlers \ {h}, local[g] # Idle PROVE Apart(t, local[g])
  BY <1>2, <1>3 DEF Apart
<1>6. Goto(h, t) /\ UNCHANGED <<referrals, rewards, bookings, stake, redemption, wallets>>
  BY DEF BeginRelease
<1> HIDE DEF t
<1> QED BY <1>2, <1>4, <1>5, <1>6, QuietMoney

LEMMA AdjustMoney ==
    ASSUME IInv, NEW h \in Handlers, NEW u \in Customers, NEW n \in {-1, 1}, Adjust(h, u, n)
    PROVE  MoneyInv'
<1> DEFINE t == Task("wallet", "adjust", None, u, None, {}, {u}, n)
<1>1. t \in Tasks /\ t.pc = "wallet" /\ t.op = "adjust" /\ t.user = u /\ t.wallets = {u}
  <2>1. t \in Tasks
    BY TaskType DEF Steps, Ops
  <2> QED BY <2>1 DEF Task
<1>2. MoneyFits(t) /\ \A g \in Handlers \ {h} : local[g] # Idle => Apart(t, local[g])
  BY <1>1 DEF MoneyFits, Apart
<1>3. Goto(h, t) /\ UNCHANGED <<referrals, rewards, bookings, stake, redemption, wallets>>
  BY DEF Adjust
<1> HIDE DEF t
<1> QED BY <1>1, <1>2, <1>3, QuietMoney

LEMMA SelectExpiredMoney ==
    ASSUME IInv, NEW h \in Handlers, NEW u \in Invitees, SelectExpired(h, u) PROVE MoneyInv'
<1> DEFINE t == Task("ready", "expire", None, u, None, {}, {}, 0)
<1>1. t \in Tasks /\ t.pc = "ready" /\ t.op = "expire"
  BY TaskType DEF Steps, Ops, Customers
<1>2. MoneyFits(t) /\ \A g \in Handlers \ {h} : local[g] # Idle => Apart(t, local[g])
  BY <1>1 DEF MoneyFits, Apart
<1>3. Goto(h, t) /\ UNCHANGED <<referrals, rewards, bookings, stake, redemption, wallets>>
  BY DEF SelectExpired
<1> HIDE DEF t
<1> QED BY <1>1, <1>2, <1>3, QuietMoney

LEMMA BeginGrantMoney ==
    ASSUME IInv, NEW h \in Handlers, NEW u \in Invitees, NEW b \in Bookings, BeginGrant(h, u, b)
    PROVE  MoneyInv'
<1> DEFINE ws == {Referrer} \cup {v \in {u} : WalletSides(u, v) # {}}
           t == Task("wallet", "grant", b, u, None, {}, ws, 0)
<1>1. ws \in SUBSET Customers /\ u \in Customers
  BY DEF Customers
<1>2. t \in Tasks /\ t.pc = "wallet" /\ t.op = "grant" /\ t.user = u /\ t.wallets = ws
  <2> HIDE DEF ws
  <2>1. t \in Tasks
    BY <1>1, TaskType DEF Steps, Ops
  <2> QED BY <2>1 DEF Task
<1>3. MoneyFits(t) /\ \A g \in Handlers \ {h} : local[g] # Idle => Apart(t, local[g])
  BY <1>2 DEF MoneyFits, Apart
<1>4. Goto(h, t) /\ UNCHANGED <<referrals, rewards, bookings, stake, redemption, wallets>>
  BY DEF BeginGrant
<1> HIDE DEF t
<1> QED BY <1>2, <1>3, <1>4, QuietMoney

LEMMA GrantCompletedMoney ==
    ASSUME IInv, NEW h \in Handlers, GrantCompleted(h) PROVE MoneyInv'
<1>1. local[h].user \in Invitees /\ local[h].booking \in Bookings
  BY OnTask DEF GrantCompleted, At, TaskFits
<1> QED BY <1>1, BeginGrantMoney DEF GrantCompleted

LEMMA BeginReverseMoney ==
    ASSUME IInv, NEW h \in Handlers, BeginReverse(h) PROVE MoneyInv'
<1> DEFINE u == local[h].user
           b == local[h].booking
           ws == WalletsToDebit(u)
           voids == {s \in Given(u) : Kind(s) = "coupon" /\ Redemptions(<<u, s>>) = {}}
           t == Task(Then(ws), "reverse", b, u, None, voids, ws, 0)
<1>1. /\ Goto(h, t) /\ UNCHANGED <<referrals, rewards, bookings, stake, redemption, wallets>>
      /\ u \in Invitees
  BY DEF BeginReverse, WalletsToDebit, Given
<1>2. b \in Bookings /\ u \in Customers
  BY <1>1, OnTask DEF BeginReverse, At, TaskFits, Customers
<1>3. voids \in SUBSET Sides /\ ws \in SUBSET Customers /\ Then(ws) \in Steps /\ "reverse" \in Ops
  BY ThenStep DEF Given, WalletsToDebit, Steps, Ops
<1>4. t \in Tasks /\ t.pc = Then(ws) /\ t.op = "reverse" /\ t.user = u /\ t.wallets = ws
  <2> HIDE DEF voids, ws, u, b
  <2>1. t \in Tasks
    BY <1>2, <1>3, TaskType
  <2> QED BY <2>1 DEF Task
<1>5. t.pc = "commit" => t.wallets = {}
  BY <1>4 DEF Then
<1>6. MoneyFits(t) /\ \A g \in Handlers \ {h} : local[g] # Idle => Apart(t, local[g])
  BY <1>4, <1>5 DEF MoneyFits, Apart
<1> HIDE DEF t
<1> QED BY <1>1, <1>4, <1>6, QuietMoney

-----------------------------------------------------------------------------
(* What a change of one row does to the sums.                               *)

\* The sums of v are over finitely many bookings and rewards.
Booked(v) == {b \in Bookings : customer[b] = v}
RewardsOf(v) == {x \in Rewarded : Beneficiary(x[1], x[2]) = v}

LEMMA BookedFinite == \A v : IsFiniteSet(Booked(v)) /\ Booked(v) \subseteq Bookings
<1> TAKE v
<1>1. Booked(v) \subseteq Bookings
  BY DEF Booked
<1> QED BY <1>1, FiniteAssumption, FS_Subset

LEMMA RewardsFinite == \A v : IsFiniteSet(RewardsOf(v)) /\ RewardsOf(v) \subseteq Rewarded
<1> TAKE v
<1>1. IsFiniteSet({"referrer"}) 
  BY FS_Singleton
<1>2. Sides = {"referrer"} \cup {"referred"}
  BY DEF Sides
<1>3. IsFiniteSet(Sides)
  BY <1>1, <1>2, FS_AddElement
<1>4. IsFiniteSet(Rewarded)
  BY <1>3, FiniteAssumption, FS_Product DEF Rewarded
<1>5. RewardsOf(v) \subseteq Rewarded
  BY DEF RewardsOf
<1> QED BY <1>4, <1>5, FS_Subset

LEMMA LeftType == TypeOK => \A x \in Rewarded : Lefts[x] = Left(x) /\ Left(x) \in Nat
BY AmountAssumption DEF Lefts, Left, TypeOK

\* The sums are numbers, and conservation is a statement about them.
LEMMA SumTypes ==
    ASSUME TypeOK, NEW v \in Customers
    PROVE  /\ Staked(v) = Total(stake, Booked(v)) /\ Staked(v) \in Nat
           /\ PaidIn(v) = Total(Lefts, RewardsOf(v)) /\ PaidIn(v) \in Nat
           /\ balance[v] \in Nat /\ adjusted[v] \in Int
<1>1. \A b \in Booked(v) : stake[b] \in Nat
  BY DEF Booked, TypeOK
<1>2. Total(stake, Booked(v)) \in Nat
  BY <1>1, BookedFinite, TotalType
<1>3. \A x \in RewardsOf(v) : Lefts[x] \in Nat
  BY LeftType, RewardsFinite
<1>4. Total(Lefts, RewardsOf(v)) \in Nat
  BY <1>3, RewardsFinite, TotalType
<1> QED BY <1>2, <1>4 DEF Staked, PaidIn, Booked, RewardsOf, TypeOK

LEMMA PaidInSame ==
    ASSUME UNCHANGED <<reward, shortfall>>, NEW v PROVE PaidIn(v)' = PaidIn(v)
BY LeftsSame DEF PaidIn, Total, Units, Beneficiary

LEMMA StakedSame ==
    ASSUME UNCHANGED <<customer, stake>>, NEW v PROVE Staked(v)' = Staked(v)
BY DEF Staked, Total, Units

\* No money moves.
LEMMA MoneySame ==
    ASSUME MoneyConserved, UNCHANGED <<customer, stake, reward, shortfall, balance, adjusted>>
    PROVE  MoneyConserved'
BY PaidInSame, StakedSame DEF MoneyConserved

\* What is staked on a booking goes down to n, or up, and the wallet of its customer pays.
LEMMA StakeMoves ==
    ASSUME IInv, NEW b \in Bookings, NEW u \in Customers, customer[b] = u, customer' = customer,
           NEW n \in Nat, stake' = [stake EXCEPT ![b] = n],
           balance' = [balance EXCEPT ![u] = balance[u] + stake[b] - n],
           UNCHANGED <<reward, shortfall, adjusted>>
    PROVE  MoneyConserved'
<1> SUFFICES ASSUME NEW v \in Customers
             PROVE  balance'[v] + Staked(v)' = adjusted'[v] + PaidIn(v)'
  BY DEF MoneyConserved
<1> DEFINE S == Booked(v)
<1>1. TypeOK /\ balance[v] + Staked(v) = adjusted[v] + PaidIn(v)
  BY DEF IInv, RowsInv, MoneyInv, MoneyConserved
<1>2. PaidIn(v)' = PaidIn(v) /\ adjusted' = adjusted
  BY PaidInSame
<1>3. Staked(v)' = Total(stake', S) /\ Staked(v) = Total(stake, S)
  BY DEF Staked, Total, Units, Booked
<1>4. /\ \A x \in S : stake[x] \in Nat /\ stake'[x] \in Nat
      /\ \A x \in S \ {b} : stake'[x] = stake[x]
      /\ IsFiniteSet(S) /\ stake'[b] = n /\ stake[b] \in Nat
  BY <1>1, BookedFinite DEF TypeOK, Booked
<1>5. /\ Total(stake, S) \in Nat /\ Total(stake', S) \in Nat /\ PaidIn(v) \in Nat
      /\ balance[v] \in Nat /\ adjusted[v] \in Int
  BY <1>1, <1>4, SumTypes, TotalType
<1>6. CASE v = u
  <2>1. b \in S
    BY <1>6 DEF Booked
  <2>2. Total(stake', S) - stake'[b] = Total(stake, S) - stake[b]
    <3> DEFINE new == stake'
    <3>1. \A x \in S : stake[x] \in Nat /\ new[x] \in Nat
      BY <1>4
    <3>2. \A x \in S \ {b} : new[x] = stake[x]
      BY <1>4
    <3> HIDE DEF S, new
    <3>3. Total(new, S) - new[b] = Total(stake, S) - stake[b]
      BY <1>4, <2>1, <3>1, <3>2, TotalChange
    <3> QED BY <3>3 DEF new
  <2>3. balance'[v] = balance[v] + stake[b] - n
    BY <1>1, <1>6 DEF TypeOK
  <2> HIDE DEF S
  <2> QED BY <1>1, <1>2, <1>3, <1>4, <1>5, <2>2, <2>3
<1>7. CASE v # u
  <2>1. \A x \in S : stake'[x] = stake[x]
    BY <1>4, <1>7 DEF Booked
  <2>2. Total(stake', S) = Total(stake, S)
    <3> HIDE DEF S
    <3> QED BY <2>1, TotalSame
  <2>3. balance'[v] = balance[v]
    BY <1>1, <1>7 DEF TypeOK
  <2> QED BY <1>1, <1>2, <1>3, <2>2, <2>3
<1> QED BY <1>6, <1>7

\* A booking is made for u, who stakes n on it.
LEMMA StakeMade ==
    ASSUME IInv, NEW b \in Bookings, NEW u \in Customers, customer[b] = None,
           customer' = [customer EXCEPT ![b] = u],
           NEW n \in Nat, stake' = [stake EXCEPT ![b] = n],
           balance' = [balance EXCEPT ![u] = balance[u] - n],
           UNCHANGED <<reward, shortfall, adjusted>>
    PROVE  MoneyConserved'
<1> SUFFICES ASSUME NEW v \in Customers
             PROVE  balance'[v] + Staked(v)' = adjusted'[v] + PaidIn(v)'
  BY DEF MoneyConserved
<1> DEFINE S == Booked(v)
           T == {x \in Bookings : customer'[x] = v}
<1>1. TypeOK /\ balance[v] + Staked(v) = adjusted[v] + PaidIn(v)
  BY DEF IInv, RowsInv, MoneyInv, MoneyConserved
<1>2. PaidIn(v)' = PaidIn(v) /\ adjusted' = adjusted
  BY PaidInSame
<1>3. Staked(v)' = Total(stake', T) /\ Staked(v) = Total(stake, S)
  BY DEF Staked, Total, Units, Booked
<1>4. b \notin S /\ T = IF v = u THEN S \cup {b} ELSE S
  BY <1>1, NamesAssumption DEF TypeOK, Booked
<1>5. IsFiniteSet(S) /\ IsFiniteSet(S \cup {b})
  BY BookedFinite, FS_AddElement
<1>6. \A x \in S \cup {b} : stake'[x] \in Nat
  BY <1>1 DEF TypeOK, Booked
<1>7. \A x \in S : stake'[x] = stake[x] /\ stake[x] \in Nat
  BY <1>1, <1>4 DEF TypeOK, Booked
<1>8. /\ Total(stake, S) \in Nat /\ PaidIn(v) \in Nat /\ balance[v] \in Nat /\ adjusted[v] \in Int
      /\ stake'[b] = n
  BY <1>1, <1>3, SumTypes DEF TypeOK
<1>9. balance'[v] = IF v = u THEN balance[v] - n ELSE balance[v]
  BY <1>1 DEF TypeOK
<1> HIDE DEF S, T
<1>10. Total(stake', S) = Total(stake, S)
  BY <1>7, TotalSame
<1>11. CASE v = u
  <2>1. Total(stake', S \cup {b}) = Total(stake', (S \cup {b}) \ {b}) + stake'[b]
    BY <1>5, <1>6, TotalSplit
  <2>2. (S \cup {b}) \ {b} = S
    BY <1>4
  <2>3. Total(stake', T) = Total(stake, S) + n
    BY <1>4, <1>8, <1>10, <1>11, <2>1, <2>2
  <2> QED BY <1>1, <1>2, <1>3, <1>8, <1>9, <1>11, <2>3
<1>12. CASE v # u
  BY <1>1, <1>2, <1>3, <1>4, <1>9, <1>10, <1>12
<1> QED BY <1>11, <1>12

\* An admin adds n to the wallet of u, or takes it.
LEMMA AdminMoves ==
    ASSUME IInv, NEW u \in Customers, NEW n \in Int,
           balance' = [balance EXCEPT ![u] = balance[u] + n],
           adjusted' = [adjusted EXCEPT ![u] = adjusted[u] + n],
           UNCHANGED <<customer, stake, reward, shortfall>>
    PROVE  MoneyConserved'
<1> SUFFICES ASSUME NEW v \in Customers
             PROVE  balance'[v] + Staked(v)' = adjusted'[v] + PaidIn(v)'
  BY DEF MoneyConserved
<1>1. TypeOK /\ balance[v] + Staked(v) = adjusted[v] + PaidIn(v)
  BY DEF IInv, RowsInv, MoneyInv, MoneyConserved
<1>2. PaidIn(v)' = PaidIn(v) /\ Staked(v)' = Staked(v)
  BY PaidInSame, StakedSame
<1>3. Staked(v) \in Nat /\ PaidIn(v) \in Nat /\ balance[v] \in Nat /\ adjusted[v] \in Int
  BY <1>1, SumTypes
<1>4. /\ balance'[v] = IF v = u THEN balance[v] + n ELSE balance[v]
      /\ adjusted'[v] = IF v = u THEN adjusted[v] + n ELSE adjusted[v]
  BY <1>1 DEF TypeOK
<1> QED BY <1>1, <1>2, <1>3, <1>4

\* The reward of u is paid or taken back on each side that it is paid in the wallet.
LEMMA RewardMoves ==
    ASSUME IInv, TypeOK', NEW u \in Invitees,
           \A x \in Rewarded : x[1] # u => reward'[x] = reward[x] /\ shortfall'[x] = shortfall[x],
           \A s \in Sides :
              balance'[Beneficiary(u, s)] - Left(<<u, s>>)' = balance[Beneficiary(u, s)] - Left(<<u, s>>),
           \A v \in Customers \ {Referrer, u} : balance'[v] = balance[v],
           UNCHANGED <<customer, stake, adjusted>>
    PROVE  MoneyConserved'
<1> SUFFICES ASSUME NEW v \in Customers
             PROVE  balance'[v] + Staked(v)' = adjusted'[v] + PaidIn(v)'
  BY DEF MoneyConserved
<1> DEFINE S == RewardsOf(v)
<1>1. TypeOK /\ balance[v] + Staked(v) = adjusted[v] + PaidIn(v)
  BY DEF IInv, RowsInv, MoneyInv, MoneyConserved
<1>2. Staked(v)' = Staked(v) /\ adjusted' = adjusted
  BY StakedSame
<1>3. PaidIn(v)' = Total(Lefts', S) /\ PaidIn(v) = Total(Lefts, S)
  BY DEF PaidIn, Total, Units, RewardsOf, Beneficiary
<1>4. /\ \A x \in Rewarded : Lefts[x] = Left(x) /\ Left(x) \in Nat
      /\ \A x \in Rewarded : Lefts'[x] = Left(x)' /\ Left(x)' \in Nat
  BY <1>1, LeftType, AmountAssumption DEF TypeOK, Lefts, Left, Kind
<1>5. \A x \in Rewarded : x[1] # u => Lefts'[x] = Lefts[x]
  BY <1>4 DEF Left, Kind
<1>6. IsFiniteSet(S) /\ S \subseteq Rewarded
  BY RewardsFinite
<1>7. \A x \in S : Lefts[x] \in Nat /\ Lefts'[x] \in Nat
  BY <1>4, <1>6
<1>8. /\ Total(Lefts, S) \in Nat /\ Total(Lefts', S) \in Nat /\ Staked(v) \in Nat
      /\ balance[v] \in Nat /\ balance'[v] \in Nat /\ adjusted[v] \in Int
  BY <1>1, <1>6, <1>7, SumTypes, TotalType DEF TypeOK
<1>9. CASE v \in {Referrer, u}
  <2>1. PICK s \in Sides : Beneficiary(u, s) = v /\ \A r \in Sides : Beneficiary(u, r) = v => r = s
    BY <1>9, NamesAssumption DEF Sides, Beneficiary
  <2> DEFINE y == <<u, s>>
  <2>2. y \in S
    BY <2>1 DEF RewardsOf, Rewarded
  <2>3. \A x \in S \ {y} : x[1] # u
    BY <2>1 DEF RewardsOf, Rewarded
  <2>4. balance'[v] - Lefts'[y] = balance[v] - Lefts[y]
    BY <1>4, <1>6, <2>1, <2>2
  <2> HIDE DEF S, y
  <2>5. \A x \in S \ {y} : Lefts'[x] = Lefts[x]
    BY <1>5, <1>6, <2>3
  <2>6. Total(Lefts', S) - Lefts'[y] = Total(Lefts, S) - Lefts[y]
    BY <1>6, <1>7, <2>2, <2>5, TotalChange
  <2>7. Lefts'[y] \in Nat /\ Lefts[y] \in Nat
    BY <1>7, <2>2
  <2> QED BY <1>1, <1>2, <1>3, <1>8, <2>4, <2>6, <2>7
<1>10. CASE v \notin {Referrer, u}
  <2>1. \A x \in S : x[1] # u
    BY <1>10 DEF RewardsOf, Rewarded, Sides, Beneficiary
  <2> HIDE DEF S
  <2>2. Total(Lefts', S) = Total(Lefts, S)
    BY <1>5, <1>6, <2>1, TotalSame
  <2>3. balance'[v] = balance[v]
    BY <1>10
  <2> QED BY <1>1, <1>2, <1>3, <2>2, <2>3
<1> QED BY <1>9, <1>10

-----------------------------------------------------------------------------
(* The steps that write bookings, wallets and rewards.                      *)

\* A commit: what h wrote was its own, and the sums are right.
LEMMA CommitMoney ==
    ASSUME IInv, NEW h \in Handlers, Goto(h, Idle), OwnRows(h), UnmadeBlank', MoneyConserved'
    PROVE  MoneyInv'
<1>1. MoneyHeld' /\ TasksApart'
  BY MoneyOthers, OwnRowsKept
<1> QED BY <1>1 DEF MoneyInv

\* What a booking that is made goes through otherwise moves no money.
LEMMA PlainMoney ==
    ASSUME IInv, UNCHANGED <<customer, stake, reward, shortfall, balance, adjusted, local>>,
           \A b \in Bookings : status'[b] = "none" <=> status[b] = "none"
    PROVE  MoneyInv'
<1>1. UnmadeBlank'
  BY DEF IInv, MoneyInv, UnmadeBlank
<1>2. MoneyConserved'
  BY MoneySame DEF IInv, MoneyInv
<1>3. TasksApart'
  BY DEF IInv, MoneyInv, TasksApart
<1>4. MoneyHeld'
  <2> SUFFICES ASSUME NEW h \in Handlers, local[h] # Idle, NEW r, r = local[h]
               PROVE  MoneyFits(r)'
    BY DEF MoneyHeld
  <2>1. MoneyFits(r) /\ TaskFits(r)
    BY OnTask
  <2>2. RowsKept(r)
    BY <2>1 DEF RowsKept, MoneyFits, TaskFits
  <2> QED BY <2>1, <2>2, KeptFits
<1> QED BY <1>1, <1>2, <1>3, <1>4 DEF MoneyInv

\* A locked wallet is credited or debited from what it still holds.
LEMMA MoveSeen ==
    ASSUME IInv, NEW u \in Customers, NEW m, NEW n \in Int, Move(u, m, n), n # 0 => m = balance[u]
    PROVE  balance' = [balance EXCEPT ![u] = balance[u] + n]
<1>1. balance[u] \in Nat
  BY DEF IInv, RowsInv, TypeOK
<1>2. (IF n = 0 THEN balance[u] ELSE m + n) = balance[u] + n
  BY <1>1
<1> QED BY <1>2 DEF Move

LEMMA CommitHoldMoney ==
    ASSUME IInv, NEW h \in Handlers, NEW collect \in BOOLEAN, CommitHold(h, collect)
    PROVE  MoneyInv'
<1> DEFINE b == local[h].booking
           u == local[h].user
           m == local[h].seen[u]
           used == IF collect /\ local[h].wallets # {} THEN Least(local[h].amount, m) ELSE 0
<1>1. At(h, "commit", "hold") /\ local[h] # Idle /\ local[h].op = "hold" /\ local[h].pc = "commit"
  BY DEF CommitHold, At
<1>2. local[h] \in Tasks /\ TaskFits(local[h]) /\ MoneyFits(local[h])
  BY <1>1, OnTask
<1>3. /\ b \in Bookings /\ u \in Customers /\ m \in Nat /\ local[h].amount \in Nat
      /\ status[b] = "none" /\ local[h].wallets \subseteq {u}
  BY <1>1, <1>2, AmountAssumption DEF TaskFits, MoneyFits, Tasks
<1>4. /\ UNCHANGED <<reward, shortfall, adjusted>>
      /\ status' = [status EXCEPT ![b] = IF used = local[h].amount \/ ~collect THEN "standing" ELSE "held"]
      /\ customer' = [customer EXCEPT ![b] = u]
      /\ stake' = [stake EXCEPT ![b] = used]
      /\ Move(u, m, -used) /\ Goto(h, Idle)
  BY DEF CommitHold, rewards
<1>5. TypeOK /\ customer[b] = None /\ stake[b] = 0
  BY <1>3 DEF IInv, RowsInv, MoneyInv, UnmadeBlank
<1>6. used \in Nat /\ (used # 0 => u \in local[h].wallets /\ m = balance[u])
  BY <1>1, <1>2, <1>3 DEF Least, MoneyFits
<1> HIDE DEF used
<1>7. balance' = [balance EXCEPT ![u] = balance[u] - used]
  <2>1. -used \in Int /\ (-used # 0 => m = balance[u])
    BY <1>6
  <2> HIDE DEF m, u
  <2>2. balance' = [balance EXCEPT ![u] = balance[u] + (-used)]
    BY <1>3, <1>4, <2>1, MoveSeen
  <2>3. balance[u] + (-used) = balance[u] - used
    BY <1>3, <1>5, <1>6 DEF TypeOK
  <2> QED BY <2>2, <2>3
<1>8. MoneyConserved'
  <2> HIDE DEF b, u
  <2> QED BY <1>3, <1>4, <1>5, <1>6, <1>7, StakeMade
<1>9. \A x \in Bookings \ {b} :
          status'[x] = status[x] /\ customer'[x] = customer[x] /\ stake'[x] = stake[x]
  BY <1>4, <1>5 DEF TypeOK
<1>10. UnmadeBlank'
  <2>1. status'[b] # "none"
    BY <1>3, <1>4, <1>5 DEF TypeOK
  <2> QED BY <1>9, <2>1 DEF IInv, MoneyInv, UnmadeBlank
<1>11. OwnRows(h)
  <2>1. \A v \in Customers : balance'[v] = balance[v] \/ v \in local[h].wallets
    BY <1>3, <1>5, <1>6, <1>7 DEF TypeOK
  <2> QED BY <1>1, <1>4, <1>9, <2>1 DEF OwnRows
<1> QED BY <1>4, <1>8, <1>10, <1>11, CommitMoney

\* A stake is given back once: what is left of it goes to the wallet it came from.
LEMMA GiveBackMoney ==
    ASSUME IInv, NEW h \in Handlers, NEW op \in {"release", "cancel"}, At(h, "commit", op),
           Goto(h, Idle), UNCHANGED <<reward, shortfall, adjusted, customer>>,
           stake' = [stake EXCEPT ![local[h].booking] = 0],
           Move(local[h].user, local[h].seen[local[h].user],
                GivenBack(local[h].booking, local[h].amount)),
           NEW to \in BookingStatus \ {"none"},
           status' = [status EXCEPT ![local[h].booking] = to]
    PROVE  MoneyInv'
<1> DEFINE b == local[h].booking
           u == local[h].user
           m == local[h].seen[u]
           n == GivenBack(b, local[h].amount)
<1>1. local[h] # Idle /\ local[h].op = op /\ local[h].pc = "commit"
  BY DEF At
<1>2. local[h] \in Tasks /\ TaskFits(local[h]) /\ MoneyFits(local[h]) /\ TypeOK
  BY <1>1, OnTask DEF IInv, RowsInv
<1>3. /\ b \in Bookings /\ u \in Customers /\ m \in Nat /\ stake[b] \in Nat
      /\ status[b] # "none" /\ customer[b] = u /\ stake[b] \in {local[h].amount, 0}
      /\ local[h].wallets = IF local[h].amount > 0 THEN {u} ELSE {}
      /\ \A v \in local[h].wallets : local[h].seen[v] = balance[v]
  BY <1>1, <1>2 DEF TaskFits, MoneyFits, Tasks, TypeOK
<1>4. n = stake[b] /\ (n # 0 => u \in local[h].wallets /\ m = balance[u])
  BY <1>2, <1>3 DEF GivenBack, Tasks
<1>5. balance' = [balance EXCEPT ![u] = balance[u] + stake[b]]
  <2>1. n \in Int /\ (n # 0 => m = balance[u]) /\ Move(u, m, n)
    BY <1>3, <1>4
  <2> HIDE DEF n, m, u, b
  <2> QED BY <1>3, <1>4, <2>1, MoveSeen
<1>6. MoneyConserved'
  <2>1. balance' = [balance EXCEPT ![u] = balance[u] + stake[b] - 0]
    <3>1. balance[u] + stake[b] = balance[u] + stake[b] - 0
      BY <1>2, <1>3 DEF TypeOK
    <3> QED BY <1>5, <3>1
  <2>2. UNCHANGED <<reward, shortfall, adjusted>> /\ stake' = [stake EXCEPT ![b] = 0] /\ customer' = customer /\ 0 \in Nat
    OBVIOUS
  <2> HIDE DEF b, u, n, m
  <2> QED BY <1>3, <2>1, <2>2, StakeMoves
<1>7. \A x \in Bookings :
          /\ customer'[x] = customer[x]
          /\ status'[x] = IF x = b THEN to ELSE status[x]
          /\ stake'[x] = IF x = b THEN 0 ELSE stake[x]
  BY <1>2 DEF TypeOK
<1>8. UnmadeBlank'
  BY <1>7 DEF IInv, MoneyInv, UnmadeBlank
<1>9. OwnRows(h)
  <2>1. \A v \in Customers : balance'[v] = balance[v] \/ v \in local[h].wallets
    BY <1>2, <1>3, <1>4, <1>5 DEF TypeOK
  <2> QED BY <1>1, <1>3, <1>7, <2>1 DEF OwnRows
<1> QED BY <1>6, <1>8, <1>9, CommitMoney

LEMMA EndUnpaidMoney ==
    ASSUME IInv, NEW h \in Handlers, NEW blind \in BOOLEAN, EndUnpaid(h, blind) PROVE MoneyInv'
<1> DEFINE b == local[h].booking
           to == IF status[b] = "held" THEN "dead" ELSE status[b]
<1>1. /\ At(h, "commit", "release") /\ Goto(h, Idle)
      /\ UNCHANGED <<reward, shortfall, adjusted, customer>>
      /\ stake' = [stake EXCEPT ![b] = 0] /\ status' = [status EXCEPT ![b] = to]
      /\ Move(local[h].user, local[h].seen[local[h].user], GivenBack(b, local[h].amount))
  BY DEF EndUnpaid, rewards
<1>2. to \in BookingStatus \ {"none"}
  BY <1>1, OnTask DEF At, TaskFits, MoneyFits, IInv, RowsInv, TypeOK, BookingStatus
<1> HIDE DEF to
<1> QED BY <1>1, <1>2, GiveBackMoney

LEMMA ApproveUncollectedMoney ==
    ASSUME IInv, NEW h \in Handlers, ApproveUncollected(h) PROVE MoneyInv'
BY GiveBackMoney DEF ApproveUncollected, rewards, BookingStatus

LEMMA CancelPaidMoney ==
    ASSUME IInv, NEW h \in Handlers, CancelPaid(h) PROVE MoneyInv'
BY GiveBackMoney DEF CancelPaid, rewards, BookingStatus

LEMMA CommitAdjustMoney ==
    ASSUME IInv, NEW h \in Handlers, CommitAdjust(h) PROVE MoneyInv'
<1> DEFINE u == local[h].user
           n == local[h].amount
<1>1. local[h] # Idle /\ local[h].op = "adjust" /\ local[h].pc = "commit"
  BY DEF CommitAdjust, At
<1>2. local[h] \in Tasks /\ MoneyFits(local[h]) /\ TypeOK
  BY <1>1, OnTask DEF IInv, RowsInv
<1>3. /\ u \in Customers /\ n \in Int /\ local[h].wallets = {u} /\ local[h].seen[u] = balance[u]
  BY <1>1, <1>2 DEF MoneyFits, Tasks
<1>4. /\ UNCHANGED <<reward, shortfall, status, customer, stake>> /\ Goto(h, Idle)
      /\ Move(u, local[h].seen[u], n)
      /\ adjusted' = [adjusted EXCEPT ![u] = @ + n]
  BY DEF CommitAdjust, rewards, bookings
<1> HIDE DEF u, n
<1>5. balance' = [balance EXCEPT ![u] = balance[u] + n]
  BY <1>3, <1>4, MoveSeen
<1>6. MoneyConserved'
  <2>1. adjusted' = [adjusted EXCEPT ![u] = adjusted[u] + n]
    BY <1>4
  <2> QED BY <1>3, <1>4, <1>5, <2>1, AdminMoves
<1>7. UnmadeBlank'
  BY <1>4 DEF IInv, MoneyInv, UnmadeBlank
<1>8. OwnRows(h)
  BY <1>1, <1>2, <1>3, <1>4, <1>5 DEF OwnRows, TypeOK
<1> QED BY <1>4, <1>6, <1>7, <1>8, CommitMoney

LEMMA ExpireMoney == ASSUME IInv, NEW h \in Handlers, Expire(h) PROVE MoneyInv'
<1>1. /\ UNCHANGED <<customer, stake, reward, shortfall, status, balance, adjusted>> /\ Goto(h, Idle)
  BY DEF Expire, rewards, bookings, wallets
<1>2. MoneyConserved'
  BY <1>1, MoneySame DEF IInv, MoneyInv
<1>3. UnmadeBlank' /\ OwnRows(h)
  BY <1>1 DEF IInv, MoneyInv, UnmadeBlank, OwnRows
<1> QED BY <1>1, <1>2, <1>3, CommitMoney

\* Booking b is made, and h goes on with its referral.
LEMMA GoOnMoney ==
    ASSUME IInv, NEW h \in Handlers, NEW b \in Bookings, NEW op \in {"grant", "reverse"},
           local[h] = Idle,
           Goto(h, Task("ready", op, b, customer[b], None, {}, {}, 0)), customer[b] \in Customers,
           UNCHANGED <<customer, stake, reward, shortfall, balance, adjusted>>,
           \A x \in Bookings : status'[x] = status[x] \/ (status[x] # "none" /\ status'[x] # "none")
    PROVE  MoneyInv'
<1> DEFINE u == customer[b]
           t == Task("ready", op, b, u, None, {}, {}, 0)
<1>1. t \in Tasks /\ t.pc = "ready" /\ t.op = op
  <2>1. /\ "ready" \in Steps /\ op \in Ops /\ 0 \in Int /\ {} \in SUBSET Sides
        /\ {} \in SUBSET Customers /\ b \in Bookings \cup {None} /\ None \in Coupons \cup {None}
        /\ u \in Customers
    BY DEF Steps, Ops
  <2> HIDE DEF u
  <2>2. Task("ready", op, b, u, None, {}, {}, 0) \in Tasks
    BY <2>1, TaskType
  <2>3. t.pc = "ready" /\ t.op = op
    BY DEF Task
  <2> QED BY <2>2, <2>3
<1>2. PICK r \in Tasks : r = t
  BY <1>1
<1>3. MoneyFits(r)' /\ \A g \in Handlers \ {h} : local[g] # Idle => Apart(r, local[g])
  BY <1>1, <1>2 DEF MoneyFits, Apart
<1>4. OwnRows(h)
  <2>1. status' = status \/ TRUE
    OBVIOUS
  <2> QED BY DEF OwnRows
<1>5. Goto(h, r)
  BY <1>2
<1>6. MoneyHeld' /\ TasksApart'
  BY <1>3, <1>4, <1>5, MoneyOthers, OwnRowsKept
<1>7. UnmadeBlank'
  BY DEF IInv, MoneyInv, UnmadeBlank
<1>8. MoneyConserved'
  BY MoneySame DEF IInv, MoneyInv
<1> QED BY <1>6, <1>7, <1>8 DEF MoneyInv

LEMMA CompleteMoney ==
    ASSUME IInv, NEW h \in Handlers, NEW b \in Bookings, Complete(h, b) PROVE MoneyInv'
<1>1. TypeOK
  BY DEF IInv, RowsInv
<1>2. customer[b] \in Customers
  BY <1>1 DEF Complete, TypeOK
<1>3. \A x \in Bookings : status'[x] = status[x] \/ (status[x] # "none" /\ status'[x] # "none")
  BY <1>1 DEF Complete, TypeOK
<1> QED BY <1>2, <1>3, GoOnMoney DEF Complete, rewards, wallets

LEMMA RefundMoney ==
    ASSUME IInv, NEW h \in Handlers, NEW b \in Bookings, Refund(h, b) PROVE MoneyInv'
<1>1. customer[b] \in Customers
  BY DEF Refund, IInv, RowsInv, TypeOK
<1> QED BY <1>1, GoOnMoney DEF Refund, rewards, wallets

LEMMA PlainSteps ==
    ASSUME IInv,
           \/ \E b \in Bookings : Pay(b) \/ Forfeit(b)
           \/ \E u \in Invitees : FallDue(u) \/ CancelReferral(u)
           \/ UNCHANGED vars
    PROVE  MoneyInv'
<1>1. UNCHANGED <<customer, stake, reward, shortfall, balance, adjusted, local>>
  BY DEF Pay, Forfeit, FallDue, CancelReferral, rewards, bookings, wallets, vars
<1>2. \A b \in Bookings : status'[b] = "none" <=> status[b] = "none"
  BY DEF Pay, Forfeit, FallDue, CancelReferral, bookings, vars, IInv, RowsInv, TypeOK
<1> QED BY <1>1, <1>2, PlainMoney

\* Each side of a referral has a beneficiary of its own.
LEMMA SidesApart ==
    ASSUME NEW u \in Invitees
    PROVE  /\ \A s \in Sides :
                 WalletSides(u, Beneficiary(u, s)) = IF Kind(s) = "wallet" THEN {s} ELSE {}
           /\ \A v : v \notin {Referrer, u} => WalletSides(u, v) = {}
           /\ \A s \in Sides : <<u, s>> \in Rewarded /\ Beneficiary(u, s) \in Customers
BY NamesAssumption DEF WalletSides, Beneficiary, Sides, Rewarded, Customers

LEMMA CommitGrantMoney ==
    ASSUME IInv, NEW h \in Handlers, CommitGrant(h) PROVE MoneyInv'
<1> DEFINE u == local[h].user
           ws == local[h].wallets
           seen == local[h].seen
<1>1. local[h] # Idle /\ local[h].op = "grant" /\ local[h].pc = "commit"
  BY DEF CommitGrant, At
<1>2. local[h] \in Tasks /\ TaskFits(local[h]) /\ MoneyFits(local[h]) /\ TypeOK
  BY <1>1, OnTask DEF IInv, RowsInv
<1>3. /\ u \in Invitees /\ seen \in [Customers -> Nat]
      /\ ws = {Referrer} \cup {v \in {u} : WalletSides(u, v) # {}}
      /\ \A v \in ws : seen[v] = balance[v]
  BY <1>1, <1>2 DEF TaskFits, MoneyFits, Tasks
<1>4. /\ UNCHANGED <<shortfall, status, customer, stake, adjusted>> /\ Goto(h, Idle)
      /\ reward' = [x \in Rewarded |-> IF x[1] = u THEN "granted" ELSE reward[x]]
      /\ balance' = [v \in Customers |-> IF WalletSides(u, v) # {} THEN seen[v] + Value ELSE balance[v]]
  BY DEF CommitGrant, bookings
<1>5. ReferralLocked(h)
  BY <1>1 DEF ReferralLocked, Holding
<1>6. referral[u] = "awaiting"
  BY <1>1, <1>5 DEF IInv, RowsInv, ReferralHeld
<1>7. \A s \in Sides : reward[<<u, s>>] = "none"
  BY <1>3, <1>6 DEF IInv, RowsInv, PaidOnceGranted
<1>8. TypeOK'
  BY CommitGrantStep DEF IInv, RowsInv
<1>9. \A v \in Customers : balance'[v] = balance[v] \/ v \in ws
  BY <1>3, <1>4, SidesApart
<1>10. MoneyConserved'
  <2> PICK r \in Invitees : r = u
    BY <1>3
  <2>1. ASSUME NEW s \in Sides
        PROVE  balance'[Beneficiary(r, s)] - Left(<<r, s>>)' = balance[Beneficiary(r, s)] - Left(<<r, s>>)
    <3> DEFINE v == Beneficiary(r, s)
    <3>1. /\ v \in Customers /\ <<r, s>> \in Rewarded
          /\ WalletSides(r, v) = IF Kind(s) = "wallet" THEN {s} ELSE {}
      BY <1>3, SidesApart
    <3>2. Left(<<r, s>>) = 0
      BY <1>7 DEF Left
    <3>3. Left(<<r, s>>)' = IF Kind(s) = "wallet" THEN Value ELSE 0
      BY <1>4, <3>1 DEF Left, Kind
    <3>4. balance'[v] = IF Kind(s) = "wallet" THEN balance[v] + Value ELSE balance[v]
      <4>1. Kind(s) = "wallet" => v \in ws
        BY <1>3, <3>1, NamesAssumption DEF Beneficiary
      <4> QED BY <1>3, <1>4, <3>1, <4>1
    <3>5. balance[v] \in Nat
      BY <1>2, <3>1 DEF TypeOK
    <3> QED BY <3>2, <3>3, <3>4, <3>5, AmountAssumption
  <2>2. \A v \in Customers \ {Referrer, u} : balance'[v] = balance[v]
    BY <1>3, <1>4, SidesApart
  <2>3. \A x \in Rewarded : x[1] # u => reward'[x] = reward[x] /\ shortfall'[x] = shortfall[x]
    BY <1>4
  <2>4. /\ \A v \in Customers \ {Referrer, r} : balance'[v] = balance[v]
        /\ \A x \in Rewarded : x[1] # r => reward'[x] = reward[x] /\ shortfall'[x] = shortfall[x]
    BY <2>2, <2>3
  <2> HIDE DEF u, ws, seen
  <2> QED BY <1>4, <1>8, <2>1, <2>4, RewardMoves
<1>11. UnmadeBlank'
  BY <1>4 DEF IInv, MoneyInv, UnmadeBlank
<1>12. OwnRows(h)
  <2>1. \A w \in Invitees, s \in Sides : reward'[<<w, s>>] = reward[<<w, s>>] \/ w = u
    BY <1>4, SidesApart DEF Rewarded
  <2> QED BY <1>1, <1>4, <1>5, <1>9, <2>1 DEF OwnRows
<1> QED BY <1>4, <1>10, <1>11, <1>12, CommitMoney

LEMMA CommitReverseMoney ==
    ASSUME IInv, NEW h \in Handlers, CommitReverse(h) PROVE MoneyInv'
<1> DEFINE u == local[h].user
           ws == local[h].wallets
           seen == local[h].seen
           Of(x) == x[1] = u /\ reward[x] \in {"granted", "kept"}
           Debited(x) == Of(x) /\ Kind(x[2]) = "wallet"
<1>1. local[h] # Idle /\ local[h].op = "reverse" /\ local[h].pc = "commit"
  BY DEF CommitReverse, At
<1>2. local[h] \in Tasks /\ TaskFits(local[h]) /\ MoneyFits(local[h]) /\ TypeOK
  BY <1>1, OnTask DEF IInv, RowsInv
<1>3. /\ u \in Invitees /\ seen \in [Customers -> Nat] /\ ws = WalletsToDebit(u)
      /\ \A v \in ws : seen[v] = balance[v]
  BY <1>1, <1>2 DEF TaskFits, MoneyFits, Tasks
<1>4. /\ UNCHANGED <<status, customer, stake, adjusted>> /\ Goto(h, Idle)
      /\ reward' = [x \in Rewarded |->
                        IF ~Of(x) THEN reward[x]
                        ELSE IF Debited(x) \/ x[2] \in local[h].voids THEN "reversed" ELSE "kept"]
      /\ shortfall' = [x \in Rewarded |->
                           IF Debited(x) THEN ShortOf(seen[Beneficiary(u, x[2])]) ELSE shortfall[x]]
      /\ balance' = [v \in Customers |-> IF v \in ws THEN seen[v] - Least(Value, seen[v]) ELSE balance[v]]
  BY DEF CommitReverse, bookings
<1>5. ReferralLocked(h)
  BY <1>1 DEF ReferralLocked, Holding
<1>6. TypeOK'
  BY CommitReverseStep DEF IInv, RowsInv
<1>7. MoneyConserved'
  <2> PICK r \in Invitees : r = u
    BY <1>3
  <2>1. ASSUME NEW s \in Sides
        PROVE  balance'[Beneficiary(r, s)] - Left(<<r, s>>)' = balance[Beneficiary(r, s)] - Left(<<r, s>>)
    <3> DEFINE v == Beneficiary(r, s)
               x == <<r, s>>
    <3>1. /\ v \in Customers /\ x \in Rewarded /\ x[1] = r /\ x[2] = s
          /\ WalletSides(r, v) = IF Kind(s) = "wallet" THEN {s} ELSE {}
      BY <1>3, SidesApart
    <3>2. v \in ws <=> Debited(x)
      BY <1>3, <3>1 DEF WalletsToDebit, Given
    <3>3. CASE Debited(x)
      <4>1. balance'[v] = balance[v] - Least(Value, balance[v]) /\ balance[v] \in Nat
        BY <1>2, <1>3, <1>4, <3>1, <3>2, <3>3 DEF TypeOK
      <4>2. Left(x) = Value
        BY <3>1, <3>3 DEF Left
      <4>3. reward'[x] = "reversed" /\ shortfall'[x] = Value - Least(Value, balance[v])
        BY <1>3, <1>4, <3>1, <3>2, <3>3 DEF ShortOf
      <4>4. Left(x)' = Value - Least(Value, balance[v])
        BY <3>1, <3>3, <4>3 DEF Left, Kind
      <4> QED BY <4>1, <4>2, <4>4, AmountAssumption DEF Least
    <3>4. CASE ~Debited(x)
      <4>1. balance'[v] = balance[v]
        BY <1>4, <3>1, <3>2, <3>4
      <4>2. Left(x)' = Left(x)
        BY <1>4, <3>1, <3>4 DEF Left, Kind
      <4> QED BY <4>1, <4>2
    <3> QED BY <3>3, <3>4
  <2>2. \A v \in Customers \ {Referrer, u} : balance'[v] = balance[v]
    BY <1>3, <1>4, SidesApart DEF WalletsToDebit
  <2>3. \A x \in Rewarded : x[1] # u => reward'[x] = reward[x] /\ shortfall'[x] = shortfall[x]
    BY <1>4
  <2>4. /\ \A v \in Customers \ {Referrer, r} : balance'[v] = balance[v]
        /\ \A x \in Rewarded : x[1] # r => reward'[x] = reward[x] /\ shortfall'[x] = shortfall[x]
    BY <2>2, <2>3
  <2> HIDE DEF u, ws, seen
  <2> QED BY <1>4, <1>6, <2>1, <2>4, RewardMoves
<1>8. UnmadeBlank'
  BY <1>4 DEF IInv, MoneyInv, UnmadeBlank
<1>9. OwnRows(h)
  <2>1. \A w \in Invitees, s \in Sides : reward'[<<w, s>>] = reward[<<w, s>>] \/ w = u
    BY <1>4, SidesApart DEF Rewarded
  <2> QED BY <1>1, <1>4, <1>5, <2>1 DEF OwnRows
<1> QED BY <1>4, <1>7, <1>8, <1>9, CommitMoney

-----------------------------------------------------------------------------
(* The invariant.                                                           *)

LEMMA MoneyBase == Init => MoneyInv
<1> SUFFICES ASSUME Init PROVE MoneyInv
  OBVIOUS
<1>1. UnmadeBlank /\ MoneyHeld /\ TasksApart
  BY DEF Init, UnmadeBlank, MoneyHeld, TasksApart
<1>2. ASSUME NEW v \in Customers PROVE balance[v] + Staked(v) = adjusted[v] + PaidIn(v)
  <2>1. Booked(v) = {}
    BY NamesAssumption DEF Init, Booked, Customers
  <2>2. Units(stake, Booked(v)) = {}
    BY <2>1 DEF Units
  <2>3. \A x \in RewardsOf(v) : Lefts[x] = 0
    BY DEF Init, Lefts, Left, RewardsOf
  <2>4. Units(Lefts, RewardsOf(v)) = {}
    <3>1. 1..0 = {}
      OBVIOUS
    <3> QED BY <2>3, <3>1 DEF Units
  <2>5. Staked(v) = 0 /\ PaidIn(v) = 0
    BY <2>2, <2>4, FS_EmptySet DEF Staked, PaidIn, Total, Booked, RewardsOf
  <2> QED BY <2>5 DEF Init
<1> QED BY <1>1, <1>2 DEF MoneyInv, MoneyConserved

LEMMA MoneyTransaction == ASSUME IInv, NEW h \in Handlers, Transaction(h) PROVE MoneyInv'
<1>1. CASE LockWallets(h) \/ LockCoupon(h) \/ Rollback(h)
  BY <1>1, LockWalletsMoney, LockCouponMoney, RollbackMoney
<1>2. CASE \E collect \in BOOLEAN : CommitHold(h, collect)
  BY <1>2, CommitHoldMoney
<1>3. CASE \E blind \in BOOLEAN : EndUnpaid(h, blind)
  BY <1>3, EndUnpaidMoney
<1>4. CASE ApproveUncollected(h) \/ CancelPaid(h) \/ CommitAdjust(h)
  BY <1>4, ApproveUncollectedMoney, CancelPaidMoney, CommitAdjustMoney
<1>5. CASE Expire(h) \/ GrantCompleted(h) \/ CommitGrant(h)
  BY <1>5, ExpireMoney, GrantCompletedMoney, CommitGrantMoney
<1>6. CASE BeginReverse(h) \/ CommitReverse(h)
  BY <1>6, BeginReverseMoney, CommitReverseMoney
<1> QED BY <1>1, <1>2, <1>3, <1>4, <1>5, <1>6 DEF Transaction

LEMMA MoneyStep == IInv /\ [Next]_vars => MoneyInv'
<1> SUFFICES ASSUME IInv, [Next]_vars PROVE MoneyInv'
  OBVIOUS
<1>1. ASSUME NEW h \in Handlers, Transaction(h) PROVE MoneyInv'
  BY <1>1, MoneyTransaction
<1>2. ASSUME NEW h \in Handlers, NEW b \in Bookings, NEW u \in Customers,
             NEW c \in Coupons \cup {None}, NEW w \in BOOLEAN, CreateHold(h, b, u, c, w)
      PROVE  MoneyInv'
  BY <1>2, CreateHoldMoney
<1>3. ASSUME NEW h \in Handlers, NEW b \in Bookings,
             BeginRelease(h, b) \/ Complete(h, b) \/ Refund(h, b)
      PROVE  MoneyInv'
  BY <1>3, BeginReleaseMoney, CompleteMoney, RefundMoney
<1>4. ASSUME NEW h \in Handlers, NEW u \in Customers, NEW n \in {-1, 1}, Adjust(h, u, n)
      PROVE  MoneyInv'
  BY <1>4, AdjustMoney
<1>5. ASSUME NEW h \in Handlers, NEW u \in Invitees, SelectExpired(h, u) PROVE MoneyInv'
  BY <1>5, SelectExpiredMoney
<1>6. ASSUME NEW h \in Handlers, NEW u \in Invitees, NEW b \in Bookings, SweepGrant(h, u, b)
      PROVE  MoneyInv'
  BY <1>6, BeginGrantMoney DEF SweepGrant
<1>7. CASE \/ \E b \in Bookings : Pay(b) \/ Forfeit(b)
           \/ \E u \in Invitees : FallDue(u) \/ CancelReferral(u)
           \/ UNCHANGED vars
  BY <1>7, PlainSteps
<1> QED BY <1>1, <1>2, <1>3, <1>4, <1>5, <1>6, <1>7 DEF Next

\* For any number of customers, bookings and transactions at once: what a transaction locked
\* or found out still holds when it commits, and every customer's money adds up.
THEOREM Invariant == Spec => []IInv
<1>1. Init => IInv
  BY Base, MoneyBase DEF IInv
<1>2. IInv /\ [Next]_vars => IInv'
  BY Step, MoneyStep DEF IInv
<1> QED BY <1>1, <1>2, PTL DEF Spec

\* No customer gains or loses money by what runs into what: wallet and stakes are what
\* rewards and admins paid in, less what was taken back.
THEOREM MoneyAddsUp == Spec => []MoneyConserved
<1>1. IInv => MoneyConserved
  BY DEF IInv, MoneyInv
<1> QED BY <1>1, Invariant, PTL

=============================================================================
