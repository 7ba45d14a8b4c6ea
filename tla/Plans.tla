--------------------------------- MODULE Plans ---------------------------------
(***************************************************************************)
(* The plans salons subscribe to.  One of them is the default: new salons   *)
(* get it, and it stands in for a subscription that was cancelled.  An      *)
(* admin's change of a plan is checked on the plan as it was read and       *)
(* written by its id alone; foreign keys and a partial unique index are all *)
(* the database adds.                                                       *)
(***************************************************************************)
CONSTANTS Names, Salons, Handlers,
          First,   \* the plan the migration seeds
          None

VARIABLES
    plans,     \* rows of plans
    default,   \* those with is_default
    active,    \* those with is_active
    planOf,    \* salon_subscriptions.plan_id, None without a subscription
    local      \* what each request read

vars == <<plans, default, active, planOf, local>>

Idle == [op |-> "idle"]
Flags == {"on", "off", "keep"}
Tasks == [op : {"update", "remove", "assign", "found"}, plan : Names, salon : Salons \cup {None},
          isDefault : Flags, isActive : Flags, wasDefault : BOOLEAN]
Goto(h, task) == local' = [local EXCEPT ![h] = task]
Begin(h, op, p, s, d, a) ==
    /\ local[h] = Idle
    /\ Goto(h, [op |-> op, plan |-> p, salon |-> s, isDefault |-> d, isActive |-> a,
                wasDefault |-> p \in default])
    /\ UNCHANGED <<plans, default, active, planOf>>
At(h, op) == local[h] # Idle /\ local[h].op = op

TypeOK ==
    /\ plans \subseteq Names
    /\ default \subseteq plans
    /\ active \subseteq plans
    /\ planOf \in [Salons -> plans \cup {None}]
    /\ local \in [Handlers -> Tasks \cup {Idle}]

Init ==
    /\ plans = {First}
    /\ default = {First}
    /\ active = {First}
    /\ planOf = [s \in Salons |-> None]
    /\ local = [h \in Handlers |-> Idle]

Switch(set, p, flag) == IF flag = "on" THEN set \cup {p} ELSE IF flag = "off" THEN set \ {p} ELSE set
On(was, flag) == flag = "on" \/ (flag = "keep" /\ was)

-----------------------------------------------------------------------------

Create(p) ==
    /\ p \notin plans
    /\ plans' = plans \cup {p}
    /\ active' = active \cup {p}
    /\ UNCHANGED <<default, planOf, local>>

\* update, up to its transaction: the default stays on, and what will be the default is active.
UpdateUnchecked(h, p, d, a) ==   \* mutant: only "is it the default now" is checked
    /\ p \in plans
    /\ d = "off" => p \notin default
    /\ Begin(h, "update", p, None, d, a)
Update(h, p, d, a) ==
    /\ p \in plans
    /\ d = "off" => p \notin default
    /\ On(p \in default, d) => On(p \in active, a)
    /\ Begin(h, "update", p, None, d, a)

\* A plan that was not the default takes over from whatever plan is; a plan that is gone by
\* now is not written, and nobody looks at the count of rows.
CommitUpdate(h) ==
    /\ At(h, "update")
    /\ LET t == local[h]
           rest == IF t.isDefault = "on" /\ ~t.wasDefault THEN {} ELSE default
       IN  IF t.plan \in plans
           THEN /\ t.isDefault = "on" => rest \subseteq {t.plan}   \* UNIQUE WHERE is_default
                /\ default' = Switch(rest, t.plan, t.isDefault)
                /\ active' = Switch(active, t.plan, t.isActive)
           ELSE default' = rest /\ active' = active
    /\ Goto(h, Idle)
    /\ UNCHANGED <<plans, planOf>>

Remove(h, p) == p \in plans \ default /\ Begin(h, "remove", p, None, "keep", "keep")

\* The foreign key of a subscription restricts the DELETE.
CommitRemove(h) ==
    /\ At(h, "remove")
    /\ LET p == local[h].plan
       IN  /\ \A s \in Salons : planOf[s] # p
           /\ plans' = plans \ {p}
           /\ default' = default \ {p}
           /\ active' = active \ {p}
    /\ Goto(h, Idle)
    /\ UNCHANGED planOf

\* assignPlan reads an active plan; createDefaultSubscription the default.
AssignPlan(h, s, p) ==
    /\ p \in active /\ planOf[s] # None
    /\ Begin(h, "assign", p, s, "keep", "keep")

CreateDefaultSubscription(h, s, p) ==
    /\ p \in default /\ planOf[s] = None
    /\ Begin(h, "found", p, s, "keep", "keep")

Subscribe(h) ==
    /\ At(h, "assign") \/ (At(h, "found") /\ planOf[local[h].salon] = None)
    /\ local[h].plan \in plans
    /\ planOf' = [planOf EXCEPT ![local[h].salon] = local[h].plan]
    /\ Goto(h, Idle)
    /\ UNCHANGED <<plans, default, active>>

\* The request is refused, or dies.
Abandon(h) == local[h] # Idle /\ Goto(h, Idle) /\ UNCHANGED <<plans, default, active, planOf>>

Next ==
    \/ \E p \in Names : Create(p)
    \/ \E h \in Handlers :
          \/ \E p \in Names :
                \/ \E d, a \in Flags : Update(h, p, d, a)
                \/ Remove(h, p)
                \/ \E s \in Salons : AssignPlan(h, s, p) \/ CreateDefaultSubscription(h, s, p)
          \/ CommitUpdate(h) \/ CommitRemove(h) \/ Subscribe(h) \/ Abandon(h)

Spec == Init /\ [][Next]_vars

-----------------------------------------------------------------------------

\* The platform has one default plan, and it may be assigned.
HasFallback == \E p \in active : default = {p}

\* A removal of a plan that has become the default since it was read, or a change of a plan
\* that is gone, or has become the default or inactive, since it was read.
StaleChange ==
    \E h \in Handlers :
        LET t == local[h]
        IN  \/ CommitRemove(h) /\ t.plan \in default
            \/ CommitUpdate(h) /\ (t.plan \notin plans \/ t.wasDefault # (t.plan \in default))
            \/ CommitUpdate(h) /\ t.isDefault = "on" /\ t.plan \notin active

FallbackKept == HasFallback => HasFallback' \/ StaleChange

\* No change loses the default plan or leaves it inactive, whatever changes run into one
\* another, unless the plan it is about changed between its check and its write.
FallbackStays == [][FallbackKept]_vars

=============================================================================
