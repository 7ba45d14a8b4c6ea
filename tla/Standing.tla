------------------------------- MODULE Standing -------------------------------
(***************************************************************************)
(* What decides whether a salon is public: its status, which an admin sets, *)
(* and its owner's account, whose suspension takes the salon along.  An     *)
(* owner's edit of other columns saves the row as it read it: TypeORM       *)
(* compares it with the row of the moment and writes back what differs.     *)
(* Other writes are single UPDATEs; what they were decided on was read      *)
(* before, without a lock.                                                  *)
(***************************************************************************)
CONSTANTS Salons,      \* each with an owner of its own
          Handlers

VARIABLES
    status,    \* salons.status, "none" before the row exists
    cause,     \* salons.suspended_cause, "none" when NULL
    owner,     \* users.status of the owner
    local      \* what each request read

vars == <<status, cause, owner, local>>

Status == {"none", "pending", "approved", "rejected", "suspended"}
Cause == {"none", "admin", "owner_suspended"}

Idle == [op |-> "idle"]
Tasks == [op : {"approve", "resubmit", "edit"}, salon : Salons, status : Status, cause : Cause]
Goto(h, task) == local' = [local EXCEPT ![h] = task]
Begin(h, op, s) ==
    /\ local[h] = Idle /\ status[s] # "none"
    /\ Goto(h, [op |-> op, salon |-> s, status |-> status[s], cause |-> cause[s]])
    /\ UNCHANGED <<status, cause, owner>>
End(h) == Goto(h, Idle)
At(h, op) == local[h] # Idle /\ local[h].op = op

Init ==
    /\ status = [s \in Salons |-> "none"]
    /\ cause = [s \in Salons |-> "none"]
    /\ owner = [s \in Salons |-> "active"]
    /\ local = [h \in Handlers |-> Idle]

Put(s, st, c) ==
    /\ status' = [status EXCEPT ![s] = st]
    /\ cause' = [cause EXCEPT ![s] = c]

-----------------------------------------------------------------------------
(* The owner.  A suspended account passes no guard, but a request may have  *)
(* passed it before.                                                        *)

\* A second salon of the owner fails on the unique index.
CreateForOwner(s) ==
    /\ status[s] = "none"
    /\ Put(s, "pending", "none")
    /\ UNCHANGED <<owner, local>>

ResubmitMine(h, s) == status[s] = "rejected" /\ Begin(h, "resubmit", s)

ResubmitUnconditional(h) ==   \* mutant: UPDATE ... WHERE id only
    /\ At(h, "resubmit")
    /\ Put(local[h].salon, "pending", cause[local[h].salon])
    /\ End(h)
    /\ UNCHANGED owner
Resubmit(h) ==
    /\ At(h, "resubmit")
    /\ status[local[h].salon] = "rejected"
    /\ Put(local[h].salon, "pending", cause[local[h].salon])
    /\ End(h)
    /\ UNCHANGED owner

UpdateMine(h, s) == Begin(h, "edit", s)

\* save reads the row once more and writes what differs from it, here in one step.
SaveEdit(h) ==
    /\ At(h, "edit")
    /\ Put(local[h].salon, local[h].status, local[h].cause)
    /\ End(h)
    /\ UNCHANGED owner

-----------------------------------------------------------------------------
(* The admin.                                                               *)

\* setStatus: only an approval looks at the owner; it scrubs the cause, a rejection does not.
ApproveSalon(h, s) == owner[s] = "active" /\ Begin(h, "approve", s)

Approve(h) ==
    /\ At(h, "approve")
    /\ Put(local[h].salon, "approved", "none")
    /\ End(h)
    /\ UNCHANGED owner

RejectSalon(s) ==
    /\ status[s] # "none"
    /\ Put(s, "rejected", cause[s])
    /\ UNCHANGED <<owner, local>>

SuspendSalon(s) ==
    /\ status[s] # "none"
    /\ Put(s, "suspended", "admin")
    /\ UNCHANGED <<owner, local>>

\* setStatus of the account and its cascade on the salon are one transaction.
SuspendOwner(s) ==
    /\ owner' = [owner EXCEPT ![s] = "suspended"]
    /\ IF status[s] = "approved" THEN Put(s, "suspended", "owner_suspended")
                                 ELSE UNCHANGED <<status, cause>>
    /\ UNCHANGED local

Restorable(s) == status[s] = "suspended" /\ cause[s] = "owner_suspended"
ReactivateOwner(s) ==
    /\ owner' = [owner EXCEPT ![s] = "active"]
    /\ IF Restorable(s) THEN Put(s, "approved", "none") ELSE UNCHANGED <<status, cause>>
    /\ UNCHANGED local

\* The request is refused, or dies.
Abandon(h) == local[h] # Idle /\ End(h) /\ UNCHANGED <<status, cause, owner>>

Next ==
    \/ \E s \in Salons :
          \/ CreateForOwner(s) \/ RejectSalon(s) \/ SuspendSalon(s)
          \/ SuspendOwner(s) \/ ReactivateOwner(s)
          \/ \E h \in Handlers : ResubmitMine(h, s) \/ UpdateMine(h, s) \/ ApproveSalon(h, s)
    \/ \E h \in Handlers : Resubmit(h) \/ SaveEdit(h) \/ Approve(h) \/ Abandon(h)

Spec == Init /\ [][Next]_vars

-----------------------------------------------------------------------------

TypeOK ==
    /\ status \in [Salons -> Status]
    /\ cause \in [Salons -> Cause]
    /\ owner \in [Salons -> {"active", "suspended"}]
    /\ local \in [Handlers -> Tasks \cup {Idle}]

SuspendedByAdmin(s) == status[s] = "suspended" /\ cause[s] = "admin"
AdminDecides(s) == RejectSalon(s) \/ \E h \in Handlers : local[h] # Idle /\ local[h].salon = s /\ Approve(h)
\* An edit of s that began when the row said something else.
StaleEdit(s) ==
    \E h \in Handlers :
        /\ SaveEdit(h) /\ local[h].salon = s
        /\ <<local[h].status, local[h].cause>> # <<status[s], cause[s]>>

LiftedByDecision ==
    \A s \in Salons :
        SuspendedByAdmin(s) /\ ~SuspendedByAdmin(s)' => AdminDecides(s) \/ StaleEdit(s)

\* A salon that an admin has suspended stays so until an admin decides otherwise: the owner's
\* reactivation, a late resubmission or an edit that began later do not bring it back.  The
\* one exception is an edit that began before.
SuspensionNeedsDecision == [][LiftedByDecision]_vars

-----------------------------------------------------------------------------
(* What the code's comments say, and the code does not do.                  *)

\* admin-users.service.ts, salons.service.ts: a salon an admin suspended stays suspended until
\* an admin approves or rejects it.
SuspensionSticks ==
    [][\A s \in Salons : SuspendedByAdmin(s) /\ ~SuspendedByAdmin(s)' => AdminDecides(s)]_vars

=============================================================================
