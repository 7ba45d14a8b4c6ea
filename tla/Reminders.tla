------------------------------ MODULE Reminders ------------------------------
(***************************************************************************)
(* The reminder job.  A run reads the bookings that are due, claims them    *)
(* one by one with reminded_at, sends the SMS, and hands the claim back if  *)
(* the SMS fails or the salon is suspended by then.  A reschedule clears    *)
(* reminded_at, so that the customer is reminded again.  Runs overlap when  *)
(* one outlives the cron lock.                                              *)
(***************************************************************************)
EXTENDS Naturals

CONSTANTS Bookings,
          Runs,       \* each with its own `now`, which is what it writes to reminded_at
          MaxMoves,   \* bound on the reschedules of a booking
          None

VARIABLES
    confirmed,   \* bookings.status = 'confirmed'
    time,        \* bookings.starts_at, as the number of reschedules so far
    remindedAt,  \* bookings.reminded_at
    approved,    \* salons.status = 'approved'
    local,       \* what each run holds
    told,        \* history: the SMS delivered, each with its run, its time, and whether the
                 \* run has the gateway's answer
    gaveUp       \* history: runs that died, or failed to look something up, after the claim

bookings == <<confirmed, time, remindedAt, approved>>
vars == <<bookings, local, told, gaveUp>>

Times == 0..MaxMoves
Tellings == [run : Runs, time : Times, answered : BOOLEAN]
Steps == {"new", "loop", "claimed", "sending", "failed", "over"}
\* due: the bookings still to do; read: starts_at as the query read it; at: the one in hand.
Goto(r, pc) == local' = [local EXCEPT ![r].pc = pc]
Holds(r, b) == local[r].pc \in {"claimed", "sending", "failed"} /\ local[r].at = b

Init ==
    /\ confirmed = [b \in Bookings |-> TRUE]
    /\ time = [b \in Bookings |-> 0]
    /\ remindedAt = [b \in Bookings |-> None]
    /\ approved = TRUE
    /\ local = [r \in Runs |-> [pc |-> "new", due |-> {}, read |-> time, at |-> None]]
    /\ told = [b \in Bookings |-> {}]
    /\ gaveUp = [b \in Bookings |-> {}]

-----------------------------------------------------------------------------
(* A run of the job.                                                        *)

\* The window of start times is free: whether a booking is due by now.
Find(r) ==
    /\ local[r].pc = "new"
    /\ \E due \in SUBSET {b \in Bookings : confirmed[b] /\ remindedAt[b] = None /\ approved} :
          local' = [local EXCEPT ![r] = [pc |-> "loop", due |-> due, read |-> time, at |-> None]]
    /\ UNCHANGED <<bookings, told, gaveUp>>

ClaimBlind(r, b) ==   \* mutant: UPDATE ... WHERE id only
    /\ local[r].pc = "loop" /\ b \in local[r].due
    /\ local' = [local EXCEPT ![r].due = @ \ {b}, ![r].pc = "claimed", ![r].at = b]
    /\ remindedAt' = [remindedAt EXCEPT ![b] = r]
    /\ UNCHANGED <<confirmed, time, approved, told, gaveUp>>

\* UPDATE ... WHERE reminded_at IS NULL: neither the status nor starts_at is looked at again.
Claim(r, b) ==
    /\ local[r].pc = "loop" /\ b \in local[r].due
    /\ IF remindedAt[b] = None
       THEN /\ local' = [local EXCEPT ![r].due = @ \ {b}, ![r].pc = "claimed", ![r].at = b]
            /\ remindedAt' = [remindedAt EXCEPT ![b] = r]
       ELSE /\ local' = [local EXCEPT ![r].due = @ \ {b}]
            /\ UNCHANGED remindedAt
    /\ UNCHANGED <<confirmed, time, approved, told, gaveUp>>

CheckSalon(r) ==
    /\ local[r].pc = "claimed"
    /\ Goto(r, IF approved THEN "sending" ELSE "failed")
    /\ UNCHANGED <<bookings, told, gaveUp>>

\* The gateway delivers the SMS of r.
Deliver(r, answered) ==
    LET b == local[r].at
    IN  told' = [told EXCEPT ![b] =
                    @ \cup {[run |-> r, time |-> local[r].read[b], answered |-> answered]}]

\* The salon or the customer is not found, or a query throws, that of Release included: logged,
\* the claim stays.
LookupFails(r) ==
    /\ local[r].pc \in {"claimed", "sending", "failed"}
    /\ Goto(r, "loop")
    /\ gaveUp' = [gaveUp EXCEPT ![local[r].at] = @ \cup {r}]
    /\ UNCHANGED <<bookings, told>>

\* send throws on its timeout, whether the gateway has the SMS or not.
Send(r) ==
    /\ local[r].pc = "sending"
    /\ \/ Deliver(r, TRUE) /\ Goto(r, "loop")
       \/ Deliver(r, FALSE) /\ Goto(r, "failed")     \* the answer is late or unreadable
       \/ UNCHANGED told /\ Goto(r, "failed")
    /\ UNCHANGED <<bookings, gaveUp>>

ReleaseForgotten(r) ==   \* mutant: a failed SMS leaves the claim, as it once did
    /\ local[r].pc = "failed"
    /\ Goto(r, "loop")
    /\ UNCHANGED <<bookings, told, gaveUp>>

\* UPDATE ... WHERE reminded_at = now.
Release(r) ==
    /\ local[r].pc = "failed"
    /\ remindedAt' = [b \in Bookings |-> IF b = local[r].at /\ remindedAt[b] = r THEN None ELSE remindedAt[b]]
    /\ Goto(r, "loop")
    /\ UNCHANGED <<confirmed, time, approved, told, gaveUp>>

\* The process dies, perhaps with its SMS on the way.
Die(r) ==
    /\ local[r].pc \notin {"new", "over"}
    /\ Goto(r, "over")
    /\ gaveUp' = [b \in Bookings |-> IF Holds(r, b) THEN gaveUp[b] \cup {r} ELSE gaveUp[b]]
    /\ \/ UNCHANGED told
       \/ local[r].pc = "sending" /\ Deliver(r, FALSE)
    /\ UNCHANGED bookings

-----------------------------------------------------------------------------
(* Everyone else.                                                           *)

Reschedule(b) ==
    /\ confirmed[b] /\ time[b] < MaxMoves
    /\ time' = [time EXCEPT ![b] = @ + 1]
    /\ remindedAt' = [remindedAt EXCEPT ![b] = None]
    /\ UNCHANGED <<confirmed, approved, local, told, gaveUp>>

\* Cancelled, completed or not shown up for.
End(b) ==
    /\ confirmed[b]
    /\ confirmed' = [confirmed EXCEPT ![b] = FALSE]
    /\ UNCHANGED <<time, remindedAt, approved, local, told, gaveUp>>

Moderate == approved' = ~approved /\ UNCHANGED <<confirmed, time, remindedAt, local, told, gaveUp>>

Next ==
    \/ \E r \in Runs :
          \/ Find(r)
          \/ \E b \in Bookings : Claim(r, b)
          \/ CheckSalon(r) \/ LookupFails(r) \/ Send(r) \/ Release(r) \/ Die(r)
    \/ \E b \in Bookings : Reschedule(b) \/ End(b)
    \/ Moderate

Spec == Init /\ [][Next]_vars

-----------------------------------------------------------------------------

TypeOK ==
    /\ confirmed \in [Bookings -> BOOLEAN]
    /\ time \in [Bookings -> Times]
    /\ remindedAt \in [Bookings -> Runs \cup {None}]
    /\ approved \in BOOLEAN
    /\ local \in [Runs -> [pc : Steps, due : SUBSET Bookings, read : [Bookings -> Times],
                           at : Bookings \cup {None}]]
    /\ told \in [Bookings -> SUBSET Tellings]
    /\ gaveUp \in [Bookings -> SUBSET Runs]

\* The telling of the time that stands has reached the customer, and its run knows.
Settled(b, t) == t \in told[b] /\ t.answered /\ t.time = time[b]

\* However runs overlap, fail and are retried: once a run has the gateway's answer that the
\* customer was told the time that stands, no run is left that would tell it again, and no two
\* runs ever have that answer.  (An SMS whose answer is lost counts as failed and is sent
\* again; of an earlier time two runs may have it, the reschedule having cleared the mark.)
RemindedOnce ==
    \A b \in Bookings : \A t \in told[b] : Settled(b, t) =>
        /\ \A u \in told[b] : Settled(b, u) => u = t
        /\ \A r \in Runs : Holds(r, b) => local[r].read[b] < time[b]

Explained(r, b) ==
    \/ \E t \in told[b] : Settled(b, t) /\ t.run = r
    \/ Holds(r, b)
    \/ r \in gaveUp[b]
    \/ local[r].read[b] < time[b]

\* A booking marked as reminded was: its run had the SMS acknowledged, with the time that
\* stands, or is about to send or to hand the mark back, or it died or could not look the
\* booking up - or it selected the booking before a reschedule and claimed it after.
MarkedMeansTold ==
    \A b \in Bookings : remindedAt[b] # None => Explained(remindedAt[b], b)

-----------------------------------------------------------------------------
(* The inductive invariant: what a run that has yet to claim, holds or has   *)
(* told a booking knows of its mark.                                         *)

ReadBefore == \A r \in Runs, b \in Bookings : local[r].read[b] <= time[b]

\* A run claims and tells a booking once.
ClaimedOnce ==
    \A r \in Runs, b \in Bookings :
        /\ local[r].pc = "new" => b \notin local[r].due /\ remindedAt[b] # r
        /\ b \in local[r].due => ~Holds(r, b)
        /\ local[r].pc = "new" \/ b \in local[r].due \/ (Holds(r, b) /\ local[r].pc # "failed")
              => \A t \in told[b] : t.run # r
        /\ Holds(r, b) => \A t \in told[b] : t.run = r => ~t.answered

\* The mark of a run that holds a booking, or has told it the time that stands, stands as well.
MarkStands ==
    \A r \in Runs, b \in Bookings :
        /\ Holds(r, b) /\ local[r].read[b] = time[b] => remindedAt[b] = r
        /\ \A t \in told[b] : Settled(b, t) => remindedAt[b] = t.run
        /\ \A t \in told[b] : t.time <= time[b]

IInv ==
    /\ TypeOK
    /\ ReadBefore
    /\ ClaimedOnce
    /\ MarkStands
    /\ MarkedMeansTold

=============================================================================
