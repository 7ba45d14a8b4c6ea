----------------------------- MODULE SalonSlots -----------------------------
(***************************************************************************)
(* Who gets a chair, a worker and an hour.  Requests that create, approve,  *)
(* staff or move a booking serialise on a Redis lock per salon: SET NX PX   *)
(* with a random token, deleted only by the request whose token it holds.   *)
(* The database knows nothing of the lock: a request counts overlapping     *)
(* rows and inserts in a READ COMMITTED transaction, and the TTL may run    *)
(* out under it.  A customer's holds at different salons serialise on a     *)
(* transaction-scoped advisory lock instead.                                *)
(***************************************************************************)
EXTENDS Integers, FiniteSets

CONSTANTS Salons, Customers, Workers,
          Bookings,       \* rows of `bookings`
          Requests,       \* API requests that run concurrently
          None,           \* no booking, no worker, no token
          Capacity,       \* salons.capacity
          MaxActive,      \* bookingMaxActivePerUser
          MaxAtSalon,     \* bookingMaxActivePerSalonPerUser
          Horizon,        \* bound: appointments start at 1..Horizon
          MaxDuration,    \* bound: services last 1..MaxDuration
          LockHolds       \* no critical section outlives LOCK_TTL_MS

ASSUME NoneAssumption == None \notin UNION {Salons, Customers, Workers, Bookings, Requests}
ASSUME FiniteAssumption == IsFiniteSet(Bookings)
ASSUME LimitsAssumption == {Capacity, MaxActive, MaxAtSalon} \subseteq Nat \ {0}
ASSUME TimeAssumption == Horizon \in Nat \ {0} /\ MaxDuration \in Nat \ {0}
ASSUME LockAssumption == LockHolds \in BOOLEAN

VARIABLES
    status,     \* bookings.status, "none" before the row exists
    salon,      \* bookings.salon_id
    customer,   \* bookings.user_id
    worker,     \* bookings.worker_id
    source,     \* bookings.source
    startsAt,   \* bookings.starts_at
    endsAt,     \* bookings.ends_at
    moved,      \* the booking has a BOOKING_RESCHEDULED event
    lock,       \* lock:booking:<salon>: the token (its request) or None
    local       \* what each request holds

appointment == <<salon, customer, source>>
span == <<startsAt, endsAt, moved>>
rows == <<status, appointment, worker, span>>
vars == <<rows, lock, local>>

SlotBlocking == {"pending_approval", "pending_payment", "confirmed"}
\* "over" stands for DEAD_BOOKING_STATUSES, completed and no_show: the chair is free.
BookingStatus == {"none", "over"} \cup SlotBlocking
Starts == 1..Horizon
Ends == 2..(Horizon + MaxDuration)

Ops == {"hold", "manual", "approve", "assign", "reschedule"}
Steps == {"lock", "check", "limits", "write"}

Idle == [pc |-> "idle"]
\* All that is left to do is to release the lock.
Releasing(s) == [pc |-> "release", salon |-> s]
Tasks == [pc : Steps, op : Ops, salon : Salons, booking : Bookings \cup {None},
          customer : Customers \cup {None}, worker : Workers \cup {None}, from : Starts, to : Ends,
          seen : BookingStatus, ok : BOOLEAN]

Task(pc, op, s, b, c, w, f, e, seen, ok) ==
    [pc |-> pc, op |-> op, salon |-> s, booking |-> b, customer |-> c, worker |-> w,
     from |-> f, to |-> e, seen |-> seen, ok |-> ok]
Goto(h, task) == local' = [local EXCEPT ![h] = task]
At(h, pc) == local[h].pc = pc
Advance(h, pc) ==
    LET t == local[h]
    IN  Goto(h, Task(pc, t.op, t.salon, t.booking, t.customer, t.worker, t.from, t.to,
                     t.seen, t.ok))
Finish(h) == Goto(h, Releasing(local[h].salon))

TypeOK ==
    /\ status \in [Bookings -> BookingStatus]
    /\ salon \in [Bookings -> Salons \cup {None}]
    /\ customer \in [Bookings -> Customers \cup {None}]
    /\ worker \in [Bookings -> Workers \cup {None}]
    /\ source \in [Bookings -> {"online", "manual"}]
    /\ startsAt \in [Bookings -> Starts]
    /\ endsAt \in [Bookings -> Ends]
    /\ \A b \in Bookings :
          /\ startsAt[b] < endsAt[b]
          /\ status[b] # "none" => salon[b] # None /\ customer[b] # None
    /\ moved \in [Bookings -> BOOLEAN]
    /\ lock \in [Salons -> Requests \cup {None}]
    /\ local \in [Requests -> Tasks \cup {Idle} \cup {Releasing(s) : s \in Salons}]
    /\ \A h \in Requests : local[h].pc \in Steps => local[h].from < local[h].to

\* The columns of a row mean nothing before it exists.
Init ==
    /\ status = [b \in Bookings |-> "none"]
    /\ salon = [b \in Bookings |-> None]
    /\ customer = [b \in Bookings |-> None]
    /\ worker = [b \in Bookings |-> None]
    /\ source = [b \in Bookings |-> "online"]
    /\ startsAt = [b \in Bookings |-> 1]
    /\ endsAt = [b \in Bookings |-> 2]
    /\ moved = [b \in Bookings |-> FALSE]
    /\ lock = [s \in Salons |-> None]
    /\ local = [h \in Requests |-> Idle]

-----------------------------------------------------------------------------
(* The counts of the transactions.                                          *)

Blocking(b) == status[b] \in SlotBlocking
Meets(b, f, e) == startsAt[b] < e /\ endsAt[b] > f

\* The bookings a booking of s from f to e, other than b itself, would share a chair with.
Overlapping(s, f, e, b) ==
    {x \in Bookings \ {b} : Blocking(x) /\ salon[x] = s /\ Meets(x, f, e)}
HasRoomLoose(s, f, e, b) == Cardinality(Overlapping(s, f, e, b)) <= Capacity   \* mutant
HasRoom(s, f, e, b) == Cardinality(Overlapping(s, f, e, b)) < Capacity

\* A worker belongs to one salon.
WorkerFreeHold(s, w, f, e, b) == TRUE   \* mutant
WorkerFree(s, w, f, e, b) ==
    \/ w = None
    \/ \A x \in Bookings \ {b} :
          ~(Blocking(x) /\ salon[x] = s /\ worker[x] = w /\ Meets(x, f, e))

\* assertWithinActiveBookingLimits.
Active(c) == {x \in Bookings : customer[x] = c /\ Blocking(x)}
WithinLimits(c, s, f, e) ==
    /\ \A x \in Active(c) : ~Meets(x, f, e)
    /\ Cardinality(Active(c)) < MaxActive
    /\ Cardinality({x \in Active(c) : salon[x] = s}) < MaxAtSalon

-----------------------------------------------------------------------------
(* The salon lock.                                                          *)

\* acquireLock: SET NX; a request that loses the race answers 409 (Abandon).
AcquireLock(h) ==
    /\ At(h, "lock")
    /\ lock[local[h].salon] = None
    /\ lock' = [lock EXCEPT ![local[h].salon] = h]
    /\ Advance(h, "check")
    /\ UNCHANGED rows

\* releaseLockIfOwner: the token is compared and the key deleted in one script.
ReleaseLockBlindly(h) ==   \* mutant: DEL whoever holds it
    /\ At(h, "release")
    /\ lock' = [lock EXCEPT ![local[h].salon] = None]
    /\ Goto(h, Idle)
    /\ UNCHANGED rows
ReleaseLock(h) ==
    /\ At(h, "release")
    /\ lock' = [lock EXCEPT ![local[h].salon] = IF @ = h THEN None ELSE @]
    /\ Goto(h, Idle)
    /\ UNCHANGED rows

Working(h, s) == local[h] # Idle /\ local[h].salon = s /\ ~At(h, "lock")

\* The TTL runs out: on the key of a request that is gone, and, unless LockHolds, under
\* one that is still at work.
LapseOfLiving(s) ==   \* mutant: a key without TTL stays when its request dies
    /\ lock[s] # None
    /\ ~LockHolds
    /\ Working(lock[s], s)
    /\ lock' = [lock EXCEPT ![s] = None]
    /\ UNCHANGED <<rows, local>>
LapseUnderWork(s) ==   \* mutant: a TTL shorter than the work
    /\ lock[s] # None
    /\ lock' = [lock EXCEPT ![s] = None]
    /\ UNCHANGED <<rows, local>>
Lapse(s) ==
    /\ lock[s] # None
    /\ LockHolds => ~Working(lock[s], s)
    /\ lock' = [lock EXCEPT ![s] = None]
    /\ UNCHANGED <<rows, local>>

-----------------------------------------------------------------------------
(* Before the lock.                                                         *)

\* createHoldImpl and createManualImpl: a future time, a service's duration, maybe a worker.
Create(h, op, s, c, w, f, d) ==
    /\ local[h] = Idle
    /\ Goto(h, Task("lock", op, s, None, c, w, f, f + d, "none", FALSE))
    /\ UNCHANGED <<rows, lock>>

\* assignWorker takes the lock before it reads the booking.
AssignWorker(h, b, w) ==
    /\ local[h] = Idle
    /\ status[b] # "none"
    /\ Goto(h, Task("lock", "assign", salon[b], b, None, w, startsAt[b], endsAt[b],
                    "none", FALSE))
    /\ UNCHANGED <<rows, lock>>

\* approve reads the request, its worker and its time before the lock.
ApproveRequest(h, b) ==
    /\ local[h] = Idle
    /\ status[b] = "pending_approval"
    /\ Goto(h, Task("lock", "approve", salon[b], b, None, worker[b], startsAt[b],
                    endsAt[b], status[b], FALSE))
    /\ UNCHANGED <<rows, lock>>

\* reschedule reads the booking, its worker included, before the lock.
Reschedule(h, b, f, d) ==
    /\ local[h] = Idle
    /\ Blocking(b)
    /\ Goto(h, Task("lock", "reschedule", salon[b], b, None, worker[b], f, f + d,
                    status[b], FALSE))
    /\ UNCHANGED <<rows, lock>>

-----------------------------------------------------------------------------
(* Under the lock: the transaction's reads, its writes, and its commit.     *)

\* createHoldImpl, createManualImpl and reschedule count chairs, then the worker's hours;
\* reschedule with the worker it read before the lock.
CheckSlot(h) ==
    LET t == local[h]
        passes == /\ HasRoom(t.salon, t.from, t.to, t.booking)
                  /\ WorkerFree(t.salon, t.worker, t.from, t.to, t.booking)
    IN  /\ At(h, "check")
        /\ t.op \in {"hold", "manual", "reschedule"}
        /\ IF passes THEN Advance(h, IF t.op = "hold" THEN "limits" ELSE "write")
           ELSE Finish(h)
        /\ UNCHANGED <<rows, lock>>

\* approve re-checks the same, and that the worker still works and offers the service, and
\* acts on either answer.
CheckApproval(h, eligible) ==
    LET t == local[h]
        passes == /\ HasRoom(t.salon, t.from, t.to, t.booking)
                  /\ WorkerFree(t.salon, t.worker, t.from, t.to, t.booking)
    IN  /\ At(h, "check")
        /\ t.op = "approve"
        /\ Goto(h, Task("write", "approve", t.salon, t.booking, t.customer, t.worker,
                        t.from, t.to, t.seen, passes /\ eligible))
        /\ UNCHANGED <<rows, lock>>

\* assignWorker reads the booking and counts the worker's other hours.
CheckAssignment(h) ==
    LET t == local[h]
        b == t.booking
        passes == /\ status[b] # "over"
                  /\ WorkerFree(t.salon, t.worker, startsAt[b], endsAt[b], b)
    IN  /\ At(h, "check")
        /\ t.op = "assign"
        /\ IF passes
           THEN Goto(h, Task("write", "assign", t.salon, b, None, t.worker, startsAt[b],
                             endsAt[b], status[b], FALSE))
           ELSE Finish(h)
        /\ UNCHANGED <<rows, lock>>

\* The customer's advisory lock is held from the count to the commit or rollback.
AdvisoryFree(c) ==
    \A g \in Requests : ~(At(g, "write") /\ local[g].op = "hold" /\ local[g].customer = c)

CheckLimitsUnlocked(h) ==   \* mutant: no advisory lock
    LET t == local[h]
        passes == WithinLimits(t.customer, t.salon, t.from, t.to)
    IN  /\ At(h, "limits")
        /\ IF passes THEN Advance(h, "write") ELSE Finish(h)
        /\ UNCHANGED <<rows, lock>>
CheckLimits(h) ==
    LET t == local[h]
        passes == WithinLimits(t.customer, t.salon, t.from, t.to)
    IN  /\ At(h, "limits")
        /\ AdvisoryFree(t.customer)
        /\ IF passes THEN Advance(h, "write") ELSE Finish(h)
        /\ UNCHANGED <<rows, lock>>

\* The INSERT of createHoldImpl (which status it starts in is BookingPayment's matter) and
\* of createManualImpl.
Insert(h, b, s) ==
    LET t == local[h]
    IN  /\ At(h, "write")
        /\ t.op \in {"hold", "manual"}
        /\ t.op = "manual" => s = "confirmed"
        /\ status[b] = "none"
        /\ status' = [status EXCEPT ![b] = s]
        /\ salon' = [salon EXCEPT ![b] = t.salon]
        /\ customer' = [customer EXCEPT ![b] = t.customer]
        /\ worker' = [worker EXCEPT ![b] = t.worker]
        /\ source' = [source EXCEPT ![b] = IF t.op = "manual" THEN "manual" ELSE "online"]
        /\ startsAt' = [startsAt EXCEPT ![b] = t.from]
        /\ endsAt' = [endsAt EXCEPT ![b] = t.to]
        /\ Finish(h)
        /\ UNCHANGED <<moved, lock>>

\* approve: UPDATE ... WHERE status = 'pending_approval', to `s` or to expired.
Approve(h, s) ==
    LET t == local[h]
    IN  /\ At(h, "write")
        /\ t.op = "approve"
        /\ s \in (IF t.ok THEN {"pending_payment", "confirmed"} ELSE {"over"})
        /\ status' = [status EXCEPT ![t.booking] = IF @ = "pending_approval" THEN s ELSE @]
        /\ Finish(h)
        /\ UNCHANGED <<appointment, worker, span, lock>>

\* assignWorker: UPDATE ... SET worker_id WHERE status is the status read.
Assign(h) ==
    LET t == local[h]
    IN  /\ At(h, "write")
        /\ t.op = "assign"
        /\ worker' = [worker EXCEPT ![t.booking] =
                          IF status[t.booking] = t.seen THEN t.worker ELSE @]
        /\ Finish(h)
        /\ UNCHANGED <<status, appointment, span, lock>>

\* reschedule: UPDATE ... SET starts_at, ends_at WHERE status is the status read.
MoveUnguarded(h) ==   \* mutant: the status read before the lock is trusted
    LET t == local[h]
        b == t.booking
    IN  /\ At(h, "write")
        /\ t.op = "reschedule"
        /\ status' = [status EXCEPT ![b] = t.seen]
        /\ startsAt' = [startsAt EXCEPT ![b] = t.from]
        /\ endsAt' = [endsAt EXCEPT ![b] = t.to]
        /\ moved' = [moved EXCEPT ![b] = TRUE]
        /\ Finish(h)
        /\ UNCHANGED <<appointment, worker, lock>>
Move(h) ==
    LET t == local[h]
        b == t.booking
        wins == status[b] = t.seen
    IN  /\ At(h, "write")
        /\ t.op = "reschedule"
        /\ startsAt' = [startsAt EXCEPT ![b] = IF wins THEN t.from ELSE @]
        /\ endsAt' = [endsAt EXCEPT ![b] = IF wins THEN t.to ELSE @]
        /\ moved' = [moved EXCEPT ![b] = @ \/ wins]
        /\ Finish(h)
        /\ UNCHANGED <<status, appointment, worker, lock>>

\* A check or a write throws: the transaction is rolled back, the lock released.
Rollback(h) ==
    /\ local[h].pc \in {"check", "limits", "write"}
    /\ Finish(h)
    /\ UNCHANGED <<rows, lock>>

-----------------------------------------------------------------------------
(* The rest of the system.                                                  *)

\* A request ends early: the lock was taken, or the process died and left the key to its
\* TTL (and its transaction, with the advisory lock, to the database).
Abandon(h) ==
    /\ local[h] # Idle
    /\ Goto(h, Idle)
    /\ UNCHANGED <<rows, lock>>

\* What becomes of a booking without the salon lock, by an UPDATE conditional on its status
\* (BookingPayment says when): a held one is paid ...
Confirms(b, s) == status[b] = "pending_payment" /\ s = "confirmed"
\* ... or any is cancelled, rejected, expired, completed or missed.
Closes(b, s) == status[b] \in SlotBlocking /\ s = "over"
Change(b, s) ==
    /\ Confirms(b, s) \/ Closes(b, s)
    /\ status' = [status EXCEPT ![b] = s]
    /\ UNCHANGED <<appointment, worker, span, lock, local>>

Start(h) ==
    \/ \E op \in {"hold", "manual"}, s \in Salons, c \in Customers, w \in Workers \cup {None},
          f \in Starts, d \in 1..MaxDuration : Create(h, op, s, c, w, f, d)
    \/ \E b \in Bookings : \/ \E w \in Workers : AssignWorker(h, b, w)
                           \/ ApproveRequest(h, b)
                           \/ \E f \in Starts, d \in 1..MaxDuration : Reschedule(h, b, f, d)

Step(h) ==
    \/ AcquireLock(h)
    \/ CheckSlot(h)
    \/ \E eligible \in BOOLEAN : CheckApproval(h, eligible)
    \/ CheckAssignment(h)
    \/ CheckLimits(h)
    \/ \E b \in Bookings, s \in SlotBlocking : Insert(h, b, s)
    \/ \E s \in BookingStatus : Approve(h, s)
    \/ Assign(h)
    \/ Move(h)
    \/ Rollback(h)
    \/ ReleaseLock(h)

Next ==
    \/ \E h \in Requests : Start(h) \/ Step(h) \/ Abandon(h)
    \/ \E s \in Salons : Lapse(s)
    \/ \E b \in Bookings, s \in BookingStatus : Change(b, s)

Spec == Init /\ [][Next]_vars

\* The TTL of a request that is gone runs out, and every request comes to its end.  No key
\* is counted on to run out under a request at work: that one has to end first.
LapseOfGone(s) == lock[s] # None /\ ~Working(lock[s], s) /\ Lapse(s)

Fairness ==
    /\ \A s \in Salons : WF_vars(LapseOfGone(s))
    /\ \A h \in Requests : WF_vars(Step(h) \/ Abandon(h))

FairSpec == Spec /\ Fairness

-----------------------------------------------------------------------------
(* Safety.                                                                  *)

\* No hour of a salon is sold more often than the salon has chairs, whatever the durations
\* and whichever of the five operations put or moved the bookings there.
CapacityRespected ==
    \A s \in Salons, i \in Starts \cup Ends :
        Cardinality({b \in Bookings : Blocking(b) /\ salon[b] = s /\ Meets(b, i, i + 1)})
            <= Capacity

Clash(a, b) == a # b /\ Blocking(a) /\ Blocking(b) /\ Meets(a, startsAt[b], endsAt[b])

\* Two live bookings that ask for the same worker at the same time: one of them was moved.
WorkerClashNeedsMove ==
    \A a, b \in Bookings :
        Clash(a, b) /\ worker[a] = worker[b] /\ worker[a] # None /\ salon[a] = salon[b] =>
            moved[a] \/ moved[b]

\* A customer holds overlapping online bookings, at whichever salons, only by moving one.
CustomerClashNeedsMove ==
    \A a, b \in Bookings :
        Clash(a, b) /\ customer[a] = customer[b] /\ source[a] = "online" /\ source[b] = "online" =>
            moved[a] \/ moved[b]

\* Parallel requests do not take a customer over the limits on active future bookings, in
\* all and at a salon.  (Walk-ins and moved bookings are not limited.)
Limited(c) == {b \in Active(c) : source[b] = "online" /\ ~moved[b]}
LimitedAt(c, s) == {b \in Limited(c) : salon[b] = s}
CustomerWithinLimits ==
    \A c \in Customers :
        /\ Cardinality(Limited(c)) <= MaxActive
        /\ \A s \in Salons : Cardinality(LimitedAt(c, s)) <= MaxAtSalon

\* A request loses the salon lock to the TTL or gives it up itself; a late release never
\* takes it from the request that acquired it meanwhile.
LockReleasedByOwner ==
    [][\A s \in Salons, h \in Requests :
          lock[s] = h /\ lock'[s] # h =>
              lock'[s] = None /\ (UNCHANGED local \/ At(h, "release"))]_vars

\* A reschedule, an assignment or an approval under way when a booking dies or ends does
\* not bring it back, nor moves it.
EndedStaysEnded ==
    [][\A b \in Bookings :
          status[b] = "over" =>
              status'[b] = status[b] /\ startsAt'[b] = startsAt[b] /\ endsAt'[b] = endsAt[b]]_vars

-----------------------------------------------------------------------------
(* The inductive invariant: what a request knows between two of its steps.   *)

\* The booking a request is about exists, at the salon it locks.
TaskFits(t) ==
    /\ t.op \in {"hold", "manual"} => t.booking = None /\ t.customer # None
    /\ t.op \notin {"hold", "manual"} =>
          /\ t.booking \in Bookings
          /\ status[t.booking] # "none" /\ salon[t.booking] = t.salon
    /\ t.pc = "limits" => t.op = "hold"
    /\ t.op \in {"approve", "reschedule"} => t.seen \in SlotBlocking

Held == {local[h] : h \in Requests}
TasksFit == \A t \in Held : t.pc \in Steps => TaskFits(t)

\* At most one request works on a salon: the one whose token the lock holds.
SalonExclusive == LockHolds => \A h \in Requests, s \in Salons : Working(h, s) => lock[s] = h

\* A request that has checked still has the chair and the worker it found free.
StillFree(t) ==
    /\ t.op \in {"hold", "manual", "reschedule"} => HasRoom(t.salon, t.from, t.to, t.booking)
    /\ t.op \in {"hold", "manual"} => WorkerFree(t.salon, t.worker, t.from, t.to, t.booking)
    /\ t.op = "assign" =>
          /\ t.from = startsAt[t.booking] /\ t.to = endsAt[t.booking]
          /\ WorkerFree(t.salon, t.worker, t.from, t.to, t.booking)

ChecksHold ==
    LockHolds => \A t \in Held : t.pc \in {"limits", "write"} => StillFree(t)

\* A hold that passed the limits has the customer's advisory lock, so it still is within them.
Limiting(t) == t.pc = "write" /\ t.op = "hold"
AdvisoryExclusive ==
    \A g, h \in Requests :
        Limiting(local[g]) /\ Limiting(local[h]) /\ local[g].customer = local[h].customer => g = h
LimitsHold ==
    \A t \in Held : Limiting(t) =>
        /\ t.customer \in Customers
        /\ \A x \in Limited(t.customer) : ~Meets(x, t.from, t.to)
        /\ Cardinality(Limited(t.customer)) < MaxActive
        /\ Cardinality(LimitedAt(t.customer, t.salon)) < MaxAtSalon

IInv ==
    /\ TypeOK
    /\ TasksFit
    /\ SalonExclusive
    /\ ChecksHold
    /\ LockHolds => CapacityRespected
    /\ LockHolds => WorkerClashNeedsMove
    /\ AdvisoryExclusive
    /\ LimitsHold
    /\ CustomerClashNeedsMove
    /\ CustomerWithinLimits

-----------------------------------------------------------------------------
(* Progress, under FairSpec.                                                *)

\* A salon is never locked for good: whoever took the lock comes to its release, whichever
\* check or write refuses it on the way, or dies and leaves the key to its TTL.
SalonUnlocks == \A s \in Salons : lock[s] # None ~> lock[s] = None

-----------------------------------------------------------------------------
(* The abstract calendar.                                                   *)

Calendar == INSTANCE Calendar WITH
                place <- salon, from <- startsAt, to <- endsAt,
                takes <- [b \in Bookings |-> Blocking(b)]

\* While no critical section outlives the lock, count and write are one step.
ImplementsCalendar == Calendar!Spec

-----------------------------------------------------------------------------
(* What the code's comments say, and the code does not do.                  *)

\* bookings.service.ts: a worker can only be in one place at a time.
WorkerInOnePlace ==
    \A a, b \in Bookings :
        ~(Clash(a, b) /\ worker[a] = worker[b] /\ worker[a] # None /\ salon[a] = salon[b])

=============================================================================
