-------------------------- MODULE SalonSlotsProofs --------------------------
(***************************************************************************)
(* Proofs about SalonSlots, for any salons, customers, workers, bookings,   *)
(* requests, chairs and durations.  Three writes take a chair or a worker's *)
(* hour (Writes); every other step leaves each salon calm.  A writer has    *)
(* the salon's lock to itself, so what it checked still holds.  The limits  *)
(* of a customer rest on the advisory lock alone.                           *)
(***************************************************************************)
EXTENDS SalonSlots, FiniteSetTheorems, TLAPS

(* Types and tasks.                                                         *)

LEMMA InitType == Init => TypeOK
BY NoneAssumption, TimeAssumption, SMT
   DEF Init, TypeOK, BookingStatus, SlotBlocking, Starts, Ends, Idle, Steps

TypedFit == TypeOK /\ TasksFit

LEMMA TypeStep == TypedFit /\ [Next]_vars => TypeOK'
<1> SUFFICES ASSUME TypedFit, [Next]_vars PROVE TypeOK'
  OBVIOUS
<1> USE NoneAssumption, TimeAssumption
    DEF TypedFit, TypeOK, TasksFit, Held, TaskFits, Tasks, Steps, Idle, Task, Goto, At, Advance,
     Finish, Releasing, rows, appointment, span, Starts, Ends, Ops, BookingStatus, SlotBlocking
<1>1. ASSUME NEW h \in Requests, Start(h) PROVE TypeOK'
  <2>1. ASSUME NEW op \in {"hold", "manual"}, NEW s \in Salons, NEW c \in Customers,
               NEW w \in Workers \cup {None}, NEW f \in Starts, NEW d \in 1..MaxDuration,
               Create(h, op, s, c, w, f, d)
        PROVE TypeOK'
    BY <2>1 DEF Create
  <2>2. ASSUME NEW b \in Bookings, NEW w \in Workers, AssignWorker(h, b, w) PROVE TypeOK'
    BY <2>2 DEF AssignWorker
  <2>3. ASSUME NEW b \in Bookings, ApproveRequest(h, b) PROVE TypeOK'
    BY <2>3 DEF ApproveRequest
  <2>4. ASSUME NEW b \in Bookings, NEW f \in Starts, NEW d \in 1..MaxDuration,
               Reschedule(h, b, f, d)
        PROVE TypeOK'
    BY <2>4 DEF Reschedule, Blocking
  <2> QED
    BY <1>1, <2>1, <2>2, <2>3, <2>4 DEF Start
<1>2. ASSUME NEW h \in Requests, AcquireLock(h) PROVE TypeOK'
  BY <1>2 DEF AcquireLock
<1>3. ASSUME NEW h \in Requests, CheckSlot(h) PROVE TypeOK'
  BY <1>3 DEF CheckSlot
<1>4. ASSUME NEW h \in Requests, NEW e \in BOOLEAN, CheckApproval(h, e) PROVE TypeOK'
  BY <1>4 DEF CheckApproval
<1>5. ASSUME NEW h \in Requests, CheckAssignment(h) PROVE TypeOK'
  <2>1. local[h] \in Tasks /\ TaskFits(local[h]) /\ local[h].op = "assign"
    BY <1>5 DEF CheckAssignment
  <2>2. /\ local[h].booking \in Bookings /\ local[h].salon \in Salons
        /\ local[h].worker \in Workers \cup {None}
    BY <2>1
  <2>3. local'[h] \in Tasks \cup {Releasing(s) : s \in Salons}
    <3>1. CASE local' = [local EXCEPT ![h] = Releasing(local[h].salon)]
      BY <2>2, <3>1
    <3>2. CASE local' # [local EXCEPT ![h] = Releasing(local[h].salon)]
      <4> DEFINE b == local[h].booking
      <4> DEFINE n == Task("write", "assign", local[h].salon, b, None, local[h].worker,
                           startsAt[b], endsAt[b], status[b], FALSE)
      <4>1. local' = [local EXCEPT ![h] = n]
        BY <1>5, <3>2 DEF CheckAssignment
      <4>2. startsAt[b] \in Starts /\ endsAt[b] \in Ends /\ status[b] \in BookingStatus
        BY <2>2
      <4>3. n \in Tasks
        BY <2>2, <4>2
      <4> QED
        BY <4>1, <4>3
    <3> QED
      BY <3>1, <3>2
  <2>4. local'[h].pc \in Steps => local'[h].from < local'[h].to
    BY <1>5, <2>2 DEF CheckAssignment
  <2> QED
    BY <1>5, <2>3, <2>4 DEF CheckAssignment
<1>6. ASSUME NEW h \in Requests, CheckLimits(h) PROVE TypeOK'
  BY <1>6 DEF CheckLimits
<1>7. ASSUME NEW h \in Requests, NEW b \in Bookings, NEW s \in SlotBlocking, Insert(h, b, s)
      PROVE TypeOK'
  <2> DEFINE t == local[h]
  <2>1. t \in Tasks /\ t.customer # None /\ t.from < t.to
    BY <1>7 DEF Insert
  <2>2. /\ t.salon \in Salons /\ t.customer \in Customers /\ t.worker \in Workers \cup {None}
        /\ t.from \in Starts /\ t.to \in Ends /\ t.salon # None
    BY <2>1
  <2>3. \A x \in Bookings :
           /\ startsAt'[x] < endsAt'[x]
           /\ status'[x] # "none" => salon'[x] # None /\ customer'[x] # None
    BY <1>7, <2>1, <2>2 DEF Insert
  <2> QED
    BY <1>7, <2>2, <2>3 DEF Insert
<1>8. ASSUME NEW h \in Requests, NEW s \in BookingStatus, Approve(h, s) PROVE TypeOK'
  BY <1>8 DEF Approve
<1>9. ASSUME NEW h \in Requests, Assign(h) PROVE TypeOK'
  BY <1>9 DEF Assign
<1>10. ASSUME NEW h \in Requests, Move(h) PROVE TypeOK'
  BY <1>10 DEF Move
<1>11. ASSUME NEW h \in Requests, Rollback(h) PROVE TypeOK'
  <2>1. local[h] \in Tasks
    BY <1>11 DEF Rollback
  <2>2. local[h].salon \in Salons
    BY <2>1
  <2> QED
    BY <1>11, <2>2 DEF Rollback
<1>12. ASSUME NEW h \in Requests, ReleaseLock(h) PROVE TypeOK'
  BY <1>12 DEF ReleaseLock
<1>13. ASSUME NEW h \in Requests, Abandon(h) PROVE TypeOK'
  BY <1>13 DEF Abandon
<1>14. ASSUME NEW s \in Salons, Lapse(s) PROVE TypeOK'
  BY <1>14 DEF Lapse
<1>15. ASSUME NEW b \in Bookings, NEW s \in BookingStatus, Change(b, s) PROVE TypeOK'
  BY <1>15 DEF Change, Confirms, Closes
<1>16. CASE UNCHANGED vars
  BY <1>16 DEF vars
<1> HIDE DEF TypedFit, TypeOK, TasksFit, rows
<1> QED
  BY <1>1, <1>2, <1>3, <1>4, <1>5, <1>6, <1>7, <1>8, <1>9, <1>10, <1>11, <1>12, <1>13, 
     <1>14, <1>15, <1>16 DEF Next, Step

\* A row that exists stays, at its salon.
Persist == \A b \in Bookings : status[b] # "none" => status'[b] # "none" /\ salon'[b] = salon[b]

LEMMA RowsPersist == TypedFit /\ [Next]_vars => Persist
<1> SUFFICES ASSUME TypedFit, [Next]_vars PROVE Persist
  OBVIOUS
<1> USE DEF TypedFit, TypeOK, Persist, rows, appointment, span
<1>1. CASE UNCHANGED rows
  BY <1>1
<1>2. ASSUME NEW h \in Requests, NEW b \in Bookings, NEW s \in SlotBlocking, Insert(h, b, s)
      PROVE Persist
  BY <1>2 DEF Insert, SlotBlocking
<1>3. ASSUME NEW h \in Requests, NEW s \in BookingStatus, Approve(h, s) PROVE Persist
  BY <1>3 DEF Approve
<1>4. ASSUME NEW h \in Requests, Assign(h) PROVE Persist
  BY <1>4 DEF Assign
<1>5. ASSUME NEW h \in Requests, Move(h) PROVE Persist
  BY <1>5 DEF Move
<1>6. ASSUME NEW b \in Bookings, NEW s \in BookingStatus, Change(b, s) PROVE Persist
  BY <1>6 DEF Change, Confirms, Closes
<1> HIDE DEF rows, appointment, span, TypeOK
<1>7. ASSUME NEW h \in Requests, Start(h) \/ Abandon(h) PROVE UNCHANGED rows
  BY <1>7 DEF Start, Abandon, Create, AssignWorker, ApproveRequest, Reschedule
<1>8. ASSUME NEW h \in Requests,
             AcquireLock(h) \/ CheckSlot(h) \/ CheckAssignment(h) \/ CheckLimits(h) \/
             Rollback(h) \/ ReleaseLock(h) \/ \E e \in BOOLEAN : CheckApproval(h, e)
      PROVE UNCHANGED rows
  BY <1>8 DEF AcquireLock, CheckSlot, CheckAssignment, CheckLimits, Rollback, ReleaseLock,
              CheckApproval
<1>9. ASSUME NEW s \in Salons, Lapse(s) PROVE UNCHANGED rows
  BY <1>9 DEF Lapse
<1>10. CASE UNCHANGED vars
  BY <1>1, <1>10 DEF vars
<1> QED
  BY <1>1, <1>2, <1>3, <1>4, <1>5, <1>6, <1>7, <1>8, <1>9, <1>10 DEF Next, Step

\* A request's task changes by its own steps only.
LEMMA OwnStep ==
    ASSUME TypeOK, [Next]_vars, NEW g \in Requests
    PROVE  local'[g] = local[g] \/ Start(g) \/ Step(g) \/ Abandon(g)
<1>1. CASE UNCHANGED vars
  BY <1>1 DEF vars
<1>2. ASSUME NEW s \in Salons, Lapse(s) PROVE local' = local
  BY <1>2 DEF Lapse
<1>3. ASSUME NEW b \in Bookings, NEW s \in BookingStatus, Change(b, s) PROVE local' = local
  BY <1>3 DEF Change, Confirms, Closes
<1>4. ASSUME NEW h \in Requests, h # g, Start(h) \/ Step(h) \/ Abandon(h) PROVE local'[g] = local[g]
  <2>1. PICK n : Goto(h, n)
    <3>1. CASE Start(h)
      BY <3>1 DEF Start, Create, AssignWorker, ApproveRequest, Reschedule
    <3>2. CASE Abandon(h)
      BY <3>2 DEF Abandon
    <3>3. CASE AcquireLock(h) \/ CheckSlot(h) \/ CheckAssignment(h) \/ CheckLimits(h)
      BY <3>3 DEF AcquireLock, CheckSlot, CheckAssignment, CheckLimits, Finish, Advance
    <3>4. CASE Assign(h) \/ Move(h) \/ Rollback(h) \/ ReleaseLock(h)
      BY <3>4 DEF Assign, Move, Rollback, ReleaseLock, Finish
    <3>5. CASE \E e \in BOOLEAN : CheckApproval(h, e)
      BY <3>5 DEF CheckApproval
    <3>6. CASE \E s \in BookingStatus : Approve(h, s)
      BY <3>6 DEF Approve, Finish
    <3>7. CASE \E b \in Bookings, s \in SlotBlocking : Insert(h, b, s)
      BY <3>7 DEF Insert, Finish
    <3> QED
      BY <1>4, <3>1, <3>2, <3>3, <3>4, <3>5, <3>6, <3>7 DEF Step
  <2> QED
    BY <1>4, <2>1 DEF Goto, TypeOK
<1> QED
  BY <1>1, <1>2, <1>3, <1>4 DEF Next

LEMMA FitStep == TypedFit /\ [Next]_vars => TasksFit'
<1> SUFFICES ASSUME TypedFit, [Next]_vars, NEW g \in Requests, NEW t, t = local'[g], t.pc \in Steps
             PROVE  TaskFits(t)'
  BY DEF TasksFit, Held
<1>1. Persist
  BY RowsPersist
<1>2. TypeOK /\ TasksFit
  BY DEF TypedFit
<1>3. CASE local'[g] = local[g]
  <2>1. TaskFits(t)
    BY <1>2, <1>3 DEF TasksFit, Held
  <2> QED
    BY <1>1, <2>1 DEF TaskFits, Persist
<1> USE <1>2 DEF TypeOK, TaskFits, Task, Goto, Releasing, Idle, Steps
<1>4. CASE Start(g)
  BY <1>4, NoneAssumption DEF Start, Create, AssignWorker, ApproveRequest, Reschedule, rows,
          appointment, Blocking, SlotBlocking
<1>5. CASE Abandon(g)
  BY <1>5 DEF Abandon
<1>6. CASE AcquireLock(g)
  BY <1>6 DEF AcquireLock, Advance, At, TasksFit, Held, rows, appointment
<1>7. CASE CheckSlot(g)
  BY <1>7 DEF CheckSlot, Advance, Finish, At, TasksFit, Held, rows, appointment
<1>8. CASE CheckAssignment(g)
  BY <1>8 DEF CheckAssignment, Finish, At, TasksFit, Held, rows, appointment
<1>9. CASE CheckLimits(g)
  BY <1>9 DEF CheckLimits, Advance, Finish, At, TasksFit, Held, rows, appointment
<1>10. ASSUME NEW e \in BOOLEAN, CheckApproval(g, e) PROVE TaskFits(t)'
  BY <1>10 DEF CheckApproval, At, TasksFit, Held, rows, appointment
<1>11. CASE Finish(g) \/ ReleaseLock(g)
  BY <1>11 DEF Finish, ReleaseLock
<1>12. CASE Assign(g) \/ Move(g) \/ Rollback(g)
  BY <1>11, <1>12 DEF Assign, Move, Rollback
<1>13. CASE \E s \in BookingStatus : Approve(g, s)
  BY <1>11, <1>13 DEF Approve
<1>14. CASE \E b \in Bookings, s \in SlotBlocking : Insert(g, b, s)
  BY <1>11, <1>14 DEF Insert
<1> HIDE DEF TypeOK, TaskFits
<1> QED
  BY <1>3, <1>4, <1>5, <1>6, <1>7, <1>8, <1>9, <1>10, <1>12, <1>13, <1>14, <1>11, OwnStep DEF Step

\* Under the assumption on the lock, whoever is past acquiring it still has it.
LEMMA ExclusiveStep == TypedFit /\ SalonExclusive /\ [Next]_vars => SalonExclusive'
<1> SUFFICES ASSUME TypedFit, SalonExclusive, [Next]_vars, LockHolds,
                    NEW g \in Requests, NEW s \in Salons, Working(g, s)'
             PROVE  lock'[s] = g
  BY DEF SalonExclusive
<1>1. TypeOK
  BY DEF TypedFit
<1>2. Working(g, s) => lock[s] = g
  BY DEF SalonExclusive
<1>3. CASE local'[g] = local[g]
  <2>1. Working(g, s) /\ lock[s] = g
    BY <1>2, <1>3 DEF Working, At
  <2>2. CASE UNCHANGED lock
    BY <2>1, <2>2
  <2>3. ASSUME NEW h \in Requests, AcquireLock(h) PROVE lock'[s] = g
    BY <2>1, <2>3, <1>1, NoneAssumption DEF AcquireLock, TypeOK
  <2>4. ASSUME NEW h \in Requests, ReleaseLock(h) PROVE lock'[s] = g
    <3>1. h # g
      BY <1>1, <1>3, <2>1, <2>4 DEF ReleaseLock, At, Goto, TypeOK, Idle, Working
    <3> QED
      BY <1>1, <2>1, <2>4, <3>1 DEF ReleaseLock, TypeOK
  <2>5. ASSUME NEW x \in Salons, Lapse(x) PROVE lock'[s] = g
    BY <1>1, <2>1, <2>5 DEF Lapse, TypeOK
  <2>6. ASSUME NEW h \in Requests, Start(h) \/ Abandon(h) PROVE UNCHANGED lock
    BY <2>6 DEF Start, Abandon, Create, AssignWorker, ApproveRequest, Reschedule
  <2>7. ASSUME NEW h \in Requests, Step(h), ~AcquireLock(h), ~ReleaseLock(h) PROVE UNCHANGED lock
    BY <2>7 DEF Step, CheckSlot, CheckApproval, CheckAssignment, CheckLimits, Insert, Approve,
                Assign, Move, Rollback
  <2>8. ASSUME NEW b \in Bookings, NEW x \in BookingStatus, Change(b, x) PROVE UNCHANGED lock
    BY <2>8 DEF Change, Confirms, Closes
  <2>9. UNCHANGED vars => UNCHANGED lock
    BY DEF vars
  <2> QED
    BY <2>2, <2>3, <2>4, <2>5, <2>6, <2>7, <2>8, <2>9 DEF Next
<1>4. CASE Start(g)
  BY <1>1, <1>4 DEF Start, Create, AssignWorker, ApproveRequest, Reschedule, Working, At, Goto,
                    Task, TypeOK
<1>5. CASE Abandon(g) \/ ReleaseLock(g)
  BY <1>1, <1>5 DEF Abandon, ReleaseLock, Working, At, Goto, TypeOK
<1>6. CASE AcquireLock(g)
  BY <1>1, <1>6 DEF AcquireLock, Advance, Working, At, Goto, Task, TypeOK
<1>7. CASE Step(g) /\ ~AcquireLock(g) /\ ~ReleaseLock(g)
  <2>1. /\ local'[g].salon = local[g].salon /\ UNCHANGED lock
        /\ local[g].pc \in {"check", "limits", "write"}
    <3> USE <1>1 DEF Goto, Task, Releasing, At, Finish, Advance, TypeOK
    <3>1. CASE CheckSlot(g)
      BY <3>1 DEF CheckSlot
    <3>2. CASE CheckAssignment(g)
      BY <3>2 DEF CheckAssignment
    <3>3. CASE CheckLimits(g)
      BY <3>3 DEF CheckLimits
    <3>4. CASE \E e \in BOOLEAN : CheckApproval(g, e)
      BY <3>4 DEF CheckApproval
    <3>5. CASE Assign(g) \/ Move(g) \/ Rollback(g)
      BY <3>5 DEF Assign, Move, Rollback
    <3>6. CASE \E x \in BookingStatus : Approve(g, x)
      BY <3>6 DEF Approve
    <3>7. CASE \E b \in Bookings, x \in SlotBlocking : Insert(g, b, x)
      BY <3>7 DEF Insert
    <3> QED
      BY <1>7, <3>1, <3>2, <3>3, <3>4, <3>5, <3>6, <3>7 DEF Step
  <2>2. Working(g, s)
    BY <2>1 DEF Working, At, Idle
  <2> QED
    BY <1>2, <2>1, <2>2
<1> QED
  BY <1>1, <1>3, <1>4, <1>5, <1>6, <1>7, OwnStep

\* What a step may do to a salon it does not lock: a chair may come free, nothing is added,
\* moved or restaffed.
Calm(s) ==
    \A x \in Bookings :
        /\ status'[x] \in SlotBlocking /\ salon'[x] = s =>
              /\ status[x] \in SlotBlocking /\ salon[x] = s
              /\ worker'[x] = worker[x] /\ moved'[x] = moved[x]
              /\ startsAt'[x] = startsAt[x] /\ endsAt'[x] = endsAt[x]
        /\ status[x] # "none" /\ salon[x] = s =>
              startsAt'[x] = startsAt[x] /\ endsAt'[x] = endsAt[x]

Writes(h) ==
    (\E b \in Bookings, s \in SlotBlocking : Insert(h, b, s)) \/ Assign(h) \/ Move(h)

\* Only the three writes that take a chair or a worker's hour disturb a salon: the one they
\* have locked.
LEMMA CalmElsewhere ==
    TypedFit /\ [Next]_vars =>
        \/ \A s \in Salons : Calm(s)
        \/ \E h \in Requests : Writes(h) /\ \A s \in Salons \ {local[h].salon} : Calm(s)
<1> SUFFICES ASSUME TypedFit, [Next]_vars
             PROVE  \/ \A s \in Salons : Calm(s)
                    \/ \E h \in Requests : Writes(h) /\ \A s \in Salons \ {local[h].salon} : Calm(s)
  OBVIOUS
<1>0. TypeOK /\ TasksFit
  BY DEF TypedFit
<1>1. UNCHANGED rows => \A s \in Salons : Calm(s)
  BY DEF rows, appointment, span, Calm
<1>2. ASSUME NEW h \in Requests, NEW b \in Bookings, NEW x \in SlotBlocking, Insert(h, b, x),
             NEW s \in Salons \ {local[h].salon}
      PROVE Calm(s)
  BY <1>0, <1>2 DEF Insert, Calm, TypeOK, SlotBlocking
<1>3. ASSUME NEW h \in Requests, Assign(h) \/ Move(h)
      PROVE local[h].booking \in Bookings /\ salon[local[h].booking] = local[h].salon
  BY <1>0, <1>3 DEF Assign, Move, At, TasksFit, Held, TaskFits, Steps
<1>4. ASSUME NEW h \in Requests, Assign(h), NEW s \in Salons \ {local[h].salon} PROVE Calm(s)
  BY <1>0, <1>3, <1>4 DEF Assign, Calm, TypeOK, appointment, span
<1>5. ASSUME NEW h \in Requests, Move(h), NEW s \in Salons \ {local[h].salon} PROVE Calm(s)
  BY <1>0, <1>3, <1>5 DEF Move, Calm, TypeOK, appointment
<1>6. ASSUME NEW h \in Requests, NEW x \in BookingStatus, Approve(h, x), NEW s \in Salons
      PROVE Calm(s)
  BY <1>0, <1>6 DEF Approve, Calm, TypeOK, appointment, span, SlotBlocking
<1>7. ASSUME NEW b \in Bookings, NEW x \in BookingStatus, Change(b, x), NEW s \in Salons
      PROVE Calm(s)
  BY <1>0, <1>7 DEF Change, Confirms, Closes, Calm, TypeOK, appointment, span, SlotBlocking
<1>8. ASSUME NEW h \in Requests, Start(h) \/ Abandon(h) PROVE UNCHANGED rows
  BY <1>8 DEF Start, Abandon, Create, AssignWorker, ApproveRequest, Reschedule
<1>9. ASSUME NEW h \in Requests,
             AcquireLock(h) \/ CheckSlot(h) \/ CheckAssignment(h) \/ CheckLimits(h) \/
             Rollback(h) \/ ReleaseLock(h) \/ \E e \in BOOLEAN : CheckApproval(h, e)
      PROVE UNCHANGED rows
  BY <1>9 DEF AcquireLock, CheckSlot, CheckAssignment, CheckLimits, Rollback, ReleaseLock,
              CheckApproval
<1>10. ASSUME NEW s \in Salons, Lapse(s) PROVE UNCHANGED rows
  BY <1>10 DEF Lapse
<1>11. UNCHANGED vars => UNCHANGED rows
  BY DEF vars
<1>12. CASE \E h \in Requests : Writes(h)
  BY <1>2, <1>4, <1>5, <1>12 DEF Writes
<1> QED
  BY <1>1, <1>6, <1>7, <1>8, <1>9, <1>10, <1>11, <1>12 DEF Next, Step, Writes

\* In a calm salon, what was free stays free.
LEMMA CalmKeepsRoom ==
    ASSUME NEW s, NEW f, NEW e, NEW b, Calm(s), HasRoom(s, f, e, b)
    PROVE  HasRoom(s, f, e, b)'
<1>1. Overlapping(s, f, e, b)' \subseteq Overlapping(s, f, e, b)
  BY DEF Overlapping, Calm, Blocking, Meets
<1>2. IsFiniteSet(Overlapping(s, f, e, b))
  BY FiniteAssumption, FS_Subset DEF Overlapping
<1>3. Cardinality(Overlapping(s, f, e, b)') <= Cardinality(Overlapping(s, f, e, b))
  BY <1>1, <1>2, FS_Subset
<1>4. /\ Cardinality(Overlapping(s, f, e, b)') \in Nat
      /\ Cardinality(Overlapping(s, f, e, b)) \in Nat
  BY <1>1, <1>2, FS_Subset, FS_CardinalityType
<1>5. Cardinality(Overlapping(s, f, e, b)) < Capacity
  BY DEF HasRoom
<1>6. Cardinality(Overlapping(s, f, e, b)') < Capacity
  BY <1>3, <1>4, <1>5, LimitsAssumption
<1> QED
  BY <1>6 DEF HasRoom

LEMMA CalmKeepsWorkers ==
    ASSUME NEW s, NEW w, NEW f, NEW e, NEW b, Calm(s), WorkerFree(s, w, f, e, b)
    PROVE  WorkerFree(s, w, f, e, b)'
BY DEF WorkerFree, Calm, Blocking, Meets

\* A request that does not move in a step finds its salon calm: only the holder of the lock
\* disturbs it.
LEMMA OthersWaitCalmly ==
    ASSUME TypedFit, SalonExclusive, LockHolds, [Next]_vars,
           NEW g \in Requests, NEW s \in Salons, Working(g, s), local'[g] = local[g]
    PROVE  Calm(s)
<1>1. CASE \A x \in Salons : Calm(x)
  BY <1>1
<1>2. ASSUME NEW h \in Requests, Writes(h), \A x \in Salons \ {local[h].salon} : Calm(x)
      PROVE Calm(s)
  <2>1. At(h, "write") /\ Finish(h)
    BY <1>2 DEF Writes, Insert, Assign, Move
  <2>2. local'[h] # local[h]
    BY <2>1 DEF Finish, Goto, At, Releasing, TypedFit, TypeOK
  <2>3. Working(h, local[h].salon) /\ local[h].salon \in Salons
    BY <2>1 DEF Working, At, Idle, TypedFit, TypeOK, Tasks, Releasing
  <2>4. lock[s] = g /\ lock[local[h].salon] = h
    BY <2>3 DEF SalonExclusive
  <2> QED
    BY <1>2, <2>2, <2>4
<1> QED
  BY <1>1, <1>2, CalmElsewhere

\* What a request found free under the lock is free when it writes.
LEMMA ChecksStep ==
    TypedFit /\ SalonExclusive /\ ChecksHold /\ [Next]_vars => ChecksHold'
<1> SUFFICES ASSUME TypedFit, SalonExclusive, ChecksHold, [Next]_vars, LockHolds,
                    NEW g \in Requests, NEW t, t = local'[g], t.pc \in {"limits", "write"}
             PROVE  StillFree(t)'
  BY DEF ChecksHold, Held
<1>0. TypeOK /\ TasksFit
  BY DEF TypedFit
<1>1. ASSUME Calm(t.salon), StillFree(t),
             t.op = "assign" => status[t.booking] # "none" /\ salon[t.booking] = t.salon
                                  /\ t.booking \in Bookings
      PROVE  StillFree(t)'
  <2>1. t.op \in {"hold", "manual", "reschedule"} => HasRoom(t.salon, t.from, t.to, t.booking)'
    BY <1>1, CalmKeepsRoom DEF StillFree
  <2>2. t.op \in {"hold", "manual"} => WorkerFree(t.salon, t.worker, t.from, t.to, t.booking)'
    BY <1>1, CalmKeepsWorkers DEF StillFree
  <2>3. t.op = "assign" => WorkerFree(t.salon, t.worker, t.from, t.to, t.booking)'
    BY <1>1, CalmKeepsWorkers DEF StillFree
  <2>4. t.op = "assign" => t.from = startsAt'[t.booking] /\ t.to = endsAt'[t.booking]
    BY <1>1 DEF StillFree, Calm
  <2> QED
    BY <2>1, <2>2, <2>3, <2>4 DEF StillFree
<1>2. CASE local'[g] = local[g]
  <2>1. t = local[g] /\ StillFree(t) /\ TaskFits(t)
    BY <1>0, <1>2 DEF ChecksHold, TasksFit, Held, Steps
  <2>2. t.salon \in Salons /\ Working(g, t.salon)
    BY <1>0, <2>1 DEF TypeOK, Tasks, Working, At, Idle, Releasing
  <2>3. Calm(t.salon)
    BY <1>2, <2>2, OthersWaitCalmly
  <2> QED
    BY <1>1, <2>1, <2>3 DEF TaskFits
<1>3. UNCHANGED rows => Calm(t.salon)
  BY DEF rows, appointment, span, Calm
<1>4. CASE Start(g)
  BY <1>0, <1>4 DEF Start, Create, AssignWorker, ApproveRequest, Reschedule, Goto, Task, TypeOK
<1>5. CASE Abandon(g) \/ ReleaseLock(g) \/ AcquireLock(g)
  BY <1>0, <1>5 DEF Abandon, ReleaseLock, AcquireLock, Advance, Goto, Task, Idle, TypeOK
<1>6. ~Finish(g)
  BY <1>0 DEF Finish, Goto, Releasing, TypeOK
<1>7. CASE CheckSlot(g)
  <2>1. /\ HasRoom(local[g].salon, local[g].from, local[g].to, local[g].booking)
        /\ WorkerFree(local[g].salon, local[g].worker, local[g].from, local[g].to, local[g].booking)
        /\ local[g].op \in {"hold", "manual", "reschedule"}
        /\ Advance(g, IF local[g].op = "hold" THEN "limits" ELSE "write")
    BY <1>6, <1>7 DEF CheckSlot
  <2>2. /\ t.salon = local[g].salon /\ t.from = local[g].from /\ t.to = local[g].to
        /\ t.booking = local[g].booking /\ t.worker = local[g].worker /\ t.op = local[g].op
    BY <1>0, <2>1 DEF Advance, Goto, Task, TypeOK
  <2>3. StillFree(t)
    BY <2>1, <2>2 DEF StillFree
  <2> QED
    BY <1>1, <1>3, <1>7, <2>1, <2>2, <2>3 DEF CheckSlot
<1>8. ASSUME NEW e \in BOOLEAN, CheckApproval(g, e) PROVE StillFree(t)'
  <2>1. t.op = "approve"
    BY <1>0, <1>8 DEF CheckApproval, Goto, Task, TypeOK
  <2> QED
    BY <2>1 DEF StillFree
<1>9. CASE CheckAssignment(g)
  <2> DEFINE b == local[g].booking
  <2>1. /\ WorkerFree(local[g].salon, local[g].worker, startsAt[b], endsAt[b], b)
        /\ local' = [local EXCEPT ![g] =
                       Task("write", "assign", local[g].salon, b, None, local[g].worker,
                            startsAt[b], endsAt[b], status[b], FALSE)]
    BY <1>6, <1>9 DEF CheckAssignment, Goto
  <2>2. /\ t.salon = local[g].salon /\ t.from = startsAt[b] /\ t.to = endsAt[b]
        /\ t.booking = b /\ t.worker = local[g].worker /\ t.op = "assign"
    BY <1>0, <2>1 DEF Task, TypeOK
  <2>3. StillFree(t)
    BY <2>1, <2>2 DEF StillFree
  <2>4. b \in Bookings /\ status[b] # "none" /\ salon[b] = local[g].salon
    BY <1>0, <1>9 DEF CheckAssignment, At, TasksFit, Held, TaskFits, Steps
  <2> QED
    BY <1>1, <1>3, <1>9, <2>2, <2>3, <2>4 DEF CheckAssignment
<1>10. CASE CheckLimits(g)
  <2>1. Advance(g, "write") /\ At(g, "limits")
    BY <1>6, <1>10 DEF CheckLimits
  <2>2. /\ t.salon = local[g].salon /\ t.from = local[g].from /\ t.to = local[g].to
        /\ t.booking = local[g].booking /\ t.worker = local[g].worker /\ t.op = local[g].op
    BY <1>0, <2>1 DEF Advance, Goto, Task, TypeOK
  <2>3. StillFree(local[g]) /\ TaskFits(local[g])
    BY <1>0, <2>1 DEF ChecksHold, TasksFit, Held, At, Steps
  <2>4. t.op = "hold"
    BY <2>1, <2>2, <2>3 DEF TaskFits, At
  <2>5. StillFree(t)
    BY <2>2, <2>3, <2>4 DEF StillFree
  <2> QED
    BY <1>1, <1>3, <1>10, <2>4, <2>5 DEF CheckLimits
<1>11. Assign(g) \/ Move(g) \/ Rollback(g) => Finish(g)
  BY DEF Assign, Move, Rollback
<1>12. (\E s \in BookingStatus : Approve(g, s)) => Finish(g)
  BY DEF Approve
<1>13. (\E b \in Bookings, s \in SlotBlocking : Insert(g, b, s)) => Finish(g)
  BY DEF Insert
<1> QED
  BY <1>0, <1>2, <1>4, <1>5, <1>6, <1>7, <1>8, <1>9, <1>10, <1>11, <1>12, <1>13, OwnStep DEF Step

\* The writer has the chair and the worker it checked, in the salon it holds.
LEMMA WriterKnows ==
    ASSUME TypedFit, ChecksHold, LockHolds, NEW h \in Requests, Writes(h)
    PROVE  /\ local[h] \in Tasks /\ At(h, "write")
           /\ TaskFits(local[h]) /\ StillFree(local[h])
<1>1. At(h, "write")
  BY DEF Writes, Insert, Assign, Move
<1>2. local[h] \in Tasks
  BY <1>1 DEF TypedFit, TypeOK, At, Idle, Releasing
<1>3. TaskFits(local[h]) /\ StillFree(local[h])
  BY <1>1 DEF TypedFit, TasksFit, ChecksHold, Held, At, Steps
<1> QED
  BY <1>1, <1>2, <1>3

\* The chairs of s taken at hour i.
Occupied(s, i) == {b \in Bookings : Blocking(b) /\ salon[b] = s /\ Meets(b, i, i + 1)}

LEMMA OccupiedFinite ==
    \A s \in Salons, i \in Starts \cup Ends :
        IsFiniteSet(Occupied(s, i)) /\ Cardinality(Occupied(s, i)) \in Nat
BY FiniteAssumption, FS_Subset, FS_CardinalityType DEF Occupied

\* One booking that takes a span with room for it does not overfill any hour.
LEMMA TakeKeepsCapacity ==
    ASSUME TypeOK, TypeOK', CapacityRespected,
           NEW s \in Salons, NEW i \in Starts \cup Ends, NEW b \in Bookings, NEW f, NEW e,
           f = startsAt'[b], e = endsAt'[b], HasRoom(s, f, e, b),
           \A x \in Bookings \ {b} : /\ status'[x] = status[x] /\ salon'[x] = salon[x]
                                     /\ startsAt'[x] = startsAt[x] /\ endsAt'[x] = endsAt[x]
    PROVE  Cardinality(Occupied(s, i)') <= Capacity
<1>1. Cardinality(Occupied(s, i)) <= Capacity /\ Capacity \in Nat
  BY LimitsAssumption DEF CapacityRespected, Occupied
<1>2. CASE b \notin Occupied(s, i)'
  <2>1. Occupied(s, i)' \subseteq Occupied(s, i)
    BY <1>2 DEF Occupied, Blocking, Meets
  <2>2. /\ Cardinality(Occupied(s, i)') <= Cardinality(Occupied(s, i))
        /\ Cardinality(Occupied(s, i)') \in Nat /\ Cardinality(Occupied(s, i)) \in Nat
    BY <2>1, OccupiedFinite, FS_Subset, FS_CardinalityType
  <2> QED
    BY <1>1, <2>2
<1>3. CASE b \in Occupied(s, i)'
  <2>1. f < i + 1 /\ e > i
    BY <1>3 DEF Occupied, Meets
  <2>2. i \in Int /\ \A x \in Bookings : startsAt[x] \in Int /\ endsAt[x] \in Int
    BY TimeAssumption DEF TypeOK, Starts, Ends
  <2>3. f \in Int /\ e \in Int
    BY TimeAssumption DEF TypeOK, Starts, Ends
  <2>4. Occupied(s, i)' \subseteq Overlapping(s, f, e, b) \cup {b}
    <3> SUFFICES ASSUME NEW x \in Occupied(s, i)', x # b PROVE x \in Overlapping(s, f, e, b)
      OBVIOUS
    <3>1. x \in Bookings \ {b} /\ Blocking(x) /\ salon[x] = s /\ Meets(x, i, i + 1)
      BY DEF Occupied, Blocking, Meets
    <3>2. Meets(x, f, e)
      BY <2>1, <2>2, <2>3, <3>1 DEF Meets
    <3> QED
      BY <3>1, <3>2 DEF Overlapping
  <2> DEFINE O == Overlapping(s, f, e, b)
  <2>5. IsFiniteSet(O) /\ Cardinality(O) \in Nat /\ Cardinality(O) < Capacity
    BY FiniteAssumption, FS_Subset, FS_CardinalityType DEF Overlapping, HasRoom
  <2>6. b \notin O
    BY DEF Overlapping
  <2> HIDE DEF O
  <2>7. IsFiniteSet(O \cup {b}) /\ Cardinality(O \cup {b}) = Cardinality(O) + 1
    BY <2>5, <2>6, FS_AddElement
  <2>8. Cardinality(Occupied(s, i)') <= Cardinality(O) + 1 /\ Cardinality(Occupied(s, i)') \in Nat
    BY <2>4, <2>7, FS_Subset, FS_CardinalityType DEF O
  <2> QED
    BY <1>1, <2>5, <2>8
<1> QED
  BY <1>2, <1>3

\* What a write under the lock does to the rows.
LEMMA WriteTakesFree ==
    ASSUME TypedFit, TypeOK', ChecksHold, LockHolds, NEW h \in Requests, Writes(h)
    PROVE  \/ UNCHANGED <<status, salon, startsAt, endsAt>>
           \/ \E b \in Bookings : \E f, e :
                 /\ f = startsAt'[b] /\ e = endsAt'[b] /\ salon'[b] = local[h].salon
                 /\ HasRoom(local[h].salon, f, e, b)
                 /\ status'[b] \in SlotBlocking
                 /\ status[b] \in SlotBlocking => salon[b] = local[h].salon
                 /\ \A x \in Bookings \ {b} :
                       /\ status'[x] = status[x] /\ salon'[x] = salon[x]
                       /\ startsAt'[x] = startsAt[x] /\ endsAt'[x] = endsAt[x]
<1> DEFINE t == local[h]
<1>1. t \in Tasks /\ TaskFits(t) /\ StillFree(t)
  BY WriterKnows
<1>2. CASE Assign(h)
  BY <1>2 DEF Assign, appointment, span
<1>3. ASSUME NEW b \in Bookings, NEW x \in SlotBlocking, Insert(h, b, x)
      PROVE  /\ startsAt'[b] = t.from /\ endsAt'[b] = t.to /\ salon'[b] = t.salon
             /\ HasRoom(t.salon, t.from, t.to, b)
             /\ status'[b] \in SlotBlocking /\ status[b] = "none"
             /\ \A y \in Bookings \ {b} :
                   /\ status'[y] = status[y] /\ salon'[y] = salon[y]
                   /\ startsAt'[y] = startsAt[y] /\ endsAt'[y] = endsAt[y]
  <2>1. t.booking = None /\ HasRoom(t.salon, t.from, t.to, None)
    BY <1>1, <1>3 DEF Insert, TaskFits, StillFree
  <2>2. Overlapping(t.salon, t.from, t.to, b) \subseteq Overlapping(t.salon, t.from, t.to, None)
    BY NoneAssumption DEF Overlapping
  <2>3. IsFiniteSet(Overlapping(t.salon, t.from, t.to, None))
    BY FiniteAssumption, FS_Subset DEF Overlapping
  <2>4. /\ Cardinality(Overlapping(t.salon, t.from, t.to, b)) \in Nat
        /\ Cardinality(Overlapping(t.salon, t.from, t.to, None)) \in Nat
        /\ Cardinality(Overlapping(t.salon, t.from, t.to, b)) <=
              Cardinality(Overlapping(t.salon, t.from, t.to, None))
    BY <2>2, <2>3, FS_Subset, FS_CardinalityType
  <2>5. HasRoom(t.salon, t.from, t.to, b)
    BY <2>1, <2>4, LimitsAssumption DEF HasRoom
  <2> QED
    BY <1>3, <2>5 DEF Insert, TypedFit, TypeOK
<1>4. CASE Move(h)
  <2> DEFINE b == t.booking
  <2>1. /\ b \in Bookings /\ salon[b] = t.salon /\ t.seen \in SlotBlocking
        /\ HasRoom(t.salon, t.from, t.to, b)
    BY <1>1, <1>4 DEF Move, TaskFits, StillFree
  <2>2. CASE status[b] # t.seen
    BY <1>4, <2>1, <2>2 DEF Move, appointment, TypedFit, TypeOK
  <2>3. CASE status[b] = t.seen
    <3>1. /\ startsAt'[b] = t.from /\ endsAt'[b] = t.to /\ salon'[b] = t.salon
          /\ status'[b] \in SlotBlocking
          /\ \A y \in Bookings \ {b} :
                /\ status'[y] = status[y] /\ salon'[y] = salon[y]
                /\ startsAt'[y] = startsAt[y] /\ endsAt'[y] = endsAt[y]
      BY <1>4, <2>1, <2>3 DEF Move, appointment, TypedFit, TypeOK
    <3> QED
      BY <2>1, <3>1
  <2> QED
    BY <2>2, <2>3
<1>5. CASE \E b \in Bookings, x \in SlotBlocking : Insert(h, b, x)
  <2>1. PICK b \in Bookings, x \in SlotBlocking : Insert(h, b, x)
    BY <1>5
  <2> HIDE DEF t
  <2>2. "none" \notin SlotBlocking
    BY DEF SlotBlocking
  <2> QED
    BY <1>3, <2>1, <2>2 DEF t
<1> QED
  BY <1>2, <1>4, <1>5 DEF Writes

\* No step overfills an hour of a salon.
LEMMA CapacityStep ==
    TypedFit /\ TypeOK' /\ SalonExclusive /\ ChecksHold /\ CapacityRespected /\ LockHolds
        /\ [Next]_vars => CapacityRespected'
<1> SUFFICES ASSUME TypedFit, TypeOK', SalonExclusive, ChecksHold, CapacityRespected,
                    LockHolds, [Next]_vars, NEW s \in Salons, NEW i \in Starts \cup Ends
             PROVE  Cardinality(Occupied(s, i)') <= Capacity
  BY DEF CapacityRespected, Occupied
<1>0. TypeOK
  BY DEF TypedFit
<1>1. Cardinality(Occupied(s, i)) <= Capacity /\ Capacity \in Nat
  BY LimitsAssumption DEF CapacityRespected, Occupied
<1>2. ASSUME Occupied(s, i)' \subseteq Occupied(s, i)
      PROVE  Cardinality(Occupied(s, i)') <= Capacity
  <2>1. /\ Cardinality(Occupied(s, i)') <= Cardinality(Occupied(s, i))
        /\ Cardinality(Occupied(s, i)') \in Nat /\ Cardinality(Occupied(s, i)) \in Nat
    BY <1>2, OccupiedFinite, FS_Subset, FS_CardinalityType
  <2> QED
    BY <1>1, <2>1
<1>3. CASE Calm(s)
  <2>1. Occupied(s, i)' \subseteq Occupied(s, i)
    BY <1>3 DEF Calm, Occupied, Blocking, Meets
  <2> QED
    BY <1>2, <2>1
<1>4. ASSUME NEW h \in Requests, Writes(h), s = local[h].salon
      PROVE  Cardinality(Occupied(s, i)') <= Capacity
  <2>1. CASE UNCHANGED <<status, salon, startsAt, endsAt>>
    <3>1. Occupied(s, i)' \subseteq Occupied(s, i)
      BY <2>1 DEF Occupied, Blocking, Meets
    <3> QED
      BY <1>2, <3>1
  <2>2. ASSUME NEW b \in Bookings, NEW f, NEW e,
               f = startsAt'[b] /\ e = endsAt'[b] /\ HasRoom(local[h].salon, f, e, b),
               \A x \in Bookings \ {b} : /\ status'[x] = status[x] /\ salon'[x] = salon[x]
                                         /\ startsAt'[x] = startsAt[x] /\ endsAt'[x] = endsAt[x]
        PROVE  Cardinality(Occupied(s, i)') <= Capacity
    BY <1>0, <1>4, <2>2, TakeKeepsCapacity
  <2> QED
    BY <1>4, <2>1, <2>2, WriteTakesFree
<1> QED
  BY <1>3, <1>4, CalmElsewhere

\* No step promises a worker twice, but for bookings that were moved.
LEMMA ClashStep ==
    TypedFit /\ TypeOK' /\ SalonExclusive /\ ChecksHold /\ WorkerClashNeedsMove /\ LockHolds
        /\ [Next]_vars => WorkerClashNeedsMove'
<1> SUFFICES ASSUME TypedFit, TypeOK', SalonExclusive, ChecksHold, WorkerClashNeedsMove,
                    LockHolds, [Next]_vars, NEW a \in Bookings, NEW b \in Bookings,
                    Clash(a, b)', worker'[a] = worker'[b], worker'[a] # None,
                    salon'[a] = salon'[b]
             PROVE  moved'[a] \/ moved'[b]
  BY DEF WorkerClashNeedsMove
<1>0. TypeOK
  BY DEF TypedFit
<1>1. salon'[a] \in Salons
  BY DEF Clash, Blocking, SlotBlocking, TypeOK
<1>2. /\ a # b /\ status'[a] \in SlotBlocking /\ status'[b] \in SlotBlocking
      /\ startsAt'[a] < endsAt'[b] /\ endsAt'[a] > startsAt'[b]
  BY DEF Clash, Blocking, Meets
<1>3. ASSUME status[a] \in SlotBlocking, status[b] \in SlotBlocking,
             salon[a] = salon'[a], salon[b] = salon'[b],
             startsAt[a] = startsAt'[a], startsAt[b] = startsAt'[b],
             endsAt[a] = endsAt'[a], endsAt[b] = endsAt'[b],
             worker[a] = worker'[a], worker[b] = worker'[b]
      PROVE  moved[a] \/ moved[b]
  BY <1>2, <1>3 DEF WorkerClashNeedsMove, Clash, Blocking, Meets
<1>4. CASE Calm(salon'[a])
  BY <1>2, <1>3, <1>4 DEF Calm
<1>5. ASSUME NEW h \in Requests, Writes(h), local[h].salon = salon'[a]
      PROVE  moved'[a] \/ moved'[b]
  <2> DEFINE t == local[h]
  <2>1. t \in Tasks /\ TaskFits(t) /\ StillFree(t)
    BY <1>5, WriterKnows
  <2>2. ASSUME NEW n \in Bookings, NEW x \in SlotBlocking, Insert(h, n, x)
        PROVE  moved'[a] \/ moved'[b]
    <3>1. t.booking = None /\ WorkerFree(t.salon, t.worker, t.from, t.to, None)
      BY <2>1, <2>2 DEF Insert, TaskFits, StillFree
    <3>2. /\ startsAt'[n] = t.from /\ endsAt'[n] = t.to /\ worker'[n] = t.worker
          /\ \A y \in Bookings \ {n} :
                /\ status'[y] = status[y] /\ salon'[y] = salon[y] /\ worker'[y] = worker[y]
                /\ startsAt'[y] = startsAt[y] /\ endsAt'[y] = endsAt[y]
          /\ moved' = moved
      BY <1>0, <2>2 DEF Insert, TypeOK
    <3>3. a # n /\ b # n
      BY <1>2, <1>5, <3>1, <3>2, NoneAssumption DEF WorkerFree, Blocking, Meets
    <3> QED
      BY <1>2, <1>3, <3>2, <3>3
  <2>3. ASSUME Assign(h) PROVE moved'[a] \/ moved'[b]
    <3> DEFINE n == t.booking
    <3>1. /\ n \in Bookings /\ salon[n] = t.salon
          /\ t.from = startsAt[n] /\ t.to = endsAt[n]
          /\ WorkerFree(t.salon, t.worker, t.from, t.to, n)
      BY <2>1, <2>3 DEF Assign, TaskFits, StillFree
    <3>2. /\ UNCHANGED <<status, salon, startsAt, endsAt, moved>>
          /\ \A y \in Bookings \ {n} : worker'[y] = worker[y]
          /\ worker'[n] = t.worker \/ worker' = worker
      BY <1>0, <2>3, <3>1 DEF Assign, appointment, span, TypeOK
    <3>3. CASE worker'[n] = t.worker
      <4>1. a # n /\ b # n
        BY <1>2, <1>5, <3>1, <3>2, <3>3 DEF WorkerFree, Blocking, Meets
      <4> QED
        BY <1>2, <1>3, <3>2, <4>1
    <3>4. CASE worker' = worker
      BY <1>2, <1>3, <3>2, <3>4
    <3> QED
      BY <3>2, <3>3, <3>4
  <2>4. ASSUME Move(h) PROVE moved'[a] \/ moved'[b]
    <3> DEFINE n == t.booking
    <3>1. n \in Bookings
      BY <2>1, <2>4 DEF Move, TaskFits
    <3>2. /\ UNCHANGED <<status, salon, worker>>
          /\ \A y \in Bookings \ {n} :
                startsAt'[y] = startsAt[y] /\ endsAt'[y] = endsAt[y] /\ moved'[y] = moved[y]
          /\ \/ moved'[n]
             \/ /\ startsAt'[n] = startsAt[n] /\ endsAt'[n] = endsAt[n]
                /\ moved'[n] = moved[n]
      <4>1. CASE status[n] = t.seen
        BY <1>0, <2>4, <3>1, <4>1, ZenonT(40) DEF Move, appointment, TypeOK
      <4>2. CASE status[n] # t.seen
        BY <1>0, <2>4, <3>1, <4>2 DEF Move, appointment, TypeOK
      <4> QED
        BY <4>1, <4>2
    <3>3. CASE moved'[n] /\ (a = n \/ b = n)
      BY <3>3
    <3>4. CASE a # n /\ b # n
      BY <1>2, <1>3, <3>2, <3>4
    <3>5. CASE startsAt'[n] = startsAt[n] /\ endsAt'[n] = endsAt[n] /\ moved'[n] = moved[n]
      BY <1>2, <1>3, <3>2, <3>5
    <3> QED
      BY <3>2, <3>3, <3>4, <3>5
  <2> HIDE DEF t
  <2> QED
    BY <1>5, <2>2, <2>3, <2>4 DEF Writes
<1> QED
  BY <1>1, <1>4, <1>5, CalmElsewhere

(* A customer's limits, which the salon locks do not protect.               *)

\* What a step may do to what a customer holds within the limits: it may shrink.
LimitsCalm(c) ==
    \A x \in Bookings :
        x \in Limited(c)' =>
            /\ x \in Limited(c)
            /\ salon'[x] = salon[x] /\ startsAt'[x] = startsAt[x] /\ endsAt'[x] = endsAt[x]

InsertsHold(h, b) == local[h].op = "hold" /\ \E s \in SlotBlocking : Insert(h, b, s)

\* Only the insert of a hold adds to it, and only for its own customer.
LEMMA LimitsCalmElsewhere ==
    TypedFit /\ [Next]_vars =>
        \/ \A c \in Customers : LimitsCalm(c)
        \/ \E h \in Requests, b \in Bookings :
              InsertsHold(h, b) /\ \A c \in Customers \ {local[h].customer} : LimitsCalm(c)
<1> SUFFICES ASSUME TypedFit, [Next]_vars,
                    ~ \E h \in Requests, b \in Bookings :
                         /\ InsertsHold(h, b)
                         /\ \A c \in Customers \ {local[h].customer} : LimitsCalm(c),
                    NEW c \in Customers
             PROVE  LimitsCalm(c)
  OBVIOUS
<1>0. TypeOK /\ TasksFit
  BY DEF TypedFit
<1>1. UNCHANGED rows => LimitsCalm(c)
  BY DEF rows, appointment, span, LimitsCalm, Limited, Active, Blocking
<1>2. ASSUME NEW h \in Requests, NEW b \in Bookings, NEW x \in SlotBlocking, Insert(h, b, x),
             NEW d \in Customers, local[h].op = "manual" \/ local[h].customer # d
      PROVE  LimitsCalm(d)
  BY <1>0, <1>2 DEF Insert, LimitsCalm, Limited, Active, Blocking, TypeOK
<1>3. ASSUME NEW h \in Requests, NEW b \in Bookings, NEW x \in SlotBlocking, Insert(h, b, x)
      PROVE  LimitsCalm(c)
  <2>1. CASE local[h].op = "hold"
    <3>1. InsertsHold(h, b)
      BY <1>3, <2>1 DEF InsertsHold
    <3> QED
      BY <1>2, <1>3, <3>1
  <2>2. CASE local[h].op = "manual"
    BY <1>2, <1>3, <2>2
  <2> QED
    BY <1>3, <2>1, <2>2 DEF Insert
<1>4. ASSUME NEW h \in Requests, Assign(h) PROVE LimitsCalm(c)
  BY <1>4 DEF Assign, appointment, span, LimitsCalm, Limited, Active, Blocking
<1>5. ASSUME NEW h \in Requests, Move(h) PROVE LimitsCalm(c)
  <2> DEFINE n == local[h].booking
  <2>1. n \in Bookings
    BY <1>0, <1>5 DEF Move, At, TasksFit, Held, TaskFits, Steps
  <2>2. CASE status[n] = local[h].seen
    BY <1>0, <1>5, <2>1, <2>2 DEF Move, appointment, TypeOK, LimitsCalm, Limited, Active, Blocking
  <2>3. CASE status[n] # local[h].seen
    BY <1>0, <1>5, <2>1, <2>3 DEF Move, appointment, TypeOK, LimitsCalm, Limited, Active, Blocking
  <2> QED
    BY <2>2, <2>3
<1>6. ASSUME NEW h \in Requests, NEW x \in BookingStatus, Approve(h, x) PROVE LimitsCalm(c)
  BY <1>0, <1>6 DEF Approve, appointment, span, TypeOK, LimitsCalm, Limited, Active, Blocking,
                    SlotBlocking
<1>7. ASSUME NEW b \in Bookings, NEW x \in BookingStatus, Change(b, x) PROVE LimitsCalm(c)
  BY <1>0, <1>7 DEF Change, Confirms, Closes, appointment, span, TypeOK, LimitsCalm, Limited,
                    Active, Blocking, SlotBlocking
<1>8. ASSUME NEW h \in Requests, Start(h) \/ Abandon(h) PROVE UNCHANGED rows
  BY <1>8 DEF Start, Abandon, Create, AssignWorker, ApproveRequest, Reschedule
<1>9. ASSUME NEW h \in Requests,
             AcquireLock(h) \/ CheckSlot(h) \/ CheckAssignment(h) \/ CheckLimits(h) \/
             Rollback(h) \/ ReleaseLock(h) \/ \E e \in BOOLEAN : CheckApproval(h, e)
      PROVE UNCHANGED rows
  BY <1>9 DEF AcquireLock, CheckSlot, CheckAssignment, CheckLimits, Rollback, ReleaseLock,
              CheckApproval
<1>10. ASSUME NEW s \in Salons, Lapse(s) PROVE UNCHANGED rows
  BY <1>10 DEF Lapse
<1>11. UNCHANGED vars => UNCHANGED rows
  BY DEF vars
<1> QED
  BY <1>1, <1>3, <1>4, <1>5, <1>6, <1>7, <1>8, <1>9, <1>10, <1>11 DEF Next, Step

\* The limited bookings are finitely many, and fewer when calm.
LEMMA LimitedFinite ==
    \A c, s : /\ IsFiniteSet(Limited(c)) /\ Cardinality(Limited(c)) \in Nat
              /\ IsFiniteSet(LimitedAt(c, s)) /\ Cardinality(LimitedAt(c, s)) \in Nat
<1> TAKE c, s
<1>1. Limited(c) \subseteq Bookings /\ LimitedAt(c, s) \subseteq Bookings
  BY DEF Limited, LimitedAt, Active
<1> QED
  BY <1>1, FiniteAssumption, FS_Subset, FS_CardinalityType

LEMMA CalmFewer ==
    ASSUME NEW c, NEW s, LimitsCalm(c)
    PROVE  /\ Cardinality(Limited(c)') \in Nat /\ Cardinality(LimitedAt(c, s)') \in Nat
           /\ Cardinality(Limited(c)') <= Cardinality(Limited(c))
           /\ Cardinality(LimitedAt(c, s)') <= Cardinality(LimitedAt(c, s))
<1>1. Limited(c)' \subseteq Limited(c)
  BY DEF LimitsCalm, Limited, Active
<1>2. LimitedAt(c, s)' \subseteq LimitedAt(c, s)
  BY <1>1 DEF LimitsCalm, LimitedAt, Limited, Active
<1> QED
  BY <1>1, <1>2, LimitedFinite, FS_Subset, FS_CardinalityType

\* Only the count of the limits lets a hold go on to its insert.
LEMMA PassesLimits ==
    ASSUME TypedFit, [Next]_vars, NEW h \in Requests, Limiting(local'[h]), local'[h] # local[h]
    PROVE  CheckLimits(h)
<1>0. TypeOK /\ TasksFit
  BY DEF TypedFit
<1> USE <1>0 DEF TypeOK, Limiting, Goto, Task, Releasing, Idle, Finish, Advance, At
<1>1. ~(Abandon(h) \/ ReleaseLock(h) \/ Rollback(h) \/ Assign(h) \/ Move(h))
  BY DEF Abandon, ReleaseLock, Rollback, Assign, Move
<1>2. ~Start(h)
  BY DEF Start, Create, AssignWorker, ApproveRequest, Reschedule
<1>3. ~AcquireLock(h) /\ ~CheckSlot(h)
  BY DEF AcquireLock, CheckSlot
<1>4. ~CheckAssignment(h) /\ \A e \in BOOLEAN : ~CheckApproval(h, e)
  BY DEF CheckAssignment, CheckApproval
<1>5. /\ \A x \in BookingStatus : ~Approve(h, x)
      /\ \A b \in Bookings, x \in SlotBlocking : ~Insert(h, b, x)
  BY DEF Approve, Insert
<1> HIDE DEF TypeOK, Limiting, Goto, Task, Releasing, Idle, Finish, Advance, At
<1> QED
  BY <1>1, <1>2, <1>3, <1>4, <1>5, OwnStep DEF Step

\* One request at a time is between a customer's limits and its insert.
LEMMA AdvisoryStep == TypedFit /\ AdvisoryExclusive /\ [Next]_vars => AdvisoryExclusive'
<1> SUFFICES ASSUME TypedFit, AdvisoryExclusive, [Next]_vars,
                    NEW g \in Requests, NEW h \in Requests, g # h,
                    Limiting(local'[g]), Limiting(local'[h]),
                    local'[g].customer = local'[h].customer
             PROVE  FALSE
  BY DEF AdvisoryExclusive, Limiting
<1>0. TypeOK /\ TasksFit
  BY DEF TypedFit
<1>1. ASSUME NEW k \in Requests, Limiting(local'[k]), local'[k] # local[k] PROVE CheckLimits(k)
  BY <1>1, PassesLimits
<1>2. ASSUME NEW k \in Requests, NEW o \in Requests, o # k, CheckLimits(k), Limiting(local'[k]),
             Limiting(local'[o]), local'[o].customer = local'[k].customer
      PROVE  FALSE
  <2>1. local'[o] = local[o] /\ local'[k].customer = local[k].customer
    BY <1>0, <1>2 DEF CheckLimits, TypeOK, Advance, Finish, Goto, Task, Releasing, Limiting
  <2> QED
    BY <1>2, <2>1 DEF CheckLimits, AdvisoryFree, Limiting, At
<1>3. CASE local'[g] = local[g] /\ local'[h] = local[h]
  BY <1>3 DEF AdvisoryExclusive
<1> QED
  BY <1>1, <1>2, <1>3

\* A hold that passed the limits is within them until it is inserted.
LEMMA LimitsStep ==
    TypedFit /\ AdvisoryExclusive /\ LimitsHold /\ [Next]_vars => LimitsHold'
<1> SUFFICES ASSUME TypedFit, AdvisoryExclusive, LimitsHold, [Next]_vars,
                    NEW g \in Requests, NEW t, t = local'[g], Limiting(t)
             PROVE  /\ t.customer \in Customers
                    /\ \A x \in Limited(t.customer)' : ~Meets(x, t.from, t.to)'
                    /\ Cardinality(Limited(t.customer)') < MaxActive
                    /\ Cardinality(LimitedAt(t.customer, t.salon)') < MaxAtSalon
  BY DEF LimitsHold, Held
<1>0. TypeOK /\ TasksFit
  BY DEF TypedFit
<1>1. ASSUME LimitsCalm(t.customer), t.customer \in Customers,
             \A x \in Limited(t.customer) : ~Meets(x, t.from, t.to),
             Cardinality(Limited(t.customer)) < MaxActive,
             Cardinality(LimitedAt(t.customer, t.salon)) < MaxAtSalon
      PROVE  /\ t.customer \in Customers
             /\ \A x \in Limited(t.customer)' : ~Meets(x, t.from, t.to)'
             /\ Cardinality(Limited(t.customer)') < MaxActive
             /\ Cardinality(LimitedAt(t.customer, t.salon)') < MaxAtSalon
  <2>1. \A x \in Limited(t.customer)' : ~Meets(x, t.from, t.to)'
    <3> SUFFICES ASSUME NEW x \in Limited(t.customer)' PROVE ~Meets(x, t.from, t.to)'
      OBVIOUS
    <3>1. x \in Bookings
      BY DEF Limited, Active
    <3>2. x \in Limited(t.customer) /\ startsAt'[x] = startsAt[x] /\ endsAt'[x] = endsAt[x]
      BY <1>1, <3>1 DEF LimitsCalm
    <3> QED
      BY <1>1, <3>2 DEF Meets
  <2>2. /\ Cardinality(Limited(t.customer)') < MaxActive
        /\ Cardinality(LimitedAt(t.customer, t.salon)') < MaxAtSalon
    BY <1>1, CalmFewer, LimitedFinite, LimitsAssumption
  <2> QED
    BY <1>1, <2>1, <2>2
<1>2. CASE local'[g] = local[g]
  <2>1. /\ t.customer \in Customers
        /\ \A x \in Limited(t.customer) : ~Meets(x, t.from, t.to)
        /\ Cardinality(Limited(t.customer)) < MaxActive
        /\ Cardinality(LimitedAt(t.customer, t.salon)) < MaxAtSalon
    BY <1>2 DEF LimitsHold, Held
  <2>2. ASSUME NEW h \in Requests, NEW b \in Bookings, InsertsHold(h, b)
        PROVE  local[h].customer # t.customer
    <3>1. Limiting(local[h]) /\ Finish(h)
      BY <2>2 DEF InsertsHold, Insert, Limiting, At
    <3>2. local'[h] # local[h]
      BY <1>0, <3>1 DEF Finish, Goto, Releasing, TypeOK, Limiting
    <3> QED
      BY <1>2, <3>1, <3>2 DEF AdvisoryExclusive
  <2>3. LimitsCalm(t.customer)
    BY <2>1, <2>2, LimitsCalmElsewhere
  <2> QED
    BY <1>1, <2>1, <2>3
<1>3. CASE CheckLimits(g)
  <2>1. /\ Advance(g, "write") /\ UNCHANGED rows /\ At(g, "limits")
        /\ WithinLimits(local[g].customer, local[g].salon, local[g].from, local[g].to)
    BY <1>0, <1>3 DEF CheckLimits, Finish, Goto, Releasing, Limiting, TypeOK
  <2>2. /\ t.salon = local[g].salon /\ t.from = local[g].from /\ t.to = local[g].to
        /\ t.customer = local[g].customer
    BY <1>0, <2>1 DEF Advance, Goto, Task, TypeOK
  <2>3. t.customer \in Customers
    <3>1. local[g] \in Tasks
      BY <1>0, <2>1 DEF At, TypeOK, Idle, Releasing
    <3>2. local[g].op = "hold" /\ local[g].customer # None
      BY <1>0, <2>1 DEF TasksFit, Held, TaskFits, At, Steps
    <3> QED
      BY <2>2, <3>1, <3>2 DEF Tasks
  <2> DEFINE L == Limited(t.customer)
             M == LimitedAt(t.customer, t.salon)
             A == Active(t.customer)
             B == {x \in A : salon[x] = t.salon}
  <2>4. /\ \A x \in A : ~Meets(x, t.from, t.to)
        /\ Cardinality(A) < MaxActive /\ Cardinality(B) < MaxAtSalon
    BY <2>1, <2>2 DEF WithinLimits
  <2>5. L \subseteq A /\ M \subseteq B /\ A \subseteq Bookings /\ B \subseteq Bookings
    BY DEF Limited, LimitedAt, Active
  <2>6. IsFiniteSet(A) /\ IsFiniteSet(B)
    BY <2>5, FiniteAssumption, FS_Subset
  <2>7. /\ Cardinality(L) \in Nat /\ Cardinality(A) \in Nat /\ Cardinality(L) <= Cardinality(A)
        /\ Cardinality(M) \in Nat /\ Cardinality(B) \in Nat /\ Cardinality(M) <= Cardinality(B)
    <3> HIDE DEF L, M, A, B
    <3> QED
      BY <2>5, <2>6, FS_Subset, FS_CardinalityType
  <2>8. /\ \A x \in L : ~Meets(x, t.from, t.to)
        /\ Cardinality(L) < MaxActive /\ Cardinality(M) < MaxAtSalon
    <3> HIDE DEF L, M, A, B
    <3> QED
      BY <2>4, <2>5, <2>7, LimitsAssumption
  <2>9. LimitsCalm(t.customer)
    BY <2>1 DEF rows, appointment, span, LimitsCalm, Limited, Active, Blocking
  <2> QED
    BY <1>1, <2>3, <2>8, <2>9
<1>4. ASSUME local'[g] # local[g] PROVE CheckLimits(g)
  BY <1>4, PassesLimits
<1> QED
  BY <1>2, <1>3, <1>4

\* One booking more.
LEMMA OneMore ==
    ASSUME NEW S, IsFiniteSet(S), NEW n, NEW T, T \subseteq S \cup {n},
           NEW max \in Nat, Cardinality(S) < max
    PROVE  Cardinality(T) <= max
<1>1. IsFiniteSet(S \cup {n}) /\ Cardinality(S \cup {n}) <= Cardinality(S) + 1
  <2>1. IsFiniteSet(S \cup {n})
    BY FS_AddElement
  <2>2. Cardinality(S \cup {n}) = (IF n \in S THEN Cardinality(S) ELSE Cardinality(S) + 1)
    BY FS_AddElement
  <2> QED
    BY <2>1, <2>2, FS_CardinalityType
<1>2. Cardinality(T) <= Cardinality(S \cup {n}) /\ IsFiniteSet(T)
  BY <1>1, FS_Subset
<1> QED
  BY <1>1, <1>2, FS_CardinalityType

\* What the insert of a hold does to what its customer holds.
LEMMA HoldInserted ==
    ASSUME TypedFit, LimitsHold, NEW h \in Requests, NEW n \in Bookings, InsertsHold(h, n)
    PROVE  /\ Limiting(local[h]) /\ local[h].customer \in Customers
           /\ \A x \in Limited(local[h].customer) : ~Meets(x, local[h].from, local[h].to)
           /\ Cardinality(Limited(local[h].customer)) < MaxActive
           /\ Cardinality(LimitedAt(local[h].customer, local[h].salon)) < MaxAtSalon
           /\ status[n] = "none" /\ startsAt'[n] = local[h].from /\ endsAt'[n] = local[h].to
           /\ salon'[n] = local[h].salon
           /\ \A x \in Bookings \ {n} :
                 /\ status'[x] = status[x] /\ salon'[x] = salon[x] /\ customer'[x] = customer[x]
                 /\ source'[x] = source[x] /\ moved'[x] = moved[x]
                 /\ startsAt'[x] = startsAt[x] /\ endsAt'[x] = endsAt[x]
<1>1. Limiting(local[h])
  BY DEF InsertsHold, Insert, Limiting, At
<1>2. /\ local[h].customer \in Customers
      /\ \A x \in Limited(local[h].customer) : ~Meets(x, local[h].from, local[h].to)
      /\ Cardinality(Limited(local[h].customer)) < MaxActive
      /\ Cardinality(LimitedAt(local[h].customer, local[h].salon)) < MaxAtSalon
  BY <1>1 DEF LimitsHold, Held
<1>3. PICK s \in SlotBlocking : Insert(h, n, s)
  BY DEF InsertsHold
<1> QED
  BY <1>1, <1>2, <1>3 DEF Insert, TypedFit, TypeOK

\* No step lets a customer's holds overlap, but for bookings that were moved.
LEMMA CustomerClashStep ==
    TypedFit /\ TypeOK' /\ LimitsHold /\ CustomerClashNeedsMove /\ [Next]_vars
        => CustomerClashNeedsMove'
<1> SUFFICES ASSUME TypedFit, TypeOK', LimitsHold, CustomerClashNeedsMove, [Next]_vars,
                    NEW a \in Bookings, NEW b \in Bookings, Clash(a, b)',
                    NEW c, c = customer'[a], customer'[b] = c,
                    source'[a] = "online", source'[b] = "online", ~moved'[a], ~moved'[b]
             PROVE  FALSE
  BY DEF CustomerClashNeedsMove
<1>1. c \in Customers
  BY DEF Clash, Blocking, SlotBlocking, TypeOK
<1>2. a \in Limited(c)' /\ b \in Limited(c)'
  BY DEF Clash, Blocking, Limited, Active
<1>3. a # b /\ startsAt'[a] < endsAt'[b] /\ endsAt'[a] > startsAt'[b]
  BY DEF Clash, Meets
<1>4. ASSUME a \in Limited(c), b \in Limited(c),
             startsAt[a] = startsAt'[a], startsAt[b] = startsAt'[b],
             endsAt[a] = endsAt'[a], endsAt[b] = endsAt'[b]
      PROVE  FALSE
  BY <1>3, <1>4 DEF Limited, Active, Clash, Meets, CustomerClashNeedsMove
<1>5. CASE LimitsCalm(c)
  BY <1>2, <1>4, <1>5 DEF LimitsCalm
<1>6. ASSUME NEW h \in Requests, NEW n \in Bookings, InsertsHold(h, n), local[h].customer = c
      PROVE  FALSE
  <2>1. /\ \A x \in Limited(c) : ~Meets(x, local[h].from, local[h].to)
        /\ startsAt'[n] = local[h].from /\ endsAt'[n] = local[h].to
        /\ \A x \in Bookings \ {n} :
              /\ status'[x] = status[x] /\ customer'[x] = customer[x]
              /\ source'[x] = source[x] /\ moved'[x] = moved[x]
              /\ startsAt'[x] = startsAt[x] /\ endsAt'[x] = endsAt[x]
    BY <1>6, HoldInserted
  <2>2. \A x \in Bookings \ {n} : x \in Limited(c)' => x \in Limited(c)
    BY <2>1 DEF Limited, Active, Blocking
  <2>3. CASE a # n /\ b # n
    BY <1>2, <1>4, <2>1, <2>2, <2>3
  <2>4. CASE a = n
    BY <1>2, <1>3, <2>1, <2>2, <2>4 DEF Meets
  <2>5. CASE b = n
    BY <1>2, <1>3, <2>1, <2>2, <2>5 DEF Meets
  <2> QED
    BY <2>3, <2>4, <2>5
<1> QED
  BY <1>1, <1>5, <1>6, LimitsCalmElsewhere

\* No step takes a customer over the limits.
LEMMA WithinLimitsStep ==
    TypedFit /\ LimitsHold /\ CustomerWithinLimits /\ [Next]_vars => CustomerWithinLimits'
<1> SUFFICES ASSUME TypedFit, LimitsHold, CustomerWithinLimits, [Next]_vars, NEW c \in Customers
             PROVE  /\ Cardinality(Limited(c)') <= MaxActive
                    /\ \A s \in Salons : Cardinality(LimitedAt(c, s)') <= MaxAtSalon
  BY DEF CustomerWithinLimits
<1>1. /\ Cardinality(Limited(c)) <= MaxActive
      /\ \A s \in Salons : Cardinality(LimitedAt(c, s)) <= MaxAtSalon
      /\ MaxActive \in Nat /\ MaxAtSalon \in Nat
  BY LimitsAssumption DEF CustomerWithinLimits
<1>2. CASE LimitsCalm(c)
  BY <1>1, <1>2, CalmFewer, LimitedFinite
<1>3. ASSUME NEW h \in Requests, NEW n \in Bookings, InsertsHold(h, n), local[h].customer = c
      PROVE  /\ Cardinality(Limited(c)') <= MaxActive
             /\ \A s \in Salons : Cardinality(LimitedAt(c, s)') <= MaxAtSalon
  <2>1. /\ Cardinality(Limited(c)) < MaxActive
        /\ Cardinality(LimitedAt(c, local[h].salon)) < MaxAtSalon
        /\ salon'[n] = local[h].salon
        /\ \A x \in Bookings \ {n} :
              /\ status'[x] = status[x] /\ salon'[x] = salon[x] /\ customer'[x] = customer[x]
              /\ source'[x] = source[x] /\ moved'[x] = moved[x]
    BY <1>3, HoldInserted
  <2>2. Limited(c)' \subseteq Limited(c) \cup {n}
    BY <2>1 DEF Limited, Active, Blocking
  <2>3. Cardinality(Limited(c)') <= MaxActive
    BY <1>1, <2>1, <2>2, LimitedFinite, OneMore
  <2>4. ASSUME NEW s \in Salons PROVE Cardinality(LimitedAt(c, s)') <= MaxAtSalon
    <3>1. CASE s = local[h].salon
      <4>1. LimitedAt(c, s)' \subseteq LimitedAt(c, s) \cup {n}
        BY <2>1, <2>2 DEF LimitedAt, Limited, Active
      <4> QED
        BY <1>1, <2>1, <3>1, <4>1, LimitedFinite, OneMore
    <3>2. CASE s # local[h].salon
      <4>1. LimitedAt(c, s)' \subseteq LimitedAt(c, s)
        BY <2>1, <2>2, <3>2 DEF LimitedAt, Limited, Active
      <4>2. Cardinality(LimitedAt(c, s)') <= Cardinality(LimitedAt(c, s))
        BY <4>1, LimitedFinite, FS_Subset
      <4> QED
        BY <1>1, <4>1, <4>2, LimitedFinite, FS_Subset, FS_CardinalityType
    <3> QED
      BY <3>1, <3>2
  <2> QED
    BY <2>3, <2>4
<1> QED
  BY <1>2, <1>3, LimitsCalmElsewhere

LEMMA InductiveInit == Init => IInv
<1> SUFFICES ASSUME Init PROVE IInv
  OBVIOUS
<1>1. TypeOK
  BY InitType
<1>2. \A h \in Requests : local[h] = Idle
  BY DEF Init
<1>3. TasksFit /\ SalonExclusive /\ ChecksHold /\ AdvisoryExclusive /\ LimitsHold
  BY <1>2 DEF TasksFit, SalonExclusive, ChecksHold, AdvisoryExclusive, LimitsHold, Limiting, Held,
              Working, Idle, Steps
<1>4. \A b \in Bookings : ~Blocking(b)
  BY DEF Init, Blocking, SlotBlocking
<1>5. WorkerClashNeedsMove /\ CustomerClashNeedsMove
  BY <1>4 DEF WorkerClashNeedsMove, CustomerClashNeedsMove, Clash
<1>6. CapacityRespected
  <2> SUFFICES ASSUME NEW s \in Salons, NEW i \in Starts \cup Ends
               PROVE  Cardinality(Occupied(s, i)) <= Capacity
    BY DEF CapacityRespected, Occupied
  <2>1. Occupied(s, i) = {}
    BY <1>4 DEF Occupied
  <2> QED
    BY <2>1, FS_EmptySet, LimitsAssumption
<1>7. CustomerWithinLimits
  <2>1. \A c, s : Limited(c) = {} /\ LimitedAt(c, s) = {}
    BY <1>4 DEF Limited, LimitedAt, Active
  <2> QED
    BY <2>1, FS_EmptySet, LimitsAssumption DEF CustomerWithinLimits
<1> QED
  BY <1>1, <1>3, <1>5, <1>6, <1>7 DEF IInv

LEMMA InductiveStep == IInv /\ [Next]_vars => IInv'
<1> SUFFICES ASSUME IInv, [Next]_vars PROVE IInv'
  OBVIOUS
<1>1. TypedFit
  BY DEF IInv, TypedFit
<1>2. TypeOK' /\ TasksFit'
  BY <1>1, TypeStep, FitStep
<1>3. SalonExclusive'
  BY <1>1, ExclusiveStep DEF IInv
<1>4. ChecksHold'
  BY <1>1, ChecksStep DEF IInv
<1>5. LockHolds => CapacityRespected'
  BY <1>1, <1>2, CapacityStep DEF IInv
<1>6. LockHolds => WorkerClashNeedsMove'
  BY <1>1, <1>2, ClashStep DEF IInv
<1>7. AdvisoryExclusive' /\ LimitsHold'
  BY <1>1, AdvisoryStep, LimitsStep DEF IInv
<1>8. CustomerClashNeedsMove' /\ CustomerWithinLimits'
  BY <1>1, <1>2, CustomerClashStep, WithinLimitsStep DEF IInv
<1> QED
  BY <1>2, <1>3, <1>4, <1>5, <1>6, <1>7, <1>8 DEF IInv

\* What a request knows between two of its steps, for any salons, bookings, requests, chairs
\* and durations, whether or not the lock holds.
THEOREM Inductive == Spec => []IInv
BY InductiveInit, InductiveStep, PTL DEF Spec

\* Every reachable state is well typed.
THEOREM TypeCorrect == Spec => []TypeOK
<1>1. IInv => TypeOK
  BY DEF IInv
<1> QED
  BY <1>1, Inductive, PTL

\* While no critical section outlives the salon lock, no hour of a salon is sold more often
\* than it has chairs.
THEOREM Capacities == ASSUME LockHolds PROVE Spec => []CapacityRespected
<1>1. IInv => CapacityRespected
  BY DEF IInv
<1> QED
  BY <1>1, Inductive, PTL

\* While no critical section outlives the salon lock, a worker is promised twice for one hour
\* only through a booking that was rescheduled.
THEOREM WorkerClashes == ASSUME LockHolds PROVE Spec => []WorkerClashNeedsMove
<1>1. IInv => WorkerClashNeedsMove
  BY DEF IInv
<1> QED
  BY <1>1, Inductive, PTL

\* A customer's online bookings overlap only by being moved: the advisory lock sees to that,
\* whether or not the salon locks hold.
THEOREM CustomerClashes == Spec => []CustomerClashNeedsMove
<1>1. IInv => CustomerClashNeedsMove
  BY DEF IInv
<1> QED
  BY <1>1, Inductive, PTL

\* No customer gets past the limits on active bookings by sending holds in parallel, whether
\* or not the salon locks hold.
THEOREM CustomerLimits == Spec => []CustomerWithinLimits
<1>1. IInv => CustomerWithinLimits
  BY DEF IInv
<1> QED
  BY <1>1, Inductive, PTL

(* The refinement of Calendar.                                              *)

\* Room, as the calendar counts it.
LEMMA CalendarRoom ==
    ASSUME NEW s, NEW f, NEW e, NEW b, HasRoom(s, f, e, b)
    PROVE  Calendar!HasRoom(s, f, e, Bookings \ {b})
<1>1. Calendar!Overlapping(s, f, e, Bookings \ {b}) = Overlapping(s, f, e, b)
  BY DEF Calendar!Overlapping, Overlapping, Blocking, Meets
<1>2. Calendar!Cardinality(Overlapping(s, f, e, b)) = Cardinality(Overlapping(s, f, e, b))
  BY Zenon DEF Calendar!Cardinality, Cardinality
<1> QED
  BY <1>1, <1>2 DEF Calendar!HasRoom, HasRoom

\* Every step books, moves or frees one appointment of the calendar, or leaves it alone.
LEMMA CalendarStep ==
    TypedFit /\ TypeOK' /\ ChecksHold /\ LockHolds /\ [Next]_vars
        => [Calendar!Next]_(Calendar!vars)
<1> SUFFICES ASSUME TypedFit, TypeOK', ChecksHold, LockHolds, [Next]_vars
             PROVE  Calendar!Next \/ UNCHANGED Calendar!vars
  OBVIOUS
<1>0. TypeOK /\ TasksFit
  BY DEF TypedFit
<1>1. UNCHANGED <<status, salon, startsAt, endsAt>> => UNCHANGED Calendar!vars
  BY DEF Calendar!vars, Blocking
<1>2. UNCHANGED rows => UNCHANGED <<status, salon, startsAt, endsAt>>
  BY DEF rows, appointment, span
<1>3. ASSUME NEW h \in Requests, Writes(h)
      PROVE  Calendar!Next \/ UNCHANGED Calendar!vars
  <2>1. ASSUME NEW b \in Bookings, NEW f, NEW e,
               f = startsAt'[b], e = endsAt'[b], salon'[b] = local[h].salon,
               HasRoom(local[h].salon, f, e, b),
               status'[b] \in SlotBlocking,
               status[b] \in SlotBlocking => salon[b] = local[h].salon,
               \A x \in Bookings \ {b} : /\ status'[x] = status[x] /\ salon'[x] = salon[x]
                                         /\ startsAt'[x] = startsAt[x] /\ endsAt'[x] = endsAt[x]
        PROVE  Calendar!Next
    <3>1. Calendar!HasRoom(salon'[b], startsAt'[b], endsAt'[b], Bookings \ {b})
      <4> DEFINE s == local[h].salon
      <4>1. Calendar!HasRoom(s, f, e, Bookings \ {b})
        BY <2>1, CalendarRoom
      <4> QED
        BY <2>1, <4>1
    <3>2. \/ Calendar!Take(b)
          \/ Calendar!Move(b)
      BY <2>1, <3>1 DEF Calendar!Take, Calendar!Move, Blocking
    <3> QED
      BY <2>1, <3>2 DEF Calendar!Next, Blocking
  <2> QED
    BY <1>1, <1>3, <2>1, WriteTakesFree
<1>4. ASSUME NEW b \in Bookings, UNCHANGED <<salon, startsAt, endsAt>>,
             \A x \in Bookings \ {b} : status'[x] = status[x],
             status'[b] \in SlotBlocking => status[b] \in SlotBlocking
      PROVE  Calendar!Next \/ UNCHANGED Calendar!vars
  <2>1. CASE status[b] \in SlotBlocking /\ status'[b] \notin SlotBlocking
    BY <1>4, <2>1 DEF Calendar!Next, Calendar!Leave, Blocking
  <2>2. CASE (status[b] \in SlotBlocking) = (status'[b] \in SlotBlocking)
    <3>1. [x \in Bookings |-> Blocking(x)]' = [x \in Bookings |-> Blocking(x)]
      BY <1>4, <2>2 DEF Blocking
    <3> QED
      BY <1>4, <3>1 DEF Calendar!vars
  <2> QED
    BY <1>4, <2>1, <2>2
<1>5. ASSUME NEW h \in Requests, NEW s \in BookingStatus, Approve(h, s)
      PROVE  Calendar!Next \/ UNCHANGED Calendar!vars
  <2>1. local[h].booking \in Bookings
    BY <1>0, <1>5 DEF Approve, At, TasksFit, Held, TaskFits, Steps
  <2> QED
    BY <1>0, <1>4, <1>5, <2>1 DEF Approve, appointment, span, TypeOK, SlotBlocking
<1>6. ASSUME NEW b \in Bookings, NEW s \in BookingStatus, Change(b, s)
      PROVE  Calendar!Next \/ UNCHANGED Calendar!vars
  BY <1>0, <1>4, <1>6 DEF Change, Confirms, Closes, appointment, span, TypeOK, SlotBlocking
<1>7. ASSUME NEW h \in Requests, Start(h) \/ Abandon(h) PROVE UNCHANGED rows
  BY <1>7 DEF Start, Abandon, Create, AssignWorker, ApproveRequest, Reschedule
<1>8. ASSUME NEW h \in Requests,
             AcquireLock(h) \/ CheckSlot(h) \/ CheckAssignment(h) \/ CheckLimits(h) \/
             Rollback(h) \/ ReleaseLock(h) \/ \E e \in BOOLEAN : CheckApproval(h, e)
      PROVE UNCHANGED rows
  BY <1>8 DEF AcquireLock, CheckSlot, CheckAssignment, CheckLimits, Rollback, ReleaseLock,
              CheckApproval
<1>9. ASSUME NEW s \in Salons, Lapse(s) PROVE UNCHANGED rows
  BY <1>9 DEF Lapse
<1>10. UNCHANGED vars => UNCHANGED rows
  BY DEF vars
<1> QED
  BY <1>1, <1>2, <1>3, <1>5, <1>6, <1>7, <1>8, <1>9, <1>10 DEF Next, Step, Writes

\* While no critical section outlives the salon lock, the five operations, with their counts
\* and writes in separate statements, book and move appointments one at a time and only where
\* there is room.
THEOREM Refinement == ASSUME LockHolds PROVE Spec => ImplementsCalendar
<1>1. Init => Calendar!Init
  <2> SUFFICES ASSUME Init PROVE Calendar!Init
    OBVIOUS
  <2>1. \A b \in Bookings : Blocking(b) = FALSE
    BY DEF Init, Blocking, SlotBlocking
  <2> QED
    BY <2>1 DEF Calendar!Init
<1>2. IInv /\ IInv' /\ [Next]_vars => [Calendar!Next]_(Calendar!vars)
  BY CalendarStep DEF IInv, TypedFit
<1> QED
  BY <1>1, <1>2, Inductive, PTL DEF Spec, ImplementsCalendar, Calendar!Spec

(* What no step does, whether or not the lock holds.                        *)

\* The lock of a salon passes from a living owner to nobody, by the owner's release or by the
\* TTL, and never by a request whose lock has lapsed.
THEOREM OwnerReleases == Spec => LockReleasedByOwner
<1>1. ASSUME TypeOK, [Next]_vars, NEW s \in Salons, NEW h \in Requests, lock[s] = h, lock'[s] # h
      PROVE  lock'[s] = None /\ (UNCHANGED local \/ At(h, "release"))
  <2>1. ASSUME NEW g \in Requests, AcquireLock(g) PROVE FALSE
    BY <1>1, <2>1, NoneAssumption DEF AcquireLock, TypeOK
  <2>2. ASSUME NEW g \in Requests, ReleaseLock(g)
        PROVE  lock'[s] = None /\ At(h, "release")
    BY <1>1, <2>2 DEF ReleaseLock, TypeOK
  <2>3. ASSUME NEW x \in Salons, Lapse(x) PROVE lock'[s] = None /\ UNCHANGED local
    BY <1>1, <2>3 DEF Lapse, TypeOK
  <2>4. ASSUME NEW g \in Requests, Start(g) \/ Abandon(g) PROVE UNCHANGED lock
    BY <2>4 DEF Start, Abandon, Create, AssignWorker, ApproveRequest, Reschedule
  <2>5. ASSUME NEW g \in Requests, Step(g), ~AcquireLock(g), ~ReleaseLock(g) PROVE UNCHANGED lock
    BY <2>5 DEF Step, CheckSlot, CheckApproval, CheckAssignment, CheckLimits, Insert, Approve,
                Assign, Move, Rollback
  <2>6. ASSUME NEW b \in Bookings, NEW x \in BookingStatus, Change(b, x) PROVE UNCHANGED lock
    BY <2>6 DEF Change, Confirms, Closes
  <2>7. UNCHANGED vars => UNCHANGED lock
    BY DEF vars
  <2> QED
    BY <1>1, <2>1, <2>2, <2>3, <2>4, <2>5, <2>6, <2>7 DEF Next
<1>2. TypeOK /\ [Next]_vars =>
        [\A s \in Salons, h \in Requests :
            lock[s] = h /\ lock'[s] # h =>
                lock'[s] = None /\ (UNCHANGED local \/ At(h, "release"))]_vars
  BY <1>1
<1> QED
  BY <1>2, TypeCorrect, PTL DEF Spec, LockReleasedByOwner

\* No request that read a booking while it stood revives or moves it once it has ended.
THEOREM EndedStays == Spec => EndedStaysEnded
<1>1. ASSUME TypedFit, [Next]_vars, NEW b \in Bookings, status[b] = "over"
      PROVE  status'[b] = status[b] /\ startsAt'[b] = startsAt[b] /\ endsAt'[b] = endsAt[b]
  <2>0. TypeOK /\ TasksFit
    BY <1>1 DEF TypedFit
  <2>1. UNCHANGED rows => UNCHANGED <<status, startsAt, endsAt>>
    BY DEF rows, span
  <2>2. ASSUME NEW h \in Requests, NEW n \in Bookings, NEW x \in SlotBlocking, Insert(h, n, x)
        PROVE  status'[b] = status[b] /\ startsAt'[b] = startsAt[b] /\ endsAt'[b] = endsAt[b]
    BY <1>1, <2>0, <2>2 DEF Insert, TypeOK
  <2>3. ASSUME NEW h \in Requests, NEW x \in BookingStatus, Approve(h, x)
        PROVE  status'[b] = status[b] /\ startsAt'[b] = startsAt[b] /\ endsAt'[b] = endsAt[b]
    BY <1>1, <2>0, <2>3 DEF Approve, TypeOK, span
  <2>4. ASSUME NEW h \in Requests, Assign(h)
        PROVE  status'[b] = status[b] /\ startsAt'[b] = startsAt[b] /\ endsAt'[b] = endsAt[b]
    BY <2>4 DEF Assign, span
  <2>5. ASSUME NEW h \in Requests, Move(h)
        PROVE  status'[b] = status[b] /\ startsAt'[b] = startsAt[b] /\ endsAt'[b] = endsAt[b]
    <3>1. local[h].seen # "over"
      BY <2>0, <2>5 DEF Move, At, TasksFit, Held, TaskFits, Steps, SlotBlocking
    <3> QED
      BY <1>1, <2>0, <2>5, <3>1 DEF Move, TypeOK
  <2>6. ASSUME NEW n \in Bookings, NEW x \in BookingStatus, Change(n, x)
        PROVE  status'[b] = status[b] /\ startsAt'[b] = startsAt[b] /\ endsAt'[b] = endsAt[b]
    BY <1>1, <2>0, <2>6 DEF Change, Confirms, Closes, TypeOK, span, SlotBlocking
  <2>7. ASSUME NEW h \in Requests, Start(h) \/ Abandon(h) PROVE UNCHANGED rows
    BY <2>7 DEF Start, Abandon, Create, AssignWorker, ApproveRequest, Reschedule
  <2>8. ASSUME NEW h \in Requests,
               AcquireLock(h) \/ CheckSlot(h) \/ CheckAssignment(h) \/ CheckLimits(h) \/
               Rollback(h) \/ ReleaseLock(h) \/ \E e \in BOOLEAN : CheckApproval(h, e)
        PROVE UNCHANGED rows
    BY <2>8 DEF AcquireLock, CheckSlot, CheckAssignment, CheckLimits, Rollback, ReleaseLock,
                CheckApproval
  <2>9. ASSUME NEW s \in Salons, Lapse(s) PROVE UNCHANGED rows
    BY <2>9 DEF Lapse
  <2>10. UNCHANGED vars => UNCHANGED rows
    BY DEF vars
  <2> QED
    BY <1>1, <2>1, <2>2, <2>3, <2>4, <2>5, <2>6, <2>7, <2>8, <2>9, <2>10 DEF Next, Step
<1>2. IInv /\ [Next]_vars =>
        [\A b \in Bookings :
            status[b] = "over" =>
               status'[b] = status[b] /\ startsAt'[b] = startsAt[b] /\ endsAt'[b] = endsAt[b]]_vars
  BY <1>1 DEF IInv, TypedFit
<1> QED
  BY <1>2, Inductive, PTL DEF Spec, EndedStaysEnded

=============================================================================
