------------------------------- MODULE ChairTime -------------------------------
(***************************************************************************)
(* What a salon's day looks like from outside: the slots offered to a       *)
(* customer and the free chair-time shown to the owner.  Both start from    *)
(* the same opening hours and bookings, and compute with intervals.         *)
(***************************************************************************)
EXTENDS Integers, FiniteSets, FiniteSetsExt, SequencesExt

CONSTANTS Bookings,
          OfWorker,   \* those of the worker a customer may ask for
          DayEnd,     \* bound: ticks of a day
          MaxChairs

VARIABLES
    hours,      \* working_hours of the weekday, as <<open, close>>
    closed,     \* schedule_exceptions of the date: "none", "whole-day" or an interval
    capacity,   \* salons.capacity
    off,        \* that worker takes the day off
    busy        \* bookings in a slot-blocking status, as <<startsAt, endsAt>>; NoTime if not

vars == <<hours, closed, capacity, off, busy>>

Intervals == {i \in (0..DayEnd) \X (0..DayEnd) : i[1] < i[2]}
NoTime == <<0, 0>>
Blocking == {b \in Bookings : busy[b] # NoTime}
Overlap(i, j) == i[1] < j[2] /\ i[2] > j[1]

Init ==
    /\ hours \in {h \in SUBSET Intervals : Cardinality(h) <= 2}
    /\ closed \in Intervals \cup {<<"none">>, <<"whole-day">>}
    /\ capacity = MaxChairs
    /\ off \in BOOLEAN
    /\ busy = [b \in Bookings |-> NoTime]

\* createHold and createManual count chairs; neither looks at the opening hours.
Book(b, i) ==
    /\ busy[b] = NoTime
    /\ Cardinality({x \in Blocking : Overlap(busy[x], i)}) < capacity
    /\ busy' = [busy EXCEPT ![b] = i]
    /\ UNCHANGED <<hours, closed, capacity, off>>

Free(b) ==
    /\ busy[b] # NoTime
    /\ busy' = [busy EXCEPT ![b] = NoTime]
    /\ UNCHANGED <<hours, closed, capacity, off>>

\* The owner may take chairs away under standing bookings.
SetCapacity(n) == capacity' = n /\ UNCHANGED <<hours, closed, off, busy>>

Next ==
    \/ \E b \in Bookings : Free(b) \/ \E i \in Intervals : Book(b, i)
    \/ \E n \in 1..MaxChairs : n # capacity /\ SetCapacity(n)

Spec == Init /\ [][Next]_vars

-----------------------------------------------------------------------------
(* What is left of the opening hours.                                       *)

SubtractHead(i, x) ==   \* mutant: what follows the exception is forgotten
    IF ~Overlap(i, x) THEN {i} ELSE {p \in {<<i[1], x[1]>>} : p[1] < p[2]}
SubtractInterval(i, x) ==
    IF ~Overlap(i, x) THEN {i} ELSE {p \in {<<i[1], x[1]>>, <<x[2], i[2]>>} : p[1] < p[2]}

OpenRanges ==
    CASE closed = <<"whole-day">> -> {}
      [] closed = <<"none">> -> hours
      [] OTHER -> UNION {SubtractInterval(i, closed) : i \in hours}

-----------------------------------------------------------------------------
(* computeAvailableSlots: starts of slots of duration d, each range walked  *)
(* from its opening; for a worker, their own bookings count as well.        *)

Grid(i, d) == {s \in i[1]..(i[2] - d) : (s - i[1]) % d = 0}

AvailableSlots(d, now, forWorker) ==
    {s \in UNION {Grid(i, d) : i \in OpenRanges} :
        LET slot == <<s, s + d>> IN
        /\ s > now
        /\ Cardinality({b \in Blocking : Overlap(busy[b], slot)}) < capacity
        /\ forWorker => ~off /\ \A b \in Blocking \cap OfWorker : ~Overlap(busy[b], slot)}

-----------------------------------------------------------------------------
(* computeDailyCapacity.                                                    *)

AppendLast(i, merged) ==   \* mutant: the end of the later range, not the later end
    IF merged # <<>> /\ i[1] <= Last(merged)[2]
    THEN Append(Front(merged), <<Last(merged)[1], i[2]>>)
    ELSE Append(merged, i)
Merge(i, merged) ==
    IF merged # <<>> /\ i[1] <= Last(merged)[2]
    THEN Append(Front(merged), <<Last(merged)[1], Max({Last(merged)[2], i[2]})>>)
    ELSE Append(merged, i)
\* The intervals are merged in the order in which they start, in any order where they tie.
LastToStart(is) == CHOOSE i \in is : \A j \in is : j[1] <= i[1]
MergeIntervals(is) == Range(MapThenFoldSet(Merge, <<>>, LAMBDA i : i, LastToStart, is))

Minutes(is) == MapThenSumSet(LAMBDA i : i[2] - i[1], is)
Common(i, j) == Max({0, Min({i[2], j[2]}) - Max({i[1], j[1]})})
MinutesOf(b) == MapThenSumSet(LAMBDA i : Common(busy[b], i), MergeIntervals(OpenRanges))

OpenMinutes == Minutes(MergeIntervals(OpenRanges))
BookedMinutes == MapThenSumSet(MinutesOf, Blocking)
FreeMinutes == Max({0, OpenMinutes * capacity - BookedMinutes})

-----------------------------------------------------------------------------
(* The same, tick by tick.                                                  *)

In(m, i) == i[1] <= m /\ m < i[2]
OpenAt(m) ==
    /\ closed # <<"whole-day">>
    /\ \E i \in hours : In(m, i)
    /\ closed \in Intervals => ~In(m, closed)
BusyAt(m, bs) == Cardinality({b \in bs \cap Blocking : In(m, busy[b])})
OpenTicks == {m \in 0..(DayEnd - 1) : OpenAt(m)}
Overbooked == \E m \in OpenTicks : BusyAt(m, Bookings) > capacity

\* A slot that is offered is to come, open from its first to its last tick, and has a chair and
\* the worker asked for throughout, whatever hours overlap and wherever an exception cuts them;
\* and no free tick is kept from a customer who needs only one.
OfferedAndFree ==
    \A now \in -1..DayEnd, forWorker \in BOOLEAN :
        LET Good(m) == /\ m \in OpenTicks /\ m > now
                       /\ BusyAt(m, Bookings) < capacity
                       /\ forWorker => ~off /\ BusyAt(m, OfWorker) = 0
        IN  /\ \A d \in 1..DayEnd : \A s \in AvailableSlots(d, now, forWorker) :
                  \A m \in s..(s + d - 1) : Good(m)
            /\ {m \in OpenTicks : Good(m)} = AvailableSlots(1, now, forWorker)

\* The owner is shown the chair-time that is free: every open tick times the chairs not taken
\* then, overlapping rows counted once - unless chairs were taken away under bookings, when
\* the excess of one hour is taken out of the free time of another.
FreeTimeExact ==
    LET free == MapThenSumSet(LAMBDA m : Max({0, capacity - BusyAt(m, Bookings)}), OpenTicks)
    IN  /\ FreeMinutes <= free
        /\ ~Overbooked => FreeMinutes = free

=============================================================================
