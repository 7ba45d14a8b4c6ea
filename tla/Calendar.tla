------------------------------ MODULE Calendar ------------------------------
(***************************************************************************)
(* What the salons' calendars promise: bookings come, move and go one at a  *)
(* time, and a booking takes a span only while fewer than Capacity others   *)
(* of its salon overlap it.                                                 *)
(***************************************************************************)
EXTENDS Integers, FiniteSets

CONSTANTS Bookings, Salons, Capacity

VARIABLES place,   \* the salon a booking is at, once it exists
          from,    \* start of its appointment
          to,      \* end of its appointment
          takes    \* it takes a chair

vars == <<place, from, to, takes>>

\* The other bookings at s whose appointment meets the span f..t.
Overlapping(s, f, t, others) ==
    {b \in others : takes[b] /\ place[b] = s /\ from[b] < t /\ to[b] > f}

HasRoom(s, f, t, others) == Cardinality(Overlapping(s, f, t, others)) < Capacity

Init == takes = [b \in Bookings |-> FALSE]

Take(b) ==
    /\ ~takes[b] /\ takes'[b]
    /\ HasRoom(place'[b], from'[b], to'[b], Bookings \ {b})

Move(b) ==
    /\ takes[b] /\ takes'[b] /\ place'[b] = place[b]
    /\ HasRoom(place[b], from'[b], to'[b], Bookings \ {b})

Leave(b) == takes[b] /\ ~takes'[b] /\ UNCHANGED <<place, from, to>>

\* One booking changes; the others stay as they are.
Next ==
    \E b \in Bookings :
        /\ \A e \in Bookings \ {b} : /\ place'[e] = place[e] /\ from'[e] = from[e]
                                     /\ to'[e] = to[e] /\ takes'[e] = takes[e]
        /\ Take(b) \/ Move(b) \/ Leave(b)

Spec == Init /\ [][Next]_vars

=============================================================================
