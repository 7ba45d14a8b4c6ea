--------------------------- MODULE BookingContract ---------------------------
(***************************************************************************)
(* What a booking promises, whoever races for it: a slot that was given     *)
(* back is never booked again by the booking that lost it, a deposit is     *)
(* kept only with an appointment that stands, took place, was missed or was *)
(* called off, and money that arrives for anything else is owed back.       *)
(***************************************************************************)
CONSTANT Bookings

VARIABLES slot,     \* the place in the salon's calendar
          deposit   \* the money behind it

vars == <<slot, deposit>>

Slots == {"free", "held", "booked", "done", "released"}
Deposits == {"none", "awaited", "kept", "void", "owed", "returned"}

Init ==
    /\ slot = [b \in Bookings |-> "free"]
    /\ deposit = [b \in Bookings |-> "none"]

Move(b, s, d) ==
    /\ slot' = [slot EXCEPT ![b] = s]
    /\ deposit' = [deposit EXCEPT ![b] = d]

\* A request or a hold takes the slot; a booking with nothing to pay is booked at once.
Open(b) ==
    /\ slot[b] = "free"
    /\ \/ \E d \in {"none", "awaited"} : Move(b, "held", d)
       \/ Move(b, "booked", "none")

\* The salon accepts a request and asks for the deposit.
AskDeposit(b) ==
    /\ slot[b] = "held" /\ deposit[b] = "none"
    /\ Move(b, "held", "awaited")

\* A held slot becomes an appointment, with the deposit in when one was asked for.
Book(b) ==
    /\ slot[b] = "held"
    /\ \/ deposit[b] = "none" /\ Move(b, "booked", "none")
       \/ deposit[b] = "awaited" /\ Move(b, "booked", "kept")

\* A held slot is given back; an unpaid deposit may still be awaited for a while.
Release(b) ==
    /\ slot[b] = "held"
    /\ \/ Move(b, "released", deposit[b])
       \/ deposit[b] = "awaited" /\ Move(b, "released", "void")

\* A booked appointment is called off: its deposit is forfeited or owed back.
CallOff(b) ==
    /\ slot[b] = "booked"
    /\ \/ Move(b, "released", deposit[b])
       \/ deposit[b] = "kept" /\ Move(b, "released", "owed")

Finish(b) ==
    /\ slot[b] = "booked"
    /\ Move(b, "done", deposit[b])

\* Nobody paid.
GiveUp(b) ==
    /\ slot[b] \notin {"booked", "done"} /\ deposit[b] = "awaited"
    /\ Move(b, slot[b], "void")

\* Money arrives for a booking that does not stand.
LateCapture(b) ==
    /\ slot[b] \notin {"booked", "done"} /\ deposit[b] \in {"awaited", "void"}
    /\ Move(b, slot[b], "owed")

Refund(b) ==
    /\ deposit[b] = "owed"
    /\ Move(b, slot[b], "returned")

Next ==
    \E b \in Bookings :
        \/ Open(b) \/ AskDeposit(b) \/ Book(b) \/ Release(b) \/ CallOff(b)
        \/ Finish(b) \/ GiveUp(b) \/ LateCapture(b) \/ Refund(b)

Spec == Init /\ [][Next]_vars

=============================================================================
