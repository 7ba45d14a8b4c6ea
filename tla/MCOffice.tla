------------------------------- MODULE MCOffice --------------------------------
\* A small instance of Office: one booking of two names a worker, two salons have handles.
EXTENDS Office, TLC

CONSTANTS Worker, S1, S2, N1, N2

MCWorkerOf == [b \in Bookings |-> IF b \in Qualifying THEN Worker ELSE None]
MCFirstName == [s \in Salons |-> IF s = S1 THEN N1 ELSE N2]

\* Handlers are interchangeable.
HandlerSymmetry == Permutations(Handlers)

=============================================================================
