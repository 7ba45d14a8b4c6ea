---------------------------- MODULE MCSalonSlots ----------------------------
(* The instances of SalonSlots that TLC checks.                              *)
EXTENDS SalonSlots, TLC

\* Rows, requests, salons, customers and workers are interchangeable.
RowSymmetry == Permutations(Bookings) \cup Permutations(Requests) \cup Permutations(Salons)
                   \cup Permutations(Customers) \cup Permutations(Workers)

=============================================================================
