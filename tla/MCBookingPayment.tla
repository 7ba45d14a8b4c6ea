-------------------------- MODULE MCBookingPayment --------------------------
(* The instances of BookingPayment that TLC checks.                          *)
EXTENDS BookingPayment, TLC

\* Handlers are interchangeable.
HandlerSymmetry == Permutations(Handlers)

=============================================================================
