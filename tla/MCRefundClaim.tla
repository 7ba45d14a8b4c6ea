---------------------------- MODULE MCRefundClaim ----------------------------
(* The instances of RefundClaim that TLC checks.                             *)
EXTENDS RefundClaim, TLC

\* Attempts and payments are interchangeable.
AttemptSymmetry == Permutations(Attempts) \cup Permutations(Payments)

=============================================================================
