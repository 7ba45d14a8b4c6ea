-------------------------- MODULE RefundClaimProofs --------------------------
(***************************************************************************)
(* Proofs about RefundClaim: for any number of payments and attempts, the   *)
(* invariant is inductive, one attempt at a time is at the gateway while    *)
(* claims hold, and the customer is told of a refund once whether or not    *)
(* they do.                                                                 *)
(***************************************************************************)
EXTENDS RefundClaim, TLAPS

\* Initially no refund is under way.
LEMMA InductiveInit == Init => IInv
<1> SUFFICES ASSUME Init PROVE IInv
  OBVIOUS
<1>1. TypeOK
  BY DEF Init, TypeOK
<1>2. \A a \in Attempts, p \in Payments : \A pc : local[a] # Doing(pc, p) \/ pc = "idle"
  <2> TAKE a \in Attempts, p \in Payments
  <2> TAKE pc
  <2>1. local[a].pc = "idle"
    BY DEF Init, Idle
  <2>2. Doing(pc, p).pc = pc
    BY DEF Doing
  <2> QED
    BY <2>1, <2>2
<1>3. \A a \in Attempts, p \in Payments : ~Refunding(a, p)
  BY <1>2 DEF Refunding
<1>4. AttemptHoldsClaim /\ OneAtGateway
  BY <1>3 DEF AttemptHoldsClaim, OneAtGateway
<1>5. ToldByWinner
  BY <1>2 DEF ToldByWinner
<1>6. ToldOnceOfRealRefund
  <2>1. ASSUME NEW p \in Payments PROVE notices[p] <= 1 /\ notices[p] # 1
    BY DEF Init
  <2> QED
    BY <2>1, Zenon DEF ToldOnceOfRealRefund
<1> QED
  BY <1>1, <1>4, <1>5, <1>6 DEF IInv

\* Every step keeps what the attempts know.
LEMMA InductiveStep == IInv /\ [Next]_vars => IInv'
<1> SUFFICES ASSUME IInv, [Next]_vars PROVE IInv'
  OBVIOUS
<1> USE DEF IInv, Steps, Tasks, Doing, Idle
<1>1. ASSUME NEW p \in Payments, Owe(p) PROVE IInv'
  <2> USE <1>1 DEF Owe
  <2>1. TypeOK'
    BY DEF TypeOK
  <2>2. AttemptHoldsClaim'
    BY <2>1 DEF TypeOK, AttemptHoldsClaim, OneAtGateway, Refunding
  <2>3. OneAtGateway'
    BY <2>1 DEF TypeOK, AttemptHoldsClaim, OneAtGateway, Refunding
  <2>4. ToldByWinner'
    BY <2>1 DEF TypeOK, ToldByWinner, ToldOnceOfRealRefund
  <2>5. ToldOnceOfRealRefund'
    BY <2>1 DEF TypeOK, ToldByWinner, ToldOnceOfRealRefund
  <2> QED
    BY <2>1, <2>2, <2>3, <2>4, <2>5
<1>2. ASSUME NEW a \in Attempts, NEW p \in Payments, ReadPayment(a, p) PROVE IInv'
  <2> USE <1>2 DEF ReadPayment, Goto
  <2>1. TypeOK'
    BY DEF TypeOK
  <2>2. AttemptHoldsClaim'
    BY <2>1 DEF TypeOK, AttemptHoldsClaim, OneAtGateway, Refunding
  <2>3. OneAtGateway'
    BY <2>1 DEF TypeOK, AttemptHoldsClaim, OneAtGateway, Refunding
  <2>4. ToldByWinner'
    BY <2>1 DEF TypeOK, ToldByWinner, ToldOnceOfRealRefund
  <2>5. ToldOnceOfRealRefund'
    BY <2>1 DEF TypeOK, ToldByWinner, ToldOnceOfRealRefund
  <2> QED
    BY <2>1, <2>2, <2>3, <2>4, <2>5
<1>3. ASSUME NEW a \in Attempts, NEW p \in Payments, Claim(a, p) PROVE IInv'
  <2> USE <1>3 DEF Claim, Goto
  <2>1. TypeOK'
    BY DEF TypeOK
  <2>2. AttemptHoldsClaim'
    BY <2>1 DEF TypeOK, AttemptHoldsClaim, OneAtGateway, Refunding
  <2>3. OneAtGateway'
    BY <2>1 DEF TypeOK, AttemptHoldsClaim, OneAtGateway, Refunding
  <2>4. ToldByWinner'
    BY <2>1 DEF TypeOK, ToldByWinner, ToldOnceOfRealRefund
  <2>5. ToldOnceOfRealRefund'
    BY <2>1 DEF TypeOK, ToldByWinner, ToldOnceOfRealRefund
  <2> QED
    BY <2>1, <2>2, <2>3, <2>4, <2>5
<1>4. ASSUME NEW a \in Attempts, NEW p \in Payments, RefundPayment(a, p) PROVE IInv'
  <2> USE <1>4 DEF RefundPayment, Goto
  <2>1. TypeOK'
    BY DEF TypeOK
  <2>2. AttemptHoldsClaim'
    BY <2>1 DEF TypeOK, AttemptHoldsClaim, OneAtGateway, Refunding
  <2>3. OneAtGateway'
    BY <2>1 DEF TypeOK, AttemptHoldsClaim, OneAtGateway, Refunding
  <2>4. ToldByWinner'
    BY <2>1 DEF TypeOK, ToldByWinner, ToldOnceOfRealRefund
  <2>5. ToldOnceOfRealRefund'
    BY <2>1 DEF TypeOK, ToldByWinner, ToldOnceOfRealRefund
  <2> QED
    BY <2>1, <2>2, <2>3, <2>4, <2>5
<1>5. ASSUME NEW a \in Attempts, NEW p \in Payments, NEW made \in BOOLEAN, RefundFails(a, p, made) PROVE IInv'
  <2> USE <1>5 DEF RefundFails, Goto
  <2>1. TypeOK'
    BY DEF TypeOK
  <2>2. AttemptHoldsClaim'
    BY <2>1 DEF TypeOK, AttemptHoldsClaim, OneAtGateway, Refunding
  <2>3. OneAtGateway'
    BY <2>1 DEF TypeOK, AttemptHoldsClaim, OneAtGateway, Refunding
  <2>4. ToldByWinner'
    BY <2>1 DEF TypeOK, ToldByWinner, ToldOnceOfRealRefund
  <2>5. ToldOnceOfRealRefund'
    BY <2>1 DEF TypeOK, ToldByWinner, ToldOnceOfRealRefund
  <2> QED
    BY <2>1, <2>2, <2>3, <2>4, <2>5
<1>6. ASSUME NEW a \in Attempts, NEW p \in Payments, ReleaseRefundClaim(a, p) PROVE IInv'
  <2> USE <1>6 DEF ReleaseRefundClaim, Goto
  <2>1. TypeOK'
    BY DEF TypeOK
  <2>2. AttemptHoldsClaim'
    BY <2>1 DEF TypeOK, AttemptHoldsClaim, OneAtGateway, Refunding
  <2>3. OneAtGateway'
    BY <2>1 DEF TypeOK, AttemptHoldsClaim, OneAtGateway, Refunding
  <2>4. ToldByWinner'
    BY <2>1 DEF TypeOK, ToldByWinner, ToldOnceOfRealRefund
  <2>5. ToldOnceOfRealRefund'
    BY <2>1 DEF TypeOK, ToldByWinner, ToldOnceOfRealRefund
  <2> QED
    BY <2>1, <2>2, <2>3, <2>4, <2>5
<1>7. ASSUME NEW a \in Attempts, NEW p \in Payments, Settle(a, p) PROVE IInv'
  <2> USE <1>7 DEF Settle, Goto
  <2>1. TypeOK'
    BY DEF TypeOK
  <2>2. AttemptHoldsClaim'
    BY <2>1 DEF TypeOK, AttemptHoldsClaim, OneAtGateway, Refunding
  <2>3. OneAtGateway'
    BY <2>1 DEF TypeOK, AttemptHoldsClaim, OneAtGateway, Refunding
  <2>4. ToldByWinner'
    <3>1. CASE status[p] = "refund_pending"
      BY <2>1, <3>1 DEF TypeOK, ToldByWinner, ToldOnceOfRealRefund
    <3>2. CASE status[p] # "refund_pending"
      BY <2>1, <3>2 DEF TypeOK, ToldByWinner, ToldOnceOfRealRefund
    <3> QED
      BY <3>1, <3>2
  <2>5. ToldOnceOfRealRefund'
    BY <2>1 DEF TypeOK, ToldByWinner, ToldOnceOfRealRefund
  <2> QED
    BY <2>1, <2>2, <2>3, <2>4, <2>5
<1>8. ASSUME NEW a \in Attempts, NEW p \in Payments, NotifyRefunded(a, p) PROVE IInv'
  <2> USE <1>8 DEF NotifyRefunded, Goto
  <2>1. TypeOK'
    BY DEF TypeOK
  <2>2. AttemptHoldsClaim'
    BY <2>1 DEF TypeOK, AttemptHoldsClaim, OneAtGateway, Refunding
  <2>3. OneAtGateway'
    BY <2>1 DEF TypeOK, AttemptHoldsClaim, OneAtGateway, Refunding
  <2>4. ToldByWinner'
    BY <2>1 DEF TypeOK, ToldByWinner, ToldOnceOfRealRefund
  <2>5. ToldOnceOfRealRefund'
    BY <2>1 DEF TypeOK, ToldByWinner, ToldOnceOfRealRefund
  <2> QED
    BY <2>1, <2>2, <2>3, <2>4, <2>5
<1>9. ASSUME NEW p \in Payments, Lapse(p) PROVE IInv'
  <2> USE <1>9 DEF Lapse
  <2>1. TypeOK'
    BY DEF TypeOK
  <2>2. AttemptHoldsClaim'
    BY <2>1 DEF TypeOK, AttemptHoldsClaim, OneAtGateway, Refunding
  <2>3. OneAtGateway'
    BY <2>1 DEF TypeOK, AttemptHoldsClaim, OneAtGateway, Refunding
  <2>4. ToldByWinner'
    BY <2>1 DEF TypeOK, ToldByWinner, ToldOnceOfRealRefund
  <2>5. ToldOnceOfRealRefund'
    BY <2>1 DEF TypeOK, ToldByWinner, ToldOnceOfRealRefund
  <2> QED
    BY <2>1, <2>2, <2>3, <2>4, <2>5
<1>10. ASSUME NEW a \in Attempts, Crash(a) PROVE IInv'
  <2> USE <1>10 DEF Crash, Goto
  <2>1. TypeOK'
    BY DEF TypeOK
  <2>2. AttemptHoldsClaim'
    BY <2>1 DEF TypeOK, AttemptHoldsClaim, OneAtGateway, Refunding
  <2>3. OneAtGateway'
    BY <2>1 DEF TypeOK, AttemptHoldsClaim, OneAtGateway, Refunding
  <2>4. ToldByWinner'
    BY <2>1 DEF TypeOK, ToldByWinner, ToldOnceOfRealRefund
  <2>5. ToldOnceOfRealRefund'
    BY <2>1 DEF TypeOK, ToldByWinner, ToldOnceOfRealRefund
  <2> QED
    BY <2>1, <2>2, <2>3, <2>4, <2>5
<1>11. CASE UNCHANGED vars
  BY <1>11 DEF vars, TypeOK, AttemptHoldsClaim, OneAtGateway, Refunding, ToldByWinner,
     ToldOnceOfRealRefund
<1> HIDE DEF IInv, Steps, Tasks, Doing, Idle
<1> QED
  BY <1>1, <1>2, <1>3, <1>4, <1>5, <1>6, <1>7, <1>8, <1>9, <1>10, <1>11 DEF Next, Step

\* IInv is inductive, so it holds for any number of payments and of attempts, whether or
\* not claims outlive them and however the gateway answers a repeat.
THEOREM Inductive == Spec => []IInv
BY InductiveInit, InductiveStep, PTL DEF Spec

\* While no attempt outlives its claim, one attempt at a time is between winning the claim of
\* a payment and recording or giving up the refund: inline or job's, on whichever replica.
THEOREM OneAtATime == Spec => []OneAtGateway
<1>1. IInv => OneAtGateway
  BY DEF IInv
<1> QED
  BY <1>1, Inductive, PTL

\* Even when attempts outlive their claims, the guarded UPDATE lets one of them alone tell the
\* customer, and only of a refund the gateway made.
THEOREM ToldOnce == Spec => []ToldOnceOfRealRefund
<1>1. IInv => ToldOnceOfRealRefund
  BY DEF IInv
<1> QED
  BY <1>1, Inductive, PTL

=============================================================================
