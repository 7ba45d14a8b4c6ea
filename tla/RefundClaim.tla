----------------------------- MODULE RefundClaim -----------------------------
(***************************************************************************)
(* PaymentsService.attemptRefund, called inline by cancel and adminCancel   *)
(* and again by RefundRetryJob, on any API replica.  Two layers keep        *)
(* concurrent attempts apart: a claim with a TTL before the gateway is      *)
(* called, and a conditional UPDATE when the refund is recorded.  What      *)
(* makes a payment refund_pending is BookingPayment's matter.               *)
(***************************************************************************)
EXTENDS Naturals

CONSTANTS Payments,
          Attempts,       \* calls of attemptRefund that run concurrently
          Overrun,        \* payments with attempts that may outlive REFUND_CLAIM_TTL_MS
          RepeatAccepted  \* the gateway answers a repeated refund with success (code 101)

ASSUME OverrunAssumption == Overrun \subseteq Payments
ASSUME RepeatAssumption == RepeatAccepted \in BOOLEAN

VARIABLES
    status,    \* payments.status
    claimed,   \* payments.refund_claimed_at: NULL, within the TTL, older
    sent,      \* the gateway has refunded the transaction
    notices,   \* times the customer was told
    local      \* what each attempt holds

vars == <<status, claimed, sent, notices, local>>

Idle == [pc |-> "idle"]
Steps == {"claim", "gateway", "unclaim", "settle", "notify"}
Doing(pc, p) == [pc |-> pc, payment |-> p]
Tasks == [pc : Steps, payment : Payments]
Goto(a, task) == local' = [local EXCEPT ![a] = task]
At(a, pc) == local[a].pc = pc
\* An attempt that won the claim and has not recorded or given up the refund.
Refunding(a, p) == \E pc \in {"gateway", "unclaim", "settle"} : local[a] = Doing(pc, p)

TypeOK ==
    /\ status \in [Payments -> {"paid", "refund_pending", "refunded"}]
    /\ claimed \in [Payments -> {"null", "fresh", "stale"}]
    /\ sent \in [Payments -> BOOLEAN]
    /\ notices \in [Payments -> Nat]
    /\ local \in [Attempts -> Tasks \cup {Idle}]

Init ==
    /\ status = [p \in Payments |-> "paid"]
    /\ claimed = [p \in Payments |-> "null"]
    /\ sent = [p \in Payments |-> FALSE]
    /\ notices = [p \in Payments |-> 0]
    /\ local = [a \in Attempts |-> Idle]

-----------------------------------------------------------------------------

\* A cancellation or a late capture owes a refund.
Owe(p) ==
    /\ status[p] = "paid"
    /\ status' = [status EXCEPT ![p] = "refund_pending"]
    /\ UNCHANGED <<claimed, sent, notices, local>>

\* The unlocked read.
ReadPayment(a, p) ==
    /\ local[a] = Idle
    /\ status[p] = "refund_pending"
    /\ Goto(a, Doing("claim", p))
    /\ UNCHANGED <<status, claimed, sent, notices>>

\* UPDATE ... SET refund_claimed_at WHERE status = 'refund_pending' and the claim is free.
ClaimUnconditional(a, p) ==   \* mutant: only the status is checked
    /\ local[a] = Doing("claim", p)
    /\ status[p] = "refund_pending"
    /\ claimed' = [claimed EXCEPT ![p] = "fresh"]
    /\ Goto(a, Doing("gateway", p))
    /\ UNCHANGED <<status, sent, notices>>
ClaimNull(a, p) ==   \* mutant: IS NULL without the cutoff
    /\ local[a] = Doing("claim", p)
    /\ IF status[p] = "refund_pending" /\ claimed[p] = "null"
       THEN claimed' = [claimed EXCEPT ![p] = "fresh"] /\ Goto(a, Doing("gateway", p))
       ELSE UNCHANGED claimed /\ Goto(a, Idle)
    /\ UNCHANGED <<status, sent, notices>>
Claim(a, p) ==
    /\ local[a] = Doing("claim", p)
    /\ IF status[p] = "refund_pending" /\ claimed[p] # "fresh"
       THEN claimed' = [claimed EXCEPT ![p] = "fresh"] /\ Goto(a, Doing("gateway", p))
       ELSE UNCHANGED claimed /\ Goto(a, Idle)
    /\ UNCHANGED <<status, sent, notices>>

\* gateway.refundPayment succeeds.
RefundPayment(a, p) ==
    /\ local[a] = Doing("gateway", p)
    /\ sent[p] => RepeatAccepted
    /\ sent' = [sent EXCEPT ![p] = TRUE]
    /\ Goto(a, Doing("settle", p))
    /\ UNCHANGED <<status, claimed, notices>>

\* It refuses, or throws: an answer that timed out may belong to a refund that was made.
RefundFailsUnsent(a, p, made) ==   \* mutant: a timeout is taken for a refund
    /\ local[a] = Doing("gateway", p)
    /\ UNCHANGED sent
    /\ Goto(a, Doing("settle", p))
    /\ UNCHANGED <<status, claimed, notices>>
RefundFails(a, p, made) ==
    /\ local[a] = Doing("gateway", p)
    /\ sent' = [sent EXCEPT ![p] = @ \/ made]
    /\ Goto(a, Doing("unclaim", p))
    /\ UNCHANGED <<status, claimed, notices>>

\* releaseRefundClaim, whoever's claim it is by now.
ReleaseRefundClaim(a, p) ==
    /\ local[a] = Doing("unclaim", p)
    /\ claimed' = [claimed EXCEPT ![p] = IF status[p] = "refund_pending" THEN "null" ELSE @]
    /\ Goto(a, Idle)
    /\ UNCHANGED <<status, sent, notices>>

\* UPDATE ... SET status = 'refunded' WHERE status = 'refund_pending'; only the winner
\* goes on to notify.
SettleUnguarded(a, p) ==   \* mutant
    /\ local[a] = Doing("settle", p)
    /\ status' = [status EXCEPT ![p] = "refunded"]
    /\ Goto(a, Doing("notify", p))
    /\ UNCHANGED <<claimed, sent, notices>>
Settle(a, p) ==
    /\ local[a] = Doing("settle", p)
    /\ IF status[p] = "refund_pending"
       THEN status' = [status EXCEPT ![p] = "refunded"] /\ Goto(a, Doing("notify", p))
       ELSE UNCHANGED status /\ Goto(a, Idle)
    /\ UNCHANGED <<claimed, sent, notices>>

\* notifyRefunded.
NotifyRefunded(a, p) ==
    /\ local[a] = Doing("notify", p)
    /\ notices' = [notices EXCEPT ![p] = @ + 1]
    /\ Goto(a, Idle)
    /\ UNCHANGED <<status, claimed, sent>>

-----------------------------------------------------------------------------

\* REFUND_CLAIM_TTL_MS passes.
Lapse(p) ==
    /\ claimed[p] = "fresh"
    /\ p \in Overrun \/ \A a \in Attempts : ~Refunding(a, p)
    /\ claimed' = [claimed EXCEPT ![p] = "stale"]
    /\ UNCHANGED <<status, sent, notices, local>>

\* The process dies, or the database refuses a write.
Crash(a) ==
    /\ local[a] # Idle
    /\ Goto(a, Idle)
    /\ UNCHANGED <<status, claimed, sent, notices>>

Step(a, p) ==
    \/ Claim(a, p)
    \/ RefundPayment(a, p)
    \/ \E made \in BOOLEAN : RefundFails(a, p, made)
    \/ ReleaseRefundClaim(a, p)
    \/ Settle(a, p)
    \/ NotifyRefunded(a, p)

Next ==
    \/ \E a \in Attempts, p \in Payments : ReadPayment(a, p) \/ Step(a, p)
    \/ \E p \in Payments : Owe(p) \/ Lapse(p)
    \/ \E a \in Attempts : Crash(a)

Spec == Init /\ [][Next]_vars

\* RefundRetryJob keeps coming back, an attempt goes on or dies, time passes, and neither
\* the gateway nor the database fails every time.
Fairness ==
    /\ \A a \in Attempts : WF_vars((\E p \in Payments : Step(a, p)) \/ Crash(a))
    /\ \A p \in Payments :
          /\ WF_vars(Lapse(p))
          /\ SF_vars(\E a \in Attempts : ReadPayment(a, p))
          /\ SF_vars(\E a \in Attempts : Claim(a, p))
          /\ SF_vars(\E a \in Attempts : RefundPayment(a, p))
          /\ SF_vars(\E a \in Attempts : Settle(a, p))

FairSpec == Spec /\ Fairness

-----------------------------------------------------------------------------

\* Of the inline attempt and the job's, of two replicas, one at a time is at the gateway,
\* which takes one refund request per transaction, unless an attempt outlives its claim.
OneAtGateway ==
    \A p \in Payments \ Overrun, a, b \in Attempts : Refunding(a, p) /\ Refunding(b, p) => a = b

\* Whatever crashes, repeats and lapses, the customer is told of a refund at most once, and
\* only of one the gateway made.
ToldOnceOfRealRefund ==
    \A p \in Payments : notices[p] <= 1 /\ (notices[p] = 1 => status[p] = "refunded" /\ sent[p])

\* An attempt between claim and record holds a fresh claim on a refund still owed, if it
\* cannot outlive it; one about to notify is alone in it.
AttemptHoldsClaim ==
    \A p \in Payments \ Overrun, a \in Attempts :
        Refunding(a, p) => claimed[p] = "fresh" /\ status[p] = "refund_pending"

ToldByWinner ==
    \A p \in Payments, a \in Attempts :
        /\ local[a] = Doing("settle", p) => sent[p]
        /\ local[a] = Doing("notify", p) =>
              /\ status[p] = "refunded" /\ sent[p] /\ notices[p] = 0
              /\ \A b \in Attempts \ {a} : local[b] # Doing("notify", p)

\* The inductive invariant.
IInv ==
    /\ TypeOK
    /\ AttemptHoldsClaim
    /\ OneAtGateway
    /\ ToldByWinner
    /\ ToldOnceOfRealRefund

\* A refund that is owed is recorded, through crashed attempts and orphaned claims, when
\* the gateway accepts a repeat of a refund whose answer was lost.
OwedIsRecorded ==
    \A p \in Payments : status[p] = "refund_pending" ~> status[p] = "refunded"

=============================================================================
