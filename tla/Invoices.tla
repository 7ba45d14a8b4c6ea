------------------------------- MODULE Invoices --------------------------------
(***************************************************************************)
(* The invoice of one salon and one month.  The nightly job gathers the     *)
(* commissions that no invoice has yet, without a lock, and adds them in a  *)
(* transaction that takes the invoice's row first; admins record payments   *)
(* under the same row.  Job runs may overlap, and commissions may arrive    *)
(* after the month was invoiced or even paid.  Every commission is worth    *)
(* one unit; what matters is that the sums agree.                           *)
(***************************************************************************)
EXTENDS Naturals, FiniteSets

CONSTANTS Transactions,  \* financial_transactions of the month
          Handlers       \* runs of the job, requests of admins

VARIABLES
    recorded,   \* rows of financial_transactions
    items,      \* those with a row of invoice_items
    total,      \* invoices.total_net_payable, as the set it was summed over
    paidTotal,  \* invoices.paid_total
    payments,   \* sum of the rows of invoice_payments
    status,     \* invoices.status, "none" before the row exists
    local       \* what a run or a request holds

invoice == <<items, total, paidTotal, payments, status>>
vars == <<recorded, invoice, local>>

Status == {"none", "issued", "partially_paid", "paid"}
Idle == [pc |-> "idle"]
\* "selected": rows gathered, nothing locked; "summed": invoice locked, items added, total
\* computed; "paying": invoice locked and read.
Tasks == [pc : {"selected", "summed", "paying"}, rows : SUBSET Transactions,
          total : SUBSET Transactions, paidTotal : Nat, amount : Nat]
Task(pc, rows, sum, paid, n) ==
    [pc |-> pc, rows |-> rows, total |-> sum, paidTotal |-> paid, amount |-> n]
Goto(h, task) == local' = [local EXCEPT ![h] = task]
At(h, pc) == local[h] # Idle /\ local[h].pc = pc

Sum(rows) == Cardinality(rows)

Init ==
    /\ recorded = {}
    /\ items = {}
    /\ total = {}
    /\ paidTotal = 0
    /\ payments = 0
    /\ status = "none"
    /\ local = [h \in Handlers |-> Idle]

Locked(h) == At(h, "summed") \/ At(h, "paying")
InvoiceFreeUnlocked(h) == TRUE   \* mutant: DO NOTHING for DO UPDATE, no FOR UPDATE
InvoiceFree(h) == \A g \in Handlers \ {h} : ~Locked(g)

-----------------------------------------------------------------------------

\* recordCommission, in a transaction of a booking.
RecordCommission(t) ==
    /\ t \notin recorded
    /\ recorded' = recorded \cup {t}
    /\ UNCHANGED <<invoice, local>>

\* The job, once the month is closed: the transactions without an item.
Select(h) ==
    /\ local[h] = Idle
    /\ recorded \ items # {}
    /\ Goto(h, Task("selected", recorded \ items, {}, 0, 0))
    /\ UNCHANGED <<recorded, invoice>>

\* INSERT INTO invoices ... ON CONFLICT DO UPDATE takes the row, new or old; then the items,
\* those of another run being skipped, and the sums over all there are.
Generate(h) ==
    /\ At(h, "selected")
    /\ InvoiceFree(h)
    /\ Goto(h, [local[h] EXCEPT !.pc = "summed", !.total = items \cup local[h].rows])
    /\ UNCHANGED <<recorded, invoice>>

StatusOver(old, paid, sum) ==
    IF paid >= sum /\ sum > 0 THEN "paid" ELSE IF paid > 0 THEN "partially_paid"
    ELSE IF old = "none" THEN "issued" ELSE old

CommitInvoiceStale(h) ==   \* mutant: the status is left to the next payment
    /\ At(h, "summed")
    /\ items' = items \cup local[h].rows
    /\ total' = local[h].total
    /\ status' = IF status = "none" THEN "issued" ELSE status
    /\ Goto(h, Idle)
    /\ UNCHANGED <<recorded, paidTotal, payments>>
CommitInvoice(h) ==
    /\ At(h, "summed")
    /\ items' = items \cup local[h].rows
    /\ total' = local[h].total
    /\ status' = StatusOver(status, paidTotal, Sum(local[h].total))
    /\ Goto(h, Idle)
    /\ UNCHANGED <<recorded, paidTotal, payments>>

\* recordPayment: at most what remains.
RecordPayment(h, n) ==
    /\ local[h] = Idle
    /\ status # "none" /\ InvoiceFree(h)
    /\ paidTotal + n <= Sum(total)
    /\ Goto(h, Task("paying", {}, total, paidTotal, n))
    /\ UNCHANGED <<recorded, invoice>>

CommitPayment(h) ==
    /\ At(h, "paying")
    /\ LET paid == local[h].paidTotal + local[h].amount
       IN  /\ paidTotal' = paid
           /\ status' = IF paid >= Sum(local[h].total) THEN "paid" ELSE "partially_paid"
    /\ payments' = payments + local[h].amount
    /\ Goto(h, Idle)
    /\ UNCHANGED <<recorded, items, total>>

\* The transaction fails, or the process dies.
Rollback(h) == local[h] # Idle /\ Goto(h, Idle) /\ UNCHANGED <<recorded, invoice>>

Next ==
    \/ \E t \in Transactions : RecordCommission(t)
    \/ \E h \in Handlers :
          \/ Select(h) \/ Generate(h) \/ CommitInvoice(h)
          \/ \E n \in 1..Sum(total) : RecordPayment(h, n)
          \/ CommitPayment(h)
          \/ Rollback(h)

Spec == Init /\ [][Next]_vars

-----------------------------------------------------------------------------

TypeOK ==
    /\ recorded \subseteq Transactions
    /\ items \subseteq recorded
    /\ total \subseteq Transactions
    /\ paidTotal \in Nat /\ payments \in Nat
    /\ status \in Status
    /\ local \in [Handlers -> Tasks \cup {Idle}]

\* Every total is the sum of the invoice's items, however many runs overlap and however late
\* a commission comes, and the status says what has been paid of it: a paid invoice that
\* grows is open again.
TotalsMatchItems ==
    /\ total = items
    /\ status = "none" <=> items = {}
    /\ status = "issued" => paidTotal = 0
    /\ status = "partially_paid" => 0 < paidTotal /\ paidTotal < Sum(total)
    /\ status = "paid" => paidTotal = Sum(total)

\* No payment is lost, none counts twice, and together they never exceed what is owed.
PaymentsCount == paidTotal = payments /\ paidTotal <= Sum(total)

-----------------------------------------------------------------------------
(* The inductive invariant: who has the invoice's row alone may write it.   *)

RowHeld ==
    \A h \in Handlers :
        /\ Locked(h) => \A g \in Handlers : Locked(g) => g = h
        /\ local[h] # Idle => local[h].rows \subseteq recorded
        /\ At(h, "selected") \/ At(h, "summed") => local[h].rows # {}
        /\ At(h, "summed") => local[h].total = items \cup local[h].rows
        /\ At(h, "paying") => /\ local[h].total = total
                              /\ local[h].paidTotal = paidTotal
                              /\ local[h].amount > 0
                              /\ paidTotal + local[h].amount <= Sum(total)

IInv ==
    /\ TypeOK
    /\ RowHeld
    /\ TotalsMatchItems
    /\ PaymentsCount

=============================================================================
