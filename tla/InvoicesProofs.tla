---------------------------- MODULE InvoicesProofs ----------------------------
(***************************************************************************)
(* Proofs about Invoices for any number of commissions, job runs and admins. *)
(* Only finitely many commissions are ever recorded, so every sum is a       *)
(* number; who holds the invoice's row finds it as it was.                   *)
(***************************************************************************)
EXTENDS Invoices, FiniteSetTheorems, TLAPS

\* The invariant of the runs, with what makes its sums numbers.
Inv == IInv /\ IsFiniteSet(recorded)

\* The transaction h takes the step from local[h] to t.
LEMMA GotoType ==
    ASSUME TypeOK, NEW h \in Handlers, NEW t \in Tasks \cup {Idle}, Goto(h, t)
    PROVE  /\ local' \in [Handlers -> Tasks \cup {Idle}]
           /\ local'[h] = t
           /\ \A g \in Handlers \ {h} : local'[g] = local[g]
BY DEF TypeOK, Goto

\* What Task makes has the fields it is given, and is not idle.
LEMMA TaskType ==
    ASSUME NEW pc \in {"selected", "summed", "paying"}, NEW rows \in SUBSET Transactions,
           NEW sum \in SUBSET Transactions, NEW paid \in Nat, NEW n \in Nat
    PROVE  /\ Task(pc, rows, sum, paid, n) \in Tasks
           /\ Task(pc, rows, sum, paid, n) # Idle
           /\ Task(pc, rows, sum, paid, n).pc = pc
           /\ Task(pc, rows, sum, paid, n).rows = rows
           /\ Task(pc, rows, sum, paid, n).total = sum
           /\ Task(pc, rows, sum, paid, n).paidTotal = paid
           /\ Task(pc, rows, sum, paid, n).amount = n
BY DEF Task, Tasks, Idle

\* Sums of recorded commissions: numbers, monotone, and zero only of none.
LEMMA Sums ==
    ASSUME NEW S, IsFiniteSet(S)
    PROVE  /\ \A T \in SUBSET S : Sum(T) \in Nat /\ (Sum(T) = 0 <=> T = {})
           /\ \A T \in SUBSET S : \A U \in SUBSET T : Sum(U) <= Sum(T)
<1>1. \A T \in SUBSET S : IsFiniteSet(T)
  BY FS_Subset
<1>2. \A T \in SUBSET S : Sum(T) \in Nat /\ (Sum(T) = 0 <=> T = {})
  BY <1>1, FS_CardinalityType, FS_EmptySet DEF Sum
<1>3. ASSUME NEW T \in SUBSET S, NEW U \in SUBSET T PROVE Sum(U) <= Sum(T)
  BY <1>1, FS_Subset DEF Sum
<1> QED BY <1>2, <1>3

\* What the invariant says of a transaction that is not at rest.
LEMMA Facts ==
    ASSUME Inv, NEW h \in Handlers, local[h] # Idle
    PROVE  /\ local[h] \in Tasks
           /\ local[h].rows \subseteq recorded
           /\ local[h].total \subseteq Transactions
           /\ local[h].paidTotal \in Nat /\ local[h].amount \in Nat
BY DEF Inv, IInv, TypeOK, RowHeld, Tasks

-----------------------------------------------------------------------------
(* Every action keeps the invariant.                                        *)

\* A step of h that leaves the tables alone keeps what others know.
LEMMA OthersKeep ==
    ASSUME Inv, NEW h \in Handlers, NEW t \in Tasks \cup {Idle}, Goto(h, t),
           UNCHANGED <<recorded, invoice>>,
           t # Idle => /\ t.rows \subseteq recorded
                       /\ t.pc \in {"selected", "summed"} => t.rows # {}
                       /\ t.pc = "summed" => t.total = items \cup t.rows
                       /\ t.pc = "paying" => /\ t.total = total
                                             /\ t.paidTotal = paidTotal
                                             /\ t.amount > 0
                                             /\ paidTotal + t.amount <= Sum(total)
                       /\ t.pc \in {"summed", "paying"} => InvoiceFree(h)
    PROVE  Inv'
<1>1. /\ local' \in [Handlers -> Tasks \cup {Idle}]
      /\ local'[h] = t
      /\ \A g \in Handlers \ {h} : local'[g] = local[g]
  BY GotoType DEF Inv, IInv
<1>2. TypeOK'
  BY <1>1 DEF Inv, IInv, TypeOK, invoice
<1>3. RowHeld'
  <2> SUFFICES ASSUME NEW g \in Handlers PROVE
        /\ Locked(g)' => \A k \in Handlers : Locked(k)' => k = g
        /\ local'[g] # Idle => local'[g].rows \subseteq recorded'
        /\ At(g, "selected")' \/ At(g, "summed")' => local'[g].rows # {}
        /\ At(g, "summed")' => local'[g].total = items' \cup local'[g].rows
        /\ At(g, "paying")' => /\ local'[g].total = total'
                               /\ local'[g].paidTotal = paidTotal'
                               /\ local'[g].amount > 0
                               /\ paidTotal' + local'[g].amount <= Sum(total)'
    BY DEF RowHeld
  <2>1. Locked(g)' => \A k \in Handlers : Locked(k)' => k = g
    BY <1>1 DEF Inv, IInv, RowHeld, Locked, At, InvoiceFree
  <2>2. CASE g = h
    BY <1>1, <2>1, <2>2 DEF At, invoice, Sum
  <2>3. CASE g # h
    BY <1>1, <2>1, <2>3 DEF Inv, IInv, RowHeld, At, invoice, Sum
  <2> QED BY <2>2, <2>3
<1> QED BY <1>2, <1>3 DEF Inv, IInv, TotalsMatchItems, PaymentsCount, invoice, Sum

LEMMA RecordCommissionKeeps == ASSUME Inv, NEW t \in Transactions, RecordCommission(t) PROVE Inv'
<1>1. recorded' = recorded \cup {t} /\ UNCHANGED <<invoice, local>>
  BY DEF RecordCommission
<1>2. IsFiniteSet(recorded')
  BY <1>1, FS_AddElement DEF Inv
<1>3. TypeOK'
  BY <1>1 DEF Inv, IInv, TypeOK, invoice
<1>4. RowHeld'
  BY <1>1 DEF Inv, IInv, RowHeld, Locked, At, invoice, Sum
<1> QED BY <1>1, <1>2, <1>3, <1>4 DEF Inv, IInv, TotalsMatchItems, PaymentsCount, invoice, Sum

LEMMA SelectKeeps == ASSUME Inv, NEW h \in Handlers, Select(h) PROVE Inv'
<1> DEFINE t == Task("selected", recorded \ items, {}, 0, 0)
<1>1. t \in Tasks /\ t # Idle /\ t.pc = "selected" /\ t.rows = recorded \ items
  BY TaskType DEF Inv, IInv, TypeOK
<1>2. Goto(h, t) /\ UNCHANGED <<recorded, invoice>> /\ recorded \ items # {}
  BY DEF Select
<1> HIDE DEF t
<1> QED BY <1>1, <1>2, OthersKeep

LEMMA GenerateKeeps == ASSUME Inv, NEW h \in Handlers, Generate(h) PROVE Inv'
<1> DEFINE t == [local[h] EXCEPT !.pc = "summed", !.total = items \cup local[h].rows]
<1>1. local[h] # Idle /\ local[h].pc = "selected" /\ InvoiceFree(h)
  BY DEF Generate, At
<1>2. local[h] \in Tasks /\ local[h].rows \subseteq recorded /\ local[h].rows # {}
  BY <1>1, Facts DEF Inv, IInv, RowHeld, At
<1>3. t \in Tasks /\ t # Idle /\ t.pc = "summed" /\ t.rows = local[h].rows
        /\ t.total = items \cup local[h].rows
  BY <1>2 DEF Tasks, Idle, Inv, IInv, TypeOK
<1>4. Goto(h, t) /\ UNCHANGED <<recorded, invoice>>
  BY DEF Generate
<1> HIDE DEF t
<1> QED BY <1>1, <1>2, <1>3, <1>4, OthersKeep

LEMMA RecordPaymentKeeps ==
    ASSUME Inv, NEW h \in Handlers, NEW n \in 1..Sum(total), RecordPayment(h, n) PROVE Inv'
<1> DEFINE t == Task("paying", {}, total, paidTotal, n)
<1>1. n \in Nat /\ n > 0
  OBVIOUS
<1>2. t \in Tasks /\ t # Idle /\ t.pc = "paying" /\ t.rows = {} /\ t.total = total
        /\ t.paidTotal = paidTotal /\ t.amount = n
  BY <1>1, TaskType DEF Inv, IInv, TypeOK
<1>3. Goto(h, t) /\ UNCHANGED <<recorded, invoice>> /\ InvoiceFree(h) /\ paidTotal + n <= Sum(total)
  BY DEF RecordPayment
<1> HIDE DEF t
<1> QED BY <1>1, <1>2, <1>3, OthersKeep

LEMMA RollbackKeeps == ASSUME Inv, NEW h \in Handlers, Rollback(h) PROVE Inv'
BY OthersKeep DEF Rollback

\* A transaction that holds the row writes it and ends: no other one holds it, or knows more
\* than commissions it has gathered.
LEMMA WriterEnds ==
    ASSUME Inv, NEW h \in Handlers, Locked(h), Goto(h, Idle), UNCHANGED recorded
    PROVE  /\ local' \in [Handlers -> Tasks \cup {Idle}]
           /\ RowHeld'
<1>1. /\ local' \in [Handlers -> Tasks \cup {Idle}]
      /\ local'[h] = Idle
      /\ \A g \in Handlers \ {h} : local'[g] = local[g]
  BY GotoType DEF Inv, IInv
<1>2. \A g \in Handlers : ~Locked(g)'
  BY <1>1 DEF Inv, IInv, RowHeld, Locked, At
<1>3. \A g \in Handlers : /\ local'[g] # Idle => local'[g].rows \subseteq recorded'
                          /\ At(g, "selected")' => local'[g].rows # {}
  BY <1>1 DEF Inv, IInv, RowHeld, At
<1> QED BY <1>1, <1>2, <1>3 DEF RowHeld, Locked

LEMMA CommitInvoiceKeeps == ASSUME Inv, NEW h \in Handlers, CommitInvoice(h) PROVE Inv'
<1> DEFINE rows == local[h].rows
           sum == Sum(items \cup rows)
<1>1. At(h, "summed") /\ rows # {} /\ rows \subseteq recorded /\ local[h].total = items \cup rows
  BY Facts DEF CommitInvoice, At, Inv, IInv, RowHeld
<1>2. /\ items' = items \cup rows
      /\ total' = items \cup rows
      /\ status' = StatusOver(status, paidTotal, sum)
      /\ UNCHANGED <<recorded, paidTotal, payments>>
  BY <1>1 DEF CommitInvoice
<1>3. local' \in [Handlers -> Tasks \cup {Idle}] /\ RowHeld'
  BY <1>1, WriterEnds DEF CommitInvoice, Locked
<1>4. items \cup rows \subseteq recorded /\ items \subseteq items \cup rows /\ items \cup rows # {}
  BY <1>1 DEF Inv, IInv, TypeOK
<1>5. /\ sum \in Nat /\ sum > 0 /\ Sum(total) <= sum
      /\ Sum(total) \in Nat
      /\ status = "none" <=> Sum(total) = 0
  <2>1. total = items /\ IsFiniteSet(recorded) /\ items \subseteq recorded
    BY DEF Inv, IInv, TypeOK, TotalsMatchItems
  <2>2. sum \in Nat /\ sum # 0 /\ Sum(total) \in Nat /\ (Sum(total) = 0 <=> total = {})
    BY <1>4, <2>1, Sums
  <2>3. Sum(items) <= sum
    BY <1>4, <2>1, Sums
  <2> HIDE DEF sum
  <2> QED BY <2>1, <2>2, <2>3 DEF Inv, IInv, TotalsMatchItems
<1>6. Sum(total)' = sum
  BY <1>2 DEF Sum
<1>7. paidTotal \in Nat /\ status \in Status /\ paidTotal <= Sum(total) /\ paidTotal = payments
        /\ (status = "issued" => paidTotal = 0)
        /\ (status \in {"partially_paid", "paid"} => paidTotal > 0)
  BY <1>5 DEF Inv, IInv, TypeOK, TotalsMatchItems, PaymentsCount, Status
<1>8. /\ status' \in Status \ {"none"}
      /\ status' = "issued" => paidTotal = 0
      /\ status' = "partially_paid" => 0 < paidTotal /\ paidTotal < sum
      /\ status' = "paid" => paidTotal = sum
  <2> HIDE DEF sum
  <2> QED BY <1>2, <1>5, <1>7 DEF StatusOver, Status
<1>9. TypeOK'
  <2>1. items' \subseteq recorded' /\ total' \subseteq Transactions
    BY <1>2, <1>4 DEF Inv, IInv, TypeOK
  <2> QED BY <1>2, <1>3, <1>8, <2>1 DEF Inv, IInv, TypeOK, Status
<1>10. TotalsMatchItems'
  <2> HIDE DEF sum
  <2> QED BY <1>2, <1>4, <1>6, <1>8 DEF TotalsMatchItems
<1>11. PaymentsCount'
  <2> HIDE DEF sum
  <2> QED BY <1>2, <1>5, <1>6, <1>7 DEF PaymentsCount
<1> QED BY <1>2, <1>3, <1>9, <1>10, <1>11 DEF Inv, IInv

LEMMA CommitPaymentKeeps == ASSUME Inv, NEW h \in Handlers, CommitPayment(h) PROVE Inv'
<1> DEFINE paid == paidTotal + local[h].amount
<1>1. /\ At(h, "paying") /\ local[h].amount \in Nat /\ local[h].amount > 0
      /\ local[h].total = total /\ local[h].paidTotal = paidTotal /\ paid <= Sum(total)
  BY Facts DEF CommitPayment, At, Inv, IInv, RowHeld
<1>2. /\ paidTotal' = paid
      /\ payments' = payments + local[h].amount
      /\ status' = IF paid >= Sum(total) THEN "paid" ELSE "partially_paid"
      /\ UNCHANGED <<recorded, items, total>>
  BY <1>1 DEF CommitPayment
<1>3. local' \in [Handlers -> Tasks \cup {Idle}] /\ RowHeld'
  BY <1>1, WriterEnds DEF CommitPayment, Locked
<1>4. Sum(total) \in Nat /\ (Sum(total) = 0 <=> items = {})
  BY Sums DEF Inv, IInv, TypeOK, TotalsMatchItems
<1>5. Sum(total)' = Sum(total)
  BY <1>2 DEF Sum
<1>6. paidTotal \in Nat /\ paidTotal = payments
  BY DEF Inv, IInv, TypeOK, PaymentsCount
<1>7. TypeOK'
  BY <1>1, <1>2, <1>3, <1>6 DEF Inv, IInv, TypeOK, Status
<1>8. items # {}
  BY <1>1, <1>4, <1>6
<1>9. TotalsMatchItems'
  BY <1>1, <1>2, <1>4, <1>5, <1>6, <1>8 DEF TotalsMatchItems, Inv, IInv
<1>10. PaymentsCount'
  BY <1>1, <1>2, <1>4, <1>5, <1>6 DEF PaymentsCount
<1> QED BY <1>2, <1>3, <1>7, <1>9, <1>10 DEF Inv, IInv

-----------------------------------------------------------------------------

LEMMA InitHolds == Init => Inv
<1> SUFFICES ASSUME Init PROVE Inv
  OBVIOUS
<1>1. IsFiniteSet({}) /\ Sum({}) = 0
  BY FS_EmptySet DEF Sum
<1>2. \A h \in Handlers : local[h] = Idle
  BY DEF Init
<1>3. RowHeld
  BY <1>2 DEF RowHeld, Locked, At
<1>4. TypeOK
  BY DEF Init, TypeOK, Status
<1>5. TotalsMatchItems /\ PaymentsCount
  BY <1>1 DEF Init, TotalsMatchItems, PaymentsCount
<1> QED BY <1>1, <1>3, <1>4, <1>5 DEF Inv, IInv, Init

LEMMA NextKeeps == Inv /\ [Next]_vars => Inv'
<1> SUFFICES ASSUME Inv, [Next]_vars PROVE Inv'
  OBVIOUS
<1>1. CASE \E t \in Transactions : RecordCommission(t)
  BY <1>1, RecordCommissionKeeps
<1>2. ASSUME NEW h \in Handlers,
             \/ Select(h) \/ Generate(h) \/ CommitInvoice(h)
             \/ \E n \in 1..Sum(total) : RecordPayment(h, n)
             \/ CommitPayment(h) \/ Rollback(h)
      PROVE  Inv'
  BY <1>2, SelectKeeps, GenerateKeeps, CommitInvoiceKeeps, RecordPaymentKeeps, CommitPaymentKeeps,
     RollbackKeeps
<1>3. CASE UNCHANGED vars
  BY <1>3 DEF Inv, IInv, TypeOK, RowHeld, Locked, At, TotalsMatchItems, PaymentsCount, Sum, vars, invoice
<1> QED BY <1>1, <1>2, <1>3 DEF Next

LEMMA Always == Spec => []Inv
BY InitHolds, NextKeeps, PTL DEF Spec

\* The inductive invariant: whoever holds the invoice's row finds it as it was.
THEOREM Invariant == Spec => []IInv
<1>1. Inv => IInv
  BY DEF Inv
<1> QED BY <1>1, Always, PTL

\* However many runs of the job overlap and however late commissions come, the total is that
\* of the items and the status says what was paid of it.
THEOREM TotalsMatch == Spec => []TotalsMatchItems
<1>1. Inv => TotalsMatchItems
  BY DEF Inv, IInv
<1> QED BY <1>1, Always, PTL

\* No recorded payment is lost or counted twice, and none exceeds what is owed.
THEOREM PaymentsAddUp == Spec => []PaymentsCount
<1>1. Inv => PaymentsCount
  BY DEF Inv, IInv
<1> QED BY <1>1, Always, PTL

=============================================================================
