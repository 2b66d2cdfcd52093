------------------------- MODULE PaymentsRefinement -------------------------
(***************************************************************************)
(* The payment of loans implements PaymentFlow: of all that the requests,  *)
(* the workers and the chain do, a reader of the tables and the contract   *)
(* sees proofs, bookings, settlements, attestations and closed loans in    *)
(* the order of that module, and nothing else.                             *)
(***************************************************************************)
EXTENDS PaymentsProofs

\* The installment of a number is found by it.
LEMMA NumberedIs ==
  /\ \A k \in Installment : Numbered(LoanOf[k], NumberOf[k]) = k
  /\ \A l \in Loan : \A n \in 1 .. InstallmentCount(l) :
        /\ Numbered(l, n) \in Installment
        /\ LoanOf[Numbered(l, n)] = l /\ NumberOf[Numbered(l, n)] = n
<1>1. ASSUME NEW l \in Loan, NEW n \in 1 .. InstallmentCount(l)
      PROVE  /\ Numbered(l, n) \in Installment
             /\ LoanOf[Numbered(l, n)] = l /\ NumberOf[Numbered(l, n)] = n
  <2>1. \E k \in InstallmentsOf(l) : NumberOf[k] = n
    BY NumbersAreInstallments DEF InstallmentsOf
  <2>2. Numbered(l, n) \in InstallmentsOf(l) /\ NumberOf[Numbered(l, n)] = n
    BY <2>1 DEF Numbered
  <2> QED
    BY <2>2 DEF InstallmentsOf
<1>2. ASSUME NEW k \in Installment PROVE Numbered(LoanOf[k], NumberOf[k]) = k
  <2>1. LoanOf[k] \in Loan /\ NumberOf[k] \in 1 .. InstallmentCount(LoanOf[k])
    BY NumbersFit
  <2> QED
    BY <1>1, <2>1, DbAssumption
<1> QED
  BY <1>1, <1>2

\* The rows of the numbers of a loan are those of its installments.
LEMMA RowsAre ==
  ASSUME NEW k \in Installment
  PROVE  /\ LoanOf[k] \in Loan /\ NumberOf[k] \in Flow!Numbers(LoanOf[k])
         /\ RowsSeen[LoanOf[k]][NumberOf[k]] = RowSeen(k)
         /\ RowsSeen'[LoanOf[k]][NumberOf[k]] = RowSeen(k)'
<1>1. LoanOf[k] \in Loan /\ NumberOf[k] \in 1 .. InstallmentCount(LoanOf[k])
      /\ Numbered(LoanOf[k], NumberOf[k]) = k
  BY NumbersFit, NumberedIs
<1>2. CountOf[LoanOf[k]] = InstallmentCount(LoanOf[k])
  BY <1>1 DEF CountOf, InstallmentCount
<1>3. RowsSeen[LoanOf[k]] = [n \in 1 .. CountOf[LoanOf[k]] |-> RowSeen(Numbered(LoanOf[k], n))]
  BY <1>1 DEF RowsSeen
<1>4. RowsSeen'[LoanOf[k]] = [n \in 1 .. CountOf[LoanOf[k]] |-> RowSeen(Numbered(LoanOf[k], n))']
  BY <1>1 DEF RowsSeen, Numbered, CountOf, InstallmentsOf
<1>5. RowSeen(Numbered(LoanOf[k], NumberOf[k]))' = RowSeen(k)'
  BY <1>1 DEF RowSeen, Numbered, InstallmentsOf
<1> QED
  BY <1>1, <1>2, <1>3, <1>4, <1>5 DEF Flow!Numbers

\* What one changed installment changes.
LEMMA RowsUpdate ==
  ASSUME NEW k \in Installment, NEW s, RowSeen(k)' = s,
         \A j \in Installment \ {k} : inst'[j] = inst[j]
  PROVE  RowsSeen' = [RowsSeen EXCEPT ![LoanOf[k]][NumberOf[k]] = s]
<1> DEFINE L == LoanOf[k]
           N == NumberOf[k]
<1>1. L \in Loan /\ N \in 1 .. CountOf[L] /\ CountOf[L] = InstallmentCount(L)
  BY NumbersFit DEF CountOf, InstallmentCount
<1>2. RowsSeen' = [l \in Loan |-> [n \in 1 .. CountOf[l] |-> RowSeen(Numbered(l, n))']]
  BY DEF RowsSeen, Numbered, CountOf, InstallmentsOf
<1>3. ASSUME NEW l \in Loan, NEW n \in 1 .. CountOf[l]
      PROVE  RowSeen(Numbered(l, n))' = IF l = L /\ n = N THEN s ELSE RowSeen(Numbered(l, n))
  <2>1. PICK j \in Installment : j = Numbered(l, n) /\ LoanOf[j] = l /\ NumberOf[j] = n
    BY NumberedIs DEF CountOf, InstallmentCount
  <2>2. l = L /\ n = N <=> j = k
    BY <2>1, DbAssumption
  <2>3. j # k => RowSeen(j)' = RowSeen(j)
    BY DEF RowSeen
  <2>4. RowSeen(Numbered(l, n))' = RowSeen(j)'
    BY <2>1 DEF RowSeen, Numbered, InstallmentsOf
  <2> QED
    BY <2>1, <2>2, <2>3, <2>4
<1>4. ASSUME NEW l \in Loan
      PROVE  [n \in 1 .. CountOf[l] |-> RowSeen(Numbered(l, n))'] =
                IF l = L THEN [RowsSeen[l] EXCEPT ![N] = s] ELSE RowsSeen[l]
  <2>1. RowsSeen[l] = [n \in 1 .. CountOf[l] |-> RowSeen(Numbered(l, n))]
    BY DEF RowsSeen
  <2> QED
    BY <1>1, <1>3, <2>1
<1>5. PICK rows : rows = RowsSeen /\ rows = [l \in Loan |-> rows[l]]
  BY DEF RowsSeen
<1>6. RowsSeen' = [l \in Loan |-> IF l = L THEN [rows[l] EXCEPT ![N] = s] ELSE rows[l]]
  BY <1>2, <1>4, <1>5
<1> HIDE DEF L, N
<1>7. RowsSeen' = [rows EXCEPT ![L] = [rows[L] EXCEPT ![N] = s]]
  BY <1>1, <1>5, <1>6
<1> QED
  BY <1>5, <1>7 DEF L, N

LEMMA RowsSame ==
  ASSUME \A k \in Installment : RowSeen(k)' = RowSeen(k)
  PROVE  RowsSeen' = RowsSeen
<1>1. RowsSeen' = [l \in Loan |-> [n \in 1 .. CountOf[l] |-> RowSeen(Numbered(l, n))']]
  BY DEF RowsSeen, Numbered, CountOf, InstallmentsOf
<1>2. ASSUME NEW l \in Loan, NEW n \in 1 .. CountOf[l]
      PROVE  RowSeen(Numbered(l, n))' = RowSeen(Numbered(l, n))
  <2>1. PICK j \in Installment : j = Numbered(l, n)
    BY NumberedIs DEF CountOf, InstallmentCount
  <2>2. RowSeen(Numbered(l, n))' = RowSeen(j)'
    BY <2>1 DEF RowSeen, Numbered, InstallmentsOf
  <2> QED
    BY <2>1, <2>2
<1> QED
  BY <1>1, <1>2 DEF RowsSeen

\* Proofs are seen in their order.
LEMMA ProofsAre ==
  ASSUME ContractInv, NEW l \in Loan
  PROVE  /\ Flow!NextNumber(l) = Len(hskProofs[l]) + 1
         /\ \A j \in 1 .. Len(hskProofs[l]) :
               ProofsSeen[l][j] = [receipt |-> hskProofs[l][j].data.receipt,
                                   digital |-> hskProofs[l][j].data.isDigital]
<1>1. hskProofs[l] \in Seq(Chain!PaymentProof)
  BY DEF ContractInv
<1>2. PICK m \in Nat : m = Len(hskProofs[l]) /\ DOMAIN hskProofs[l] = 1 .. m
  BY <1>1
<1>3. ProofsSeen[l] = [j \in 1 .. m |->
        [receipt |-> hskProofs[l][j].data.receipt, digital |-> hskProofs[l][j].data.isDigital]]
  BY <1>2 DEF ProofsSeen
<1>4. Len(ProofsSeen[l]) = m
  BY <1>3
<1> QED
  BY <1>2, <1>3, <1>4 DEF Flow!NextNumber

LEMMA ProofsSame ==
  ASSUME hskProofs' = hskProofs PROVE ProofsSeen' = ProofsSeen
  BY DEF ProofsSeen

\* Whether it is paid is what a reader sees of it.
LEMMA RowSeenPaid ==
  ASSUME NEW k \in Installment, NEW s
  PROVE  /\ s = RowSeen(k) => (s.paid <=> inst[k].status = "PAID")
         /\ s = RowSeen(k)' => (s.paid <=> inst'[k].status = "PAID")
<1>1. RowSeen(k).paid = (inst[k].status = "PAID")
  BY DEF RowSeen
<1>2. (RowSeen(k).paid)' = (inst'[k].status = "PAID")
  BY DEF RowSeen
<1> QED
  BY <1>1, <1>2, Zenon

\* A loan all of whose installments are paid is seen as such.
LEMMA PaidIsSeen ==
  ASSUME NEW l \in Loan
  PROVE  /\ (\A k \in InstallmentsOf(l) : inst[k].status = "PAID")
               => Flow!AllRowsPaid(RowsSeen[l])
         /\ (\A k \in InstallmentsOf(l) : inst'[k].status = "PAID")
               => Flow!AllRowsPaid(RowsSeen'[l])
<1>1. ASSUME NEW rows, DOMAIN rows = 1 .. CountOf[l],
             \A k \in InstallmentsOf(l) : rows[NumberOf[k]].paid
      PROVE  Flow!AllRowsPaid(rows)
  <2>1. ASSUME NEW n \in DOMAIN rows PROVE rows[n].paid
    <3>1. n \in 1 .. InstallmentCount(l)
      BY <1>1, <2>1 DEF CountOf, InstallmentCount
    <3>2. PICK k \in Installment : LoanOf[k] = l /\ NumberOf[k] = n
      BY <3>1, NumbersAreInstallments
    <3> QED
      BY <1>1, <3>2 DEF InstallmentsOf
  <2> QED
    BY <2>1 DEF Flow!AllRowsPaid
<1>2. DOMAIN RowsSeen[l] = 1 .. CountOf[l] /\ DOMAIN RowsSeen'[l] = 1 .. CountOf[l]
  BY DEF RowsSeen, CountOf, InstallmentsOf
<1>3. ASSUME NEW k \in InstallmentsOf(l), inst[k].status = "PAID"
      PROVE  RowsSeen[l][NumberOf[k]].paid
  <2>1. RowsSeen[l][NumberOf[k]] = RowSeen(k)
    BY RowsAre DEF InstallmentsOf
  <2> QED
    BY <1>3, <2>1, RowSeenPaid DEF InstallmentsOf
<1>4. ASSUME NEW k \in InstallmentsOf(l), inst'[k].status = "PAID"
      PROVE  RowsSeen'[l][NumberOf[k]].paid
  <2>1. RowsSeen'[l][NumberOf[k]] = RowSeen(k)'
    BY RowsAre DEF InstallmentsOf
  <2> QED
    BY <1>4, <2>1, RowSeenPaid DEF InstallmentsOf
<1> QED
  BY <1>1, <1>2, <1>3, <1>4

-----------------------------------------------------------------------------

\* The installment of an intent that is not settled yet is the next one of
\* the contract: the earlier ones are attested, and nothing proves it.
LEMMA TurnOfReserved ==
  ASSUME PaymentsInv, NEW k \in Installment, intent[k].status = "CREATED"
  PROVE  NumberOf[k] = ProofCount(k) + 1
<1>1. TablesInv /\ ContractInv /\ ProofsTell /\ SyncInv
  BY DEF PaymentsInv
<1>2. RowInv(k, inst[k], intent[k], candidate[k])
  BY <1>1 DEF TablesInv, RowsAgree
<1>3. ~ IsProved(k)
  BY <1>1, <1>2 DEF ProofsTell, Tells, Settled, RowInv
<1> QED
  BY <1>1, <1>3, TurnIsNext

\* An installment that is settled takes its turn on the chain.
LEMMA SettleFlow ==
  ASSUME PaymentsInv, NEW k \in Installment, NEW tx \in Tx, NEW r, r = PollarReceipt(k, tx),
         Settle(k, tx, r), UNCHANGED <<hskProofs, buried>>
  PROVE  Flow!Settle(LoanOf[k], r)
<1>0. intent[k].status = "CREATED" /\ inst[k].status # "PAID" /\ inst[k].rail = "POLLAR"
  <2>1. settling[k] # Null /\ TablesInv
    BY NullAssumption DEF Settle, PaymentsInv
  <2> QED
    BY <2>1, LockedRow
<1> DEFINE l == LoanOf[k]
           new == [paid |-> TRUE, receipt |-> r, digital |-> TRUE, synced |-> FALSE]
<1>1. /\ TablesInv /\ ContractInv /\ ProofsTell /\ SyncInv
      /\ inst \in [Installment -> InstallmentRow] /\ inst[k] \in InstallmentRow
      /\ l \in Loan /\ loanStatus \in [Loan -> {"ACTIVE", "COMPLETED"}]
  BY NumbersFit DEF PaymentsInv, TablesInv, DbTypeOK
<1>2. /\ intent[k].status = "CREATED" /\ inst[k].status # "PAID" /\ inst[k].rail = "POLLAR"
      /\ inst' = [inst EXCEPT ![k] = [inst[k] EXCEPT !.status = "PAID", !.method = "POLLAR_USDC",
                      !.tx = tx, !.receipt = r, !.sync = "PENDING"]]
      /\ loanStatus' = IF LastOfLoan(k) THEN [loanStatus EXCEPT ![l] = "COMPLETED"]
                       ELSE loanStatus
  BY <1>0, <1>1 DEF Settle
<1>3. /\ inst'[k] = [inst[k] EXCEPT !.status = "PAID", !.method = "POLLAR_USDC",
                        !.tx = tx, !.receipt = r, !.sync = "PENDING"]
      /\ \A j \in Installment \ {k} : inst'[j] = inst[j]
  BY <1>1, <1>2
<1>4. /\ inst'[k].status = "PAID" /\ inst'[k].rail = "POLLAR" /\ inst'[k].receipt = r
      /\ inst'[k].sync = "PENDING"
  BY <1>1, <1>2, <1>3 DEF InstallmentRow
<1>5. RowSeen(k)' = new
  BY <1>4 DEF RowSeen
<1>6. RowsSeen' = [RowsSeen EXCEPT ![l][NumberOf[k]] = new]
  BY <1>3, <1>5, RowsUpdate
<1>7. NumberOf[k] = ProofCount(k) + 1
  BY <1>1, <1>2, TurnOfReserved
<1>8. Flow!NextNumber(l) = NumberOf[k] /\ NumberOf[k] \in Flow!Numbers(l)
  BY <1>1, <1>7, ProofsAre, RowsAre DEF ProofCount
<1>9. ~ RowsSeen[l][NumberOf[k]].paid
  BY <1>2, RowsAre, RowSeenPaid
<1>10. \/ ClosedSeen' = ClosedSeen
       \/ Flow!AllRowsPaid(RowsSeen'[l]) /\ ClosedSeen' = ClosedSeen \cup {l}
  <2>1. CASE ~ LastOfLoan(k)
    BY <1>2, <2>1 DEF ClosedSeen
  <2>2. CASE LastOfLoan(k)
    <3>1. ClosedSeen' = ClosedSeen \cup {l}
      BY <1>1, <1>2, <2>2 DEF ClosedSeen
    <3>2. \A j \in InstallmentsOf(l) : inst'[j].status = "PAID"
      <4>1. \A j \in InstallmentsOf(l) \ {k} : inst[j].status = "PAID"
        BY <2>2 DEF LastOfLoan
      <4>2. \A j \in Installment \ {k} : inst'[j] = inst[j]
        BY <1>3
      <4> QED
        BY <1>4, <4>1, <4>2 DEF InstallmentsOf
    <3> QED
      BY <1>1, <3>1, <3>2, PaidIsSeen
  <2> QED
    BY <2>1, <2>2
<1>11. ProofsSeen' = ProofsSeen /\ buried' = buried
  BY ProofsSame
<1>12. ASSUME NEW n, n = NumberOf[k], NEW L, L = l PROVE Flow!Settle(L, r)
  <2> HIDE DEF l
  <2> QED
    BY <1>6, <1>8, <1>9, <1>10, <1>11, <1>12 DEF Flow!Settle
<1> QED
  BY <1>12

\* An attestation is seen when the proof is buried.
LEMMA MarkFlow ==
  ASSUME PaymentsInv, NEW k \in Installment, NEW known, BuriedProof(k),
         MarkAnchored(k, known), UNCHANGED <<hskProofs, buried>>
  PROVE  Flow!Sync(LoanOf[k], NumberOf[k])
<1> DEFINE l == LoanOf[k]
<1>1. /\ TablesInv /\ ContractInv /\ Settled(k)
      /\ inst \in [Installment -> InstallmentRow] /\ inst[k] \in InstallmentRow
  BY DEF PaymentsInv, TablesInv, DbTypeOK, MarkAnchored, Anchorable, Settled
<1>2. RowInv(k, inst[k], intent[k], candidate[k])
  BY <1>1 DEF TablesInv, RowsAgree
<1>3. inst[k].status = "PAID" /\ inst[k].receipt = intent[k].receipt
  BY <1>1, <1>2 DEF RowInv, Settled
<1>4. inst' = [inst EXCEPT ![k].sync = "SYNCED"] /\ loanStatus' = loanStatus
  BY <1>3 DEF MarkAnchored
<1>5. \A j \in Installment \ {k} : inst'[j] = inst[j]
  BY <1>1, <1>4
<1>6. inst'[k].sync = "SYNCED" /\ inst'[k].status = inst[k].status
      /\ inst'[k].rail = inst[k].rail /\ inst'[k].receipt = inst[k].receipt
  BY <1>1, <1>4 DEF InstallmentRow
<1>7. RowSeen(k)' = [RowSeen(k) EXCEPT !.synced = TRUE]
  <2>1. inst[k].rail = "POLLAR"
    BY <1>1, <1>2 DEF RowInv, Settled
  <2>2. PICK yes, no : yes = TRUE /\ no = FALSE
    OBVIOUS
  <2> DEFINE row(s) == [paid |-> yes, receipt |-> inst[k].receipt, digital |-> yes, synced |-> s]
  <2>3. RowSeen(k)' = row(yes)
    BY <1>3, <1>6, <2>1, <2>2 DEF RowSeen
  <2>4. RowSeen(k) = row(yes) \/ RowSeen(k) = row(no)
    BY <1>3, <2>1, <2>2 DEF RowSeen
  <2>5. \A s : [row(s) EXCEPT !.synced = yes] = row(yes)
    OBVIOUS
  <2> HIDE DEF row
  <2>6. RowSeen(k)' = [RowSeen(k) EXCEPT !.synced = yes]
    BY <2>3, <2>4, <2>5
  <2> QED
    BY <2>2, <2>6
<1>8. RowsSeen' = [RowsSeen EXCEPT ![l][NumberOf[k]] = [RowSeen(k) EXCEPT !.synced = TRUE]]
  BY <1>5, <1>7, RowsUpdate
<1>9. RowsSeen[l][NumberOf[k]] = RowSeen(k)
  BY RowsAre
<1>10. RowsSeen' = [RowsSeen EXCEPT ![l][NumberOf[k]].synced = TRUE]
  BY <1>8, <1>9
<1>11. RowsSeen[l][NumberOf[k]].paid
  BY <1>3, <1>9, RowSeenPaid
<1>12. ProofsSeen' = ProofsSeen /\ buried' = buried /\ ClosedSeen' = ClosedSeen
  BY <1>4, ProofsSame DEF ClosedSeen
<1>13. NumberOf[k] <= buried[l]
  BY DEF BuriedProof
<1> QED
  BY <1>10, <1>11, <1>12, <1>13 DEF Flow!Sync

\* A reservation of a rail is not seen: the installment is not paid.
LEMMA ReservationUnseen ==
  ASSUME PaymentsInv, NEW k \in Installment, inst[k].status # "PAID", NEW rail,
         inst' = [inst EXCEPT ![k].rail = rail], loanStatus' = loanStatus,
         UNCHANGED <<hskProofs, buried>>
  PROVE  UNCHANGED Flow!flowVars
<1>1. inst \in [Installment -> InstallmentRow] /\ inst[k] \in InstallmentRow
  BY DEF PaymentsInv, TablesInv, DbTypeOK
<1>2. /\ \A j \in Installment \ {k} : inst'[j] = inst[j]
      /\ inst'[k].status = inst[k].status /\ inst'[k].receipt = inst[k].receipt
      /\ inst'[k].sync = inst[k].sync
  BY <1>1 DEF InstallmentRow
<1>3. \A j \in Installment : RowSeen(j)' = RowSeen(j)
  BY <1>2, Zenon DEF RowSeen
<1> QED
  BY <1>3, RowsSame, ProofsSame DEF Flow!flowVars, ClosedSeen

\* A payment in cash is booked with the receipt that is proved, once.
LEMMA BookFlow ==
  ASSUME PaymentsInv, NEW r \in CashRequest, NEW k \in Installment, CashProved(r, k),
         inst[k].rail = "CASH", PayCash(k, r), UNCHANGED <<hskProofs, buried>>
  PROVE  Flow!BookCash(LoanOf[k], NumberOf[k]) \/ UNCHANGED Flow!flowVars
<1> DEFINE l == LoanOf[k]
           new == [paid |-> TRUE, receipt |-> r, digital |-> FALSE, synced |-> TRUE]
<1>1. /\ TablesInv /\ ContractInv /\ l \in Loan /\ NumberOf[k] \in Nat \ {0}
      /\ inst \in [Installment -> InstallmentRow] /\ inst[k] \in InstallmentRow
  BY NumbersFit DEF PaymentsInv, TablesInv, DbTypeOK
<1>2. RowInv(k, inst[k], intent[k], candidate[k])
  BY <1>1 DEF TablesInv, RowsAgree
<1>3. /\ inst' = [inst EXCEPT ![k] = [inst[k] EXCEPT !.status = "PAID", !.method = "CASH",
                      !.receipt = r, !.sync = "SYNCED"]]
      /\ loanStatus' = loanStatus
      /\ inst[k].status = "PAID" => inst[k].receipt = r
  BY <1>1 DEF PayCash, CashPayable
<1>4. \A j \in Installment \ {k} : inst'[j] = inst[j]
  BY <1>1, <1>3
<1>5. /\ inst'[k].status = "PAID" /\ inst'[k].rail = "CASH" /\ inst'[k].receipt = r
      /\ inst'[k].sync = "SYNCED"
  BY <1>1, <1>3 DEF InstallmentRow
<1>6. RowSeen(k)' = new
  BY <1>5 DEF RowSeen
<1>7. ProofsSeen' = ProofsSeen /\ buried' = buried /\ ClosedSeen' = ClosedSeen
  BY <1>3, ProofsSame DEF ClosedSeen
<1>8. CASE inst[k].status = "PAID"
  <2>1. RowSeen(k) = new
    BY <1>2, <1>3, <1>8 DEF RowInv, RowSeen
  <2>2. \A j \in Installment : RowSeen(j)' = RowSeen(j)
    BY <1>4, <1>6, <2>1 DEF RowSeen
  <2> QED
    BY <1>7, <2>2, RowsSame DEF Flow!flowVars
<1>9. CASE inst[k].status # "PAID"
  <2>1. RowsSeen' = [RowsSeen EXCEPT ![l][NumberOf[k]] = new]
    BY <1>4, <1>6, RowsUpdate
  <2>2. ~ RowsSeen[l][NumberOf[k]].paid
    BY <1>9, RowsAre, RowSeenPaid
  <2>3. NumberOf[k] \in 1 .. Len(hskProofs[l]) /\ hskProofs[l][NumberOf[k]].data.receipt = r
    <3>1. ProofAt(k) = CashProof(r) /\ NumberOf[k] <= Len(hskProofs[l])
      BY DEF CashProved, IsProved, ProofCount
    <3>2. CashProof(r).receipt = r
      BY DEF CashProof
    <3>3. Len(hskProofs[l]) \in Nat
      BY <1>1 DEF ContractInv
    <3> QED
      BY <1>1, <3>1, <3>2, <3>3 DEF ProofAt
  <2>4. Len(hskProofs[l]) \in Nat
    BY <1>1 DEF ContractInv
  <2>5. NumberOf[k] < Flow!NextNumber(l) /\ ProofsSeen[l][NumberOf[k]].receipt = r
    <3>1. /\ Flow!NextNumber(l) = Len(hskProofs[l]) + 1
          /\ ProofsSeen[l][NumberOf[k]] =
                [receipt |-> hskProofs[l][NumberOf[k]].data.receipt,
                 digital |-> hskProofs[l][NumberOf[k]].data.isDigital]
      BY <1>1, <2>3, ProofsAre
    <3>2. ASSUME NEW s, NEW x, NEW d, s = [receipt |-> x, digital |-> d]
          PROVE  s.receipt = x
      BY <3>2
    <3>3. ProofsSeen[l][NumberOf[k]].receipt = hskProofs[l][NumberOf[k]].data.receipt
      BY <3>1, <3>2, Zenon
    <3> QED
      BY <1>1, <2>3, <2>4, <3>1, <3>3
  <2> QED
    BY <1>7, <2>1, <2>2, <2>5 DEF Flow!BookCash
<1> QED
  BY <1>8, <1>9

\* A loan completed after reading its installments is closed when it is paid.
LEMMA CloseFlow ==
  ASSUME PaymentsInv, NEW l \in Loan, AllPaid(l), CompleteLoan(l),
         UNCHANGED <<hskProofs, buried>>
  PROVE  Flow!Close(l)
<1>1. inst' = inst /\ loanStatus' = [loanStatus EXCEPT ![l] = "COMPLETED"]
      /\ loanStatus \in [Loan -> {"ACTIVE", "COMPLETED"}]
  BY DEF CompleteLoan, PaymentsInv, TablesInv, DbTypeOK
<1>2. ClosedSeen' = ClosedSeen \cup {l}
  BY <1>1 DEF ClosedSeen
<1>3. \A j \in Installment : RowSeen(j)' = RowSeen(j)
  BY <1>1 DEF RowSeen
<1>4. Flow!AllRowsPaid(RowsSeen[l])
  BY PaidIsSeen DEF AllPaid
<1> QED
  BY <1>2, <1>3, <1>4, RowsSame, ProofsSame DEF Flow!Close

-----------------------------------------------------------------------------

\* A new proof is seen at the end.
LEMMA ProofsAppend ==
  ASSUME ContractInv, NEW l \in Loan, NEW data, NEW n,
         hskProofs' = [hskProofs EXCEPT ![l] =
            Append(@, [data |-> data, installmentNumber |-> n])]
  PROVE  ProofsSeen' = [ProofsSeen EXCEPT ![l] =
            Append(@, [receipt |-> data.receipt, digital |-> data.isDigital])]
<1> DEFINE seen(s) == [j \in DOMAIN s |-> [receipt |-> s[j].data.receipt,
                                           digital |-> s[j].data.isDigital]]
           new == [data |-> data, installmentNumber |-> n]
           newSeen == [receipt |-> data.receipt, digital |-> data.isDigital]
<1>1. hskProofs \in [Loan -> Seq(Chain!PaymentProof)]
  BY DEF ContractInv
<1>2. /\ hskProofs'[l] = Append(hskProofs[l], new)
      /\ \A m \in Loan \ {l} : hskProofs'[m] = hskProofs[m]
  BY <1>1
<1>3. ProofsSeen = [m \in Loan |-> seen(hskProofs[m])]
      /\ ProofsSeen' = [m \in Loan |-> seen(hskProofs'[m])]
  BY DEF ProofsSeen
<1>4. PICK s : s = hskProofs[l] /\ s \in Seq(Chain!PaymentProof)
  BY <1>1
<1>5. seen(Append(s, new)) = Append(seen(s), newSeen)
  <2>1. PICK m \in Nat : m = Len(s) /\ DOMAIN s = 1 .. m
    BY <1>4
  <2>2. PICK e : e = Append(s, new)
    OBVIOUS
  <2>3. DOMAIN e = 1 .. m + 1 /\ e[m + 1] = new /\ \A j \in 1 .. m : e[j] = s[j]
    BY <1>4, <2>1, <2>2
  <2>4. PICK q : q = seen(s)
    OBVIOUS
  <2>5. q \in Seq({q[j] : j \in 1 .. m}) /\ Len(q) = m
    BY <2>1, <2>4
  <2>6. PICK f : f = Append(q, newSeen)
    OBVIOUS
  <2>7. /\ f = [j \in 1 .. m + 1 |-> IF j = m + 1 THEN newSeen ELSE q[j]]
    BY <2>5, <2>6
  <2>8. PICK d : d = new /\ d.data = data
    OBVIOUS
  <2>9. \A j \in 1 .. m + 1 :
           [receipt |-> e[j].data.receipt, digital |-> e[j].data.isDigital] =
              IF j = m + 1 THEN newSeen ELSE q[j]
    <3> HIDE DEF new
    <3>1. \A j \in 1 .. m : q[j] = [receipt |-> s[j].data.receipt,
                                    digital |-> s[j].data.isDigital]
      BY <2>1, <2>4
    <3> QED
      BY <2>3, <2>8, <3>1
  <2>10. seen(e) = f
    BY <2>3, <2>7, <2>9
  <2> QED
    BY <2>2, <2>4, <2>6, <2>10
<1> HIDE DEF seen, new, newSeen
<1>6. \A m \in Loan : seen(hskProofs'[m]) =
         IF m = l THEN Append(seen(hskProofs[m]), newSeen) ELSE seen(hskProofs[m])
  <2>1. seen(hskProofs'[l]) = Append(seen(hskProofs[l]), newSeen)
    BY <1>2, <1>4, <1>5, Zenon
  <2>2. ASSUME NEW m \in Loan, m # l PROVE seen(hskProofs'[m]) = seen(hskProofs[m])
    <3>1. hskProofs'[m] = hskProofs[m]
      BY <1>2, <2>2
    <3> QED
      BY <3>1, Zenon
  <2> QED
    BY <2>1, <2>2, Zenon
<1>7. ProofsSeen' = [ProofsSeen EXCEPT ![l] = Append(@, newSeen)]
  BY <1>3, <1>6
<1> QED
  BY <1>7 DEF newSeen

\* A mined transaction proves a payment in cash that is not booked yet, or
\* anchors one that is settled.
LEMMA MineFlow ==
  ASSUME PaymentsInv, Mine, UNCHANGED dbVars
  PROVE  UNCHANGED Flow!flowVars \/ Flow!FlowNext
<1>1. PICK t \in Transaction : t = Head(pool) /\ TransactionOK(t)
  BY HeadOfPool DEF PaymentsInv, Mine
<1>2. PICK k \in Installment :
        LoanOf[k] = t.loan /\ NumberOf[k] = t.number /\ Tells(k, t.data)
  BY <1>1 DEF TransactionOK
<1>3. PoolInv /\ ContractInv /\ TablesInv /\ SyncInv /\ t.loan \in Loan
  BY DEF PaymentsInv, Transaction
<1>4. UNCHANGED <<inst, loanStatus, buried>>
  BY DEF dbVars, Mine
<1>5. RowsSeen' = RowsSeen /\ ClosedSeen' = ClosedSeen
  <2>1. \A j \in Installment : RowSeen(j)' = RowSeen(j)
    BY <1>4 DEF RowSeen
  <2> QED
    BY <1>4, <2>1, RowsSame DEF ClosedSeen
<1>6. CASE ~ Chain!CanConfirm(Operator, t.loan, t.number)
  <2>1. hskProofs' = hskProofs
    BY <1>1, <1>6 DEF Mine, Chain!ConfirmPayment
  <2> QED
    BY <1>4, <1>5, <2>1, ProofsSame DEF Flow!flowVars
<1>7. CASE Chain!CanConfirm(Operator, t.loan, t.number)
  <2> DEFINE l == LoanOf[k]
             n == NumberOf[k]
  <2>1. Chain!ConfirmPayment(Operator, t.loan, t.number, t.data)
    BY <1>1, <1>7 DEF Mine
  <2>2. /\ hskProofs' = [hskProofs EXCEPT ![l] =
              Append(@, [data |-> t.data, installmentNumber |-> t.number])]
        /\ n = Len(hskProofs[l]) + 1 /\ Len(hskProofs[l]) \in Nat
    <3>1. /\ hskProofs' = [hskProofs EXCEPT ![t.loan] =
                Append(@, [data |-> t.data, installmentNumber |-> t.number])]
          /\ t.number = Len(hskProofs[t.loan]) + 1
      BY <1>1, <1>3, <2>1, MineProves
    <3>2. Len(hskProofs[t.loan]) \in Nat
      BY <1>3 DEF ContractInv
    <3>3. t.loan = l /\ t.number = n
      BY <1>2
    <3> QED
      BY <3>1, <3>2, <3>3
  <2>3. l \in Loan /\ n \in Flow!Numbers(l) /\ n = Flow!NextNumber(l) /\ ~ IsProved(k)
    BY <1>2, <1>3, <2>2, RowsAre, ProofsAre DEF IsProved, ProofCount
  <2>4. PICK data : data = t.data
    OBVIOUS
  <2>5. ProofsSeen' = [ProofsSeen EXCEPT ![l] =
           Append(@, [receipt |-> data.receipt, digital |-> data.isDigital])]
    BY <1>2, <1>3, <2>2, <2>4, ProofsAppend
  <2>6. RowInv(k, inst[k], intent[k], candidate[k]) /\ inst[k] \in InstallmentRow
    BY <1>3 DEF TablesInv, RowsAgree, DbTypeOK
  <2>7. RowsSeen[l][n] = RowSeen(k)
    BY RowsAre
  <2>8. CASE Settled(k) /\ data = IntentProof(k)
    <3>1. inst[k].status = "PAID" /\ inst[k].receipt = intent[k].receipt
      BY <2>6, <2>8 DEF RowInv, Settled
    <3>2. data.receipt = intent[k].receipt /\ data.isDigital = TRUE
      BY <2>8 DEF IntentProof, PollarProof
    <3>3. RowSeen(k).receipt = inst[k].receipt
      BY DEF RowSeen
    <3>4. RowsSeen[l][n].paid /\ RowsSeen[l][n].receipt = data.receipt
      BY <2>7, <3>1, <3>2, <3>3, RowSeenPaid
    <3>5. ProofsSeen' = [ProofsSeen EXCEPT ![l] =
             Append(@, [receipt |-> RowsSeen[l][n].receipt, digital |-> TRUE])]
      BY <2>5, <3>2, <3>4
    <3>6. \E m \in Loan : Flow!Anchor(m)
      <4> HIDE DEF l, n
      <4> QED
        BY <1>4, <1>5, <2>3, <3>4, <3>5 DEF Flow!Anchor
    <3> QED
      BY <3>6 DEF Flow!FlowNext, Flow!FlowStep
  <2>9. ASSUME inst[k].rail = "CASH", NEW r \in CashRequest, data = CashProof(r)
        PROVE  Flow!FlowNext
    <3>1. inst[k].status # "PAID"
      BY <1>3, <2>3, <2>6, <2>9 DEF RowInv, SyncInv
    <3>2. ~ RowsSeen[l][n].paid
      BY <2>7, <3>1, RowSeenPaid
    <3>3. data.receipt = r /\ data.isDigital = FALSE /\ r \in Receipt
      BY <2>9, CashAssumption DEF CashProof, Receipt
    <3>4. ProofsSeen' = [ProofsSeen EXCEPT ![l] =
             Append(@, [receipt |-> r, digital |-> FALSE])]
      BY <2>5, <3>3
    <3>5. \E m \in Loan : Flow!ProveCash(m, r)
      <4> HIDE DEF l, n
      <4> QED
        BY <1>4, <1>5, <2>3, <3>2, <3>4 DEF Flow!ProveCash
    <3> QED
      BY <3>3, <3>5 DEF Flow!FlowNext, Flow!FlowStep
  <2> QED
    BY <1>2, <2>4, <2>8, <2>9 DEF Tells
<1> QED
  BY <1>6, <1>7

\* One more block.
LEMMA BuryFlow ==
  ASSUME PaymentsInv, Bury, UNCHANGED dbVars
  PROVE  Flow!FlowNext
<1>1. PICK l \in Loan : Buriable(l) /\ buried' = [buried EXCEPT ![l] = @ + 1]
  BY DEF Bury
<1>2. UNCHANGED <<inst, loanStatus, hskProofs>> /\ ContractInv
  BY DEF Bury, dbVars, PaymentsInv
<1>3. \A j \in Installment : RowSeen(j)' = RowSeen(j)
  BY <1>2 DEF RowSeen
<1>4. Len(ProofsSeen[l]) = Len(hskProofs[l])
  <2>1. hskProofs[l] \in Seq(Chain!PaymentProof)
    BY <1>2 DEF ContractInv
  <2>2. PICK m \in Nat : m = Len(hskProofs[l]) /\ DOMAIN hskProofs[l] = 1 .. m
    BY <2>1
  <2> QED
    BY <2>2 DEF ProofsSeen
<1>5. Flow!BuryProof(l)
  BY <1>1, <1>2, <1>3, <1>4, RowsSame, ProofsSame DEF Flow!BuryProof, Buriable, ClosedSeen
<1> QED
  BY <1>5 DEF Flow!FlowNext, Flow!FlowStep

-----------------------------------------------------------------------------
(* Every step. *)

LEMMA NothingSeen ==
  ASSUME UNCHANGED <<loanStatus, inst, hskProofs, buried>>
  PROVE  UNCHANGED Flow!flowVars
<1>1. \A j \in Installment : RowSeen(j)' = RowSeen(j)
  BY DEF RowSeen
<1> QED
  BY <1>1, RowsSame, ProofsSame DEF Flow!flowVars, ClosedSeen

\* What a step of the whole is to a reader.
FlowMove ==
    \/ UNCHANGED Flow!flowVars
    \/ Flow!FlowNext
    \/ \E s \in SyncItem : CompleteUnread(s)

\* A payment in cash.
LEMMA CashFlow ==
  ASSUME PaymentsInv, CashStep PROVE FlowMove
<1>1. UNCHANGED <<hskProofs, buried>>
  BY ActorsOnChain
<1>2. ASSUME UNCHANGED dbVars PROVE FlowMove
  BY <1>1, <1>2, NothingSeen DEF dbVars, FlowMove
<1>3. ASSUME NEW r \in CashRequest, ~ At(r, "NEW")
      PROVE  Target(r) \in Installment /\ RequestOn(r, Target(r))
  BY <1>3 DEF PaymentsInv, CashInv, RequestInv
<1>4. ASSUME NEW r \in CashRequest, Claim(r) PROVE FlowMove
  <2>1. PICK k \in Installment : k = Target(r)
    BY <1>3, <1>4 DEF Claim, At
  <2>2. CASE ClaimCash(Target(r))
    BY <1>1, <2>1, <2>2, ReservationUnseen DEF ClaimCash, Claimable, FlowMove
  <2> QED
    BY <1>2, <1>4, <2>2 DEF Claim
<1>5. ASSUME NEW r \in CashRequest, BookCash(r) PROVE FlowMove
  <2>1. PICK k \in Installment : k = Target(r)
    BY <1>3, <1>5 DEF BookCash, At
  <2>2. CASE PayCash(k, r)
    <3>1. CashProved(r, k) /\ inst[k].rail = "CASH"
      BY <1>3, <1>5, <2>1 DEF BookCash, At, RequestOn
    <3>2. Flow!BookCash(LoanOf[k], NumberOf[k]) \/ UNCHANGED Flow!flowVars
      BY <1>1, <2>2, <3>1, BookFlow
    <3>3. LoanOf[k] \in Loan /\ NumberOf[k] \in Flow!Numbers(LoanOf[k])
      BY RowsAre
    <3> QED
      BY <3>2, <3>3 DEF FlowMove, Flow!FlowNext, Flow!FlowStep
  <2> QED
    BY <1>2, <1>5, <2>1, <2>2 DEF BookCash
<1>6. ASSUME NEW r \in CashRequest, Complete(r) PROVE FlowMove
  <2>1. PICK l \in Loan : l = LoanOf[Target(r)]
    BY <1>3, <1>6, DbAssumption DEF Complete, At
  <2>2. CASE AllPaid(l) /\ CompleteLoan(l)
    BY <1>1, <2>2, CloseFlow DEF FlowMove, Flow!FlowNext, Flow!FlowStep
  <2> QED
    BY <1>2, <1>6, <2>1, <2>2 DEF Complete
<1>7. ASSUME NEW r \in CashRequest, CompleteUnread(r) PROVE FlowMove
  BY <1>2, <1>7 DEF CompleteUnread, FlowMove
<1>8. ASSUME NEW k, GenerateOtp(k) \/ ForgetOtp(k) PROVE FlowMove
  BY <1>2, <1>8 DEF GenerateOtp, ForgetOtp
<1>9. ASSUME NEW r, NEW k, StartCollect(r, k) \/ StartSync(r, k) PROVE FlowMove
  BY <1>2, <1>9 DEF StartCollect, StartSync
<1>10. ASSUME NEW r, Enqueue(r) \/ SendCash(r) \/ WaitCash(r) \/ MarkProcessed(r)
                     \/ RequestFails(r)
       PROVE  FlowMove
  BY <1>2, <1>10 DEF Enqueue, SendCash, WaitCash, MarkProcessed, RequestFails
<1> QED
  BY <1>4, <1>5, <1>6, <1>7, <1>8, <1>9, <1>10 DEF CashStep, Serve

\* A payment in Stellar.
LEMMA PollarFlow ==
  ASSUME PaymentsInv, PollarStep PROVE FlowMove
<1>1. UNCHANGED <<hskProofs, buried>>
  BY ActorsOnChain
<1>2. CASE UNCHANGED <<loanStatus, inst, intent>>
  BY <1>1, <1>2, NothingSeen DEF FlowMove
<1>7. ASSUME NEW k, NEW tx, SettleBegins(k, tx) \/ SettleAborts(k)
      PROVE  UNCHANGED <<loanStatus, inst, intent>>
  BY <1>7 DEF SettleBegins, SettleAborts
<1>3. ASSUME NEW a \in PollarActor
      PROVE  /\ JobInv(a)
             /\ \A k \in Installment, tx \in Tx \cup {Null} : job[a].k = k => JobOn(a, k, tx)
  BY DEF PaymentsInv, PollarInv, JobInv, PollarActor
<1>4. ASSUME NEW a \in PollarActor, job[a].pc = "CREATE", NEW actor, NEW sender, NEW ledger,
             CreateIntent(job[a].k, actor, sender, ledger)
      PROVE  FlowMove
  <2>1. PICK k \in Installment : k = job[a].k
    BY <1>3, <1>4 DEF JobInv
  <2> QED
    BY <1>1, <1>4, <2>1, ReservationUnseen DEF CreateIntent, Available, FlowMove
<1>5. ASSUME NEW k \in Installment, settling[k] # Null,
             Settle(k, settling[k], PollarReceipt(k, settling[k]))
      PROVE  FlowMove
  <2>1. PICK tx \in Tx : tx = settling[k]
    BY <1>5 DEF PaymentsInv, TablesInv, DbTypeOK
  <2>2. PICK r \in Receipt : r = PollarReceipt(k, tx)
    BY DEF Receipt
  <2>3. Flow!Settle(LoanOf[k], r)
    BY <1>1, <1>5, <2>1, <2>2, SettleFlow
  <2>4. LoanOf[k] \in Loan
    BY RowsAre
  <2> QED
    BY <2>3, <2>4 DEF FlowMove, Flow!FlowNext, Flow!FlowStep
<1>6. ASSUME NEW a \in PollarActor, job[a].pc = "MARK", NEW known,
             MarkAnchored(job[a].k, known)
      PROVE  FlowMove
  <2>1. PICK k \in Installment : k = job[a].k
    BY <1>3, <1>6 DEF JobInv
  <2>2. BuriedProof(k)
    BY <1>3, <1>6, <2>1 DEF JobOn
  <2>3. Flow!Sync(LoanOf[k], NumberOf[k])
    BY <1>1, <1>6, <2>1, <2>2, MarkFlow
  <2>4. LoanOf[k] \in Loan /\ NumberOf[k] \in Flow!Numbers(LoanOf[k])
    BY RowsAre
  <2> QED
    BY <2>3, <2>4 DEF FlowMove, Flow!FlowNext, Flow!FlowStep
<1> QED
  BY <1>2, <1>4, <1>5, <1>6, <1>7, PollarOnTables

\* A step of the chain.
LEMMA ChainFlow ==
  ASSUME PaymentsInv, ChainStep PROVE FlowMove
<1>1. CASE Drop
  BY <1>1, NothingSeen DEF ChainStep, Drop, dbVars, FlowMove
<1> QED
  BY <1>1, MineFlow, BuryFlow DEF ChainStep, FlowMove

\* The tables and the contract begin as PaymentFlow does.
LEMMA InitFlow == PaymentsInit => Flow!FlowInit
<1> SUFFICES ASSUME PaymentsInit PROVE Flow!FlowInit
  OBVIOUS
<1>1. /\ inst = [k \in Installment |-> UnpaidRow] /\ loanStatus = [l \in Loan |-> "ACTIVE"]
      /\ hskProofs = [l \in Loan |-> << >>] /\ buried = [l \in Loan |-> 0]
  BY DEF PaymentsInit, DbInit, ChainInit
<1>2. ASSUME NEW k \in Installment PROVE RowSeen(k) = Flow!Unpaid
  BY <1>1 DEF RowSeen, UnpaidRow, Flow!Unpaid
<1>3. RowsSeen = [l \in Loan |-> [n \in Flow!Numbers(l) |-> Flow!Unpaid]]
  <2>1. ASSUME NEW l \in Loan, NEW n \in 1 .. CountOf[l]
        PROVE  RowSeen(Numbered(l, n)) = Flow!Unpaid
    BY <1>2, NumberedIs DEF CountOf, InstallmentCount
  <2> QED
    BY <2>1 DEF RowsSeen, Flow!Numbers
<1>4. ProofsSeen = [l \in Loan |-> << >>]
  <2>1. ASSUME NEW l \in Loan
        PROVE  [j \in DOMAIN hskProofs[l] |->
                 [receipt |-> hskProofs[l][j].data.receipt,
                  digital |-> hskProofs[l][j].data.isDigital]] = << >>
    BY <1>1
  <2> QED
    BY <2>1 DEF ProofsSeen
<1>5. ClosedSeen = {}
  BY <1>1 DEF ClosedSeen
<1> QED
  BY <1>1, <1>3, <1>4, <1>5 DEF Flow!FlowInit

\* ImplementsFlow: to a reader of tables and contract, the requests, workers
\* and miners together do what PaymentFlow does, the unread completion
\* excepted.
THEOREM PaymentsRefineFlow == PaymentsSpec => ImplementsFlow
<1>1. PaymentsInv /\ [PaymentsNext]_paymentVars
        => [ \/ UNCHANGED <<loanStatus, inst, hskProofs, buried>>
             \/ Flow!FlowNext
             \/ \E s \in SyncItem : CompleteUnread(s) ]_<<Flow!flowVars>>
  <2> SUFFICES ASSUME PaymentsInv, [PaymentsNext]_paymentVars PROVE FlowMove
    BY DEF FlowMove
  <2>1. CASE PaymentsNext
    BY <2>1, CashFlow, PollarFlow, ChainFlow DEF PaymentsNext
  <2>2. CASE UNCHANGED paymentVars
    <3>1. UNCHANGED <<loanStatus, inst, hskProofs, buried>>
      BY <2>2 DEF paymentVars, dbVars, chainVars
    <3> QED
      BY <3>1, NothingSeen DEF FlowMove
  <2> QED
    BY <2>1, <2>2
<1> QED
  BY <1>1, InitFlow, PaymentsInvariant, PTL DEF PaymentsSpec, ImplementsFlow
=============================================================================
