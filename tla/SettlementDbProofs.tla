------------------------- MODULE SettlementDbProofs -------------------------
(***************************************************************************)
(* Theorems about the settlement tables, for every set of loans,           *)
(* installments, profiles, wallets and transactions.                       *)
(*                                                                         *)
(* Every statement but two writes the rows of one installment: its row,    *)
(* its intent and its candidates.  RowInv says how those three agree, and  *)
(* LockedIsOpen what pollar_settle may rely on between its two steps;      *)
(* lemma RowUpdate says what a statement has to establish about the new    *)
(* rows for the invariant to survive, and each statement's lemma           *)
(* establishes just that.  The last part shows that the tables implement   *)
(* PaymentBook.                                                            *)
(***************************************************************************)
EXTENDS SettlementDb, FiniteSetTheorems, TLAPS

RowInv(k, row, int, cand) ==
    /\ int.status # "NONE" <=> row.rail = "POLLAR"
    /\ int.status \in {"VERIFIED", "ANCHORED"}
          <=> row.status = "PAID" /\ row.rail = "POLLAR"
    /\ IF int.status \in {"VERIFIED", "ANCHORED"}
       THEN int.tx \in Tx /\ int.receipt = PollarReceipt(k, int.tx)
       ELSE int.tx = Null /\ int.receipt = Null
    /\ row.tx = int.tx
    /\ row.rail = "POLLAR" => row.receipt = int.receipt
    /\ row.status = "PENDING" => row.receipt = Null /\ row.sync = "PENDING"
    /\ row.status = "PAID" =>
          /\ row.receipt # Null
          /\ row.rail \in {"CASH", "POLLAR"}
          /\ row.rail = "CASH" => row.sync = "SYNCED"
          /\ row.method = IF row.rail = "POLLAR" THEN "POLLAR_USDC" ELSE "CASH"
    /\ row.rail = "POLLAR" => (row.sync = "SYNCED" <=> int.status = "ANCHORED")
    /\ \A tx \in Tx : cand[tx] = "VERIFIED" <=> int.tx = tx

RowsAgree == \A k \in Installment : RowInv(k, inst[k], intent[k], candidate[k])

\* The set of unresolved candidates grows from the empty set one at a time,
\* so that it is finite and has a cardinality.
PendingBounded ==
    \A k \in Installment :
        IsFiniteSet(Pending(k)) /\ Cardinality(Pending(k)) <= MaxPending

\* The intent of a pollar_settle in progress is not settled by another one.
LockedIsOpen ==
    \A k \in Installment : settling[k] # Null => intent[k].status = "CREATED"

TablesInv ==
    /\ DbTypeOK
    /\ RowsAgree
    /\ LockedIsOpen
    /\ StellarPaymentUsedOnce
    /\ ReservedInOrder
    /\ PendingBounded

\* What every caller of the statements keeps is TablesInv; that a loan is
\* completed only when it is paid is for those that read its installments.
IInv == TablesInv /\ CompletedOnlyWhenPaid

\* What a statement keeps: TablesInv, and CompletedOnlyWhenPaid if it was so.
Kept == TablesInv' /\ (CompletedOnlyWhenPaid => CompletedOnlyWhenPaid')

\* The invariant contains every property of the tables.
LEMMA TablesInvImplies ==
  TablesInv => /\ PaymentHasOneSource
               /\ OneVerifiedCandidate
               /\ AnchoredIffSynced
<1> SUFFICES ASSUME TablesInv PROVE PaymentHasOneSource /\ OneVerifiedCandidate /\ AnchoredIffSynced
  OBVIOUS
<1>1. \A k \in Installment : RowInv(k, inst[k], intent[k], candidate[k])
  BY DEF TablesInv, RowsAgree
<1>2. \A k \in Installment : inst[k].status \in {"PENDING", "PAID"}
  BY DEF TablesInv, DbTypeOK, InstallmentRow
<1>3. PaymentHasOneSource
  BY <1>1, <1>2 DEF RowInv, PaymentHasOneSource, Settled
<1>4. OneVerifiedCandidate
  BY <1>1 DEF RowInv, OneVerifiedCandidate, TablesInv, PendingBounded
<1>5. AnchoredIffSynced
  BY <1>1, <1>2 DEF RowInv, AnchoredIffSynced
<1> QED
  BY <1>3, <1>4, <1>5

-----------------------------------------------------------------------------

\* The tables as createLoan leaves them satisfy the invariant.
LEMMA InitIInv == DbInit => IInv
<1> SUFFICES ASSUME DbInit PROVE IInv
  OBVIOUS
<1> USE DbAssumption, NullAssumption DEF DbInit, UnpaidRow, NoIntent
<1>1. DbTypeOK
  BY DEF DbTypeOK, InstallmentRow, IntentRow, CandidateStatus
<1>2. RowsAgree
  BY DEF RowsAgree, RowInv
<1>3. StellarPaymentUsedOnce /\ ReservedInOrder /\ LockedIsOpen
  BY DEF StellarPaymentUsedOnce, ReservedInOrder, LockedIsOpen
<1>4. CompletedOnlyWhenPaid
  BY DEF CompletedOnlyWhenPaid, AllPaid, InstallmentsOf
<1>5. \A k \in Installment : Pending(k) = {}
  BY DEF Pending
<1>6. PendingBounded
  <2>1. IsFiniteSet({}) /\ Cardinality({}) = 0 /\ 0 <= MaxPending
    BY FS_EmptySet
  <2> QED
    BY <1>5, <2>1 DEF PendingBounded
<1> QED
  BY <1>1, <1>2, <1>3, <1>4, <1>6 DEF IInv, TablesInv

\* Only the rows of installment k change, and keep their types.
RowsChange(k) ==
    /\ inst' \in [Installment -> InstallmentRow]
    /\ intent' \in [Installment -> IntentRow]
    /\ candidate' \in [Installment -> [Tx -> CandidateStatus]]
    /\ loanStatus' \in [Loan -> {"ACTIVE", "COMPLETED"}]
    /\ route' = route
    /\ settling' \in [Installment -> Tx \cup {Null}]
    /\ \A j \in Installment \ {k} : /\ inst'[j] = inst[j]
                                    /\ intent'[j] = intent[j]
                                    /\ candidate'[j] = candidate[j]
                                    /\ settling'[j] = settling[j]

\* What is new in them is used nowhere else, and reserved in order.
NewIsUnique(k) ==
    /\ intent'[k].tx # Null =>
          \A j \in Installment \ {k} : intent[j].tx # intent'[k].tx
    /\ inst'[k].receipt # Null =>
          \A j \in Installment \ {k} : inst[j].receipt # inst'[k].receipt
NewInOrder(k) ==
    /\ inst[k].status = "PAID" => inst'[k].status = "PAID"
    /\ inst[k].sync = "SYNCED" => inst'[k].sync = "SYNCED"
    /\ intent'[k].status # "NONE" =>
          \/ intent[k].status # "NONE"
          \/ \A j \in Earlier(k) : inst[j].status = "PAID" /\ inst[j].sync = "SYNCED"

\* A pollar_settle that is still in progress finds its intent as it was.
StillOpen(k) == settling'[k] # Null => intent'[k].status = "CREATED"

\* What the new rows of an installment must satisfy.
LEMMA RowUpdate ==
  ASSUME TablesInv, NEW k \in Installment,
         RowsChange(k), NewIsUnique(k), NewInOrder(k), StillOpen(k),
         RowInv(k, inst'[k], intent'[k], candidate'[k])
  PROVE  /\ DbTypeOK'
         /\ RowsAgree'
         /\ StellarPaymentUsedOnce'
         /\ ReservedInOrder'
         /\ LockedIsOpen'
<1>1. \A j \in Installment \ {k} : /\ inst'[j] = inst[j]
                                   /\ intent'[j] = intent[j]
                                   /\ candidate'[j] = candidate[j]
  BY DEF RowsChange
<1>2. DbTypeOK'
  BY DEF RowsChange, TablesInv, DbTypeOK
<1>3. RowsAgree'
  <2>1. \A j \in Installment : RowInv(j, inst'[j], intent'[j], candidate'[j])
    BY <1>1 DEF TablesInv, RowsAgree
  <2> QED
    BY <2>1 DEF RowsAgree, RowInv, PollarReceipt
<1>4. StellarPaymentUsedOnce'
  BY <1>1 DEF TablesInv, StellarPaymentUsedOnce, NewIsUnique
<1>5. ReservedInOrder'
  <2> SUFFICES ASSUME NEW m \in Installment, intent'[m].status # "NONE",
                      NEW j \in Earlier(m)
               PROVE  inst'[j].status = "PAID" /\ inst'[j].sync = "SYNCED"
    BY DEF ReservedInOrder, Earlier, InstallmentsOf
  <2>1. j \in Installment
    BY DEF Earlier, InstallmentsOf
  <2>2. inst[j].status = "PAID" /\ inst[j].sync = "SYNCED"
    <3>1. CASE m = k
      BY <3>1 DEF TablesInv, ReservedInOrder, NewInOrder
    <3>2. CASE m # k
      BY <1>1, <3>2 DEF TablesInv, ReservedInOrder
    <3> QED
      BY <3>1, <3>2
  <2> QED
    BY <1>1, <2>1, <2>2 DEF NewInOrder
<1>6. LockedIsOpen'
  BY DEF RowsChange, TablesInv, LockedIsOpen, StillOpen
<1> QED
  BY <1>2, <1>3, <1>4, <1>5, <1>6

\* What pollar_settle has locked is as it found it.
LEMMA LockedRow ==
  ASSUME TablesInv, NEW k \in Installment, settling[k] # Null
  PROVE  /\ intent[k].status = "CREATED"
         /\ inst[k].rail = "POLLAR" /\ inst[k].status = "PENDING"
<1>1. RowInv(k, inst[k], intent[k], candidate[k]) /\ intent[k].status = "CREATED"
  BY DEF TablesInv, RowsAgree, LockedIsOpen
<1>2. inst[k].status \in {"PENDING", "PAID"}
  BY DEF TablesInv, DbTypeOK, InstallmentRow
<1> QED
  BY <1>1, <1>2 DEF RowInv

\* Setting a route touches no row the invariant is about.
LEMMA SetRouteKept ==
  ASSUME TablesInv, NEW p \in Profile, NEW w \in Wallet, SetRoute(p, w)
  PROVE  Kept
<1>1. DbTypeOK'
  BY DEF SetRoute, TablesInv, DbTypeOK
<1>2. UNCHANGED <<loanStatus, inst, intent, candidate, settling>>
  BY DEF SetRoute
<1>3. RowsAgree' /\ StellarPaymentUsedOnce' /\ ReservedInOrder' /\ LockedIsOpen'
  BY <1>2 DEF TablesInv, RowsAgree, StellarPaymentUsedOnce, ReservedInOrder, LockedIsOpen
<1>4. PendingBounded' /\ (CompletedOnlyWhenPaid => CompletedOnlyWhenPaid')
  BY <1>2 DEF TablesInv, CompletedOnlyWhenPaid, AllPaid, PendingBounded, Pending
<1> QED
  BY <1>1, <1>3, <1>4 DEF Kept, TablesInv

\* When no row becomes PAID, no rail becomes POLLAR on a paid row and no loan
\* changes state, completion is as it was.
LEMMA CompletionKept ==
  ASSUME UNCHANGED loanStatus,
         \A j \in Installment :
            /\ inst'[j].status = inst[j].status
            /\ inst[j].status = "PAID" => inst'[j].rail = inst[j].rail
  PROVE  CompletedOnlyWhenPaid => CompletedOnlyWhenPaid'
  BY DEF CompletedOnlyWhenPaid, AllPaid, InstallmentsOf

\* When candidates only leave PENDING, the pending ones stay few.
LEMMA PendingKept ==
  ASSUME TablesInv, \A j \in Installment : Pending(j)' \subseteq Pending(j)
  PROVE  PendingBounded'
<1> SUFFICES ASSUME NEW j \in Installment
             PROVE  IsFiniteSet(Pending(j)') /\ Cardinality(Pending(j)') <= MaxPending
  BY DEF PendingBounded
<1>1. IsFiniteSet(Pending(j)) /\ Cardinality(Pending(j)) <= MaxPending
  BY DEF TablesInv, PendingBounded
<1>2. Pending(j)' \subseteq Pending(j)
  OBVIOUS
<1>3. /\ IsFiniteSet(Pending(j)')
      /\ Cardinality(Pending(j)') <= Cardinality(Pending(j))
  BY <1>1, <1>2, FS_Subset
<1>4. Cardinality(Pending(j)) \in Nat /\ Cardinality(Pending(j)') \in Nat
  BY <1>1, <1>3, FS_CardinalityType
<1> QED
  BY <1>1, <1>3, <1>4, DbAssumption

\* A new intent takes a free installment whose predecessors are anchored.
LEMMA CreateIntentKept ==
  ASSUME TablesInv, NEW k \in Installment, NEW a \in Profile, NEW w \in Wallet,
         NEW g \in Ledger, CreateIntent(k, a, w, g)
  PROVE  Kept
<1> DEFINE dest == route[LenderOf[LoanOf[k]]]
           row == [inst[k] EXCEPT !.rail = "POLLAR"]
           int == [NoIntent EXCEPT !.status = "CREATED", !.sender = w,
                                   !.recipient = dest, !.minLedger = g]
<1>1. /\ inst' = [inst EXCEPT ![k] = row]
      /\ intent' = [intent EXCEPT ![k] = int]
      /\ UNCHANGED <<loanStatus, candidate, route, settling>>
      /\ intent[k].status = "NONE" /\ Available(k) /\ dest # Null
  BY DEF CreateIntent
<1>2. /\ inst \in [Installment -> InstallmentRow] /\ inst[k] \in InstallmentRow
      /\ intent \in [Installment -> IntentRow] /\ intent[k] \in IntentRow
      /\ dest \in Wallet
      /\ candidate \in [Installment -> [Tx -> CandidateStatus]]
      /\ loanStatus \in [Loan -> {"ACTIVE", "COMPLETED"}]
      /\ settling \in [Installment -> Tx \cup {Null}]
  BY <1>1, DbAssumption DEF TablesInv, DbTypeOK
<1>3. int \in IntentRow /\ row \in InstallmentRow
  BY <1>2 DEF NoIntent, IntentRow, InstallmentRow
<1>4. /\ int.status = "CREATED" /\ int.tx = Null /\ int.receipt = Null
      /\ row.rail = "POLLAR" /\ row.status = inst[k].status
      /\ row.receipt = inst[k].receipt /\ row.tx = inst[k].tx
      /\ row.sync = inst[k].sync
  BY <1>2 DEF NoIntent, InstallmentRow
<1>5. /\ inst[k].status = "PENDING" /\ inst[k].rail = Null
      /\ \A j \in Earlier(k) : inst[j].status = "PAID" /\ inst[j].sync = "SYNCED"
  BY <1>1 DEF Available
<1>6. RowInv(k, inst[k], intent[k], candidate[k])
  BY DEF TablesInv, RowsAgree
<1>7. RowInv(k, row, int, candidate[k])
  BY <1>1, <1>4, <1>5, <1>6, NullAssumption DEF RowInv
<1> HIDE DEF row, int
<1>8. inst'[k] = row /\ intent'[k] = int /\ candidate'[k] = candidate[k]
  BY <1>1, <1>2
<1>9. row.receipt = Null
  BY <1>4, <1>5, <1>6 DEF RowInv
<1>10. RowsChange(k)
  BY <1>1, <1>2, <1>3 DEF RowsChange
<1>11. NewIsUnique(k) /\ NewInOrder(k) /\ StillOpen(k)
  BY <1>4, <1>5, <1>8, <1>9 DEF NewIsUnique, NewInOrder, StillOpen
<1>12. DbTypeOK' /\ RowsAgree' /\ StellarPaymentUsedOnce' /\ ReservedInOrder'
      /\ LockedIsOpen'
  BY <1>7, <1>8, <1>10, <1>11, RowUpdate
<1>13. CompletedOnlyWhenPaid => CompletedOnlyWhenPaid'
  BY <1>1, <1>2, <1>4, <1>5, CompletionKept
<1>14. PendingBounded'
  BY <1>1, PendingKept DEF Pending
<1> QED
  BY <1>12, <1>13, <1>14 DEF Kept, TablesInv

\* A reported hash adds one candidate, below the limit.
LEMMA ObserveKept ==
  ASSUME TablesInv, NEW k \in Installment, NEW a \in Profile, NEW tx \in Tx,
         Observe(k, a, tx)
  PROVE  Kept
<1> DEFINE cand == [candidate[k] EXCEPT ![tx] = "PENDING"]
<1>1. /\ candidate' = [candidate EXCEPT ![k] = cand]
      /\ UNCHANGED <<loanStatus, inst, intent, route, settling>>
      /\ intent[k].status = "CREATED" /\ candidate[k][tx] = "NONE"
      /\ RoomForCandidate(k)
  BY DEF Observe
<1>2. /\ inst \in [Installment -> InstallmentRow] /\ inst[k] \in InstallmentRow
      /\ intent \in [Installment -> IntentRow] /\ intent[k] \in IntentRow
      /\ candidate \in [Installment -> [Tx -> CandidateStatus]]
      /\ loanStatus \in [Loan -> {"ACTIVE", "COMPLETED"}]
      /\ settling \in [Installment -> Tx \cup {Null}]
  BY DEF TablesInv, DbTypeOK
<1>3. cand \in [Tx -> CandidateStatus]
  BY <1>2 DEF CandidateStatus
<1>4. candidate'[k] = cand
  BY <1>1, <1>2
<1>5. RowInv(k, inst[k], intent[k], candidate[k])
  BY DEF TablesInv, RowsAgree
<1>6. RowInv(k, inst[k], intent[k], cand)
  BY <1>1, <1>2, <1>5, NullAssumption DEF RowInv
<1>7. RowsChange(k)
  BY <1>1, <1>2, <1>3 DEF RowsChange
<1>8. NewIsUnique(k) /\ NewInOrder(k) /\ StillOpen(k)
  BY <1>1 DEF NewIsUnique, NewInOrder, StillOpen,
       TablesInv, StellarPaymentUsedOnce, LockedIsOpen
<1>9. DbTypeOK' /\ RowsAgree' /\ StellarPaymentUsedOnce' /\ ReservedInOrder'
      /\ LockedIsOpen'
  BY <1>1, <1>4, <1>6, <1>7, <1>8, RowUpdate
<1>10. CompletedOnlyWhenPaid => CompletedOnlyWhenPaid'
  BY <1>1, CompletionKept
<1>11. PendingBounded'
  <2> SUFFICES ASSUME NEW j \in Installment
               PROVE  IsFiniteSet(Pending(j)') /\ Cardinality(Pending(j)') <= MaxPending
    BY DEF PendingBounded
  <2>1. IsFiniteSet(Pending(j)) /\ Cardinality(Pending(j)) <= MaxPending
    BY DEF TablesInv, PendingBounded
  <2>2. CASE j # k
    <3>1. Pending(j)' = Pending(j)
      BY <1>1, <1>2, <2>2 DEF Pending
    <3> QED
      BY <2>1, <3>1
  <2>3. CASE j = k
    <3>1. Pending(k)' = Pending(k) \cup {tx} /\ tx \notin Pending(k)
      BY <1>1, <1>2 DEF Pending
    <3>2. IsFiniteSet(Pending(k) \cup {tx})
          /\ Cardinality(Pending(k) \cup {tx}) = Cardinality(Pending(k)) + 1
      BY <2>1, <2>3, <3>1, FS_AddElement
    <3>3. Cardinality(Pending(k)) < MaxPending /\ Cardinality(Pending(k)) \in Nat
      BY <1>1, <2>1, <2>3, FS_CardinalityType DEF RoomForCandidate
    <3> QED
      BY <2>3, <3>1, <3>2, <3>3, DbAssumption
  <2> QED
    BY <2>2, <2>3
<1> QED
  BY <1>9, <1>10, <1>11 DEF Kept, TablesInv

\* A pollar_settle that begins, or is rolled back, changes no row.
LEMMA SettlingKept ==
  ASSUME TablesInv, UNCHANGED <<loanStatus, inst, intent, candidate, route>>,
         NEW k \in Installment, NEW t \in Tx \cup {Null},
         settling' = [settling EXCEPT ![k] = t],
         t # Null => intent[k].status = "CREATED"
  PROVE  Kept
<1>1. DbTypeOK' /\ LockedIsOpen'
  BY DEF TablesInv, DbTypeOK, LockedIsOpen
<1>2. RowsAgree' /\ StellarPaymentUsedOnce' /\ ReservedInOrder'
  BY DEF TablesInv, RowsAgree, StellarPaymentUsedOnce, ReservedInOrder
<1>3. PendingBounded' /\ (CompletedOnlyWhenPaid => CompletedOnlyWhenPaid')
  BY DEF TablesInv, CompletedOnlyWhenPaid, AllPaid, PendingBounded, Pending
<1> QED
  BY <1>1, <1>2, <1>3 DEF Kept, TablesInv

LEMMA SettleBeginsKept ==
  ASSUME TablesInv, NEW k \in Installment, NEW tx \in Tx, SettleBegins(k, tx)
  PROVE  Kept
  BY SettlingKept DEF SettleBegins, CanSettle

LEMMA SettleAbortsKept ==
  ASSUME TablesInv, NEW k \in Installment, SettleAborts(k)
  PROVE  Kept
  BY SettlingKept DEF SettleAborts

\* Settlement pays one installment with an unused transaction.
LEMMA SettleKept ==
  ASSUME TablesInv, NEW k \in Installment, NEW tx \in Tx,
         Settle(k, tx, PollarReceipt(k, tx))
  PROVE  Kept
<1> DEFINE r == PollarReceipt(k, tx)
           row == [inst[k] EXCEPT !.status = "PAID", !.method = "POLLAR_USDC",
                     !.tx = tx, !.receipt = r, !.sync = "PENDING"]
           int == [intent[k] EXCEPT !.status = "VERIFIED", !.tx = tx,
                                    !.receipt = r]
           cand == [candidate[k] EXCEPT ![tx] = "VERIFIED"]
<1>1. /\ inst' = [inst EXCEPT ![k] = row]
      /\ intent' = [intent EXCEPT ![k] = int]
      /\ candidate' = [candidate EXCEPT ![k] = cand]
      /\ route' = route
      /\ loanStatus' = IF LastOfLoan(k)
                       THEN [loanStatus EXCEPT ![LoanOf[k]] = "COMPLETED"]
                       ELSE loanStatus
      /\ settling' = [settling EXCEPT ![k] = Null]
      /\ settling[k] = tx /\ TxUnused(k, tx) /\ ReceiptUnused(k, r)
  BY DEF Settle, CandidateVerified
<1>2. /\ inst \in [Installment -> InstallmentRow] /\ inst[k] \in InstallmentRow
      /\ intent \in [Installment -> IntentRow] /\ intent[k] \in IntentRow
      /\ candidate \in [Installment -> [Tx -> CandidateStatus]]
      /\ candidate[k] \in [Tx -> CandidateStatus]
      /\ loanStatus \in [Loan -> {"ACTIVE", "COMPLETED"}]
      /\ settling \in [Installment -> Tx \cup {Null}]
      /\ LoanOf[k] \in Loan
      /\ r \in Receipt
  BY DbAssumption DEF TablesInv, DbTypeOK, Receipt
<1>3. /\ int \in IntentRow /\ row \in InstallmentRow
      /\ cand \in [Tx -> CandidateStatus]
      /\ loanStatus' \in [Loan -> {"ACTIVE", "COMPLETED"}]
  BY <1>1, <1>2 DEF IntentRow, InstallmentRow, CandidateStatus
<1>4. /\ intent[k].status = "CREATED"
       /\ inst[k].rail = "POLLAR" /\ inst[k].status = "PENDING"
  BY <1>1, LockedRow, NullAssumption
<1>5. /\ int.status = "VERIFIED" /\ int.tx = tx /\ int.receipt = r
      /\ row.rail = "POLLAR" /\ row.status = "PAID" /\ row.sync = "PENDING"
      /\ row.method = "POLLAR_USDC" /\ row.tx = tx /\ row.receipt = r
      /\ cand[tx] = "VERIFIED"
      /\ \A t \in Tx \ {tx} : cand[t] = candidate[k][t]
  BY <1>1, <1>2, <1>4 DEF IntentRow, InstallmentRow
<1>6. RowInv(k, inst[k], intent[k], candidate[k])
  BY DEF TablesInv, RowsAgree
<1>7. /\ \A t \in Tx : candidate[k][t] # "VERIFIED"
      /\ inst[k].sync = "PENDING" /\ inst[k].status = "PENDING"
  BY <1>6, <1>4, NullAssumption DEF RowInv
<1> HIDE DEF row, int, cand
<1>8. RowInv(k, row, int, cand)
  BY <1>2, <1>5, <1>7, NullAssumption DEF RowInv
<1>9. inst'[k] = row /\ intent'[k] = int /\ candidate'[k] = cand
  BY <1>1, <1>2
<1>10. RowsChange(k)
  BY <1>1, <1>2, <1>3 DEF RowsChange
<1>11. NewIsUnique(k)
  BY <1>1, <1>5, <1>9 DEF NewIsUnique, TxUnused, ReceiptUnused
<1>12. NewInOrder(k) /\ StillOpen(k)
  BY <1>1, <1>2, <1>5, <1>7, <1>9, <1>4 DEF NewInOrder, StillOpen
<1>13. DbTypeOK' /\ RowsAgree' /\ StellarPaymentUsedOnce' /\ ReservedInOrder'
      /\ LockedIsOpen'
  BY <1>8, <1>9, <1>10, <1>11, <1>12, RowUpdate
<1>14. CompletedOnlyWhenPaid => CompletedOnlyWhenPaid'
  <2> SUFFICES ASSUME CompletedOnlyWhenPaid, NEW l \in Loan
               PROVE  /\ loanStatus'[l] = "COMPLETED" => AllPaid(l)'
                      /\ AllPaid(l)' /\ (\A j \in InstallmentsOf(l) : inst'[j].rail = "POLLAR")
                            => loanStatus'[l] = "COMPLETED"
    BY DEF CompletedOnlyWhenPaid, InstallmentsOf
  <2>1. /\ \A j \in Installment \ {k} : inst'[j] = inst[j]
        /\ inst'[k].status = "PAID" /\ inst'[k].rail = inst[k].rail
    BY <1>1, <1>5, <1>9, <1>10, <1>4 DEF RowsChange
  <2>2. CASE l # LoanOf[k]
    <3>1. loanStatus'[l] = loanStatus[l] /\ k \notin InstallmentsOf(l)
      BY <1>1, <1>2, <2>2 DEF InstallmentsOf
    <3> QED
      BY <2>1, <3>1 DEF CompletedOnlyWhenPaid, AllPaid, InstallmentsOf
  <2>3. CASE l = LoanOf[k]
    <3>1. AllPaid(l)' <=> LastOfLoan(k)
      BY <2>1, <2>3 DEF AllPaid, LastOfLoan, InstallmentsOf
    <3>2. loanStatus[l] # "COMPLETED"
      BY <1>4, <2>3 DEF CompletedOnlyWhenPaid, AllPaid, InstallmentsOf
    <3>3. loanStatus'[l] = "COMPLETED" <=> LastOfLoan(k)
      BY <1>1, <1>2, <2>3, <3>2
    <3> QED
      BY <3>1, <3>3
  <2> QED
    BY <2>2, <2>3
<1>15. PendingBounded'
  <2>1. \A j \in Installment, t \in Tx :
          candidate'[j][t] = "PENDING" => candidate[j][t] = "PENDING"
    BY <1>1, <1>5, <1>9, <1>10 DEF RowsChange
  <2> QED
    BY <2>1, PendingKept DEF Pending
<1> QED
  BY <1>13, <1>14, <1>15 DEF Kept, TablesInv

\* Rejection resolves a candidate that is not the settled one.
LEMMA RejectKept ==
  ASSUME TablesInv, NEW k \in Installment, NEW tx \in Tx, Reject(k, tx)
  PROVE  Kept
<1> DEFINE cand == [candidate[k] EXCEPT ![tx] = "REJECTED"]
<1>1. /\ candidate' = [candidate EXCEPT ![k] = cand]
      /\ UNCHANGED <<loanStatus, inst, intent, route, settling>>
      /\ candidate[k][tx] = "PENDING"
  BY DEF Reject
<1>2. /\ inst \in [Installment -> InstallmentRow] /\ inst[k] \in InstallmentRow
      /\ intent \in [Installment -> IntentRow] /\ intent[k] \in IntentRow
      /\ candidate \in [Installment -> [Tx -> CandidateStatus]]
      /\ loanStatus \in [Loan -> {"ACTIVE", "COMPLETED"}]
      /\ settling \in [Installment -> Tx \cup {Null}]
  BY DEF TablesInv, DbTypeOK
<1>3. cand \in [Tx -> CandidateStatus] /\ candidate'[k] = cand
  BY <1>1, <1>2 DEF CandidateStatus
<1>4. RowInv(k, inst[k], intent[k], candidate[k])
  BY DEF TablesInv, RowsAgree
<1>5. RowInv(k, inst[k], intent[k], cand)
  BY <1>1, <1>2, <1>4 DEF RowInv
<1>6. RowsChange(k)
  BY <1>1, <1>2, <1>3 DEF RowsChange
<1>7. NewIsUnique(k) /\ NewInOrder(k) /\ StillOpen(k)
  BY <1>1 DEF NewIsUnique, NewInOrder, StillOpen,
       TablesInv, StellarPaymentUsedOnce, LockedIsOpen
<1>8. DbTypeOK' /\ RowsAgree' /\ StellarPaymentUsedOnce' /\ ReservedInOrder'
      /\ LockedIsOpen'
  BY <1>1, <1>3, <1>5, <1>6, <1>7, RowUpdate
<1>9. CompletedOnlyWhenPaid => CompletedOnlyWhenPaid'
  BY <1>1, CompletionKept
<1>10. PendingBounded'
  <2>1. \A j \in Installment, t \in Tx :
          candidate'[j][t] = "PENDING" => candidate[j][t] = "PENDING"
    BY <1>1, <1>2
  <2> QED
    BY <2>1, PendingKept DEF Pending
<1> QED
  BY <1>8, <1>9, <1>10 DEF Kept, TablesInv

\* Anchoring reaches the installment, because its receipt is the intent's.
LEMMA MarkAnchoredKept ==
  ASSUME TablesInv, NEW k \in Installment, NEW known \in BOOLEAN,
         MarkAnchored(k, known)
  PROVE  Kept
<1> DEFINE row == [inst[k] EXCEPT !.sync = "SYNCED"]
           int == [intent[k] EXCEPT !.status = "ANCHORED",
                                    !.hskTx = known \/ intent[k].hskTx]
<1>1. /\ inst \in [Installment -> InstallmentRow] /\ inst[k] \in InstallmentRow
      /\ intent \in [Installment -> IntentRow] /\ intent[k] \in IntentRow
      /\ candidate \in [Installment -> [Tx -> CandidateStatus]]
      /\ loanStatus \in [Loan -> {"ACTIVE", "COMPLETED"}]
      /\ settling \in [Installment -> Tx \cup {Null}]
  BY DEF TablesInv, DbTypeOK
<1>2. RowInv(k, inst[k], intent[k], candidate[k])
  BY DEF TablesInv, RowsAgree
<1>3. /\ intent[k].status \in {"VERIFIED", "ANCHORED"}
      /\ intent' = [intent EXCEPT ![k] = int]
      /\ UNCHANGED <<loanStatus, candidate, route, settling>>
  BY DEF MarkAnchored, Anchorable
<1>4. inst[k].receipt = intent[k].receipt /\ inst[k].status = "PAID"
      /\ inst[k].rail = "POLLAR"
  BY <1>2, <1>3 DEF RowInv
<1>5. inst' = [inst EXCEPT ![k] = row]
  BY <1>4 DEF MarkAnchored
<1>6. int \in IntentRow /\ row \in InstallmentRow
  BY <1>1 DEF IntentRow, InstallmentRow
<1>7. /\ int.status = "ANCHORED" /\ int.tx = intent[k].tx
      /\ int.receipt = intent[k].receipt
      /\ row.sync = "SYNCED" /\ row.status = inst[k].status
      /\ row.rail = inst[k].rail /\ row.method = inst[k].method
      /\ row.tx = inst[k].tx /\ row.receipt = inst[k].receipt
  BY <1>1 DEF IntentRow, InstallmentRow
<1> HIDE DEF row, int
<1>8. RowInv(k, row, int, candidate[k])
  BY <1>2, <1>3, <1>4, <1>7 DEF RowInv
<1>9. inst'[k] = row /\ intent'[k] = int /\ candidate'[k] = candidate[k]
  BY <1>1, <1>3, <1>5
<1>10. RowsChange(k)
  BY <1>1, <1>3, <1>5, <1>6 DEF RowsChange
<1>11. NewIsUnique(k) /\ NewInOrder(k) /\ StillOpen(k)
  BY <1>3, <1>7, <1>9 DEF NewIsUnique, NewInOrder, StillOpen,
       TablesInv, StellarPaymentUsedOnce, LockedIsOpen
<1>12. DbTypeOK' /\ RowsAgree' /\ StellarPaymentUsedOnce' /\ ReservedInOrder'
      /\ LockedIsOpen'
  BY <1>8, <1>9, <1>10, <1>11, RowUpdate
<1>13. CompletedOnlyWhenPaid => CompletedOnlyWhenPaid'
  <2>1. \A j \in Installment : inst'[j].status = inst[j].status
                               /\ inst'[j].rail = inst[j].rail
    BY <1>7, <1>9, <1>10 DEF RowsChange
  <2> QED
    BY <1>3, <2>1, CompletionKept
<1>14. PendingBounded'
  BY <1>3, PendingKept DEF Pending
<1> QED
  BY <1>12, <1>13, <1>14 DEF Kept, TablesInv

\* Claiming the cash rail finds no intent on the installment.
LEMMA ClaimCashKept ==
  ASSUME TablesInv, NEW k \in Installment, ClaimCash(k)
  PROVE  Kept
<1> DEFINE row == [inst[k] EXCEPT !.rail = "CASH"]
<1>1. /\ inst \in [Installment -> InstallmentRow] /\ inst[k] \in InstallmentRow
      /\ intent \in [Installment -> IntentRow] /\ intent[k] \in IntentRow
      /\ candidate \in [Installment -> [Tx -> CandidateStatus]]
      /\ loanStatus \in [Loan -> {"ACTIVE", "COMPLETED"}]
      /\ settling \in [Installment -> Tx \cup {Null}]
  BY DEF TablesInv, DbTypeOK
<1>2. RowInv(k, inst[k], intent[k], candidate[k])
  BY DEF TablesInv, RowsAgree
<1>3. /\ inst' = [inst EXCEPT ![k] = row]
      /\ UNCHANGED <<loanStatus, intent, candidate, route, settling>>
      /\ inst[k].status # "PAID" /\ inst[k].rail \in {Null, "CASH"}
  BY DEF ClaimCash, Claimable
<1>4. row \in InstallmentRow
  BY <1>1 DEF InstallmentRow
<1>5. /\ row.rail = "CASH" /\ row.status = inst[k].status
      /\ row.sync = inst[k].sync /\ row.method = inst[k].method
      /\ row.tx = inst[k].tx /\ row.receipt = inst[k].receipt
  BY <1>1 DEF InstallmentRow
<1> HIDE DEF row
<1>6. RowInv(k, row, intent[k], candidate[k])
  BY <1>2, <1>3, <1>5, NullAssumption DEF RowInv
<1>7. inst'[k] = row
  BY <1>1, <1>3
<1>8. RowsChange(k)
  BY <1>1, <1>3, <1>4 DEF RowsChange
<1>9. NewIsUnique(k) /\ NewInOrder(k) /\ StillOpen(k)
  BY <1>3, <1>5, <1>7 DEF NewIsUnique, NewInOrder, StillOpen,
       TablesInv, StellarPaymentUsedOnce, LockedIsOpen
<1>10. DbTypeOK' /\ RowsAgree' /\ StellarPaymentUsedOnce' /\ ReservedInOrder'
      /\ LockedIsOpen'
  BY <1>3, <1>6, <1>7, <1>8, <1>9, RowUpdate
<1>11. CompletedOnlyWhenPaid => CompletedOnlyWhenPaid'
  <2>1. \A j \in Installment :
          /\ inst'[j].status = inst[j].status
          /\ inst[j].status = "PAID" => inst'[j].rail = inst[j].rail
    BY <1>3, <1>5, <1>7, <1>8 DEF RowsChange
  <2> QED
    BY <1>3, <2>1, CompletionKept
<1>12. PendingBounded'
  BY <1>3, PendingKept DEF Pending
<1> QED
  BY <1>10, <1>11, <1>12 DEF Kept, TablesInv

\* Cash pays an installment on the cash rail with a receipt of its own.
LEMMA PayCashKept ==
  ASSUME TablesInv, NEW k \in Installment, NEW r \in CashReceipt,
         inst[k].rail = "CASH", PayCash(k, r)
  PROVE  Kept
<1> DEFINE row == [inst[k] EXCEPT !.status = "PAID", !.method = "CASH",
                                  !.receipt = r, !.sync = "SYNCED"]
<1>1. /\ inst \in [Installment -> InstallmentRow] /\ inst[k] \in InstallmentRow
      /\ intent \in [Installment -> IntentRow] /\ intent[k] \in IntentRow
      /\ candidate \in [Installment -> [Tx -> CandidateStatus]]
      /\ loanStatus \in [Loan -> {"ACTIVE", "COMPLETED"}]
      /\ settling \in [Installment -> Tx \cup {Null}]
      /\ r \in Receipt
  BY DEF TablesInv, DbTypeOK, Receipt
<1>2. RowInv(k, inst[k], intent[k], candidate[k])
  BY DEF TablesInv, RowsAgree
<1>3. /\ inst' = [inst EXCEPT ![k] = row]
      /\ UNCHANGED <<loanStatus, intent, candidate, route, settling>>
      /\ CashPayable(k, r)
  BY DEF PayCash
<1>4. row \in InstallmentRow
  BY <1>1 DEF InstallmentRow
<1>5. /\ row.rail = "CASH" /\ row.status = "PAID" /\ row.sync = "SYNCED"
      /\ row.method = "CASH" /\ row.tx = inst[k].tx /\ row.receipt = r
  BY <1>1 DEF InstallmentRow
<1> HIDE DEF row
<1>6. RowInv(k, row, intent[k], candidate[k])
  BY <1>1, <1>2, <1>5, NullAssumption DEF RowInv
<1>7. inst'[k] = row
  BY <1>1, <1>3
<1>8. RowsChange(k)
  BY <1>1, <1>3, <1>4 DEF RowsChange
<1>9. NewIsUnique(k)
  BY <1>3, <1>5, <1>7
     DEF NewIsUnique, CashPayable, ReceiptUnused, TablesInv, StellarPaymentUsedOnce
<1>10. NewInOrder(k) /\ StillOpen(k)
  BY <1>3, <1>5, <1>7 DEF NewInOrder, StillOpen, TablesInv, LockedIsOpen
<1>11. DbTypeOK' /\ RowsAgree' /\ StellarPaymentUsedOnce' /\ ReservedInOrder'
      /\ LockedIsOpen'
  BY <1>3, <1>6, <1>7, <1>8, <1>9, <1>10, RowUpdate
<1>12. CompletedOnlyWhenPaid => CompletedOnlyWhenPaid'
  <2>1. /\ \A j \in Installment \ {k} : inst'[j] = inst[j]
        /\ inst'[k].status = "PAID" /\ inst'[k].rail = "CASH"
    BY <1>5, <1>7, <1>8 DEF RowsChange
  <2> QED
    BY <1>3, <2>1 DEF CompletedOnlyWhenPaid, AllPaid, InstallmentsOf
<1>13. PendingBounded'
  BY <1>3, PendingKept DEF Pending
<1> QED
  BY <1>11, <1>12, <1>13 DEF Kept, TablesInv

\* A loan is completed, by a caller that read its installments or did not.
LEMMA CompleteLoanTables ==
  ASSUME TablesInv, NEW l \in Loan, CompleteLoan(l)
  PROVE  TablesInv'
<1>1. UNCHANGED <<inst, intent, candidate, route, settling>>
  BY DEF CompleteLoan
<1>2. DbTypeOK'
  BY DEF CompleteLoan, TablesInv, DbTypeOK
<1>3. RowsAgree' /\ StellarPaymentUsedOnce' /\ ReservedInOrder' /\ LockedIsOpen'
  BY <1>1 DEF TablesInv, RowsAgree, StellarPaymentUsedOnce, ReservedInOrder, LockedIsOpen
<1>4. PendingBounded'
  BY <1>1, PendingKept DEF Pending
<1> QED
  BY <1>2, <1>3, <1>4 DEF TablesInv

\* ... and when they were read as paid, they are.
LEMMA CompleteLoanKept ==
  ASSUME TablesInv, NEW l \in Loan, AllPaid(l), CompleteLoan(l)
  PROVE  Kept
<1>1. CompletedOnlyWhenPaid => CompletedOnlyWhenPaid'
  BY DEF CompleteLoan, TablesInv, DbTypeOK, CompletedOnlyWhenPaid, AllPaid, InstallmentsOf
<1> QED
  BY <1>1, CompleteLoanTables DEF Kept

\* Every statement of DbNext keeps the invariant.
LEMMA DbNextKept == TablesInv /\ [DbNext]_dbVars => Kept
<1> SUFFICES ASSUME TablesInv, [DbNext]_dbVars PROVE Kept
  OBVIOUS
<1>1. ASSUME NEW p \in {LenderOf[l] : l \in Loan}, NEW w \in Wallet, SetRoute(p, w)
      PROVE  Kept
  <2>1. p \in Profile
    BY DbAssumption
  <2> QED
    BY <1>1, <2>1, SetRouteKept
<1>2. ASSUME NEW k \in Installment, NEW known \in BOOLEAN, MarkAnchored(k, known)
      PROVE  Kept
  BY <1>2, MarkAnchoredKept
<1>3. ASSUME NEW k \in Installment, NEW r \in CashReceipt,
             inst[k].rail = "CASH", PayCash(k, r)
      PROVE  Kept
  BY <1>3, PayCashKept
<1>4. CASE UNCHANGED dbVars
  <2>1. UNCHANGED <<loanStatus, inst, intent, candidate, route, settling>>
    BY <1>4 DEF dbVars
  <2>2. DbTypeOK'
    BY <2>1 DEF TablesInv, DbTypeOK
  <2>3. RowsAgree' /\ StellarPaymentUsedOnce' /\ ReservedInOrder' /\ LockedIsOpen'
    BY <2>1 DEF TablesInv, RowsAgree, StellarPaymentUsedOnce, ReservedInOrder, LockedIsOpen
  <2>4. PendingBounded' /\ (CompletedOnlyWhenPaid => CompletedOnlyWhenPaid')
    BY <2>1 DEF TablesInv, CompletedOnlyWhenPaid, AllPaid, PendingBounded, Pending
  <2> QED
    BY <2>2, <2>3, <2>4 DEF Kept, TablesInv
<1>5. CASE DbNext
  BY <1>1, <1>2, <1>3, <1>5, CreateIntentKept, ObserveKept, SettleBeginsKept,
     SettleKept, SettleAbortsKept, RejectKept, ClaimCashKept, CompleteLoanKept DEF DbNext
<1> QED
  BY <1>4, <1>5

LEMMA NextIInv == IInv /\ [DbNext]_dbVars => IInv'
  BY DbNextKept DEF IInv, Kept

\* The inductive invariant of the settlement tables.
THEOREM DbInvariant == DbSpec => []IInv
  BY InitIInv, NextIInv, PTL DEF DbSpec

\* Every column keeps its type and every reference its target.
THEOREM TypesCorrect == DbSpec => []DbTypeOK
  BY DbInvariant, PTL DEF IInv, TablesInv

\* A paid installment has exactly one source, cash or one verified Stellar
\* payment, and the other rail is closed for good.
THEOREM OneSource == DbSpec => []PaymentHasOneSource
  BY DbInvariant, TablesInvImplies, PTL DEF IInv

\* A Stellar transaction, and a receipt, pays at most one installment.
THEOREM UsedOnce == DbSpec => []StellarPaymentUsedOnce
  BY DbInvariant, PTL DEF IInv, TablesInv

\* What a Pollar intent waits for on chain is already there.
THEOREM InOrder == DbSpec => []ReservedInOrder
  BY DbInvariant, PTL DEF IInv, TablesInv

\* COMPLETED means all installments paid, and the last Pollar payment
\* completes its loan.
THEOREM CompletionSound == DbSpec => []CompletedOnlyWhenPaid
  BY DbInvariant, PTL DEF IInv, TablesInv

\* One candidate of an intent is verified, and few are unresolved.
THEOREM CandidatesResolved == DbSpec => []OneVerifiedCandidate
  BY DbInvariant, TablesInvImplies, PTL DEF IInv

\* SYNCED on the Pollar rail means anchored, and the converse.
THEOREM SyncedMeansAnchored == DbSpec => []AnchoredIffSynced
  BY DbInvariant, TablesInvImplies, PTL DEF IInv

-----------------------------------------------------------------------------

\* What SettlementIsFinal says of one step.
FinalRow(k) ==
    /\ inst[k].rail # Null => inst'[k].rail = inst[k].rail
    /\ inst[k].status = "PAID" =>
          /\ inst'[k].status = "PAID"
          /\ inst'[k].receipt = inst[k].receipt
          /\ inst'[k].method = inst[k].method
          /\ inst'[k].tx = inst[k].tx
          /\ inst[k].sync = "SYNCED" => inst'[k].sync = "SYNCED"
    /\ IntentRank[intent[k].status] <= IntentRank[intent'[k].status]
    /\ intent[k].status # "NONE" =>
          /\ intent'[k].sender = intent[k].sender
          /\ intent'[k].recipient = intent[k].recipient
          /\ intent'[k].minLedger = intent[k].minLedger
          /\ intent[k].hskTx => intent'[k].hskTx
    /\ \A tx \in Tx :
          /\ candidate[k][tx] = "VERIFIED" => candidate'[k][tx] = "VERIFIED"
          /\ candidate[k][tx] = "REJECTED" =>
                \/ candidate'[k][tx] = "REJECTED"
                \/ /\ settling[k] = tx
                   /\ candidate'[k][tx] = "VERIFIED"

FinalStep ==
    /\ \A k \in Installment : FinalRow(k)
    /\ \A l \in Loan :
          loanStatus[l] = "COMPLETED" => loanStatus'[l] = "COMPLETED"

\* Rows that do not change are final.
LEMMA SameRowFinal ==
  ASSUME TablesInv, NEW k \in Installment,
         inst'[k] = inst[k], intent'[k] = intent[k], candidate'[k] = candidate[k]
  PROVE  FinalRow(k)
<1>1. intent[k].status \in {"NONE", "CREATED", "VERIFIED", "ANCHORED"}
  BY DEF TablesInv, DbTypeOK, IntentRow
<1>2. IntentRank[intent[k].status] \in Int
  BY <1>1 DEF IntentRank
<1> QED
  BY <1>2 DEF FinalRow

\* DbNext, and the completion of a loan whose installments could not be read.
DbStep == DbNext \/ \E l \in Loan : CompleteLoan(l)

\* No statement takes back what is settled.
LEMMA StepFinal == TablesInv /\ DbStep => FinalStep
<1> SUFFICES ASSUME TablesInv, DbStep PROVE FinalStep
  OBVIOUS
<1> USE SameRowFinal
<1>0. /\ inst \in [Installment -> InstallmentRow]
      /\ intent \in [Installment -> IntentRow]
      /\ candidate \in [Installment -> [Tx -> CandidateStatus]]
      /\ loanStatus \in [Loan -> {"ACTIVE", "COMPLETED"}]
  BY DEF TablesInv, DbTypeOK
<1>1. ASSUME NEW p, NEW w \in Wallet, SetRoute(p, w) PROVE FinalStep
  BY <1>1 DEF SetRoute, FinalStep
<1>2. ASSUME NEW k \in Installment, NEW a \in Profile, NEW w \in Wallet,
             NEW g \in Ledger, CreateIntent(k, a, w, g)
      PROVE  FinalStep
  <2>1. /\ intent[k].status = "NONE" /\ intent'[k].status = "CREATED"
        /\ inst[k].rail = Null /\ inst[k].status = "PENDING"
        /\ candidate' = candidate /\ loanStatus' = loanStatus
        /\ \A j \in Installment \ {k} : inst'[j] = inst[j] /\ intent'[j] = intent[j]
    BY <1>0, <1>2 DEF CreateIntent, Available, NoIntent
  <2>2. FinalRow(k)
    BY <2>1 DEF FinalRow, IntentRank
  <2> QED
    BY <2>1, <2>2 DEF FinalStep
<1>3. ASSUME NEW k \in Installment, NEW a \in Profile, NEW tx \in Tx,
             Observe(k, a, tx)
      PROVE  FinalStep
  <2>1. /\ UNCHANGED <<inst, intent, loanStatus>>
        /\ candidate[k][tx] = "NONE"
        /\ \A j \in Installment \ {k} : candidate'[j] = candidate[j]
        /\ \A t \in Tx \ {tx} : candidate'[k][t] = candidate[k][t]
    BY <1>0, <1>3 DEF Observe
  <2>2. FinalRow(k)
    <3>1. intent[k].status \in {"NONE", "CREATED", "VERIFIED", "ANCHORED"}
      BY <1>0 DEF IntentRow
    <3> QED
      BY <2>1, <3>1 DEF FinalRow, IntentRank
  <2> QED
    BY <2>1, <2>2 DEF FinalStep
<1>4. ASSUME NEW k \in Installment, NEW tx \in Tx,
             Settle(k, tx, PollarReceipt(k, tx))
      PROVE  FinalStep
  <2>1. /\ intent[k].status = "CREATED" /\ inst[k].status # "PAID"
        /\ settling[k] = tx /\ candidate'[k][tx] = "VERIFIED"
        /\ \A j \in Installment \ {k} : /\ inst'[j] = inst[j]
                                        /\ intent'[j] = intent[j]
                                        /\ candidate'[j] = candidate[j]
        /\ \A t \in Tx \ {tx} : candidate'[k][t] = candidate[k][t]
    BY <1>0, <1>4, LockedRow, NullAssumption DEF Settle, CandidateVerified
  <2>2. /\ intent'[k].status = "VERIFIED" /\ intent'[k].sender = intent[k].sender
        /\ intent'[k].recipient = intent[k].recipient
        /\ intent'[k].minLedger = intent[k].minLedger
        /\ intent'[k].hskTx = intent[k].hskTx
        /\ inst'[k].rail = inst[k].rail
    BY <1>0, <1>4 DEF Settle, IntentRow, InstallmentRow
  <2>3. FinalRow(k)
    BY <2>1, <2>2 DEF FinalRow, IntentRank
  <2>4. \A l \in Loan : loanStatus[l] = "COMPLETED" => loanStatus'[l] = "COMPLETED"
    BY <1>0, <1>4 DEF Settle
  <2> QED
    BY <2>1, <2>3, <2>4 DEF FinalStep
<1>5. ASSUME NEW k \in Installment, NEW tx \in Tx, Reject(k, tx)
      PROVE  FinalStep
  <2>1. /\ UNCHANGED <<inst, intent, loanStatus>>
        /\ candidate[k][tx] = "PENDING"
        /\ \A j \in Installment \ {k} : candidate'[j] = candidate[j]
        /\ \A t \in Tx \ {tx} : candidate'[k][t] = candidate[k][t]
    BY <1>0, <1>5 DEF Reject
  <2>2. FinalRow(k)
    <3>1. intent[k].status \in {"NONE", "CREATED", "VERIFIED", "ANCHORED"}
      BY <1>0 DEF IntentRow
    <3> QED
      BY <2>1, <3>1 DEF FinalRow, IntentRank
  <2> QED
    BY <2>1, <2>2 DEF FinalStep
<1>6. ASSUME NEW k \in Installment, NEW known \in BOOLEAN, MarkAnchored(k, known)
      PROVE  FinalStep
  <2>1. /\ intent[k].status \in {"VERIFIED", "ANCHORED"}
        /\ candidate' = candidate /\ loanStatus' = loanStatus
        /\ \A j \in Installment \ {k} : inst'[j] = inst[j] /\ intent'[j] = intent[j]
        /\ intent'[k].status = "ANCHORED" /\ intent'[k].sender = intent[k].sender
        /\ intent'[k].recipient = intent[k].recipient
        /\ intent'[k].minLedger = intent[k].minLedger
        /\ intent[k].hskTx => intent'[k].hskTx
    BY <1>0, <1>6 DEF MarkAnchored, Anchorable, IntentRow
  <2>2. /\ inst'[k].rail = inst[k].rail /\ inst'[k].status = inst[k].status
        /\ inst'[k].receipt = inst[k].receipt /\ inst'[k].method = inst[k].method
        /\ inst'[k].tx = inst[k].tx
        /\ inst[k].sync = "SYNCED" => inst'[k].sync = "SYNCED"
    BY <1>0, <1>6 DEF MarkAnchored, InstallmentRow
  <2>3. FinalRow(k)
    BY <2>1, <2>2 DEF FinalRow, IntentRank
  <2> QED
    BY <2>1, <2>3 DEF FinalStep
<1>7. ASSUME NEW k \in Installment, ClaimCash(k) PROVE FinalStep
  <2>1. /\ UNCHANGED <<intent, candidate, loanStatus>>
        /\ inst[k].status # "PAID" /\ inst[k].rail \in {Null, "CASH"}
        /\ \A j \in Installment \ {k} : inst'[j] = inst[j]
        /\ inst'[k].rail = "CASH"
    BY <1>0, <1>7 DEF ClaimCash, Claimable, InstallmentRow
  <2>2. FinalRow(k)
    <3>1. intent[k].status \in {"NONE", "CREATED", "VERIFIED", "ANCHORED"}
      BY <1>0 DEF IntentRow
    <3> QED
      BY <2>1, <3>1 DEF FinalRow, IntentRank
  <2> QED
    BY <2>1, <2>2 DEF FinalStep
<1>8. ASSUME NEW k \in Installment, NEW r \in CashReceipt, PayCash(k, r)
      PROVE  FinalStep
  <2>1. /\ UNCHANGED <<intent, candidate, loanStatus>>
        /\ inst[k].status = "PAID" => inst[k].receipt = r /\ inst[k].method = "CASH"
        /\ \A j \in Installment \ {k} : inst'[j] = inst[j]
        /\ inst'[k].rail = inst[k].rail /\ inst'[k].status = "PAID"
        /\ inst'[k].receipt = r /\ inst'[k].method = "CASH"
        /\ inst'[k].tx = inst[k].tx /\ inst'[k].sync = "SYNCED"
    BY <1>0, <1>8 DEF PayCash, CashPayable, InstallmentRow
  <2>2. FinalRow(k)
    <3>1. intent[k].status \in {"NONE", "CREATED", "VERIFIED", "ANCHORED"}
      BY <1>0 DEF IntentRow
    <3> QED
      BY <2>1, <3>1 DEF FinalRow, IntentRank
  <2> QED
    BY <2>1, <2>2 DEF FinalStep
<1>9. ASSUME NEW l \in Loan, CompleteLoan(l) PROVE FinalStep
  BY <1>0, <1>9 DEF CompleteLoan, FinalStep
<1>10. ASSUME NEW k \in Installment,
              SettleAborts(k) \/ \E tx \in Tx : SettleBegins(k, tx)
       PROVE  FinalStep
  BY <1>10 DEF SettleBegins, SettleAborts, FinalStep
<1> QED
  BY <1>1, <1>2, <1>3, <1>4, <1>5, <1>6, <1>7, <1>8, <1>9, <1>10 DEF DbStep, DbNext

\* A step of either kind keeps TablesInv and takes nothing back.
LEMMA DbStepKept == TablesInv /\ [DbStep]_dbVars => TablesInv' /\ FinalStep
<1> SUFFICES ASSUME TablesInv, [DbStep]_dbVars PROVE TablesInv' /\ FinalStep
  OBVIOUS
<1>1. TablesInv'
  BY DbNextKept, CompleteLoanTables DEF DbStep, Kept
<1>2. ASSUME UNCHANGED dbVars PROVE FinalStep
  <2>1. /\ inst' = inst /\ intent' = intent /\ candidate' = candidate
        /\ loanStatus' = loanStatus
    BY <1>2 DEF dbVars
  <2> QED
    BY <2>1, SameRowFinal DEF FinalStep
<1> QED
  BY <1>1, <1>2, StepFinal

\* What is settled stays settled, whatever statements run and in whatever
\* order.
THEOREM FinalSettlement == DbSpec => SettlementIsFinal
<1>1. IInv /\ [DbNext]_dbVars => [FinalStep]_dbVars
  BY StepFinal DEF IInv, DbStep
<1>2. [][FinalStep]_dbVars <=> SettlementIsFinal
  BY PTL DEF FinalStep, FinalRow, SettlementIsFinal
<1> QED
  BY <1>1, <1>2, DbInvariant, PTL DEF DbSpec

-----------------------------------------------------------------------------
(* The tables implement PaymentBook: each statement is a step of the       *)
(* libreta or leaves it as it is.                                          *)

Receipts == [k \in Installment |-> inst[k].receipt]
Closed == {l \in Loan : loanStatus[l] = "COMPLETED"}

\* The initial tables map to the initial libreta.
LEMMA InitBook == DbInit => Book!Init
  BY DEF DbInit, Book!Init, BookStage, UnpaidRow

\* Statements that change no installment and no loan change no libreta.
LEMMA StutterBook ==
  ASSUME inst' = inst, loanStatus' = loanStatus
  PROVE  UNCHANGED Book!bookVars
  BY DEF Book!bookVars, BookStage

\* How the stage of one installment moves when its row changes.
LEMMA StageUpdate ==
  ASSUME NEW k \in Installment, NEW s,
         \A j \in Installment \ {k} : inst'[j] = inst[j],
         s = BookStage'[k]
  PROVE  BookStage' = [BookStage EXCEPT ![k] = s]
  BY DEF BookStage

\* The same for its receipt.
LEMMA ReceiptUpdate ==
  ASSUME NEW k \in Installment, NEW r,
         \A j \in Installment \ {k} : inst'[j] = inst[j],
         inst'[k].receipt = r
  PROVE  Receipts' = [Receipts EXCEPT ![k] = r]
  BY DEF Receipts

\* A new intent reserves an open installment in order.
LEMMA CreateIntentBook ==
  ASSUME TablesInv, NEW k \in Installment, NEW a \in Profile, NEW w \in Wallet,
         NEW g \in Ledger, CreateIntent(k, a, w, g)
  PROVE  Book!Reserve(k, "POLLAR")
<1>1. /\ inst \in [Installment -> InstallmentRow] /\ inst[k] \in InstallmentRow
      /\ inst' = [inst EXCEPT ![k].rail = "POLLAR"]
      /\ loanStatus' = loanStatus /\ Available(k)
  BY DEF TablesInv, DbTypeOK, CreateIntent
<1>2. /\ \A j \in Installment \ {k} : inst'[j] = inst[j]
      /\ inst'[k].rail = "POLLAR" /\ inst'[k].status = "PENDING"
      /\ inst'[k].receipt = inst[k].receipt
      /\ inst[k].rail = Null /\ inst[k].status = "PENDING"
  BY <1>1 DEF Available, InstallmentRow
<1>3. BookStage[k] = "OPEN" /\ BookStage'[k] = "POLLAR"
  BY <1>2, NullAssumption DEF BookStage
<1>4. \A j \in Earlier(k) : BookStage[j] = "ATTESTED"
  BY <1>1 DEF Available, BookStage, Earlier, InstallmentsOf
<1>5. BookStage' = [BookStage EXCEPT ![k] = "POLLAR"]
  BY <1>2, <1>3, StageUpdate
<1>6. Receipts' = Receipts
  BY <1>2 DEF Receipts
<1> QED
  BY <1>1, <1>3, <1>4, <1>5, <1>6 DEF Book!Reserve, Receipts

\* Settlement pays a reserved installment with an unused receipt and closes
\* the loan only with the last one.
LEMMA SettleBook ==
  ASSUME TablesInv, NEW k \in Installment, NEW tx \in Tx,
         Settle(k, tx, PollarReceipt(k, tx))
  PROVE  Book!Pay(k, PollarReceipt(k, tx))
<1> DEFINE r == PollarReceipt(k, tx)
<1>1. /\ inst \in [Installment -> InstallmentRow] /\ inst[k] \in InstallmentRow
      /\ loanStatus \in [Loan -> {"ACTIVE", "COMPLETED"}]
      /\ LoanOf[k] \in Loan /\ r \in Receipt
  BY DbAssumption DEF TablesInv, DbTypeOK, Receipt
<1>2. /\ inst[k].rail = "POLLAR" /\ inst[k].status = "PENDING"
      /\ inst[k].receipt = Null
  BY LockedRow, NullAssumption DEF Settle, TablesInv, RowsAgree, RowInv
<1>3. /\ \A j \in Installment \ {k} : inst'[j] = inst[j]
      /\ inst'[k].rail = "POLLAR" /\ inst'[k].status = "PAID"
      /\ inst'[k].receipt = r /\ inst'[k].sync = "PENDING"
  BY <1>1, <1>2 DEF Settle, InstallmentRow
<1>4. /\ loanStatus' = IF LastOfLoan(k)
                       THEN [loanStatus EXCEPT ![LoanOf[k]] = "COMPLETED"]
                       ELSE loanStatus
      /\ ReceiptUnused(k, r)
  BY DEF Settle
<1> HIDE DEF r
<1>5. BookStage[k] = "POLLAR" /\ BookStage'[k] = "PAID"
  BY <1>2, <1>3, NullAssumption DEF BookStage
<1>6. BookStage' = [BookStage EXCEPT ![k] = IF @ = "CASH" THEN "ATTESTED" ELSE "PAID"]
  BY <1>3, <1>5, StageUpdate
<1>7. Receipts' = [Receipts EXCEPT ![k] = r]
  BY <1>3, ReceiptUpdate
<1>8. \A j \in Installment : Receipts[j] # r
  BY <1>1, <1>2, <1>4, NullAssumption DEF Receipts, ReceiptUnused
<1>9. \/ Closed' = Closed
      \/ /\ \A j \in Installment : LoanOf[j] = LoanOf[k] => BookStage'[j] \in {"PAID", "ATTESTED"}
         /\ Closed' = Closed \cup {LoanOf[k]}
  <2>1. CASE ~LastOfLoan(k)
    BY <1>4, <2>1 DEF Closed
  <2>2. CASE LastOfLoan(k)
    <3>1. Closed' = Closed \cup {LoanOf[k]}
      BY <1>1, <1>4, <2>2 DEF Closed
    <3>2. \A j \in Installment : LoanOf[j] = LoanOf[k] => inst'[j].status = "PAID"
      BY <1>3, <2>2 DEF LastOfLoan, InstallmentsOf
    <3> QED
      BY <3>1, <3>2 DEF BookStage
  <2> QED
    BY <2>1, <2>2
<1> QED
  BY <1>5, <1>6, <1>7, <1>8, <1>9
     DEF Book!Pay, Book!Rail, Book!Paid, Receipts, Closed, r

\* Anchoring attests a paid installment, or repeats what was done.
LEMMA MarkAnchoredBook ==
  ASSUME TablesInv, NEW k \in Installment, NEW known \in BOOLEAN,
         MarkAnchored(k, known)
  PROVE  Book!Attest(k) \/ UNCHANGED Book!bookVars
<1>1. /\ inst \in [Installment -> InstallmentRow] /\ inst[k] \in InstallmentRow
      /\ loanStatus' = loanStatus
  BY DEF TablesInv, DbTypeOK, MarkAnchored
<1>2. inst[k].status = "PAID" /\ inst[k].receipt = intent[k].receipt
  BY DEF MarkAnchored, Anchorable, TablesInv, RowsAgree, RowInv
<1>3. inst' = [inst EXCEPT ![k].sync = "SYNCED"]
  BY <1>2 DEF MarkAnchored
<1>4. /\ \A j \in Installment \ {k} : inst'[j] = inst[j]
      /\ inst'[k].sync = "SYNCED" /\ inst'[k].status = "PAID"
      /\ inst'[k].receipt = inst[k].receipt /\ inst'[k].rail = inst[k].rail
  BY <1>1, <1>2, <1>3 DEF InstallmentRow
<1>5. BookStage' = [BookStage EXCEPT ![k] = "ATTESTED"] /\ Receipts' = Receipts
  <2>1. BookStage'[k] = "ATTESTED"
    BY <1>4 DEF BookStage
  <2> QED
    BY <1>4, <2>1, StageUpdate DEF Receipts
<1>6. CASE inst[k].sync = "SYNCED"
  <2>1. BookStage[k] = "ATTESTED"
    BY <1>2, <1>6 DEF BookStage
  <2>2. BookStage' = BookStage
    BY <1>5, <2>1 DEF BookStage
  <2> QED
    BY <1>1, <1>5, <2>2 DEF Book!bookVars, Receipts
<1>7. CASE inst[k].sync # "SYNCED"
  <2>1. BookStage[k] = "PAID"
    BY <1>2, <1>7 DEF BookStage
  <2> QED
    BY <1>1, <1>5, <2>1 DEF Book!Attest, Receipts
<1> QED
  BY <1>6, <1>7

\* Claiming cash reserves an open installment, or finds it reserved for cash.
LEMMA ClaimCashBook ==
  ASSUME TablesInv, NEW k \in Installment, ClaimCash(k)
  PROVE  Book!Reserve(k, "CASH") \/ UNCHANGED Book!bookVars
<1>1. /\ inst \in [Installment -> InstallmentRow] /\ inst[k] \in InstallmentRow
      /\ loanStatus' = loanStatus
      /\ inst' = [inst EXCEPT ![k].rail = "CASH"]
      /\ inst[k].status = "PENDING" /\ inst[k].rail \in {Null, "CASH"}
  BY DEF TablesInv, DbTypeOK, ClaimCash, Claimable, InstallmentRow
<1>2. /\ \A j \in Installment \ {k} : inst'[j] = inst[j]
      /\ inst'[k].rail = "CASH" /\ inst'[k].status = "PENDING"
      /\ inst'[k].receipt = inst[k].receipt
  BY <1>1 DEF InstallmentRow
<1>3. BookStage' = [BookStage EXCEPT ![k] = "CASH"] /\ Receipts' = Receipts
  <2>1. BookStage'[k] = "CASH"
    BY <1>2, NullAssumption DEF BookStage
  <2> QED
    BY <1>2, <2>1, StageUpdate DEF Receipts
<1>4. CASE inst[k].rail = Null
  <2>1. BookStage[k] = "OPEN"
    BY <1>1, <1>4 DEF BookStage
  <2> QED
    BY <1>1, <1>3, <2>1 DEF Book!Reserve, Receipts
<1>5. CASE inst[k].rail = "CASH"
  <2>1. BookStage[k] = "CASH"
    BY <1>1, <1>5, NullAssumption DEF BookStage
  <2>2. BookStage' = BookStage
    BY <1>3, <2>1 DEF BookStage
  <2> QED
    BY <1>1, <1>3, <2>2 DEF Book!bookVars, Receipts
<1> QED
  BY <1>1, <1>4, <1>5

\* Cash pays a reserved installment with an unused receipt, attested at once,
\* or repeats a payment already stored.
LEMMA PayCashBook ==
  ASSUME TablesInv, NEW k \in Installment, NEW r \in CashReceipt,
         inst[k].rail = "CASH", PayCash(k, r)
  PROVE  Book!Pay(k, r) \/ UNCHANGED Book!bookVars
<1>1. /\ inst \in [Installment -> InstallmentRow] /\ inst[k] \in InstallmentRow
      /\ loanStatus' = loanStatus /\ CashPayable(k, r) /\ r \in Receipt
      /\ inst' = [inst EXCEPT ![k] =
                    [@ EXCEPT !.status = "PAID", !.method = "CASH",
                              !.receipt = r, !.sync = "SYNCED"]]
  BY DEF TablesInv, DbTypeOK, PayCash, Receipt
<1>2. /\ \A j \in Installment \ {k} : inst'[j] = inst[j]
      /\ inst'[k].sync = "SYNCED" /\ inst'[k].status = "PAID"
      /\ inst'[k].receipt = r
  BY <1>1 DEF InstallmentRow
<1>3. BookStage' = [BookStage EXCEPT ![k] = "ATTESTED"]
      /\ Receipts' = [Receipts EXCEPT ![k] = r]
  <2>1. BookStage'[k] = "ATTESTED"
    BY <1>2 DEF BookStage
  <2> QED
    BY <1>2, <2>1, StageUpdate, ReceiptUpdate
<1>4. CASE inst[k].status = "PAID"
  <2>1. Receipts[k] = r /\ inst[k].rail = "CASH" /\ inst[k].receipt = r
    BY <1>1, <1>4 DEF CashPayable, Receipts
  <2>2. Receipts' = Receipts
    BY <1>3, <2>1 DEF Receipts
  <2>3. CASE inst[k].sync = "SYNCED"
    <3>1. BookStage[k] = "ATTESTED"
      BY <1>4, <2>3 DEF BookStage
    <3>2. BookStage' = BookStage
      BY <1>3, <3>1 DEF BookStage
    <3> QED
      BY <1>1, <2>2, <3>2 DEF Book!bookVars, Receipts
  <2>4. inst[k].sync = "SYNCED"
    BY <1>4, <2>1 DEF TablesInv, RowsAgree, RowInv
  <2> QED
    BY <2>3, <2>4
<1>5. CASE inst[k].status # "PAID"
  <2>1. BookStage[k] = "CASH"
    BY <1>5, NullAssumption DEF BookStage
  <2>2. inst[k].receipt = Null
    BY <1>1, <1>5 DEF TablesInv, RowsAgree, RowInv, InstallmentRow
  <2>3. \A j \in Installment : Receipts[j] # r
    BY <1>1, <2>2, NullAssumption DEF Receipts, CashPayable, ReceiptUnused
  <2> QED
    BY <1>1, <1>3, <2>1, <2>3 DEF Book!Pay, Book!Rail, Receipts
<1> QED
  BY <1>4, <1>5

\* Completing a loan closes a libreta whose installments are all paid.
LEMMA CompleteLoanBook ==
  ASSUME TablesInv, NEW l \in Loan, AllPaid(l), CompleteLoan(l)
  PROVE  Book!Close(l)
<1>1. /\ loanStatus \in [Loan -> {"ACTIVE", "COMPLETED"}]
      /\ loanStatus' = [loanStatus EXCEPT ![l] = "COMPLETED"]
      /\ inst' = inst
  BY DEF TablesInv, DbTypeOK, CompleteLoan
<1>2. Closed' = Closed \cup {l}
  BY <1>1 DEF Closed
<1>3. \A k \in Installment : LoanOf[k] = l => BookStage[k] \in {"PAID", "ATTESTED"}
  BY DEF AllPaid, InstallmentsOf, BookStage
<1>4. BookStage' = BookStage /\ Receipts' = Receipts
  BY <1>1 DEF BookStage, Receipts
<1> QED
  BY <1>2, <1>3, <1>4 DEF Book!Close, Book!Paid, Receipts, Closed

\* Every statement is a step of the libreta or a stutter.
LEMMA NextBook == TablesInv /\ [DbNext]_dbVars => [Book!Next]_(Book!bookVars)
<1> SUFFICES ASSUME TablesInv, [DbNext]_dbVars
             PROVE  Book!Next \/ UNCHANGED Book!bookVars
  OBVIOUS
<1>1. CASE inst' = inst /\ loanStatus' = loanStatus
  BY <1>1, StutterBook
<1>2. ASSUME NEW k \in Installment, NEW rail \in {"CASH", "POLLAR"},
             Book!Reserve(k, rail)
      PROVE  Book!Next
  BY <1>2 DEF Book!Next, Book!Rail
<1>3. ASSUME NEW k \in Installment, NEW r \in Receipt, Book!Pay(k, r)
      PROVE  Book!Next
  BY <1>3 DEF Book!Next
<1>4. ASSUME NEW k \in Installment, Book!Attest(k) PROVE Book!Next
  BY <1>4 DEF Book!Next
<1>5. ASSUME NEW l \in Loan, Book!Close(l) PROVE Book!Next
  BY <1>5 DEF Book!Next
<1>6. CASE DbNext
  <2>1. ASSUME NEW p, NEW w, SetRoute(p, w) PROVE UNCHANGED Book!bookVars
    BY <2>1, StutterBook DEF SetRoute
  <2>2. ASSUME NEW k \in Installment, NEW a, NEW tx \in Tx,
               Observe(k, a, tx) \/ Reject(k, tx)
                  \/ SettleBegins(k, tx)
        PROVE  UNCHANGED Book!bookVars
    BY <2>2, StutterBook DEF Observe, Reject, SettleBegins
  <2>3. ASSUME NEW k \in Installment, NEW tx \in Tx,
               Settle(k, tx, PollarReceipt(k, tx))
        PROVE  Book!Next
    <3>1. PollarReceipt(k, tx) \in Receipt
      BY DEF Receipt
    <3> QED
      BY <1>3, <2>3, <3>1, SettleBook
  <2>4. ASSUME NEW k \in Installment, NEW r \in CashReceipt,
               inst[k].rail = "CASH", PayCash(k, r)
        PROVE  Book!Next \/ UNCHANGED Book!bookVars
    <3>1. r \in Receipt
      BY DEF Receipt
    <3> QED
      BY <1>3, <2>4, <3>1, PayCashBook
  <2>5. ASSUME NEW k \in Installment, NEW a \in Profile, NEW w \in Wallet,
               NEW g \in Ledger, CreateIntent(k, a, w, g)
        PROVE  Book!Next
    BY <1>2, <2>5, CreateIntentBook
  <2>6. ASSUME NEW k \in Installment, NEW known \in BOOLEAN, MarkAnchored(k, known)
        PROVE  Book!Next \/ UNCHANGED Book!bookVars
    BY <1>4, <2>6, MarkAnchoredBook
  <2>7. ASSUME NEW k \in Installment, ClaimCash(k)
        PROVE  Book!Next \/ UNCHANGED Book!bookVars
    BY <1>2, <2>7, ClaimCashBook
  <2>8. ASSUME NEW l \in Loan, AllPaid(l), CompleteLoan(l) PROVE Book!Next
    BY <1>5, <2>8, CompleteLoanBook
  <2>9. ASSUME NEW k \in Installment, SettleAborts(k)
        PROVE  UNCHANGED Book!bookVars
    BY <2>9, StutterBook DEF SettleAborts
  <2> QED
    BY <1>6, <2>1, <2>2, <2>3, <2>4, <2>5, <2>6, <2>7, <2>8, <2>9 DEF DbNext
<1> QED
  BY <1>1, <1>6 DEF dbVars

\* The settlement tables implement the libreta.
THEOREM TablesImplementBook == DbSpec => ImplementsBook
  BY InitBook, NextBook, DbInvariant, PTL DEF IInv, DbSpec, ImplementsBook, Book!Spec
=============================================================================
