--------------------------- MODULE RegistryProofs ---------------------------
(***************************************************************************)
(* Theorems about the contract, for every set of loans, accounts and       *)
(* proofs and every bound of the counter.                                  *)
(***************************************************************************)
EXTENDS Registry, TLAPS

\* A slot of the mapping never written still holds its default value: without
\* it a registration could start on top of earlier proofs.
UnregisteredIsEmpty ==
    \A l \in LoanIds : ~loans[l].registered => loans[l] = EmptyLoan

IInv ==
    /\ TypeOK
    /\ UnregisteredIsEmpty
    /\ ProofsAreTheInstallments
    /\ CompletedWhenFullyPaid

\* The initial state satisfies the invariant.
LEMMA InitIInv == Init => IInv
  BY RegistryAssumption
  DEF Init, IInv, TypeOK, UnregisteredIsEmpty, ProofsAreTheInstallments,
      CompletedWhenFullyPaid, LoanStruct, EmptyLoan, Uint16, LoanStatus, PaymentProof

\* registerLoan preserves it: the slot it writes was empty.
LEMMA RegisterLoanIInv ==
  ASSUME IInv, NEW sender \in Addresses, NEW l \in LoanIds,
         NEW b \in Addresses \cup {ZeroAddress}, NEW n \in Uint16,
         RegisterLoan(sender, l, b, n)
  PROVE  IInv'
<1> DEFINE new == [lender |-> sender, borrower |-> b, totalInstallments |-> n,
                   paidInstallments |-> 0, registered |-> TRUE,
                   status |-> "ACTIVE"]
<1>1. /\ loans' = [loans EXCEPT ![l] = new]
      /\ borrowerLoans' = [borrowerLoans EXCEPT ![b] = Append(@, l)]
      /\ loanProofs' = loanProofs
      /\ n > 0 /\ b \in Addresses
      /\ loans[l] = EmptyLoan
  BY DEF RegisterLoan, CanRegister, IInv, UnregisteredIsEmpty
<1>2. new \in LoanStruct
  BY RegistryAssumption DEF LoanStruct, Uint16, LoanStatus
<1>3. TypeOK'
  BY <1>1, <1>2 DEF IInv, TypeOK
<1>4. UnregisteredIsEmpty'
  BY <1>1 DEF IInv, TypeOK, UnregisteredIsEmpty
<1>5. ProofsAreTheInstallments'
  BY <1>1 DEF IInv, TypeOK, ProofsAreTheInstallments, EmptyLoan
<1>6. CompletedWhenFullyPaid'
  BY <1>1 DEF IInv, TypeOK, CompletedWhenFullyPaid, Uint16
<1> QED
  BY <1>3, <1>4, <1>5, <1>6 DEF IInv

\* confirmPayment preserves it: the proof it appends is the next one.
LEMMA ConfirmPaymentIInv ==
  ASSUME IInv, NEW sender \in Addresses, NEW l \in LoanIds,
         NEW n \in Uint16, NEW d \in ProofData,
         ConfirmPayment(sender, l, n, d)
  PROVE  IInv'
<1> DEFINE paid == loans[l].paidInstallments
           proof == [data |-> d, installmentNumber |-> n]
           status == StatusAfter(loans[l], paid + 1)
           new == Confirmed(loans[l])
<1>1. /\ loans[l] \in LoanStruct
      /\ loanProofs[l] \in Seq(PaymentProof)
      /\ MaxUint16 \in Nat
      /\ paid \in Nat
  BY RegistryAssumption DEF IInv, TypeOK, LoanStruct, Uint16
<1>2. /\ loans' = [loans EXCEPT ![l] = new]
      /\ loanProofs' = [loanProofs EXCEPT ![l] = Append(@, proof)]
      /\ borrowerLoans' = borrowerLoans
      /\ n = paid + 1 /\ paid + 1 \in Uint16
      /\ loans[l].status = "ACTIVE"
  <2>1. CanConfirm(sender, l, n) /\ UNCHANGED borrowerLoans
    BY DEF ConfirmPayment
  <2>2. loans' = [loans EXCEPT ![l] = new]
    BY DEF ConfirmPayment
  <2>3. loanProofs' = [loanProofs EXCEPT ![l] = Append(@, proof)]
    BY DEF ConfirmPayment
  <2> QED
    BY <2>1, <2>2, <2>3, <1>1 DEF CanConfirm, Uint16
<1>3. status \in LoanStatus /\ status \in {"ACTIVE", "COMPLETED"}
      /\ (status = "COMPLETED" <=> paid + 1 = loans[l].totalInstallments)
  BY <1>2 DEF StatusAfter, LoanStatus
<1>4. new \in LoanStruct /\ proof \in PaymentProof
  BY <1>1, <1>2, <1>3 DEF LoanStruct, PaymentProof, Confirmed
<1>5. loans[l].registered
  BY <1>2 DEF IInv, UnregisteredIsEmpty, EmptyLoan
<1>6. paid + 1 <= loans[l].totalInstallments
  BY <1>1, <1>2, <1>5 DEF IInv, CompletedWhenFullyPaid, LoanStruct, Uint16
<1>7. TypeOK'
  BY <1>1, <1>2, <1>4 DEF IInv, TypeOK
<1>8. UnregisteredIsEmpty'
  BY <1>1, <1>2, <1>5 DEF IInv, TypeOK, UnregisteredIsEmpty, LoanStruct, Confirmed
<1>9. ProofsAreTheInstallments'
  <2> SUFFICES ASSUME NEW m \in LoanIds
               PROVE  /\ Len(loanProofs'[m]) = loans'[m].paidInstallments
                      /\ \A j \in 1 .. Len(loanProofs'[m]) :
                            loanProofs'[m][j].installmentNumber = j
    BY DEF ProofsAreTheInstallments
  <2>1. CASE m # l
    BY <1>2, <2>1 DEF IInv, TypeOK, ProofsAreTheInstallments
  <2>2. CASE m = l
    <3>1. loanProofs'[l] = Append(loanProofs[l], proof) /\ loans'[l] = new
      BY <1>2 DEF IInv, TypeOK
    <3>2. Len(loanProofs[l]) = paid
          /\ \A j \in 1 .. paid : loanProofs[l][j].installmentNumber = j
      BY DEF IInv, ProofsAreTheInstallments
    <3>3. new.paidInstallments = paid + 1
      BY <1>1 DEF LoanStruct, Confirmed
    <3>4. /\ Len(loanProofs'[l]) = paid + 1
          /\ \A j \in 1 .. paid : loanProofs'[l][j] = loanProofs[l][j]
          /\ loanProofs'[l][paid + 1] = proof
      BY <3>1, <3>2, <1>1, <1>4
    <3> QED
      <4>1. \A j \in 1 .. paid + 1 : loanProofs'[l][j].installmentNumber = j
        BY <3>2, <3>4, <1>1, <1>2
      <4> QED
        BY <3>1, <3>3, <3>4, <4>1, <2>2
  <2> QED
    BY <2>1, <2>2
<1>10. CompletedWhenFullyPaid'
  BY <1>1, <1>2, <1>3, <1>5, <1>6 DEF IInv, TypeOK, CompletedWhenFullyPaid, LoanStruct, Confirmed
<1> QED
  BY <1>7, <1>8, <1>9, <1>10 DEF IInv

\* Every step preserves the invariant.
LEMMA NextIInv == IInv /\ [Next]_vars => IInv'
<1> SUFFICES ASSUME IInv, [Next]_vars PROVE IInv'
  OBVIOUS
<1>1. CASE Next
  BY <1>1, RegisterLoanIInv, ConfirmPaymentIInv DEF Next
<1>2. CASE UNCHANGED vars
  BY <1>2 DEF vars, IInv, TypeOK, UnregisteredIsEmpty,
              ProofsAreTheInstallments, CompletedWhenFullyPaid
<1> QED
  BY <1>1, <1>2

\* The inductive invariant of the contract.
THEOREM RegistryInvariant == Spec => []IInv
  BY InitIInv, NextIInv, PTL DEF Spec

\* The proofs stored for a loan are those of installments 1..paid, in order,
\* in every reachable state of the contract.
THEOREM ProofsInOrder == Spec => []ProofsAreTheInstallments
  BY RegistryInvariant, PTL DEF IInv

\* COMPLETED means fully paid and nothing is paid beyond the total.
THEOREM CompletionIsExact == Spec => []CompletedWhenFullyPaid
  BY RegistryInvariant, PTL DEF IInv

\* No transaction rewrites a loan's terms, its earlier proofs or a completed
\* loan.
THEOREM ImmutableHistory == Spec => HistoryIsImmutable
<1> DEFINE Same(l) ==
      /\ loans[l].registered =>
            /\ loans'[l].registered
            /\ loans'[l].lender = loans[l].lender
            /\ loans'[l].borrower = loans[l].borrower
            /\ loans'[l].totalInstallments = loans[l].totalInstallments
      /\ \/ loanProofs'[l] = loanProofs[l]
         \/ \E p \in PaymentProof : loanProofs'[l] = Append(loanProofs[l], p)
      /\ loans[l].status = "COMPLETED" =>
            /\ loans'[l] = loans[l]
            /\ loanProofs'[l] = loanProofs[l]
<1>1. ASSUME IInv, Next, NEW l \in LoanIds PROVE Same(l)
  <2>1. PICK sender \in Addresses, m \in LoanIds :
          \/ \E b \in Addresses \cup {ZeroAddress}, n \in Uint16 :
                RegisterLoan(sender, m, b, n)
          \/ \E n \in Uint16, d \in ProofData : ConfirmPayment(sender, m, n, d)
    BY <1>1 DEF Next
  <2>2. ASSUME NEW b \in Addresses \cup {ZeroAddress}, NEW n \in Uint16,
               RegisterLoan(sender, m, b, n)
        PROVE  Same(l)
    BY <1>1, <2>2 DEF RegisterLoan, CanRegister, IInv, TypeOK,
                      UnregisteredIsEmpty, EmptyLoan
  <2>3. ASSUME NEW n \in Uint16, NEW d \in ProofData,
               ConfirmPayment(sender, m, n, d)
        PROVE  Same(l)
    <3>1. [data |-> d, installmentNumber |-> n] \in PaymentProof
      BY DEF PaymentProof
    <3> QED
      BY <1>1, <2>3, <3>1 DEF ConfirmPayment, CanConfirm, Confirmed, IInv, TypeOK, LoanStruct
  <2> QED
    BY <2>1, <2>2, <2>3
<1>2. IInv /\ [Next]_vars => [\A l \in LoanIds : Same(l)]_vars
  BY <1>1
<1> QED
  BY <1>2, RegistryInvariant, PTL DEF Spec, HistoryIsImmutable

\* The mappings keep their types.
THEOREM TypesOfRegistry == Spec => []TypeOK
  BY RegistryInvariant, PTL DEF IInv

\* The index before a registration does not list the loan, as it is exact.
LEMMA IndexStep == IInv /\ BorrowerIndexExact /\ [Next]_vars => BorrowerIndexExact'
<1> DEFINE Places(l, a) == {j \in 1 .. Len(borrowerLoans[a]) : borrowerLoans[a][j] = l}
           Exact(l, a) == IF loans[l].registered /\ loans[l].borrower = a
                          THEN \E j \in Places(l, a) : Places(l, a) = {j}
                          ELSE Places(l, a) = {}
<1> SUFFICES ASSUME IInv, BorrowerIndexExact, [Next]_vars,
                    NEW m \in LoanIds, NEW a \in Addresses
             PROVE  Exact(m, a)'
  BY DEF BorrowerIndexExact
<1>1. Exact(m, a)
  BY DEF BorrowerIndexExact
<1>2. ASSUME NEW sender \in Addresses, NEW l \in LoanIds,
             NEW b \in Addresses \cup {ZeroAddress}, NEW n \in Uint16,
             RegisterLoan(sender, l, b, n)
      PROVE  Exact(m, a)'
  <2>1. /\ b \in Addresses
        /\ ~ loans[l].registered
        /\ loans' = [loans EXCEPT ![l] =
              [lender |-> sender, borrower |-> b, totalInstallments |-> n,
               paidInstallments |-> 0, registered |-> TRUE, status |-> "ACTIVE"]]
        /\ borrowerLoans' = [borrowerLoans EXCEPT ![b] = Append(@, l)]
        /\ loans \in [LoanIds -> LoanStruct]
        /\ borrowerLoans \in [Addresses -> Seq(LoanIds)]
    BY <1>2 DEF RegisterLoan, CanRegister, IInv, TypeOK, UnregisteredIsEmpty, EmptyLoan
  <2>2. CASE a # b
    <3>1. borrowerLoans'[a] = borrowerLoans[a]
      BY <2>1, <2>2
    <3>2. CASE m = l
      BY <1>1, <2>1, <2>2, <3>1, <3>2
    <3>3. CASE m # l
      BY <1>1, <2>1, <3>1, <3>3
    <3> QED
      BY <3>2, <3>3
  <2>3. CASE a = b
    <3> DEFINE len == Len(borrowerLoans[a])
    <3>1. /\ borrowerLoans'[a] = Append(borrowerLoans[a], l)
          /\ borrowerLoans[a] \in Seq(LoanIds)
          /\ len \in Nat
      BY <2>1, <2>3
    <3>2. /\ Len(borrowerLoans'[a]) = len + 1
          /\ \A j \in 1 .. len : borrowerLoans'[a][j] = borrowerLoans[a][j]
          /\ borrowerLoans'[a][len + 1] = l
      BY <3>1
    <3>3. CASE m = l
      <4>1. Places(l, a) = {}
        BY <1>1, <2>1, <3>3
      <4>2. Places(l, a)' = {len + 1}
        BY <4>1, <3>1, <3>2
      <4>3. loans'[l].registered /\ loans'[l].borrower = a
        BY <2>1, <2>3
      <4> QED
        BY <4>2, <4>3, <3>3
    <3>4. CASE m # l
      <4>1. Places(m, a)' = Places(m, a)
        BY <3>1, <3>2, <3>4
      <4>2. loans'[m] = loans[m]
        BY <2>1, <3>4
      <4> QED
        BY <1>1, <4>1, <4>2
    <3> QED
      BY <3>3, <3>4
  <2> QED
    BY <2>2, <2>3
<1>3. ASSUME NEW sender \in Addresses, NEW l \in LoanIds,
             NEW n \in Uint16, NEW d \in ProofData, ConfirmPayment(sender, l, n, d)
      PROVE  Exact(m, a)'
  <2>1. /\ borrowerLoans' = borrowerLoans
        /\ loans'[m].registered = loans[m].registered
        /\ loans'[m].borrower = loans[m].borrower
    BY <1>3 DEF ConfirmPayment, Confirmed, IInv, TypeOK, LoanStruct
  <2> QED
    BY <1>1, <2>1
<1>4. CASE UNCHANGED vars
  BY <1>1, <1>4 DEF vars
<1> QED
  BY <1>2, <1>3, <1>4 DEF Next

\* The borrower index is exact in every reachable state: as a registered loan
\* can never be registered again, it is appended once.
THEOREM IndexIsExact == Spec => []BorrowerIndexExact
<1>1. Init => BorrowerIndexExact
  BY DEF Init, BorrowerIndexExact, EmptyLoan
<1> QED
  BY <1>1, IndexStep, RegistryInvariant, PTL DEF Spec
=============================================================================
