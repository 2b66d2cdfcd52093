------------------------------ MODULE Registry ------------------------------
(***************************************************************************)
(* contracts/LibretaRegistry.sol: the loan register on HSK Chain.  A       *)
(* transaction either runs completely or reverts, so every external        *)
(* function is one atomic action whose guards are its `require`s.          *)
(* Timestamps are left out, except createdAt, which registerLoan tests     *)
(* against zero: it is the Boolean `registered`.                           *)
(***************************************************************************)
EXTENDS Integers, Sequences

CONSTANTS
    LoanIds,        \* bytes32 loan identifiers
    Addresses,      \* accounts that call the contract or borrow
    ZeroAddress,    \* address(0)
    ProofData,      \* (receiptHash, isDigital, externalTxHash) of a proof
    MaxUint16       \* largest uint16; small in a model-checked instance

ASSUME RegistryAssumption ==
    /\ MaxUint16 \in Nat \ {0}
    /\ ZeroAddress \notin Addresses

VARIABLES
    loans,          \* loanId -> LoanStruct
    loanProofs,     \* loanId -> sequence of PaymentProof
    borrowerLoans   \* borrower -> sequence of loanIds

vars == <<loans, loanProofs, borrowerLoans>>

Uint16 == 0 .. MaxUint16

LoanStatus == {"CREATED", "ACTIVE", "COMPLETED", "DEFAULTED"}

LoanStruct == [lender : Addresses \cup {ZeroAddress},
         borrower : Addresses \cup {ZeroAddress},
         totalInstallments : Uint16,
         paidInstallments : Uint16,
         registered : BOOLEAN,
         status : LoanStatus]

PaymentProof == [data : ProofData, installmentNumber : Uint16]

\* The value a mapping holds for a key never written: every field is zero.
EmptyLoan == [lender |-> ZeroAddress, borrower |-> ZeroAddress,
              totalInstallments |-> 0, paidInstallments |-> 0,
              registered |-> FALSE, status |-> "CREATED"]

Init ==
    /\ loans = [l \in LoanIds |-> EmptyLoan]
    /\ loanProofs = [l \in LoanIds |-> <<>>]
    /\ borrowerLoans = [a \in Addresses |-> <<>>]

\* Mutant: registering an existing id is not refused.
CanRegisterAgain(loanId, borrower, total) ==
    total > 0 /\ borrower # ZeroAddress

\* What registerLoan requires.
CanRegister(loanId, borrower, total) ==
    /\ ~loans[loanId].registered
    /\ total > 0
    /\ borrower # ZeroAddress

RegisterLoan(sender, loanId, borrower, total) ==
    /\ CanRegister(loanId, borrower, total)
    /\ loans' = [loans EXCEPT ![loanId] =
                    [lender |-> sender, borrower |-> borrower,
                     totalInstallments |-> total, paidInstallments |-> 0,
                     registered |-> TRUE, status |-> "ACTIVE"]]
    /\ borrowerLoans' = [borrowerLoans EXCEPT ![borrower] = Append(@, loanId)]
    /\ UNCHANGED loanProofs

\* Mutants: only the caller is checked; installments may be skipped.
CanConfirmUnchecked(sender, loanId, number) == sender = loans[loanId].lender
CanConfirmLater(sender, loanId, number) ==
    /\ loans[loanId].status = "ACTIVE"
    /\ sender = loans[loanId].lender
    /\ number > loans[loanId].paidInstallments

\* What confirmPayment requires; `paidInstallments + 1` is checked arithmetic
\* on uint16 and reverts when it overflows.
CanConfirm(sender, loanId, number) ==
    /\ loans[loanId].status = "ACTIVE"
    /\ sender = loans[loanId].lender
    /\ loans[loanId].paidInstallments + 1 <= MaxUint16
    /\ number = loans[loanId].paidInstallments + 1

\* Mutant: off by one.
StatusAfterOneMore(loan, paid) ==
    IF paid > loan.totalInstallments THEN "COMPLETED" ELSE loan.status

StatusAfter(loan, paid) ==
    IF paid = loan.totalInstallments THEN "COMPLETED" ELSE loan.status

Confirmed(loan) ==
    LET paid == loan.paidInstallments + 1
    IN  [loan EXCEPT !.paidInstallments = paid,
                     !.status = StatusAfter(loan, paid)]

ConfirmPayment(sender, loanId, number, data) ==
    /\ CanConfirm(sender, loanId, number)
    /\ loans' = [loans EXCEPT ![loanId] = Confirmed(@)]
    /\ loanProofs' = [loanProofs EXCEPT ![loanId] =
                        Append(@, [data |-> data, installmentNumber |-> number])]
    /\ UNCHANGED borrowerLoans

Next ==
    \E sender \in Addresses, l \in LoanIds :
        \/ \E b \in Addresses \cup {ZeroAddress}, n \in Uint16 :
              RegisterLoan(sender, l, b, n)
        \/ \E n \in Uint16, d \in ProofData : ConfirmPayment(sender, l, n, d)

Spec == Init /\ [][Next]_vars

-----------------------------------------------------------------------------

TypeOK ==
    /\ loans \in [LoanIds -> LoanStruct]
    /\ loanProofs \in [LoanIds -> Seq(PaymentProof)]
    /\ borrowerLoans \in [Addresses -> Seq(LoanIds)]

\* The proofs of a loan are exactly those of its installments 1, 2, ...,
\* paidInstallments, each once and in order, whoever sends transactions in
\* whatever order.  The backend looks a proof up by its number and takes the
\* absence of the number for the absence of the payment.
ProofsAreTheInstallments ==
    \A l \in LoanIds :
        /\ Len(loanProofs[l]) = loans[l].paidInstallments
        /\ \A j \in 1 .. Len(loanProofs[l]) :
              loanProofs[l][j].installmentNumber = j

\* A loan is COMPLETED exactly when its last installment has been proved, and
\* is never paid beyond its total, so that the uint16 counter cannot overflow
\* and no installment can be confirmed after completion.
CompletedWhenFullyPaid ==
    \A l \in LoanIds :
        LET loan == loans[l] IN
        /\ loan.paidInstallments <= loan.totalInstallments
        /\ loan.registered =>
              /\ loan.status \in {"ACTIVE", "COMPLETED"}
              /\ loan.status = "COMPLETED"
                    <=> loan.paidInstallments = loan.totalInstallments

\* The borrower index lists every registered loan once, under its borrower,
\* and nothing else: getBorrowerLoanCount counts each loan once.
BorrowerIndexExact ==
    \A l \in LoanIds, a \in Addresses :
        LET places == {j \in 1 .. Len(borrowerLoans[a]) : borrowerLoans[a][j] = l}
        IN  IF loans[l].registered /\ loans[l].borrower = a
            THEN \E j \in places : places = {j}
            ELSE places = {}

\* No transaction rewrites history: a loan keeps its parties and its terms
\* once registered, its proofs are only ever extended at the end, and a
\* completed loan does not change at all.
HistoryIsImmutable ==
    [][\A l \in LoanIds :
        /\ loans[l].registered =>
              /\ loans'[l].registered
              /\ loans'[l].lender = loans[l].lender
              /\ loans'[l].borrower = loans[l].borrower
              /\ loans'[l].totalInstallments = loans[l].totalInstallments
        /\ \/ loanProofs'[l] = loanProofs[l]
           \/ \E p \in PaymentProof : loanProofs'[l] = Append(loanProofs[l], p)
        /\ loans[l].status = "COMPLETED" =>
              /\ loans'[l] = loans[l]
              /\ loanProofs'[l] = loanProofs[l]]_vars
=============================================================================
