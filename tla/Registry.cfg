SPECIFICATION Spec
CONSTANTS
    l1 = l1
    l2 = l2
    a1 = a1
    a2 = a2
    d1 = d1
    d2 = d2
    LoanIds <- MCLoanIds
    Addresses <- MCAddresses
    ProofData <- MCProofData
    ZeroAddress = ZeroAddress
    MaxUint16 = 3
SYMMETRY MCSymmetry
INVARIANTS
    TypeOK
    ProofsAreTheInstallments
    CompletedWhenFullyPaid
    BorrowerIndexExact
PROPERTIES
    HistoryIsImmutable
CHECK_DEADLOCK FALSE
