SPECIFICATION DbSpec
CONSTANTS
    l1 = l1
    l2 = l2
    k1 = k1
    k2 = k2
    k3 = k3
    borrower = borrower
    lender = lender
    w1 = w1
    w2 = w2
    t1 = t1
    t2 = t2
    c1 = c1
    c2 = c2
    Null = Null
    Loan <- MCLoan
    Installment <- MCInstallment
    LoanOf <- MCLoanOf
    NumberOf <- MCNumberOf
    Profile <- MCProfile
    BorrowerOf <- MCBorrowerOf
    LenderOf <- MCLenderOf
    StellarLoan <- MCLoan
    Wallet <- MCWallet
    Tx <- MCTx
    Ledger <- MCLedger
    CashReceipt <- MCCashReceipt
    MaxPending = 1
SYMMETRY MCSymmetry
INVARIANTS
    DbTypeOK
    PaymentHasOneSource
    StellarPaymentUsedOnce
    ReservedInOrder
    CompletedOnlyWhenPaid
    OneVerifiedCandidate
    AnchoredIffSynced
PROPERTIES
    SettlementIsFinal
    ImplementsBook
CHECK_DEADLOCK FALSE
