SPECIFICATION MCSpec
CONSTANTS
    l1 = l1
    k1 = k1
    k2 = k2
    borrower = borrower
    lender = lender
    w1 = w1
    w2 = w2
    c1 = c1
    c2 = c2
    Null = Null
    Operator = Operator
    Loan <- MCLoan
    Installment <- MCInstallment
    LoanOf <- MCLoanOf
    NumberOf <- MCNumberOf
    Profile <- MCProfile
    BorrowerOf <- MCBorrowerOf
    LenderOf <- MCLenderOf
    StellarLoan <- MCLoan
    Wallet <- MCWallet
    Tx = {t1}
    Ledger <- MCLedger
    CashReceipt <- MCCashReceipt
    MaxPending = 1
    Worker = {b1}
    Client = {client}
    Collect <- MCCollect
    SyncItem = {s1}
    Actor <- MCActor
    MaxTransfers = 1
    MaxUint16 = 3
    MaxPool = 2
    MaxFaults = 2
SYMMETRY MCSymmetry
INVARIANTS
    PaymentsTypeOK
    SettledByRealPayment
    SyncedHasProof
    AcknowledgedIsBooked
    AnchorNeverBlocked
    ProofMatchesRail
PROPERTIES
    ImplementsDb
    ImplementsFlow
CHECK_DEADLOCK FALSE
