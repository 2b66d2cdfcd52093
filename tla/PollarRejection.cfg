SPECIFICATION SettlementSpec
CONSTANTS
    l1 = l1
    k1 = k1
    k2 = k2
    borrower = borrower
    lender = lender
    w1 = w1
    w2 = w2
    t1 = t1
    t2 = t2
    client = client
    b1 = b1
    b2 = b2
    Null = Null
    Operator = Operator
    Loan <- MCLoan
    Installment = {k1}
    LoanOf <- MCLoanOf
    NumberOf <- MCNumberOf
    Profile <- MCProfile
    BorrowerOf <- MCBorrowerOf
    LenderOf <- MCLenderOf
    StellarLoan <- MCLoan
    Wallet <- MCWallet
    Tx = {t1}
    Ledger <- MCLedger
    CashReceipt = {}
    MaxPending = 1
    Actor <- MCActor
    Worker = {b1}
    Client = {client}
    MaxTransfers = 1
    MaxUint16 = 3
    MaxPool = 2
    MaxFaults = 1
INVARIANTS
    OnlyInvalidIsRejected
CHECK_DEADLOCK FALSE
