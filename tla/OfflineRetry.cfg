SPECIFICATION CollectionFairSpec
CONSTANTS
    l1 = l1
    k1 = k1
    k2 = k2
    borrower = borrower
    lender = lender
    c1 = c1
    c2 = c2
    s1 = s1
    Null = Null
    Operator = Operator
    Loan <- MCLoan
    Installment = {k1}
    LoanOf <- MCLoanOf
    NumberOf <- MCNumberOf
    Profile <- MCProfile
    BorrowerOf <- MCBorrowerOf
    LenderOf <- MCLenderOf
    StellarLoan = {}
    Wallet = {}
    Tx = {}
    Ledger = {}
    CashReceipt <- MCCashReceipt
    MaxPending = 1
    Collect = {}
    SyncItem = {s1}
    Actor <- MCCashReceipt
    MaxUint16 = 3
    MaxPool = 2
    MaxFaults = 1
PROPERTIES
    OfflinePaymentIsBooked
CHECK_DEADLOCK FALSE
