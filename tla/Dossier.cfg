SPECIFICATION MCSpec
CONSTANTS
    l1 = l1
    l2 = l2
    r1 = r1
    r2 = r2
    v1 = v1
    q1 = q1
    q3 = q3
    e1 = e1
    e2 = e2
    NoReceipt = NoReceipt
    Loan <- MCLoan
    Count <- MCCount
    Receipt = {r1, r2}
    Viewer = {v1}
    Access <- MCAccess
    ViewerOf <- MCViewerOf
    MembershipTtl = 2
    CallTime = 1
    Window = 1
    Ahead = 1
    MaxTime = 3
    Newest <- MCNewest
    Report <- MCReport
    List <- MCList
    Amount <- MCAmount
    Capital <- MCCapital
    Late <- MCLate
    EvidenceTtl = 2
    ErrorTtl = 1
    MaxFaults = 1
SYMMETRY MCSymmetry
INVARIANTS
    ReportTypeOK
    CompletedLoansAreWhole
    VerifiedIsProved
    EvidenceIsFresh
PROPERTIES
    AccessIsRecent
CHECK_DEADLOCK FALSE
