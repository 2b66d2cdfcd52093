SPECIFICATION MCSpec
CONSTANTS
    u1 = u1
    u2 = u2
    x1 = x1
    x2 = x2
    wl = wl
    wb = wb
    l1 = l1
    l2 = l2
    Null = Null
    Operator = Operator
    ZeroAddress = ZeroAddress
    NoRate = NoRate
    AuthUser <- MCAuthUser
    Uuid <- MCUuid
    Address <- MCAddress
    LoanId <- MCLoanId
    Terms <- MCTerms
    s1 = s1
    s2 = s2
    ProfileCall <- MCProfileCall
    c1 = c1
    c2 = c2
    Request <- MCRequest
    Assignment = {q1, q2}
    MaxCents = 200
    MaxRate = 100000
    MaxCount = 52
    MaxFaults = 2
SYMMETRY MCSymmetry
INVARIANTS
    LendingTypeOK
    OneProfilePerUser
    AcknowledgedLoanIsWhole
    RowIsRegistered
    ScheduleIsRight
    AssignedStopsStay
CHECK_DEADLOCK FALSE
