SPECIFICATION Spec
CONSTANTS
    p = p
    a = a
    b = b
    Packages = {p}
    Addons = {a, b}
    BillEnd <- MCBillEnd
    GraceDays = 2
    WarnDays = {1}
    LastDay = 5
    Sweeps = {w1, w2}
    NoSub = NoSub
INVARIANTS
    GraceIsKept
    CancelledStays
    ExpiryIsAnnounced
PROPERTIES
    LapsedExpires
CHECK_DEADLOCK FALSE
