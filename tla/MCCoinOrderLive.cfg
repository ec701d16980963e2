SPECIFICATION Spec
CONSTANTS
    u1 = u1
    u2 = u2
    Users = {u1}
    NoUser = NoUser
    Registered <- MCRegistered
    DefaultBalance = 1
    Orders = {o1, o2}
    NoOrder = NoOrder
    Offers <- MCOffers
    Amounts <- MCAmounts
    MockMode = TRUE
    Requests = {r1}
    Deliveries = {d1}
PROPERTIES
    ImplementsLedger
    NoPermanentLockout
    ReportedPaymentSettles
CHECK_DEADLOCK FALSE
