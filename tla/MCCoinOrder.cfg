SPECIFICATION Spec
CONSTANTS
    u1 = u1
    u2 = u2
    Users = {u1, u2}
    NoUser = NoUser
    Registered <- MCRegistered
    DefaultBalance = 1
    Orders = {o1, o2}
    NoOrder = NoOrder
    Offers <- MCOffers
    Amounts <- MCAmounts
    MockMode = FALSE
    Requests = {r1, r2}
    Deliveries = {d1, d2}
SYMMETRY Symmetry
INVARIANTS
    OnePendingPerUser
    CreditedOnceWhenPaid
    BalanceMatchesLedger
    CreditIsReported
PROPERTIES
    SettledForGood
CHECK_DEADLOCK FALSE
