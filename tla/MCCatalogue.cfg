SPECIFICATION Spec
CONSTANTS
    t1 = t1
    t2 = t2
    c1 = c1
    m1 = m1
    Rows = {t1, t2, c1, m1}
    TableOf <- MCTableOf
    Admins = {a1, a2}
    NoSetting = NoSetting
    BundleIds = {b1}
    NoBundle = NoBundle
    Currencies = {c1}
    NoCurrency = NoCurrency
    Rates = {9000, 10533}
    CoinAmounts = {10, 15}
    Discounts = {105320}
    Editors = {a1, a2}
    PlanIds = {p1, p2}
    NoPlan = NoPlan
    Parts = {x1, x2}
    Planners = {a1, a2}
    MaxEdits = 3
    Taxes <- MCTaxes
    Methods <- MCMethods
SYMMETRY Symmetry
INVARIANTS
    OneActiveUnlessRaced
    PricesHold
    ChargedWithinOneUnit
    PlanIsWhole
PROPERTIES
    SwapIsAtomic
    RemovesOwnOnly
CHECK_DEADLOCK FALSE
