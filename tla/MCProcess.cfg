CONSTANTS
    Clients = {c1, c2}
    NoClient = NoClient
    MaxRetries = 2
    TtlTicks = {3}
    DefaultTtl = 3
    RefreshBuffer = 2
SPECIFICATION Spec
INVARIANTS
    BearerInDate
    OneTokenFetch
    InquiryIsAccounted
    BuiltOnce
    DrainLosesNothing
PROPERTIES
    CheckoutEnds
CHECK_DEADLOCK FALSE
