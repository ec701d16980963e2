SPECIFICATION Spec
CONSTANTS
    Events = {e1, e2}
    NoEvent = NoEvent
    Workers = {w1, w2}
    MaxAttempts = 2
    BatchSize = 2
INVARIANTS
    OneSender
PROPERTIES
    ImplementsDelivery
    OneSettles
CHECK_DEADLOCK FALSE
