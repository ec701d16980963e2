SPECIFICATION Spec
CONSTANTS
    Packages = {1}
    Addons = {11}
    Capacity <- MCCapacity
    Unlimited = {}
    Edits <- MCEdits
    MaxEdits = 1
    Refs = {c1}
    NoRef = NoRef
    SlotIds = {x1, x2, x3}
    Assigners = {a1}
    Releasers = {r1, r2}
    Sweepers = {}
SYMMETRY Symmetry
INVARIANTS
    QuotaIsCeiling
CHECK_DEADLOCK FALSE
