CONSTANTS
    Emails = {e1}
    Passwords = {p1, p2}
    Links = {l1, l2, l3}
    Tokens = {t1, t2}
    Handlers = {h1, h2}
    NoToken = NoToken
    NoPassword = NoPassword
    NoLink = NoLink
    NoEmail = NoEmail
SYMMETRY Symmetry
SPECIFICATION Spec
INVARIANTS
    OneLivePerSession
    RegisteredOnce
    LinksHold
CHECK_DEADLOCK FALSE
