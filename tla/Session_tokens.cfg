\* Refresh and logout races over three generations of a session.
SPECIFICATION Spec
CONSTANTS
    Users = {u1}
    Pairs = {p1, p2, p3}
    Requests = {r1, r2}
    Passwords = {a}
    MaxSessionVersion = 1
    CacheEnabled = FALSE
    Offered = {"login", "refresh", "logout"}
    None = None
CHECK_DEADLOCK FALSE
SYMMETRY Symmetric
INVARIANTS
    SessionIsAChain
    RotatedAccessIsRefused
PROPERTY ImplementsLedger
