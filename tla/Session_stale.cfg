\* Whether an acknowledged logout-all binds requests that come later.
SPECIFICATION Spec
CONSTANTS
    Users = {u1}
    Pairs = {p1}
    Requests = {r1, r2}
    Passwords = {a}
    MaxSessionVersion = 2
    CacheEnabled = TRUE
    Offered = {"login", "call", "logoutAll"}
    None = None
CHECK_DEADLOCK FALSE
INVARIANT AckedRevocationIsEnforced
