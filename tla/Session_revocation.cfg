\* Every operation, without the identity cache.
SPECIFICATION Spec
CONSTANTS
    Users = {u1}
    Pairs = {p1, p2}
    Requests = {r1, r2}
    Passwords = {a, b}
    MaxSessionVersion = 2
    CacheEnabled = FALSE
    Offered = {"login", "refresh", "call", "logout", "logoutAll", "changePassword", "admin"}
    None = None
CHECK_DEADLOCK FALSE
SYMMETRY Symmetric
INVARIANTS
    TypeOK
    CurrentPairsKnowPassword
    RevokedSessionStaysDead
    AdmittedWasLive
PROPERTY RevocationIsFinal
