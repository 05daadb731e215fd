\* The identity cache of the Redis deployment, with its TTL.
SPECIFICATION FairSpec
CONSTANTS
    Users = {u1}
    Pairs = {p1}
    Requests = {r1, r2}
    Passwords = {a}
    MaxSessionVersion = 2
    CacheEnabled = TRUE
    Offered = {"login", "call", "logoutAll", "admin"}
    None = None
CHECK_DEADLOCK FALSE
INVARIANT StaleEntryHasCause
PROPERTY CacheSettles
