\* Whether two administrators can leave the service without a super administrator.
SPECIFICATION Spec
CONSTANTS
    Users = {u1, u2}
    Requests = {r1, r2}
    None = None
CHECK_DEADLOCK FALSE
INVARIANT SuperAdminRemains
