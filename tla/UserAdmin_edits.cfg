\* Two administrators create, edit and delete users.
SPECIFICATION FairSpec
CONSTANTS
    Users = {u1, u2}
    Requests = {r1, r2}
    None = None
CHECK_DEADLOCK FALSE
INVARIANTS TypeOK LossNeedsOverlap
PROPERTIES RowsChangeOnPurpose RowsComeFree
