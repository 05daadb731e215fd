\* Two instances, two requests, two changes, with lost messages and crashes.
SPECIFICATION FairSpec
CONSTANTS
    Instances = {i1, i2}
    Names = {n1, n2, Unnamed}
    Unnamed = Unnamed
    Requests = {r1, r2}
    MaxChanges = 2
    Faults = TRUE
    None = None
INVARIANTS
    TypeOK
    StaleHasCause
    ChangeIsEnforced
PROPERTIES
    CatchesUp
