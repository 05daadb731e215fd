\* Whether the policy of an instance that serves is what the tables say.
SPECIFICATION Spec
CONSTANTS
    Instances = {i1, i2}
    Names = {n1, n2}
    Unnamed = Unnamed
    Requests = {r1, r2}
    MaxChanges = 2
    Faults = FALSE
    None = None
SYMMETRY Symmetric
INVARIANTS
    PolicyIsDatabase
