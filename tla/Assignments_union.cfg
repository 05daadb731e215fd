SPECIFICATION Spec
CONSTANTS
    Users = {1}
    Roles = {11, 12}
    Perms = {21}
    Requests = {r1, r2}
    None = None
SYMMETRY Symmetric
PROPERTIES
    ReplacementIsWhole
