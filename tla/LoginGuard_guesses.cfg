\* Two accounts, one address, three logins at a time, either guard.
SPECIFICATION FairSpec
CONSTANTS
    Accounts = {a1, a2}
    Addresses = {i1}
    Requests = {r1, r2, r3}
    MaxAttempts = 1
    AccountWindow = 1
    MaxFromAddress = 2
    AddressWindow = 2
    MaxFailures = 2
    FailureWindow = 2
    LockDuration = 2
    None = None
INVARIANTS
    TypeOK
    GuessesAreBounded
    AdmittedWithinLimit
PROPERTIES
    LockKeepsItsTerm
    WindowsEnd
