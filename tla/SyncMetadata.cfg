SPECIFICATION Spec
CONSTANTS
    u1 = u1
    p1 = p1
    p2 = p2
    r1 = r1
    r2 = r2
    Users = {u1}
    Paths = {p1, p2}
    Runners = {r1, r2}
    OwnerOf <- MCOwnerOf
    MaxFiles = 2
    MaxErrors = 2
    MaxCrashes = 2
SYMMETRY MCSymmetry
INVARIANTS
    NeverLost
    ActiveRemembered
    LoggedOutForgotten
PROPERTIES
    DeletesOnlyFailed
    ForgottenOnlyWhenDone
    ErasedOnlyLoggedOut
CHECK_DEADLOCK FALSE
