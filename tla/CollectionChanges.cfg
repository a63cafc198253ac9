SPECIFICATION Spec
CONSTANTS
    Kinds <- MCKinds
    InitialSize <- MCInitialSize
    MaxElements = 5
    NoRow = 8
    MaxSteps <- MCMaxSteps
INVARIANTS
    Applies
    MovesAreTrue
    ModificationsAreTrue
CHECK_DEADLOCK FALSE
