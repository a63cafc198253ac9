SPECIFICATION FairSpec
CONSTANTS
    MaxTokens = 3
    MaxVersion = 2
    SizeT = 5
INVARIANTS
    OverrunsOnlyIfMiscounted
    NothingLost
    RoundsComplete
    FlagExact
PROPERTIES
    InitialCallMade
CHECK_DEADLOCK FALSE
