SPECIFICATION FairSpec
CONSTANTS
    MaxHandles = 2
    MaxSessions = 2
    MaxRevivers = 2
    MaxLogOuts = 2
INVARIANTS
    Served
    OneRefresher
PROPERTIES
    TokenArrives
CHECK_DEADLOCK FALSE
