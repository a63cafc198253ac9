SPECIFICATION Spec
CONSTANTS
    t1 = t1
    t2 = t2
    Threads = {t1, t2}
    Loop = loop
    Waiters = {w1}
    StopPolicies = {"Immediately", "LiveIndefinitely", "AfterChangesUploaded"}
    Errors <- MCErrors
    MaxVersion = 0
    MaxSessions = 2
    MaxDeaths = 1
SYMMETRY ThreadSymmetry
INVARIANTS
    HandlersAccounted
    HandlersReachable
    AskedForToken
    ClientContract
PROPERTIES
    PromiseKept
    DocumentedStates
