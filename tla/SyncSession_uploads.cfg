SPECIFICATION FairSpec
CONSTANTS
    t1 = t1
    t2 = t2
    Threads = {t1}
    Loop = loop
    Waiters = {w1}
    StopPolicies = {"AfterChangesUploaded"}
    Errors <- MCUploadErrors
    MaxVersion = 1
    MaxSessions = 2
    MaxDeaths = 2
PROPERTIES
    ClosesAfterUpload
    DyingEnds
    AbortedHandlersCalled
