SPECIFICATION FairSpec
CONSTANTS
    Threads = {t1, t2}
    Loop = loop
    Notifiers = {n1}
    MaxVersion = 2
    MaxDownload = 1
INVARIANTS
    UploadsCovered
    CompletionReportedOnce
PROPERTIES
    OutstandingWorkEnds
CHECK_DEADLOCK FALSE
