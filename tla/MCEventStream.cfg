\* Two threads in one process, one tab, and other clients that retry at once.
SPECIFICATION StreamSpec
CONSTANTS
    Id = {r1}
    None = None
    Thread = {t1, t2}
    Persistent = FALSE
    EagerRetry = TRUE
    MaxRetry = 1
    MaxProgress = 2
    MaxFault = 0
    MaxCrash = 0
    Viewer = {v1}
    SourceErrorLimit = 2
INVARIANTS OneWriter StreamLosesNothing
PROPERTIES EveryReviewEnds ViewerIsTold
