\* One worker over SQLite; store operations raise, the process crashes and restarts.
SPECIFICATION Spec
CONSTANTS
    Id = {r1, r2}
    None = None
    Thread = {w}
    Persistent = TRUE
    EagerRetry = FALSE
    MaxRetry = 1
    MaxProgress = 1
    MaxFault = 2
    MaxCrash = 1
SYMMETRY Symmetric
CONSTRAINT FewFailures
INVARIANTS TypeOK ResultMeansComplete TerminalEndsLog CompletionIsReal
           VerdictSurvivesFaults
PROPERTIES KeepsPromise GoneStaysGone PublishedReviewIsFrozen DeletionTakesTheFamily
