\* A crash between the stored verdict and its event.
SPECIFICATION Spec
CONSTANTS
    Id = {r1}
    None = None
    Thread = {w}
    Persistent = TRUE
    EagerRetry = FALSE
    MaxRetry = 0
    MaxProgress = 1
    MaxFault = 0
    MaxCrash = 1
INVARIANT VerdictIsAnnounced
