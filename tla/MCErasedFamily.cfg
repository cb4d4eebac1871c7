\* A correction in flight while its family is deleted.
SPECIFICATION Spec
CONSTANTS
    Id = {r1, r2}
    None = None
    Thread = {w}
    Persistent = TRUE
    EagerRetry = FALSE
    MaxRetry = 0
    MaxProgress = 1
    MaxFault = 0
    MaxCrash = 0
INVARIANT ErasedStaysErased
