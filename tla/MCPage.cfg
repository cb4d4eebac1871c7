\* Two reviews, the second perhaps the correction of the first.
SPECIFICATION PageSpec
CONSTANTS
    RetryLimit = 2
    ErrorLimit = 2
    MaxReview = 3
    MaxEpoch = 4
    MaxFile = 2
CONSTRAINT Bounded
INVARIANTS NothingErasedComesBack ScreenMatchesOperation SendIsNeverStuck
