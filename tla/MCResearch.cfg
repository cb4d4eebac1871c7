\* Three attempts in a budget of six ticks; calls of one or three ticks.
SPECIFICATION ResearchSpec
CONSTANTS
    Claim <- NamedAnew
    Recovery = TRUE
    MaxAttempts = 3
    MinClaims = 2
    MinPublishers = 2
    MaxFindings = 2
    Budget = 6
    SearchTime = {1, 3}
    Delay = {0, 9}
    BatchMax = 3
CHECK_DEADLOCK FALSE
INVARIANTS RunIsBounded LateEvidenceIsRefused FullIsEarned UsableEvidenceIsUsed LastResortIsTried
