\* Three questions, one failing store operation, one restart.
SPECIFICATION AssistantSpec
CONSTANTS
    Question = {q1, q2, q3}
    Nobody = Nobody
    HistoryMax = 2
    MaxFault = 1
    MaxCrash = 1
SYMMETRY Symmetric
CHECK_DEADLOCK FALSE
INVARIANTS OneAnswerAtATime NoExchangeLost ToldTheTruth BusyMeansAnswering
