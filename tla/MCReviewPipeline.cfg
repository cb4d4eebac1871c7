\* Two risk drivers and two priority areas, whose names may be doubled, and one strategic
\* shift, doubled or named anew.
SPECIFICATION FairPipelineSpec
CONSTANTS
    DriverId = {"d1", "d2"}
    ShiftId = {"s", "t", "fallback"}
    AreaId = {"a1", "a2"}
    NoReview = NoReview
    Draft <- Drafts
    Answer <- Answers
CHECK_DEADLOCK FALSE
INVARIANTS PublishedIsClean CaveatsSurvive
PROPERTIES FindingsSurvive RepairedRowsAreSupported RunEnds
