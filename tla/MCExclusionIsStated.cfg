\* What the reader of a review learns of a document that could not be summarised.
SPECIFICATION DocumentsSpec
CONSTANTS
    MaxPages = 6
    MaxCharacters = 8
    SamplePages = 4
    SamplePrefix = 1
    SegmentCharacters = 3
    Uploads <- MCUploads
    DiagnosticNames = {"rra"}
    MaxDocuments = 2
    Budget <- MCBudget
    DigestMax = 5
    Workers = 2
    MaxCited = 1
    MaxTry = 2
    MaxFault = 0
INVARIANT ExclusionIsStated
