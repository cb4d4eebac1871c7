\* Two threads, up to three documents that do not fit, one failing event.
SPECIFICATION DocumentsSpec
CONSTANTS
    MaxPages = 6
    MaxCharacters = 8
    SamplePages = 4
    SamplePrefix = 1
    SegmentCharacters = 3
    Uploads <- MCUploads
    DiagnosticNames = {"rra"}
    MaxDocuments = 2
    Budget <- MCBudget
    DigestMax = 5
    Workers = 2
    MaxCited = 1
    MaxTry = 2
    MaxFault = 1
INVARIANTS NothingIsSilent NothingIsMisplaced ProviderCostIsBounded
PROPERTY DigestsNeverStopAReview
