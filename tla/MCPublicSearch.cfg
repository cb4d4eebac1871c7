\* Three sources of which two fit the artifact.
SPECIFICATION SearchSpec
CONSTANTS
    Url <- MCUrl
    Catalogued = {"wb", "bbc", "rw", "api", "blog"}
    Barred = {"api", "x"}
    Blogs = {"blog"}
    ReliefWeb = {"rw"}
    Unciteable = {"x"}
    Fetchable = {"wb", "bbc"}
    UrlDate <- MCUrlDate
    TitlePlaces <- MCTitlePlaces
    Dates = {1, 2}
    Passages <- MCPassages
    PartOf <- MCPartOf
    MaxExcerpt = 3
    MaxSources = 2
    MaxBundle = 5
    DateLength = 2
    Responses <- MCResponses
    ClaimId <- MCClaimId
    Batches <- MCBatches
INVARIANTS ClaimsAreGrounded RejectedStaysRejected NothingUsableIsLost
