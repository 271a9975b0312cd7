SPECIFICATION FairSpec
CONSTANTS
    Scans = {s1, s2}
    Candidates <- ThreeCandidates
    MaxScans = 1
    MaxRevision = 2
    Filters <- TwoFilters
    Ranking <- OneSort
    PageLimit = 1
    Size <- Sizes
    MaxBytes = 2
    MaxCachedPages = 2
    Operations <- EveryKind
    MaxIntents = 1
    InputErrors = {"ready"}
    CallsFail = TRUE
INVARIANTS
    PageIsTrue
CHECK_DEADLOCK FALSE
PROPERTIES
    UpdatesAreInformed
    ImplementsSelectionStore
    ViewComesToRest
