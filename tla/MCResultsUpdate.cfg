SPECIFICATION Spec
CONSTANTS
    Scans = {s1, s2}
    Candidates <- ThreeCandidates
    MaxScans = 1
    MaxRevision = 1
    Filters <- TwoFilters
    Ranking <- OneSort
    PageLimit = 1
    Size <- Sizes
    MaxBytes = 2
    MaxCachedPages = 2
    Operations <- EveryKind
    MaxIntents = 0
    InputErrors = {"loading"}
    CallsFail = FALSE
INVARIANT ControlsWaitForUpdate
CHECK_DEADLOCK FALSE
