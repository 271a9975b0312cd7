\* A job of up to three items, with cancellations and second starts at any time.
SPECIFICATION FairSpec
CONSTANTS
    Scans = {s1}
    Candidates = {x, y, z}
    MaxScans = 1
    MaxRevision = 1
    Callers = {c1, c2}
    Destinations = {d1}
    Plans = {p1}
    MaxDestinations = 1
    MaxPlans = 1
    MaxJobs = 1
    ItemBytes = 1
INVARIANTS
    CancelSticks
    SnapshotsAreTrue
PROPERTIES
    SnapshotsAdvance
    JobsEnd
