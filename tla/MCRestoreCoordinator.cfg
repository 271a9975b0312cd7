\* Commands that overlap: three plan ids and two destinations meet limits of two and one.
SPECIFICATION Spec
CONSTANTS
    Scans = {s1, s2}
    Candidates = {x}
    MaxScans = 1
    MaxRevision = 2
    Callers = {c1, c2}
    Destinations = {d1, d2}
    Plans = {p1, p2, p3}
    MaxDestinations = 1
    MaxPlans = 2
    MaxJobs = 1
    ItemBytes = 1
SYMMETRY Symmetry
INVARIANTS
    TypeOK
    PlansRunOnce
    RevisionNamesSelection
    RetentionBounds
PROPERTIES
    StartsConfirmedSelection
