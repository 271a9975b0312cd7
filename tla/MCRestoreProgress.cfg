\* A job whose engine gives up in the middle of an item.
SPECIFICATION Spec
CONSTANTS
    Scans = {s1}
    Candidates = {x}
    MaxScans = 1
    MaxRevision = 1
    Callers = {c1, c2}
    Destinations = {d1}
    Plans = {p1}
    MaxDestinations = 1
    MaxPlans = 1
    MaxJobs = 1
    ItemBytes = 1
PROPERTIES
    ShownBytesNeverDecrease
