\* Two scans or dialogs one after the other, each with a job, and one call that goes wrong.
SPECIFICATION FairSpec
CONSTANTS
    Scans = {s1, s2}
    Candidates = {torn}
    MaxScans = 1
    MaxRevision = 2
    Destinations = {d1}
    BestEffort = {torn}
    Plans = {p1, p2}
    MaxPollFailures = 2
    MaxFaults = 1
    MaxGenerations = 3
    MaxIntents = 1
INVARIANTS
    ReviewIsAsAgreed
PROPERTIES
    DialogFollowsItsJob
    JobIsFollowed
\* The user may close the dialog for good.
CHECK_DEADLOCK FALSE
