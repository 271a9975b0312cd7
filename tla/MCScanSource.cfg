\* Two disks, one or both used; two changes of the world, one of them perhaps a fault.
SPECIFICATION FairSpec
CONSTANTS
    d1 = d1
    d2 = d2
    Disks <- MCDisks
    Source = source
    Target = target
    MaxChanges = 2
    Length = 2
    Interval = 2
    MaxRead = 1
    MaxFaults = 1
    MaxReads = 2
    Reads <- MCReads
INVARIANTS
    ReadsAreAnswered
    StaleReadsAreFew
    SeparateDisks
    FolderIsTheChosenOne
    IdentityLossIsFinal
PROPERTIES
    ScansEnd
\* A scan, and the restore that follows, ends.
CHECK_DEADLOCK FALSE
