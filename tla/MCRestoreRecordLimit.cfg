\* A journal that is full when the first file has been linked.
SPECIFICATION Spec
CONSTANTS
    a = a
    a1 = a1
    s = s
    s1 = s1
    Root = Root
    Manifest = Manifest
    Names <- MCNames
    CollisionName <- MCCollisionName
    Plan <- FileThenFolder
    MaxAttempts = 2
    MaxRecords = 2
    MaxForeign = 0
INVARIANTS
    UnrecordedLinkNeedsReconciliation
\* A job ends: the worker returns, or the process or the machine dies.
CHECK_DEADLOCK FALSE
