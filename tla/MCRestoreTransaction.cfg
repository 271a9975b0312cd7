\* Two items that compete for a name, one foreign name, any crash, and a journal that
\* is full on the longest executions.
SPECIFICATION FairSpec
CONSTANTS
    a = a
    a1 = a1
    s = s
    s1 = s1
    Root = Root
    Manifest = Manifest
    Names <- MCNames
    CollisionName <- MCCollisionName
    Plan <- FileThenFolder
    MaxAttempts = 2
    MaxRecords = 10
    MaxForeign = 1
INVARIANTS
    TypeOK
    IntentIsDurable
    SidecarBeforeData
    ClaimsAreTrue
    ManifestIsTrue
    ReportsMatchTree
    SuccessIsComplete
PROPERTIES
    PoisonStopsPublication
    KeepsPromise
    ReportsInOrder
    EveryJobReturns
\* A job ends: the worker returns, or the process or the machine dies.
CHECK_DEADLOCK FALSE
