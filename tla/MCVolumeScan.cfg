\* One part per behaviour, from the inputs the others give it.
SPECIFICATION Spec
CONSTANTS
    Jobs = {"ntfs", "fat", "content", "carve", "image"}
    RootRecord = 1
    FirstUserRecord = 2
    SequenceLimit = 16
    MaxPathDepth = 3
    MaxPathsPerName = 2
    MaxNamespacePaths = 5
    MaxNamespaceComponents = 20
    LastRecord = 5
    Names = {"a", "long"}
    SystemNames = {"DOS~1", "$MFT", "."}
    LongNames = {"long"}
    Trees <- MCTrees
    MaxChanges = 2
    TrustedRecords = {5, 6}
    BatchRecords = 2
    MaxDeleted = 3
    MaxDirectories = 4
    MaxEntryNames = 8
    MaxReferences = 2
    MaxExtensionStreams = 1
    MaxFaults = 1
    LastCluster = 6
    SlotsPerCluster = 3
    FatClusterSize = 2
    FatNames = {"long", "s"}
    FatLongNames = {"long"}
    Sizes = {1, 3}
    Volumes <- MCVolumes
    MaxFatChanges = 3
    MaxDirClusters = 2
    MaxDirDepth = 2
    MaxDirs = 2
    MaxUnreadable = 1
    Digit = 4
    MaxWidth = 4
    ClusterSize = 2
    TotalClusters = 44
    BitsPerUnit = 11
    MaxBitmapRead = 9
    Files <- MCFiles
    Bitmaps <- MCBitmaps
    Allocations <- MCAllocations
    Listed <- MCListed
    ScratchLength = 3
    MaxSegments = 4
    MaxZeroRanges = 3
    MaxBad = 3
    Disks <- MCSource
    Snapshots <- MCSnapshots
    Metadata <- MCMetadata
    BadBytes <- MCBadBytes
    ChunkSize = 8
    InitialRead = 6
    MaxCandidateBytes = 50
    MaxCandidates = 3
    MaxRegions = 3
    MaxScanBytes = 84
    MaxSignatureAttempts = 3
    MaxValidationBytes = 89
    LastLba = 16
    Layouts <- MCLayouts
    Boots <- MCBoots
    Code <- MCCode
    MaxEntries = 3
    MaxEbrChain = 3
    Fat12Limit = 2
    Fat16Limit = 3
    MaxDamaged = 1
INVARIANTS
    NamespaceIsTrue
    CompleteScanMissesNothing
    FatScanIsTrue
    ContentIsTheFiles
    OutputIsAsReported
    CarvingIsTrue
    PartitionsAreSound
\* A scan or a restore ends.
CHECK_DEADLOCK FALSE
