---------------------------- MODULE MCVolumeScan ----------------------------
(***************************************************************************)
(* What is made of the bytes of a source, small enough for TLC: where its  *)
(* volumes are, what the NTFS and FAT scanners find in one, what is carved *)
(* from its free clusters, and the content restored from what was found.   *)
(* These parts call one another with values and share no state, so each    *)
(* behaviour takes one of them, from the inputs the others give it.        *)
(***************************************************************************)
EXTENDS NtfsScan, FatScan, ContentStream, JpegCarver, ImageLayout

CONSTANT Jobs   \* the parts to run
VARIABLE job    \* the part this behaviour runs

vars == <<job, ntfsVars, fatVars, streamVars, carverVars, imageVars>>

NtfsIdle ==
    /\ table = 0 /\ links = 0 /\ quiet = 0 /\ changes = 0 /\ phase = "idle" /\ trusted = 0
    /\ next = 0 /\ alone = 0 /\ entries = 0 /\ extensions = 0 /\ merging = 0
    /\ complete = 0 /\ namespace = 0 /\ candidates = 0 /\ faults = 0
FatIdle ==
    /\ fat = 0 /\ data = 0 /\ root = 0 /\ made = 0 /\ torn = 0 /\ fatChanges = 0
    /\ fatPhase = "idle" /\ fatUnreadable = 0 /\ work = 0 /\ visited = 0 /\ dirs = 0
    /\ fatCandidates = 0 /\ fatComplete = 0
StreamIdle ==
    /\ stage = "idle" /\ task = [inUse |-> {}] /\ plan = 0 /\ segment = 0 /\ position = 0
    /\ chunk = 0 /\ output = <<>> /\ hashed = <<>> /\ evidence = <<>> /\ best = 0
    /\ error = "none"
CarverIdle ==
    /\ carving = "idle" /\ disk = 0 /\ snapshot = 0 /\ bad = 0 /\ regions = 0 /\ region = 0
    /\ reached = 0 /\ tail = 0 /\ report = NewReport /\ results = 0
ImageIdle ==
    /\ imagePhase = "idle" /\ old = 0 /\ new = 0 /\ image = 0 /\ pending = 0 /\ last = 0
    /\ unreadable = 0 /\ damaged = 0 /\ partitions = 0 /\ reports = 0 /\ imageError = "none"

Init ==
    /\ job \in Jobs
    /\ IF job = "ntfs" THEN NtfsInit ELSE NtfsIdle
    /\ IF job = "fat" THEN FatInit ELSE FatIdle
    /\ IF job = "content" THEN StreamInit ELSE StreamIdle
    /\ IF job = "carve" THEN CarverInit ELSE CarverIdle
    /\ IF job = "image" THEN ImageInit ELSE ImageIdle

Next ==
    \/ job = "ntfs" /\ NtfsNext
          /\ UNCHANGED <<job, fatVars, streamVars, carverVars, imageVars>>
    \/ job = "fat" /\ FatNext
          /\ UNCHANGED <<job, ntfsVars, streamVars, carverVars, imageVars>>
    \/ job = "content" /\ StreamNext
          /\ UNCHANGED <<job, ntfsVars, fatVars, carverVars, imageVars>>
    \/ job = "carve" /\ CarverNext
          /\ UNCHANGED <<job, ntfsVars, fatVars, streamVars, imageVars>>
    \/ job = "image" /\ ImageNext
          /\ UNCHANGED <<job, ntfsVars, fatVars, streamVars, carverVars>>

Spec == Init /\ [][Next]_vars

-----------------------------------------------------------------------------
(* NTFS: a directory with a file and a subdirectory with an alias, live or *)
(* deleted, and records that are extensions, torn or of another kind.      *)

MCName(name, kind, parent, sequence) ==
    [name |-> name, kind |-> kind, parent |-> parent, parentSequence |-> sequence]
MCTable(d, f, x) ==
    [r \in 0 .. 5 |->
        CASE r = 0 -> FileRecord(1, TRUE, FALSE, <<MCName("$MFT", "win", 1, 1)>>)
          [] r = 1 -> FileRecord(1, TRUE, TRUE, <<MCName(".", "win", 1, 1)>>)
          [] r = 2 -> FileRecord(1, TRUE, TRUE, <<MCName("a", "win", 1, 1)>>)
          [] r = 3 -> d [] r = 4 -> f [] OTHER -> x]
MCSub(sequence, inUse) ==
    FileRecord(sequence, inUse, TRUE,
               <<MCName("DOS~1", "dos", 2, 1), MCName("long", "win", 2, 1)>>)
MCFile(sequence, inUse) == FileRecord(sequence, inUse, FALSE, <<MCName("a", "win", 3, 1)>>)
MCExtension == [FileRecord(2, FALSE, FALSE, <<>>) EXCEPT !.base = 4]
MCTrees ==
    {MCTable(MCSub(1, TRUE), MCFile(1, TRUE), Zero),
     MCTable(MCSub(2, FALSE), MCFile(2, FALSE), Zero),
     MCTable(MCSub(1, TRUE), [MCFile(2, FALSE) EXCEPT !.listed = TRUE], MCExtension),
     MCTable(MCSub(2, FALSE), [MCFile(2, FALSE) EXCEPT !.whole = FALSE], [kind |-> "other"])}

(* FAT: a directory with a long name and in it a file of two clusters.     *)
MCDir(gen, slots) ==
    [kind |-> "dir", gen |-> gen,
     slots |-> slots \o [i \in 1 .. SlotsPerCluster - Len(slots) |-> End]]
MCVolumes ==
    {[root |-> 2,
      made |-> <<[name |-> "long", size |-> 0, clusters |-> <<3>>, parent |-> 0],
                 [name |-> "s", size |-> 3, clusters |-> <<4, 5>>, parent |-> 1]>>,
      fat |-> [c \in Clusters |-> CASE c \in {2, 3, 5} -> EndOfChain
                                    [] c = 4 -> 5 [] OTHER -> Free],
      data |-> [c \in Clusters |->
                   CASE c = 2 -> MCDir(0, SlotsFor("long", TRUE, 3, 0, 1))
                     [] c = 3 -> MCDir(1, SlotsFor("s", FALSE, 4, 3, 2))
                     [] c = 4 -> FileData(2, 0) [] c = 5 -> FileData(2, 1)
                     [] OTHER -> FileData(0, 0)]]}

-----------------------------------------------------------------------------
(* Content: files in pieces, backwards and with holes, cut in the middle   *)
(* of a cluster or initialized in part; $Bitmap in two pieces.             *)

MCFileOf(form, size, initialized, place, layout, broken) ==
    [form |-> form, size |-> size, initialized |-> initialized, place |-> place,
     layout |-> layout, damaged |-> broken]
MCBack == <<Run(1, 6), Run(2, 0), Hole(1)>>
MCFar  == <<Run(1, 1), Hole(1), Run(2, 40)>>
MCTwo  == <<Run(2, 6), Run(2, 2)>>
MCFiles ==
    {MCFileOf("stored", 7, 7, 0, MCBack, FALSE), MCFileOf("stored", 8, 3, 0, MCBack, FALSE),
     MCFileOf("stored", 8, 8, 0, MCFar, FALSE), MCFileOf("stored", 5, 5, 0, MCFar, FALSE),
     MCFileOf("stored", 8, 5, 0, MCTwo, FALSE), MCFileOf("stored", 0, 0, 0, <<>>, FALSE),
     MCFileOf("resident", 3, 3, 9, <<>>, FALSE), MCFileOf("compressed", 4, 4, 0, MCBack, FALSE),
     MCFileOf("stored", 4, 4, 0, MCBack, TRUE)}
MCBitmap(readable, initialized, broken) ==
    [inPrefix |-> TRUE, readable |-> readable, proper |-> TRUE, form |-> "stored",
     size |-> 4, initialized |-> initialized, place |-> 0,
     layout |-> <<Run(1, 5), Run(1, 3)>>, damaged |-> broken]
MCBitmaps == {MCBitmap(TRUE, 4, FALSE), MCBitmap(TRUE, 3, FALSE),
              MCBitmap(TRUE, 4, TRUE), MCBitmap(FALSE, 4, FALSE)}
MCAllocations == {{3, 5}, {3, 5, 7}, {0, 3, 5}, {1, 3, 5, 6, 41}}
MCItem(size, extents) == [size |-> size, extents |-> extents]
MCListed ==
    {MCItem(4, <<Extent(2, 8, 2, "freeInSnapshot"), Extent(0, 6, 2, "freeInSnapshot")>>),
     MCItem(6, <<Extent(0, 6, 2, "freeInSnapshot"), Extent(4, 8, 2, "resident")>>),
     MCItem(4, <<Extent(0, 6, 3, "freeInSnapshot"), Extent(2, 9, 2, "freeInSnapshot")>>),
     MCItem(4, <<Extent(0, 6, 2, "zeroed"), Extent(2, 9, 2, "outOfVolume")>>),
     MCItem(3, <<Extent(0, 6, 2, "readFailed"), Extent(2, 9, 2, "freeInSnapshot")>>),
     MCItem(4, <<Extent(0, 6, 0, "freeInSnapshot"), Extent(0, 9, 2, "freeInSnapshot")>>),
     MCItem(4, <<Extent(0, 86, 4, "freeInSnapshot")>>),
     MCItem(4, [k \in 1 .. 4 |-> Extent(k - 1, 2 * k, 1, "freeInSnapshot")]),
     MCItem(6, <<Extent(1, 1, 1, "freeInSnapshot"), Extent(3, 3, 1, "freeInSnapshot"),
                 Extent(4, 4, 1, "zeroed")>>)}

-----------------------------------------------------------------------------
(* Carving: disks of 88 bytes with the smallest pictures there are, alone, *)
(* in a row, across chunks, one in another, with stuffed bytes, and with   *)
(* signatures that begin none.                                             *)

MCZeros(n) == [i \in 1 .. n |-> 0]
MCPadded(bytes) == bytes \o MCZeros(88 - Len(bytes))
MCSoi == <<255, 216>>
MCFrame == <<255, 192, 0, 11, 8, 0, 1, 0, 1, 1, 9, 9, 9>>
MCScan == <<255, 218, 0, 8, 1, 9, 9, 9, 9, 9>>
MCEoi == <<255, 217>>
MCPicture == MCSoi \o MCFrame \o MCScan \o <<7>> \o MCEoi
MCStuffed == MCSoi \o <<255>> \o MCFrame \o MCScan \o <<255, 0, 255, 208>> \o MCEoi
MCOuter == MCSoi \o <<255, 225, 0, 30>> \o MCPicture \o MCFrame \o MCScan \o MCEoi
MCSource ==
    {MCPadded(MCPicture), MCPadded(MCZeros(7) \o MCPicture \o MCZeros(12) \o MCPicture),
     MCPadded(MCPicture \o MCPicture \o MCPicture), MCPadded(MCZeros(8) \o MCStuffed),
     MCPadded(MCOuter \o MCPicture),
     MCPadded(MCZeros(8) \o MCSoi \o MCScan \o MCFrame \o MCEoi \o MCSoi \o MCSoi \o MCSoi),
     MCZeros(60) \o MCPicture}
MCSnapshots ==
    {NoSnapshot, [known |-> 44, allocated |-> {}], [known |-> 44, allocated |-> {20}],
     [known |-> 44, allocated |-> {0, 1, 19, 43}], [known |-> 40, allocated |-> {16}],
     [known |-> 44, allocated |-> {3, 15, 23, 38}]}
MCStored(id, offset) ==
    [id |-> id, method |-> "metadata", size |-> 28,
     extents |-> <<Extent(0, offset, 4, "freeInSnapshot"),
                   Extent(4, offset + 4, 24, "freeInSnapshot")>>]
MCMetadata == {<<>>, <<MCStored(3, 0), MCStored(5, 0)>>, <<MCStored(1, 60), MCStored(2, 1)>>}
MCBadBytes == {{}, {0}, {8}, {15}, {21}, {50}}

-----------------------------------------------------------------------------
(* Images: GPT disks with a gap, an entry outside the usable part and no   *)
(* partition; MBR disks with a chain, one that loops, and a partition      *)
(* outside the image; a volume without a table.                            *)

MCPlain(start, sectors) == Entry("plain", start, sectors)
MCExtended(start, sectors) == Entry("extended", start, sectors)
MCLogical(at, start, sectors) == [at |-> at, start |-> start, sectors |-> sectors]
MCLayout(kind, name, list, logical, back) ==
    [kind |-> kind, name |-> name, entries |-> list, logical |-> logical, back |-> back]
MCLayouts ==
    {MCLayout("gpt", "g", <<MCPlain(3, 6), MCPlain(9, 6), Unused>>, <<>>, 0),
     MCLayout("gpt", "g", <<MCPlain(3, 4), MCPlain(1, 3), MCPlain(7, 8)>>, <<>>, 0),
     MCLayout("gpt", "h", <<Unused, MCPlain(9, 0), Unused>>, <<>>, 0),
     MCLayout("mbr", "m", <<MCPlain(1, 4), MCExtended(5, 12)>>,
              <<MCLogical(5, 6, 4), MCLogical(10, 11, 5)>>, 0),
     MCLayout("mbr", "m", <<MCExtended(1, 9), MCPlain(30, 4), MCPlain(9, 6)>>,
              <<MCLogical(1, 2, 3), MCLogical(5, 6, 3)>>, 1),
     MCLayout("none", "n", <<>>, <<>>, 0)}
MCCode == <<MCPlain(40, 9), Unused>>
MCBoot(oem, total, perCluster, mft, fats, rootSectors, rootCluster) ==
    [signed |-> TRUE, oem |-> oem, total |-> total, perCluster |-> perCluster, mft |-> mft,
     reserved |-> 1, fats |-> fats, fatSectors |-> 1, rootSectors |-> rootSectors,
     rootCluster |-> rootCluster]
MCBoots ==
    {MCBoot("NTFS", 4, 1, 1, 1, 0, 0), MCBoot("NTFS", 6, 1, 2, 1, 0, 0),
     MCBoot("NTFS", 4, 4, 1, 1, 0, 0), MCBoot("FAT", 4, 1, 0, 1, 1, 0),
     MCBoot("FAT", 5, 1, 0, 1, 0, 2), MCBoot("FAT", 3, 1, 0, 1, 0, 9),
     MCBoot("FAT", 3, 1, 0, 1, 1, 9), MCBoot("FAT", 6, 4, 0, 1, 1, 9),
     MCBoot("FAT", 6, 1, 0, 9, 1, 9)}
=============================================================================
