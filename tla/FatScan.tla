------------------------------- MODULE FatScan ------------------------------
(***************************************************************************)
(* crates/fs-fat: how the deleted files and directories of a FAT volume    *)
(* are found.  The table is read once, and then directories are walked in  *)
(* depth, those that are deleted as far as they can still be read.         *)
(***************************************************************************)
EXTENDS FatVolume

CONSTANTS
    MaxDirClusters,  \* MAX_DIR_BYTES, in clusters
    MaxDirDepth,
    MaxDirs,
    MaxUnreadable    \* clusters that cannot be read

VARIABLES
    fatPhase,       \* "use", "walk", "done" or "failed"
    fatUnreadable,  \* the clusters that cannot be read
    work,           \* the entries still to be looked at, in order
    visited,        \* clusters of directories walked
    dirs,           \* how many directories were walked
    fatCandidates,  \* what was found
    fatComplete     \* nothing was left out

fatScanVars == <<fatPhase, fatUnreadable, work, visited, dirs, fatCandidates,
                 fatComplete>>
fatVars == <<fatVolumeVars, fatScanVars>>

FatInit ==
    /\ FatVolumeInit
    /\ fatPhase = "use" /\ fatUnreadable = {} /\ work = <<>> /\ visited = {}
    /\ dirs = 0 /\ fatCandidates = {} /\ fatComplete = TRUE

-----------------------------------------------------------------------------
(* The table.                                                              *)

Lesser(a, b) == IF a < b THEN a ELSE b
ClusterCount == Cardinality(Clusters)

Chain(start, most) ==
    LET limit == Lesser(most, ClusterCount)
        follow[n \in Nat, c \in Nat, seen \in SUBSET Clusters] ==
            IF n = 0 \/ c \notin Clusters \/ c \in seen
            THEN [clusters |-> <<>>, complete |-> FALSE]
            ELSE IF fat[c] \notin Clusters
            THEN [clusters |-> <<c>>, complete |-> fat[c] = EndOfChain]
            ELSE LET rest == follow[n - 1, fat[c], seen \cup {c}]
                 IN  [rest EXCEPT !.clusters = <<c>> \o @]
    IN  follow[limit, start, {}]

DirectoryChainLimit == Lesser(IF MaxDirClusters = 0 THEN 1 ELSE MaxDirClusters,
                              ClusterCount)

-----------------------------------------------------------------------------
(* A directory stream.  pieces are the long-name slots met since the last  *)
(* entry.  A long name belongs to a live entry when the checksum says so,  *)
(* and to a deleted one, whose checksum is lost, when it just precedes it. *)

NoPieces == [pieces |-> <<>>, checksum |-> "none", deleted |-> FALSE]

LongPiece(p, slot) ==
    LET clear == IF slot.deleted THEN ~p.deleted
                 ELSE p.checksum \notin {"none", slot.checksum}
    IN  [pieces |-> Append(IF clear THEN <<>> ELSE p.pieces, slot.piece),
         checksum |-> slot.checksum, deleted |-> slot.deleted]

ShortName(slot) == IF slot.deleted THEN <<"_", slot.short>> ELSE Short(slot.short)

EntryOf(p, slot, i) ==
    LET tied == /\ p.pieces # <<>>
                /\ IF slot.deleted THEN p.deleted ELSE p.checksum = slot.short
    IN  [name |-> IF tied THEN Reverse(p.pieces) ELSE ShortName(slot),
         certain |-> ~slot.deleted, deleted |-> slot.deleted, dir |-> slot.dir,
         start |-> slot.start, size |-> slot.size, offset |-> i, gen |-> slot.gen]

ParseDirectory(slots) ==
    LET step(x, i) ==
            IF x.ended \/ slots[i].kind = "end" THEN [x EXCEPT !.ended = TRUE]
            ELSE IF slots[i].kind = "long"
            THEN [x EXCEPT !.pending = LongPiece(@, slots[i])]
            ELSE [x EXCEPT !.pending = NoPieces,
                           !.out = Append(@, EntryOf(x.pending, slots[i], i))]
    IN  FoldLeft(step, [ended |-> FALSE, pending |-> NoPieces, out |-> <<>>],
                 [i \in DOMAIN slots |-> i]).out

(* What a cluster looks like when it is read as part of a directory: data  *)
(* of a file is taken for one that ends at once.                           *)
SlotsRead(c) == IF data[c].kind = "dir" THEN data[c].slots ELSE <<End>>
ReadClusters(clusters) ==
    LET within == SubSeq(clusters, 1, Lesser(Len(clusters), MaxDirClusters))
    IN  [ok |-> Range(within) \cap fatUnreadable = {},
         complete |-> within = clusters,
         slots |-> FlattenSeq([i \in DOMAIN within |-> SlotsRead(within[i])])]

-----------------------------------------------------------------------------
(* The extents of a deleted file.  A chain that is still there is followed *)
(* and taken for the file's; a cleared one is assumed to have been         *)
(* contiguous, and clusters that are in use again are not read.            *)

ClusterOffset(c) == (c - 2) * FatClusterSize

FileClusters(entry) ==
    LET needed == ClustersFor(entry.size)
        last   == Lesser(entry.start + needed - 1, LastCluster)
    IN  CASE entry.start \notin Clusters \/ entry.size = 0 ->
               [clusters |-> <<>>, inferred |-> FALSE]
          [] entry.start \in Clusters /\ entry.size > 0 ->
               IF fat[entry.start] = Free
               THEN [clusters |-> [i \in 1 .. last - entry.start + 1 |->
                                      entry.start + i - 1],
                     inferred |-> TRUE]
               ELSE IF fat[entry.start] = BadCluster
               THEN [clusters |-> <<>>, inferred |-> FALSE]
               ELSE [clusters |-> Chain(entry.start, needed + 1).clusters,
                     inferred |-> FALSE]

(* Bug: only the first cluster is checked for being in use.                *)
AvailabilityBug(clusters, i, inferred) ==
    IF ~inferred \/ fat[clusters[1]] = Free THEN "freeInSnapshot"
    ELSE "currentlyAllocated"

AvailabilityOf(clusters, i, inferred) ==
    IF ~inferred \/ fat[clusters[i]] = Free THEN "freeInSnapshot"
    ELSE "currentlyAllocated"

(* Adjacent clusters that are equally available become one extent.         *)
BuildFileExtents(entry) ==
    LET found == FileClusters(entry)
        used  == SubSeq(found.clusters, 1,
                        Lesser(Len(found.clusters), ClustersFor(entry.size)))
        take(i) == Lesser(FatClusterSize, entry.size - (i - 1) * FatClusterSize)
        state(i) == AvailabilityOf(used, i, found.inferred)
        joined(e, i) == /\ e.availability = state(i)
                        /\ e.physical + e.length = ClusterOffset(used[i])
        step(es, i) ==
            IF es # <<>> /\ joined(Last(es), i)
            THEN [es EXCEPT ![Len(es)].length = @ + take(i)]
            ELSE Append(es, [logical |-> (i - 1) * FatClusterSize,
                             physical |-> ClusterOffset(used[i]),
                             length |-> take(i), availability |-> state(i)])
    IN  FoldLeft(step, <<>>, [i \in DOMAIN used |-> i])

FileState(size, extents) ==
    LET covered == FoldLeft(LAMBDA sum, e : sum + e.length, 0, extents)
    IN  CASE size = 0 -> "completeUnvalidated"
          [] size > 0 /\ extents = <<>> -> "metadataOnly"
          [] OTHER ->
               IF \E e \in Range(extents) : e.availability = "currentlyAllocated"
               THEN "conflicted"
               ELSE IF covered < size THEN "partial" ELSE "completeUnvalidated"

FatCandidate(item) ==
    LET extents == IF item.entry.dir THEN <<>> ELSE BuildFileExtents(item.entry)
    IN  [kind |-> IF item.entry.dir THEN "directory" ELSE "file",
         name |-> item.entry.name, path |-> item.path,
         size |-> IF item.entry.dir THEN 0 ELSE item.entry.size,
         state |-> IF item.entry.dir THEN "exactEvidence"
                   ELSE FileState(item.entry.size, extents),
         extents |-> extents,
         inferred |-> ~item.entry.dir /\ FileClusters(item.entry).inferred,
         id |-> Cardinality(fatCandidates) + 1, gen |-> item.entry.gen]

-----------------------------------------------------------------------------
(* The walk.                                                               *)

Item(entry, path, active) == [entry |-> entry, path |-> path, active |-> active]

(* The entries of a directory come next, unless a bound is met.            *)
Walk(slots, path, active, rest, whole) ==
    IF Len(path) >= MaxDirDepth \/ dirs >= MaxDirs
    THEN work' = rest /\ fatComplete' = FALSE /\ UNCHANGED dirs
    ELSE LET entries == ParseDirectory(slots)
         IN  /\ work' = [i \in DOMAIN entries |-> Item(entries[i], path, active)] \o rest
             /\ fatComplete' = whole
             /\ dirs' = dirs + 1

(* The driver has stopped using the volume.  The other copy of the table   *)
(* may disagree after a stop of the machine, or be unreadable.             *)
ScanFat ==
    /\ fatPhase = "use"
    /\ \E bad \in {b \in SUBSET Clusters : Cardinality(b) <= MaxUnreadable},
          otherCopy \in (IF torn THEN BOOLEAN ELSE {TRUE}) :
          LET rootChain == Chain(root, DirectoryChainLimit)
              read == /\ Range(rootChain.clusters) \cap bad = {}
              slots == FlattenSeq([i \in DOMAIN rootChain.clusters |->
                                      SlotsRead(rootChain.clusters[i])])
          IN  /\ fatUnreadable' = bad
              /\ IF read
                 THEN /\ fatPhase' = "walk"
                      /\ Walk(slots, <<>>, TRUE, <<>>,
                              otherCopy /\ rootChain.complete)
                 ELSE /\ fatPhase' = "failed"
                      /\ UNCHANGED <<work, dirs, fatComplete>>
    /\ UNCHANGED <<fatVolumeVars, visited, fatCandidates>>

SkipEntry ==
    /\ fatPhase = "walk" /\ work # <<>>
    /\ ~Head(work).entry.dir /\ ~Head(work).entry.deleted
    /\ work' = Tail(work)
    /\ UNCHANGED <<fatVolumeVars, fatPhase, fatUnreadable, visited, dirs,
                   fatCandidates, fatComplete>>

EmitFileCandidate ==
    /\ fatPhase = "walk" /\ work # <<>>
    /\ ~Head(work).entry.dir /\ Head(work).entry.deleted
    /\ fatCandidates' = fatCandidates \cup {FatCandidate(Head(work))}
    /\ work' = Tail(work)
    /\ UNCHANGED <<fatVolumeVars, fatPhase, fatUnreadable, visited, dirs, fatComplete>>

(* The clusters of a directory, and whether they are all of it.            *)
DirectoryClusters(entry) ==
    IF entry.deleted /\ fat[entry.start] = Free
    THEN [clusters |-> <<entry.start>>, complete |-> FALSE]
    ELSE Chain(entry.start, DirectoryChainLimit)

HandleDirectory ==
    /\ fatPhase = "walk" /\ work # <<>> /\ Head(work).entry.dir
    /\ LET item   == Head(work)
           entry  == item.entry
           found  == DirectoryClusters(entry)
           read   == ReadClusters(found.clusters)
           skip   == \/ entry.start \notin Clusters
                     \/ entry.start \in visited
                     \/ entry.deleted /\ fat[entry.start] = BadCluster
       IN  /\ fatCandidates' = fatCandidates \cup
                  (IF entry.deleted THEN {FatCandidate(item)} ELSE {})
           /\ visited' = IF skip THEN visited ELSE visited \cup Range(found.clusters)
           /\ IF skip \/ ~read.ok
              THEN work' = Tail(work) /\ fatComplete' = FALSE /\ UNCHANGED dirs
              ELSE Walk(read.slots, Append(item.path, entry.name),
                        item.active /\ ~entry.deleted, Tail(work),
                        fatComplete /\ found.complete /\ read.complete)
    /\ UNCHANGED <<fatVolumeVars, fatPhase, fatUnreadable>>

FinishFat ==
    /\ fatPhase = "walk" /\ work = <<>>
    /\ fatPhase' = "done"
    /\ UNCHANGED <<fatVolumeVars, fatUnreadable, work, visited, dirs, fatCandidates,
                   fatComplete>>

FatNext ==
    \/ fatPhase = "use" /\ DriverWrites /\ UNCHANGED fatScanVars
    \/ ScanFat \/ SkipEntry \/ EmitFileCandidate \/ HandleDirectory \/ FinishFat

-----------------------------------------------------------------------------
(* Properties.                                                             *)

FatFiles == {c \in fatCandidates : c.kind = "file"}
DeletedEntries(slots) == {s \in Range(slots) : s.kind = "entry" /\ s.deleted}
DeletedInLiveDirs == UNION {DeletedEntries(SlotsOf(ChainFrom(d.start))) : d \in LiveFatDirs}

(* The start of a deleted file or directory is in use by another one.      *)
TakenOver(slot) ==
    /\ slot.start \in Clusters /\ fat[slot.start] # Free
    /\ data[slot.start].gen # slot.gen
SomeTakenOver ==
    \E c \in {d \in Clusters : data[d].kind = "dir"} :
       \E s \in DeletedEntries(data[c].slots) : TakenOver(s)

(* What unit u of the volume holds, and what unit i of a file was.         *)
HeldAt(u) == LET d == data[u \div FatClusterSize + 2]
             IN  IF d.kind = "dir" THEN <<d.gen, "dir">>
                 ELSE <<d.gen, (d.index * FatClusterSize) + (u % FatClusterSize)>>
StoredAt(gen, i) == <<gen, i>>
ReadableUnits(c) ==
    {<<e.logical + n, e.physical + n>> :
        <<e, n>> \in {<<e, n>> \in Range(c.extents) \X (0 .. c.size) :
                       n < e.length /\ e.availability = "freeInSnapshot"}}

(* What is read for a file is its own, as far as the table can tell: never *)
(* what another file has in use.                                           *)
ReadsItsOwn(c) ==
    \A p \in ReadableUnits(c) :
       \/ HeldAt(p[2]) = StoredAt(c.gen, p[1])
       \/ fat[p[2] \div FatClusterSize + 2] = Free

(* A file that was stored in one piece and that nobody overwrote is there  *)
(* from its first to its last unit.                                        *)
Intact(gen) ==
    LET cs == made[gen].clusters
    IN  \A i \in DOMAIN cs : /\ cs[i] = cs[1] + i - 1
                              /\ data[cs[i]] = FileData(gen, i - 1)
IntactIsComplete(c) ==
    Intact(c.gen) =>
       ReadableUnits(c) = {<<i, ClusterOffset(made[c.gen].clusters[1]) + i>> :
                         i \in 0 .. c.size - 1}

(* The names shown may have lost their first letter.                       *)
NameFits(shown, gen) ==
    shown \in {<<made[gen].name>>, Short(made[gen].name), <<"_", made[gen].name>>}
RECURSIVE PathFits(_, _)
PathFits(path, gen) ==
    IF gen = 0 THEN path = <<>>
    ELSE path # <<>> /\ NameFits(Last(path), gen) /\ PathFits(Front(path), made[gen].parent)

(* What a finished scan says of deleted files is true: what is read for    *)
(* one is its own or at least in no one's use, a file that is intact is    *)
(* offered whole, and a scan that calls itself complete has every deleted  *)
(* entry once, where it was -- unless another file has the start of a      *)
(* deleted one in use, which the scanner takes for a retained chain        *)
(* (scan.rs:430).                                                          *)
FatScanIsTrue ==
    fatPhase = "done" =>
       /\ \A c \in FatFiles :
             (SomeTakenOver \/ ReadsItsOwn(c)) /\ IntactIsComplete(c)
       /\ fatComplete /\ ~SomeTakenOver =>
             /\ {s.gen : s \in DeletedInLiveDirs} \subseteq {c.gen : c \in fatCandidates}
             /\ \A c, d \in fatCandidates : c.gen = d.gen => c = d
             /\ \A c \in fatCandidates :
                   NameFits(c.name, c.gen) /\ PathFits(c.path, made[c.gen].parent)

(* What scan.rs:430 says of a retained chain: the table "still references  *)
(* these clusters for this very file".  So what is offered to be read of a *)
(* deleted file is never what another file has in use.                     *)
RetainedChainIsItsOwn ==
    fatPhase = "done" => \A c \in FatFiles : ReadsItsOwn(c)
=============================================================================
