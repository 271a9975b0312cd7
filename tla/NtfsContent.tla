----------------------------- MODULE NtfsContent ----------------------------
(***************************************************************************)
(* How crates/fs-ntfs maps the content of a file onto the volume: the run  *)
(* list is decoded, the extents are cut where the allocation of clusters   *)
(* changes and where the initialized data ends, and the state of the       *)
(* candidate is derived from them.  The allocation of clusters is itself   *)
(* read from a file, $Bitmap, through its own run list.                    *)
(*                                                                         *)
(* Offsets and lengths count units of data (bytes in the code).  A number  *)
(* in a run list is a sequence of digits, the lowest first (bytes).        *)
(***************************************************************************)
EXTENDS Integers, Sequences, FiniteSets, SequencesExt

CONSTANTS
    Digit,           \* the number of values of a digit of a run list (256)
    MaxWidth,        \* digits of a number (8)
    ClusterSize,     \* units per cluster
    TotalClusters,   \* clusters of the volume
    BitsPerUnit,     \* clusters a unit of $Bitmap speaks of (8)
    MaxBitmapRead    \* MAX_BITMAP_READ_BYTES

ASSUME ContentAssumption ==
    /\ Digit \in Nat /\ Digit % 2 = 0 /\ Digit > 0 /\ MaxWidth \in Nat
    /\ ClusterSize \in Nat \ {0} /\ TotalClusters \in Nat
    /\ BitsPerUnit \in Nat \ {0} /\ MaxBitmapRead \in Nat

SourceLength == TotalClusters * ClusterSize
Smaller(a, b) == IF a < b THEN a ELSE b
Larger(a, b)  == IF a < b THEN b ELSE a
CeilingOf(a, b) == (a + b - 1) \div b
Total(lengths) == FoldLeft(LAMBDA sum, n : sum + n, 0, lengths)

-----------------------------------------------------------------------------
(* Run lists.  An element has the digits of its length and of the distance *)
(* from the start of the run before; no distance means a sparse run.       *)

NoCluster == -1
Hole(count)     == [count |-> count, lcn |-> NoCluster]
Run(count, lcn) == [count |-> count, lcn |-> lcn]

Unsigned(digits) == FoldRight(LAMBDA d, rest : d + Digit * rest, digits, 0)

(* Bug: a distance is never negative.                                      *)
SignedBug(digits) == Unsigned(digits)

Signed(digits) ==
    IF digits # <<>> /\ Last(digits) >= Digit \div 2
    THEN Unsigned(digits) - Digit ^ Len(digits)
    ELSE Unsigned(digits)

Malformed == [ok |-> FALSE, runs |-> <<>>]
Started == [ok |-> TRUE, runs |-> <<>>, at |-> 0, length |-> 0]

DecodeElement(d, element) ==
    LET count == Unsigned(element.count)
        lcn   == d.at + Signed(element.distance)
        sparse == element.distance = <<>>
    IN  IF \/ ~d.ok
           \/ Len(element.count) \notin 1 .. MaxWidth
           \/ Len(element.distance) > MaxWidth
           \/ count = 0 \/ d.length + count > TotalClusters
           \/ ~sparse /\ (lcn < 0 \/ lcn + count > TotalClusters)
        THEN [d EXCEPT !.ok = FALSE]
        ELSE [ok |-> TRUE, at |-> IF sparse THEN d.at ELSE lcn,
              length |-> d.length + count,
              runs |-> Append(d.runs, IF sparse THEN Hole(count) ELSE Run(count, lcn))]

(* A list that does not end in its terminator is as bad as a bad element.  *)
DecodeRunlist(list) ==
    LET d == FoldLeft(DecodeElement, Started, list.elements)
    IN  IF d.ok /\ list.terminated THEN [ok |-> TRUE, runs |-> d.runs] ELSE Malformed

-----------------------------------------------------------------------------
(* Reading a stream through its runs.                                      *)

(* Where unit i of the stream is, counted from 0; a sparse run holds zero. *)
ZeroUnit == -1
UnitOf(runs, i) ==
    LET before(k) == Total([j \in 1 .. k - 1 |-> runs[j].count]) * ClusterSize
        k == CHOOSE n \in DOMAIN runs :
                before(n) <= i /\ i < before(n) + runs[n].count * ClusterSize
    IN  IF runs[k].lcn = NoCluster THEN ZeroUnit
        ELSE runs[k].lcn * ClusterSize + (i - before(k))

Mapped(runs) == Total([j \in DOMAIN runs |-> runs[j].count]) * ClusterSize

ReadStreamRange(runs, offset, length) ==
    IF offset + length > Mapped(runs) THEN [ok |-> FALSE, units |-> <<>>]
    ELSE [ok |-> TRUE, units |-> [i \in 1 .. length |-> UnitOf(runs, offset + i - 1)]]

(* How much of a stream is stored, initialized and inside the source.      *)
TrustedPrefix(runs, sourceLength, dataSize, initialized) ==
    LET limit == Smaller(dataSize, initialized)
        take(t, run) ==
            LET n == Smaller(run.count * ClusterSize, limit - t.length)
            IN  IF t.stopped \/ t.length >= limit THEN t
                ELSE IF run.lcn = NoCluster \/ run.lcn * ClusterSize + n > sourceLength
                THEN [t EXCEPT !.stopped = TRUE]
                ELSE [t EXCEPT !.length = @ + n]
    IN  FoldLeft(take, [length |-> 0, stopped |-> FALSE], runs).length

-----------------------------------------------------------------------------
(* The allocation of clusters.  Beyond what could be read it is unknown.   *)

NoMap == [known |-> 0, allocated |-> {}]
KnownClusters(units) == Smaller(TotalClusters, units * BitsPerUnit)
StatusOf(map, c) == IF c >= map.known THEN "unknown"
                    ELSE IF c \in map.allocated THEN "allocated" ELSE "free"

(* $Bitmap: bits[unit] are the clusters its unit calls allocated, for the  *)
(* units of the volume.  A record that could be anything else, a damaged   *)
(* list or a failed read leave everything unknown.                         *)
LoadAllocationMap(bitmap, bits) ==
    LET list     == DecodeRunlist(bitmap.list)
        expected == CeilingOf(TotalClusters, BitsPerUnit)
        prefix   == TrustedPrefix(list.runs, SourceLength, bitmap.size,
                                  bitmap.initialized)
        take     == Smaller(Smaller(expected, prefix), MaxBitmapRead)
        read     == ReadStreamRange(list.runs, 0, take)
    IN  IF \/ ~bitmap.inPrefix \/ ~bitmap.readable \/ ~bitmap.proper
           \/ ~list.ok \/ prefix = 0 \/ ~read.ok
        THEN NoMap
        ELSE [known |-> KnownClusters(take),
              allocated |-> UNION {bits[read.units[i]] : i \in DOMAIN read.units}]

(* The clusters that are known to be free, as runs.                        *)
FreeClusterRuns(map) ==
    LET free == {c \in 0 .. map.known - 1 : StatusOf(map, c) = "free"}
        end(c) == CHOOSE e \in c + 1 .. map.known :
                     /\ c .. e - 1 \subseteq free
                     /\ e \notin free
    IN  {[offset |-> c * ClusterSize, length |-> (end(c) - c) * ClusterSize] :
            c \in {b \in free : b - 1 \notin free}}

-----------------------------------------------------------------------------
(* Extents.                                                                *)

Extent(logical, physical, length, availability) ==
    [logical |-> logical, physical |-> physical, length |-> length,
     availability |-> availability]
NoPlace == -1

Availability == [allocated |-> "currentlyAllocated", free |-> "freeInSnapshot",
                 unknown |-> "unknown"]

(* A run is cut where the allocation changes.                              *)
SplitByAllocation(logical, lcn, length, map) ==
    LET count  == CeilingOf(length, ClusterSize)
        status(i) == StatusOf(map, lcn + i)
        starts == SetToSortSeq({i \in 0 .. count - 1 :
                                   i = 0 \/ status(i) # status(i - 1)}, <)
        end(k) == IF k = Len(starts) THEN length
                  ELSE starts[k + 1] * ClusterSize
        group(k) == Extent(logical + starts[k] * ClusterSize,
                           (lcn + starts[k]) * ClusterSize,
                           end(k) - starts[k] * ClusterSize,
                           Availability[status(starts[k])])
    IN  [k \in DOMAIN starts |-> group(k)]

(* What follows the initialized part reads as zero, whatever is stored.    *)
SplitAtInitializedSize(extents, initialized, size) ==
    LET limit == Smaller(initialized, size)
        parts(e) ==
            LET end  == Smaller(e.logical + e.length, size)
                cut  == Smaller(end, limit)
                tail == Larger(e.logical, limit)
            IN  (IF e.logical < cut THEN <<[e EXCEPT !.length = cut - e.logical]>>
                 ELSE <<>>)
                \o (IF tail < end
                    THEN <<Extent(tail, NoPlace, end - tail, "sparse")>> ELSE <<>>)
    IN  FlattenSeq([k \in DOMAIN extents |-> parts(extents[k])])

BuildExtents(stream, map) ==
    LET step(x, run) ==
            LET take == Smaller(run.count * ClusterSize, stream.size - x.at)
            IN  IF take = 0 THEN x
                ELSE [at |-> x.at + take,
                      extents |-> x.extents \o
                          IF run.lcn = NoCluster
                          THEN <<Extent(x.at, NoPlace, take, "sparse")>>
                          ELSE SplitByAllocation(x.at, run.lcn, take, map)]
        all == FoldLeft(step, [at |-> 0, extents |-> <<>>], stream.runs).extents
    IN  CASE stream.form = "resident" ->
               <<Extent(0, stream.place, stream.size, "resident")>>
          [] stream.form = "compressed" -> <<>>
          [] OTHER -> SplitAtInitializedSize(all, stream.initialized, stream.size)

(* A file without a usable main stream is listed as empty.                 *)
NtfsCandidate(attribute, map) ==
    LET list == DecodeRunlist(attribute.list)
        stream == [form |-> attribute.form, size |-> attribute.size,
                   initialized |-> attribute.initialized,
                   place |-> attribute.place, runs |-> list.runs]
    IN  IF attribute.form # "resident" /\ ~list.ok
        THEN [size |-> 0, extents |-> <<>>]
        ELSE [size |-> attribute.size, extents |-> BuildExtents(stream, map)]

DeriveState(kind, candidate) ==
    LET has(a) == \E k \in DOMAIN candidate.extents :
                     candidate.extents[k].availability = a
        covered == Total([k \in DOMAIN candidate.extents |->
                             candidate.extents[k].length])
    IN  CASE kind = "directory"            -> "exactEvidence"
          [] kind = "file" /\ candidate.size = 0 -> "completeUnvalidated"
          [] kind = "file" /\ candidate.size > 0 ->
               IF candidate.extents = <<>>        THEN "metadataOnly"
               ELSE IF has("readFailed")          THEN "readError"
               ELSE IF has("currentlyAllocated")  THEN "conflicted"
               ELSE IF covered < candidate.size   THEN "partial"
               ELSE "completeUnvalidated"
=============================================================================
