----------------------------- MODULE JpegCarver -----------------------------
(***************************************************************************)
(* The deep scan: JPEG files are looked for in the clusters the allocation *)
(* snapshot proves free (crates/carving, driven by crates/cli/src/deep.rs) *)
(* and what is found is joined with the deleted files known from metadata. *)
(* A region is read chunk by chunk; where a chunk holds a signature, an    *)
(* incremental validator reads on from there.                              *)
(***************************************************************************)
EXTENDS NtfsContent, TLC

CONSTANTS
    Disks,        \* what the source may hold: sequences of bytes
    Snapshots,    \* allocation snapshots, or NoSnapshot
    Metadata,     \* the deleted files known before: sequences of them
    BadBytes,     \* sets of bytes that cannot be read
    ChunkSize,    \* DEEP_CHUNK_BYTES
    InitialRead,  \* INITIAL_VALIDATION_READ_BYTES
    MaxCandidateBytes, MaxCandidates, MaxRegions, MaxScanBytes,
    MaxSignatureAttempts, MaxValidationBytes

NoSnapshot == [known |-> -1, allocated |-> {}]
ASSUME CarverAssumption ==
    /\ ChunkSize \in Nat /\ ChunkSize >= 2
    /\ \A n \in {MaxCandidateBytes, MaxCandidates, MaxRegions, MaxScanBytes,
                 MaxSignatureAttempts, MaxValidationBytes, InitialRead} : n \in Nat \ {0}

VARIABLES
    carving,   \* "idle", "regions", "done" or "failed"
    disk,      \* the bytes of the source, counted from 1
    snapshot,  \* what is known of the allocation
    bad,       \* the bytes that cannot be read, counted from 0
    regions,   \* the regions submitted
    region,    \* the one being read
    reached,   \* how far
    tail,      \* the last byte read in it, if it could be read
    report,    \* what was found, and at what cost
    results    \* the candidates and the evidence after the merge

carverVars == <<carving, disk, snapshot, bad, regions, region, reached, tail,
                report, results>>

ByteAt(i) == disk[i + 1]
Bytes(from, length) == [i \in 1 .. length |-> ByteAt(from + i - 1)]

-----------------------------------------------------------------------------
(* The validator.                                                          *)

Sof == {192, 193, 194, 195, 197, 198, 199, 201, 202, 203, 205, 206, 207}
Sos == 218
Eoi == 217
Restart == 208 .. 215
PrefixLength == 6

NewValidator ==
    [state |-> "soiPrefix", sof |-> FALSE, sos |-> FALSE, processed |-> 0,
     marker |-> 0, high |-> 0, declared |-> 0, remaining |-> 0, prefix |-> <<>>]
Reject(v) == [v EXCEPT !.state = "rejected"]
To(v, state) == [v EXCEPT !.state = state]

HandleMarker(v, marker) ==
    CASE marker = 1   -> To(v, "markerPrefix")
      [] marker = Eoi -> IF v.sof /\ v.sos THEN To(v, "finished") ELSE Reject(v)
      [] marker \in (192 .. 254) \ (Restart \cup {216, Eoi}) ->
            [v EXCEPT !.state = "lengthHigh", !.marker = marker]
      [] OTHER        -> Reject(v)

ValidSof(v) ==
    /\ Len(v.prefix) = PrefixLength
    /\ (256 * v.prefix[2]) + v.prefix[3] > 0 /\ (256 * v.prefix[4]) + v.prefix[5] > 0
    /\ v.prefix[6] > 0 /\ v.declared = 8 + 3 * v.prefix[6]
ValidSos(v) ==
    v.prefix # <<>> /\ v.prefix[1] > 0 /\ v.declared = 6 + 2 * v.prefix[1]

FinishSegment(v) ==
    CASE v.marker \in Sof ->
            IF ValidSof(v) THEN [v EXCEPT !.sof = TRUE, !.state = "markerPrefix"]
            ELSE Reject(v)
      [] v.marker = Sos ->
            IF v.sof /\ ValidSos(v) THEN [v EXCEPT !.sos = TRUE, !.state = "entropy"]
            ELSE Reject(v)
      [] OTHER -> To(v, "markerPrefix")

BeginSegment(v, low) ==
    LET declared == 256 * v.high + low
        segment  == [v EXCEPT !.declared = declared, !.remaining = declared - 2,
                              !.prefix = <<>>, !.state = "segment"]
    IN  IF declared < 2 THEN Reject(v)
        ELSE IF declared = 2 THEN FinishSegment(segment) ELSE segment

TakeSegmentByte(v, byte) ==
    LET w == [v EXCEPT !.remaining = @ - 1,
                       !.prefix = IF Len(@) < PrefixLength THEN Append(@, byte) ELSE @]
    IN  IF w.remaining = 0 THEN FinishSegment(w) ELSE w

Consume(v, byte) ==
    CASE v.state = "soiPrefix"    -> IF byte = 255 THEN To(v, "soiCode") ELSE Reject(v)
      [] v.state = "soiCode"      -> IF byte = 216 THEN To(v, "markerPrefix") ELSE Reject(v)
      [] v.state = "markerPrefix" -> IF byte = 255 THEN To(v, "markerCode") ELSE Reject(v)
      [] v.state = "markerCode"   -> IF byte = 255 THEN v ELSE HandleMarker(v, byte)
      [] v.state = "lengthHigh"   -> [v EXCEPT !.high = byte, !.state = "lengthLow"]
      [] v.state = "lengthLow"    -> BeginSegment(v, byte)
      [] v.state = "segment"      -> TakeSegmentByte(v, byte)
      [] v.state = "entropy"      -> IF byte = 255 THEN To(v, "entropyMarker") ELSE v
      [] v.state = "entropyMarker" ->
            CASE byte = 255 -> v
              [] byte = 0 \/ byte \in Restart -> To(v, "entropy")
              [] OTHER -> HandleMarker(v, byte)

Ended(v) == v.state \in {"finished", "rejected"}
Feed(v, bytes) ==
    FoldLeft(LAMBDA w, byte : IF Ended(w) THEN w
                              ELSE [Consume(w, byte) EXCEPT !.processed = @ + 1],
             v, bytes)

-----------------------------------------------------------------------------
(* Looking at what follows a signature.                                    *)

NewReport == [found |-> <<>>, attempts |-> 0, validated |-> 0, scanned |-> 0,
              partial |-> {}, stopped |-> FALSE]
Mark(r, reason) == [r EXCEPT !.partial = @ \cup {reason}]
Stop(r, reason) == [Mark(r, reason) EXCEPT !.stopped = TRUE]

CanBeRead(from, length) == bad \cap (from .. from + length - 1) = {}

(* The verdict and the bytes read; a chunk with a bad byte ends it.        *)
RECURSIVE Inspect(_, _, _, _)
Inspect(v, start, consumed, permitted) ==
    LET preferred == IF consumed = 0 THEN Smaller(InitialRead, ChunkSize) ELSE ChunkSize
        length    == Smaller(preferred, permitted - consumed)
        w         == Feed(v, Bytes(start + consumed, length))
        read      == consumed + length
    IN  IF consumed >= permitted THEN [verdict |-> "exhausted", length |-> 0, read |-> consumed]
        ELSE IF ~CanBeRead(start + consumed, length)
        THEN [verdict |-> "readFailure", length |-> 0, read |-> read]
        ELSE IF w.state = "finished"
        THEN [verdict |-> "valid", length |-> w.processed, read |-> read]
        ELSE IF w.state = "rejected"
        THEN [verdict |-> "invalid", length |-> 0, read |-> read]
        ELSE Inspect(w, start, read, permitted)

ReadAndInspectCandidate(r, start, end) ==
    LET available == end - start
        allowed   == Smaller(available, MaxCandidateBytes)
        left      == MaxValidationBytes - r.validated
        seen      == Inspect(NewValidator, start, 0, Smaller(allowed, left))
    IN  IF left = 0 THEN [verdict |-> "validationLimit", length |-> 0, read |-> 0]
        ELSE IF seen.verdict # "exhausted" THEN seen
        ELSE [seen EXCEPT !.verdict = IF left < allowed THEN "validationLimit"
                                      ELSE IF allowed < available THEN "byteLimit"
                                      ELSE "truncated"]

ProcessSignature(r, start, end) ==
    LET seen  == ReadAndInspectCandidate(r, start, end)
        tried == [r EXCEPT !.attempts = @ + 1, !.validated = @ + seen.read]
        more  == [tried EXCEPT !.found = Append(@, [offset |-> start, length |-> seen.length])]
    IN  IF r.attempts >= MaxSignatureAttempts THEN Stop(r, "signatureAttempts")
        ELSE CASE seen.verdict = "valid" ->
                    IF Len(more.found) = MaxCandidates THEN Stop(more, "candidates") ELSE more
               [] seen.verdict = "byteLimit"       -> Mark(tried, "candidateBytes")
               [] seen.verdict = "readFailure"     -> Mark(tried, "readError")
               [] seen.verdict = "validationLimit" -> Stop(tried, "validationBytes")
               [] seen.verdict \in {"invalid", "truncated"} -> tried

-----------------------------------------------------------------------------
(* The regions: what is known to be free, inside the source, as far as the *)
(* budgets reach.                                                          *)

FreeRegions(map) == SetToSortSeq(FreeClusterRuns(map), LAMBDA a, b : a.offset < b.offset)

AdmitRegion(x, run) ==
    LET remaining == MaxScanBytes - x.bytes
        length    == Smaller(run.length, remaining)
        joins     == x.regions # <<>>
                     /\ Last(x.regions).offset + Last(x.regions).length = run.offset
        full      == ~joins /\ Len(x.regions) = MaxRegions
    IN  IF x.limited \/ run.offset + run.length > SourceLength \/ remaining = 0 \/ full
        THEN [x EXCEPT !.limited = TRUE]
        ELSE [regions |-> IF joins
                          THEN [x.regions EXCEPT ![Len(x.regions)].length = @ + length]
                          ELSE Append(x.regions, [offset |-> run.offset, length |-> length]),
              bytes   |-> x.bytes + length,
              limited |-> length < run.length]

AdmitRegions(runs) ==
    FoldLeft(AdmitRegion, [regions |-> <<>>, bytes |-> 0, limited |-> FALSE], runs)

CarverInit ==
    /\ carving = "idle" /\ disk \in Disks /\ snapshot \in Snapshots /\ bad \in BadBytes
    /\ regions = <<>> /\ region = 0 /\ reached = 0 /\ tail = 0
    /\ report = NewReport
    /\ results \in {[candidates |-> m, evidence |-> <<>>, complete |-> FALSE] : m \in Metadata}

(* Without a trustworthy snapshot nothing is carved.                       *)
CarveUnavailable ==
    /\ carving = "idle" /\ snapshot = NoSnapshot
    /\ carving' = "done"
    /\ UNCHANGED <<disk, snapshot, bad, regions, region, reached, tail, report, results>>

BeginCarving ==
    /\ carving = "idle" /\ snapshot # NoSnapshot
    /\ LET admitted == AdmitRegions(FreeRegions(snapshot))
       IN  /\ regions' = admitted.regions
           /\ report' = [report EXCEPT !.partial =
                 (IF admitted.limited THEN {"regions"} ELSE {})
                 \cup (IF snapshot.known < TotalClusters THEN {"allocation"} ELSE {})]
    /\ region' = 1 /\ carving' = "regions"
    /\ UNCHANGED <<disk, snapshot, bad, reached, tail, results>>

-----------------------------------------------------------------------------
(* One chunk of a region.                                                  *)

SignaturesIn(from, length) ==
    {i \in from .. from + length - 2 :
        ByteAt(i) = 255 /\ ByteAt(i + 1) = 216 /\ {i, i + 1} \cap bad = {}}

(* Bug: a signature that lies across two chunks is not seen.               *)
SignatureAcrossBug(from) == {}

SignatureAcross(from) ==
    IF tail = 255 /\ from \notin bad /\ ByteAt(from) = 216 THEN {from - 1} ELSE {}

ScanChunk ==
    /\ carving = "regions" /\ region \in DOMAIN regions
    /\ LET r      == regions[region]
           from   == r.offset + reached
           length == Smaller(ChunkSize, r.length - reached)
           last   == from + length - 1
           starts == SetToSortSeq(SignatureAcross(from) \cup SignaturesIn(from, length), <)
           read   == [report EXCEPT
                        !.scanned = @ + Cardinality((from .. last) \ bad),
                        !.partial = @ \cup (IF CanBeRead(from, length) THEN {}
                                            ELSE {"readError"})]
           next   == FoldLeft(LAMBDA x, s : IF x.stopped THEN x
                                            ELSE ProcessSignature(x, s, r.offset + r.length),
                              read, starts)
           over   == reached + length = r.length
       IN  /\ report' = next
           /\ region' = IF next.stopped THEN Len(regions) + 1
                        ELSE IF over THEN region + 1 ELSE region
           /\ reached' = IF over \/ next.stopped THEN 0 ELSE reached + length
           /\ tail' = IF over \/ next.stopped \/ last \in bad THEN 0 ELSE ByteAt(last)
    /\ UNCHANGED <<carving, disk, snapshot, bad, regions, results>>

-----------------------------------------------------------------------------
(* Joining what was carved with the metadata.                              *)

(* The one range of the volume a candidate is stored in, if it is one.     *)
NoRange == <<>>
ExactPhysicalRange(candidate) ==
    LET es == candidate.extents
        ok == /\ candidate.size > 0 /\ es # <<>>
              /\ \A k \in DOMAIN es :
                    /\ es[k].physical # NoPlace
                    /\ es[k].logical = IF k = 1 THEN 0 ELSE es[k-1].logical + es[k-1].length
                    /\ k > 1 => es[k].physical = es[k-1].physical + es[k-1].length
              /\ Last(es).logical + Last(es).length = candidate.size
    IN  IF ok THEN <<es[1].physical, candidate.size>> ELSE NoRange

CarvedCandidate(id, item) ==
    [id |-> id, method |-> "carving", size |-> item.length,
     extents |-> <<Extent(0, item.offset, item.length, "freeInSnapshot")>>]

(* Evidence goes to the only metadata candidate with exactly that range,   *)
(* and otherwise to a candidate of its own.                                *)
MergeOne(known, x, item) ==
    LET range  == <<item.offset, item.length>>
        owners == {c \in Range(known) : ExactPhysicalRange(c) = range}
        id     == IF Cardinality(owners) = 1 THEN (CHOOSE c \in owners : TRUE).id
                  ELSE x.last + 1
        proof  == [id |-> id, offset |-> item.offset, length |-> item.length]
    IN  IF Cardinality(owners) = 1
        THEN [x EXCEPT !.evidence = Append(@, proof)]
        ELSE [candidates |-> Append(x.candidates, CarvedCandidate(id, item)),
              evidence |-> Append(x.evidence, proof), last |-> id]

MergeCarvedEvidence(known, found) ==
    FoldLeft(LAMBDA x, item : MergeOne(known, x, item),
             [candidates |-> known, evidence |-> <<>>,
              last |-> FoldLeft(LAMBDA m, c : Larger(m, c.id), 0, known)], found)

MergeCarved ==
    /\ carving = "regions" /\ region \notin DOMAIN regions
    /\ LET merged == MergeCarvedEvidence(results.candidates, report.found)
       IN  results' = [candidates |-> merged.candidates, evidence |-> merged.evidence,
                       complete |-> report.partial = {}]
    /\ carving' = "done"
    /\ UNCHANGED <<disk, snapshot, bad, regions, region, reached, tail, report>>

CarverNext == CarveUnavailable \/ BeginCarving \/ ScanChunk \/ MergeCarved

-----------------------------------------------------------------------------
(* Properties.                                                             *)

(* What a JPEG file is, segment by segment: where the one that starts at i *)
(* ends, before end, or nowhere.                                           *)
Nowhere == -1
RECURSIVE MarkersEnd(_, _, _, _)
MarkersEnd(i, end, sof, sos) ==
    LET fill    == {j \in i + 1 .. end - 1 : \A k \in i .. j - 1 : ByteAt(k) = 255}
        at      == CHOOSE j \in fill : ByteAt(j) # 255
        marker  == ByteAt(at)
        length  == (256 * ByteAt(at + 1)) + ByteAt(at + 2)
        after   == at + 1 + length
        payload == Bytes(at + 3, length - 2)
        isSof   == /\ length >= 8 /\ payload[6] > 0 /\ length = 8 + 3 * payload[6]
                   /\ payload[2] + payload[3] > 0 /\ payload[4] + payload[5] > 0
        isSos   == /\ sof /\ length >= 3 /\ payload[1] > 0
                   /\ length = 6 + 2 * payload[1]
        scanEnd == {j \in after .. end - 2 :
                       /\ ByteAt(j) = 255
                       /\ ByteAt(j + 1) \notin Restart \cup {0, 255}}
        bare    == marker \in (1 .. 191) \cup Restart \cup {0, 216}
    IN  IF i + 1 >= end \/ ByteAt(i) # 255 \/ \A j \in fill : ByteAt(j) = 255 THEN Nowhere
        ELSE IF marker = Eoi THEN IF sof /\ sos THEN at + 1 ELSE Nowhere
        ELSE IF marker = 1 THEN MarkersEnd(at + 1, end, sof, sos)
        ELSE IF bare \/ at + 2 >= end THEN Nowhere
        ELSE IF length < 2 \/ after > end THEN Nowhere
        ELSE IF marker \in Sof
        THEN IF isSof THEN MarkersEnd(after, end, TRUE, sos) ELSE Nowhere
        ELSE IF marker # Sos THEN MarkersEnd(after, end, sof, sos)
        ELSE IF ~isSos \/ scanEnd = {} THEN Nowhere
        ELSE MarkersEnd(CHOOSE j \in scanEnd : \A k \in scanEnd : j <= k, end, sof, TRUE)

JpegEnd(i, end) ==
    IF i + 2 > end \/ ByteAt(i) # 255 \/ ByteAt(i + 1) # 216 THEN Nowhere
    ELSE MarkersEnd(i + 2, end, FALSE, FALSE)

KnownFree(offset, length) ==
    \A b \in offset .. offset + length - 1 : StatusOf(snapshot, b \div ClusterSize) = "free"

(* Whatever is carved is a whole JPEG file in clusters that are known to   *)
(* be free, whatever the chunks it was read in; a deep scan that calls     *)
(* itself complete has found every one that lies in such a stretch; and    *)
(* each find is told of once, of the only deleted file that is stored      *)
(* there or else of a file of its own.                                     *)
CarvingIsTrue ==
    /\ \A k \in DOMAIN report.found :
          LET f == report.found[k]
          IN  /\ KnownFree(f.offset, f.length)
              /\ CanBeRead(f.offset, f.length)
              /\ JpegEnd(f.offset, SourceLength) = f.offset + f.length
    /\ carving = "done" /\ results.complete =>
          \A r \in FreeClusterRuns(snapshot) :
             \A i \in r.offset .. r.offset + r.length - 1 :
                LET end == JpegEnd(i, r.offset + r.length)
                IN  end # Nowhere =>
                       \E k \in DOMAIN results.evidence :
                          results.evidence[k].offset = i
                          /\ results.evidence[k].length = end - i
    /\ carving = "done" =>
          /\ \A j, k \in DOMAIN results.candidates :
                results.candidates[j].id = results.candidates[k].id => j = k
          /\ \A k \in DOMAIN results.evidence :
                LET e == results.evidence[k]
                    at == {c \in Range(results.candidates) :
                              ExactPhysicalRange(c) = <<e.offset, e.length>>}
                IN  /\ \A j \in DOMAIN results.evidence :
                          results.evidence[j].offset = e.offset => j = k
                    /\ \E c \in at : c.id = e.id
                                     /\ (c.method = "metadata" => at = {c})
=============================================================================
