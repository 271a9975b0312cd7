---------------------------- MODULE ContentStream ---------------------------
(***************************************************************************)
(* From what NTFS says of a deleted file to the bytes of the restored one: *)
(* the candidate is built (NtfsContent), planned as segments to read or to *)
(* fill with zeros (crates/restore/src/plan.rs), and streamed to a writer  *)
(* chunk by chunk from a source that may fail to read                      *)
(* (crates/restore/src/stream.rs).                                         *)
(*                                                                         *)
(* A unit of content is the number of the place it is stored at, ZeroUnit, *)
(* Junk where a failed read left anything, or Lost for what no scanner     *)
(* could tell.                                                             *)
(***************************************************************************)
EXTENDS NtfsContent, Lists, TLC

CONSTANTS
    Files,          \* deleted files: attribute records, with their layout
    Bitmaps,        \* what became of $Bitmap: such records too
    Allocations,    \* sets of clusters in use
    Listed,         \* candidates planned as they are
    ScratchLength,  \* the buffer of the stream
    MaxSegments,    \* MAX_CONTENT_PLAN_SEGMENTS
    MaxZeroRanges,  \* MAX_ZERO_FILLED_RANGES
    MaxBad          \* units that cannot be read, in all

ASSUME StreamAssumption ==
    /\ ScratchLength \in Nat \ {0}
    /\ MaxSegments \in Nat \ {0} /\ MaxZeroRanges \in Nat /\ MaxBad \in Nat

VARIABLES
    stage,     \* "planned", "streaming", "done" or "failed"
    task,      \* what is to be restored, how, and what it truly was
    plan,      \* the segments, whether they need best effort, the error met
    segment,   \* the segment being streamed
    position,  \* how far
    chunk,     \* what is in the buffer and not yet written
    output,    \* what the writer took
    hashed,    \* what the hasher took
    evidence,  \* the ranges filled with zeros
    best,      \* requires_best_effort
    error      \* why it failed

streamVars == <<stage, task, plan, segment, position, chunk, output, hashed,
                evidence, best, error>>

Junk == -2
Untold == -3

-----------------------------------------------------------------------------
(* How NTFS writes run lists.                                              *)

DigitsOf(n, width) == [k \in 1 .. width |-> (n \div (Digit ^ (k - 1))) % Digit]
UnsignedDigits(n) ==
    DigitsOf(n, CHOOSE w \in 1 .. MaxWidth :
                   n < Digit ^ w /\ \A v \in 1 .. w - 1 : n >= Digit ^ v)
FitsSigned(n, w) == 2 * n < Digit ^ w /\ 2 * n >= -(Digit ^ w)
SignedDigits(n) ==
    LET w == CHOOSE v \in 1 .. MaxWidth :
                FitsSigned(n, v) /\ \A u \in 1 .. v - 1 : ~FitsSigned(n, u)
    IN  DigitsOf(n % (Digit ^ w), w)

Encode(layout) ==
    LET stored(k) == {j \in 1 .. k - 1 : layout[j].lcn # NoCluster}
        before(k) == IF stored(k) = {} THEN 0
                     ELSE layout[CHOOSE j \in stored(k) : \A i \in stored(k) : i <= j].lcn
    IN  [terminated |-> TRUE,
         elements |-> [k \in DOMAIN layout |->
            [count |-> UnsignedDigits(layout[k].count),
             distance |-> IF layout[k].lcn = NoCluster THEN <<>>
                          ELSE SignedDigits(layout[k].lcn - before(k))]]]

(* What unit i of a file truly was.                                        *)
TrueUnit(file, i) ==
    CASE file.form = "resident"   -> file.place + i
      [] file.form = "compressed" -> Untold
      [] OTHER -> IF i >= file.initialized THEN ZeroUnit ELSE UnitOf(file.layout, i)

(* The clusters in use, unit by unit of $Bitmap, wherever it is stored.    *)
BitsOf(bitmap, allocated, unit) ==
    {c \in allocated : UnitOf(bitmap.layout, c \div BitsPerUnit) = unit}

-----------------------------------------------------------------------------
(* The plan.                                                               *)

Reason == [sparse |-> "sparse", currentlyAllocated |-> "currentlyAllocated",
           outOfVolume |-> "outOfVolume", readFailed |-> "previouslyReadFailed",
           zeroed |-> "zeroed", unknown |-> "unknownAvailability"]
ReadSegment(logical, physical, length, availability) ==
    [kind |-> "read", logical |-> logical, physical |-> physical, length |-> length,
     why |-> availability]
ZeroSegment(logical, length, reason) ==
    [kind |-> "zero", logical |-> logical, physical |-> NoPlace, length |-> length,
     why |-> reason]
Unavailable(s) == s.kind = "zero" /\ s.why # "sparse"

Stored(e) == e.availability \in {"freeInSnapshot", "resident"} /\ e.physical # NoPlace
ReasonOf(e) == IF e.availability \in {"freeInSnapshot", "resident"}
               THEN "unknownAvailability" ELSE Reason[e.availability]
ReadableMapping(e) ==
    IF Stored(e) THEN ReadSegment(e.logical, e.physical, e.length, e.availability)
    ELSE ZeroSegment(e.logical, e.length, ReasonOf(e))

Extents == [logical : Nat, physical : Nat \cup {NoPlace}, length : Nat,
            availability : {"freeInSnapshot", "resident"} \cup DOMAIN Reason]
Candidates == [size : Nat, extents : Seq(Extents)]
Reasons == {Reason[a] : a \in DOMAIN Reason} \cup {"missingExtent"}
Segments == [kind : {"read", "zero"}, logical : Nat, physical : Nat \cup {NoPlace},
             length : Nat, why : {"freeInSnapshot", "resident"} \cup Reasons]
PlanStates == [segments : Seq(Segments), best : BOOLEAN, cursor : Nat,
               error : {"none", "unavailableContent", "segmentLimit", "overlappingExtents",
                        "physicalOutOfBounds", "zeroLengthExtent", "logicalOutOfBounds"}]

Fail(p, why) == IF p.error = "none" THEN [p EXCEPT !.error = why] ELSE p

(* Equal neighbours become one segment; stored ones if they are stored so. *)
Joins(s, t) ==
    /\ s.kind = t.kind /\ s.why = t.why /\ s.logical + s.length = t.logical
    /\ s.kind = "read" => s.physical + s.length = t.physical

Push(p, s, policy) ==
    IF p.error # "none" THEN p
    ELSE IF Unavailable(s) /\ policy = "completeOnly" THEN Fail(p, "unavailableContent")
    ELSE IF p.segments # <<>> /\ Joins(Last(p.segments), s)
    THEN [p EXCEPT !.segments[Len(p.segments)].length = @ + s.length]
    ELSE IF Len(p.segments) >= MaxSegments THEN Fail(p, "segmentLimit")
    ELSE [p EXCEPT !.segments = Append(@, s), !.best = @ \/ Unavailable(s)]

PlanExtent(p, e, source, policy) ==
    LET gap  == IF e.logical > p.cursor
                THEN Push(p, ZeroSegment(p.cursor, e.logical - p.cursor, "missingExtent"), policy)
                ELSE p
        s    == ReadableMapping(e)
        next == IF s.kind = "read" /\ s.physical + s.length > source
                THEN Fail(gap, "physicalOutOfBounds") ELSE Push(gap, s, policy)
    IN  IF e.logical < p.cursor THEN Fail(p, "overlappingExtents")
        ELSE [next EXCEPT !.cursor = e.logical + e.length]

LogicalOrder(es) ==
    Arranged(Len(es), {p \in (DOMAIN es) \X (DOMAIN es) :
                          \/ es[p[1]].logical < es[p[2]].logical
                          \/ es[p[1]].logical = es[p[2]].logical /\ p[1] < p[2]})
NewPlan == [segments |-> <<>>, best |-> FALSE, cursor |-> 0, error |-> "none"]
PlanExtents(es, source, policy) ==
    Folded([k \in DOMAIN es |-> [p \in PlanStates |->
               PlanExtent(p, es[LogicalOrder(es)[k]], source, policy)]], NewPlan, Len(es))

PlanCandidate(candidate, source, policy) ==
    LET es  == candidate.extents
        new == NewPlan
        all == PlanExtents(es, source, policy)
    IN  IF Len(es) > MaxSegments THEN Fail(new, "segmentLimit")
        ELSE IF \E e \in Range(es) : e.length = 0 THEN Fail(new, "zeroLengthExtent")
        ELSE IF \E e \in Range(es) : e.logical + e.length > candidate.size
        THEN Fail(new, "logicalOutOfBounds")
        ELSE IF all.cursor < candidate.size
        THEN Push(all, ZeroSegment(all.cursor, candidate.size - all.cursor, "missingExtent"), policy)
        ELSE all

-----------------------------------------------------------------------------
(* The evidence.                                                           *)

ZeroRange(logical, length, reason) ==
    [logical |-> logical, length |-> length, reason |-> reason]

AppendZeroRange(z, r) ==
    LET ranges == z.ranges
        joins  == /\ ranges # <<>> /\ Last(ranges).reason = r.reason
                  /\ Last(ranges).logical + Last(ranges).length = r.logical
    IN  IF joins THEN [z EXCEPT !.ranges[Len(ranges)].length = @ + r.length]
        ELSE IF Len(ranges) >= MaxZeroRanges THEN [z EXCEPT !.ok = FALSE]
        ELSE [z EXCEPT !.ranges = Append(@, r)]
ZeroRanges == [logical : Nat, length : Nat, reason : Reasons]
AppendZeroRanges(ranges, more) ==
    Folded([k \in DOMAIN more |-> [z \in [ok : BOOLEAN, ranges : Seq(ZeroRanges)] |->
               AppendZeroRange(z, more[k])]],
           [ok |-> TRUE, ranges |-> ranges], Len(more))

PlannedZeroRanges(segments) ==
    LET zeros == SelectSeq(segments, LAMBDA s : s.kind = "zero")
    IN  AppendZeroRanges(<<>>, [k \in DOMAIN zeros |->
            ZeroRange(zeros[k].logical, zeros[k].length, zeros[k].why)])

(* A plan is looked at again before anything is written.                   *)
Preflight(candidate, p, source, policy) ==
    LET ends == [k \in DOMAIN p.segments |-> p.segments[k].logical + p.segments[k].length]
        starts == [k \in DOMAIN p.segments |-> IF k = 1 THEN 0 ELSE ends[k - 1]]
        bad(s) == \/ s.length = 0 \/ s.logical + s.length > candidate.size
                  \/ s.kind = "read" /\ s.physical + s.length > source
                  \/ Unavailable(s) /\ policy = "completeOnly"
    IN  /\ Len(p.segments) <= MaxSegments
        /\ \A k \in DOMAIN p.segments :
              ~bad(p.segments[k]) /\ p.segments[k].logical = starts[k]
        /\ (IF p.segments = <<>> THEN 0 ELSE Last(ends)) = candidate.size
        /\ p.best <=> \E s \in Range(p.segments) : Unavailable(s)

-----------------------------------------------------------------------------
(* What a reader reports of a chunk of n units.                            *)

Reports(n) ==
    LET range == [offset : 0 .. n, length : 0 .. n]
    IN  [ranges : UNION {[1 .. k -> range] : k \in 0 .. 2}, valid : 0 .. n]
Covered(ranges) ==
    UNION {r.offset .. r.offset + r.length - 1 : r \in Range(ranges)}

(* Bug: what a range before it covers is forgotten.                        *)
MergeRangeBug(merged, r) ==
    IF merged # <<>> /\ r.offset <= Last(merged).end
    THEN [merged EXCEPT ![Len(merged)].end = r.offset + r.length]
    ELSE Append(merged, [start |-> r.offset, end |-> r.offset + r.length])

MergeRange(merged, r) ==
    IF merged # <<>> /\ r.offset <= Last(merged).end
    THEN [merged EXCEPT ![Len(merged)].end = Larger(@, r.offset + r.length)]
    ELSE Append(merged, [start |-> r.offset, end |-> r.offset + r.length])

Before(r, q) == r.offset < q.offset \/ (r.offset = q.offset /\ r.length < q.length)
RangeOrder(rs) ==
    Arranged(Len(rs), {p \in (DOMAIN rs) \X (DOMAIN rs) :
                          \/ Before(rs[p[1]], rs[p[2]])
                          \/ rs[p[1]] = rs[p[2]] /\ p[1] < p[2]})
MergedRanges(rs) ==
    Folded([k \in DOMAIN rs |-> [m \in Seq([start : Nat, end : Nat]) |->
               MergeRange(m, rs[RangeOrder(rs)[k]])]], <<>>, Len(rs))

NormalizeBadRanges(n, outcome) ==
    LET rs     == outcome.ranges
        merged == MergedRanges(rs)
        bad    == Total([k \in DOMAIN merged |-> merged[k].end - merged[k].start])
    IN  [ok |-> /\ Len(rs) <= n
                /\ \A r \in Range(rs) : r.length > 0 /\ r.offset + r.length <= n
                /\ outcome.valid = n - bad,
         ranges |-> merged]

(* What can come of a read: what is made of the report, and what was bad.  *)
Outcomes ==
    [n \in 1 .. ScratchLength |->
        {[report |-> NormalizeBadRanges(n, o), bad |-> Covered(o.ranges)] : o \in Reports(n)}]

-----------------------------------------------------------------------------
(* What is to be restored.                                                 *)

OnDisk(file) ==
    file @@ [list |-> [Encode(file.layout) EXCEPT !.terminated = ~file.damaged]]
UnitsOf(c) == c * ClusterSize .. (c + 1) * ClusterSize - 1

NtfsTask(file, bitmap, allocated) ==
    LET map == LoadAllocationMap(OnDisk(bitmap),
                                 [unit \in 0 .. SourceLength - 1 |->
                                     BitsOf(bitmap, allocated, unit)])
    IN  [candidate |-> NtfsCandidate(OnDisk(file), map),
         truth |-> [i \in 1 .. file.size |-> TrueUnit(file, i - 1)],
         inUse |-> IF file.form = "resident" THEN {}
                   ELSE UNION {UnitsOf(c) : c \in allocated},
         sound |-> ~file.damaged]

ListedTruth(candidate, i) ==
    LET at == {e \in Range(candidate.extents) : i >= e.logical /\ i < e.logical + e.length}
        e  == CHOOSE x \in at : TRUE
    IN  CASE Cardinality(at) # 1 -> Untold
          [] Cardinality(at) = 1 ->
               IF Stored(e) THEN e.physical + (i - e.logical)
               ELSE IF e.availability = "sparse" THEN ZeroUnit ELSE Untold
ListedTask(candidate) ==
    [candidate |-> candidate, inUse |-> {}, sound |-> TRUE,
     truth |-> [i \in 1 .. candidate.size |-> ListedTruth(candidate, i - 1)]]

(* Whatever is restored is typed: a candidate of the core model.           *)
ASSUME CandidatesAssumption ==
    /\ \A f \in Files, b \in Bitmaps, a \in Allocations :
          NtfsTask(f, b, a).candidate \in Candidates
    /\ Listed \subseteq Candidates

(* With a policy, and the hash the content is expected to have, if any.    *)
Tasks(t) ==
    [candidate : {t.candidate}, truth : {t.truth}, inUse : {t.inUse}, sound : {t.sound},
     policy : {"completeOnly", "zeroFillAndMap"}, expected : {{}, {t.truth}}]

StreamInit ==
    /\ stage = "planned"
    /\ \/ \E f \in Files, b \in Bitmaps, a \in Allocations :
             task \in Tasks(NtfsTask(f, b, a))
       \/ \E c \in Listed : task \in Tasks(ListedTask(c))
    /\ plan = PlanCandidate(task.candidate, SourceLength, task.policy)
    /\ segment = 1 /\ position = 0 /\ chunk = <<>> /\ output = <<>> /\ hashed = <<>>
    /\ evidence = <<>> /\ best = FALSE /\ error = "none"

-----------------------------------------------------------------------------
(* The stream.                                                             *)

Ends(how) == stage' = "failed" /\ error' = how

StartStream ==
    /\ stage = "planned"
    /\ IF plan.error # "none" THEN Ends(plan.error) /\ UNCHANGED best
       ELSE IF ~Preflight(task.candidate, plan, SourceLength, task.policy)
       THEN Ends("invalidPlan") /\ UNCHANGED best
       ELSE IF ~PlannedZeroRanges(plan.segments).ok
       THEN Ends("zeroRangeLimit") /\ UNCHANGED best
       ELSE stage' = "streaming" /\ best' = plan.best /\ UNCHANGED error
    /\ UNCHANGED <<task, plan, segment, position, chunk, output, hashed, evidence>>

Streaming == stage = "streaming" /\ segment \in DOMAIN plan.segments
Current   == plan.segments[segment]
ChunkLength == Smaller(Current.length - position, ScratchLength)

(* Between two chunks, or two writes of one, it may be cancelled.          *)
CancelStream ==
    /\ Streaming
    /\ Ends("cancelled")
    /\ UNCHANGED <<task, plan, segment, position, chunk, output, hashed, evidence, best>>

BadSoFar == Total([k \in DOMAIN evidence |->
                     IF evidence[k].reason = "previouslyReadFailed"
                     THEN evidence[k].length ELSE 0])

ReadChunk ==
    /\ Streaming /\ chunk = <<>> /\ Current.kind = "read" /\ position < Current.length
    /\ LET n       == ChunkLength
           logical == Current.logical + position
           unit(i) == Current.physical + position + i
       IN  \E o \in Outcomes[n] :
              LET failed == o.report.ranges
                  more   == AppendZeroRanges(evidence, [k \in DOMAIN failed |->
                               ZeroRange(logical + failed[k].start,
                                         failed[k].end - failed[k].start,
                                         "previouslyReadFailed")])
                  zeroed == UNION {r.start .. r.end - 1 : r \in Range(failed)}
              IN  /\ BadSoFar + Cardinality(o.bad) <= MaxBad
                  /\ IF ~o.report.ok
                     THEN Ends("invalidReadOutcome") /\ UNCHANGED <<chunk, evidence, best>>
                     ELSE IF failed # <<>> /\ task.policy = "completeOnly"
                     THEN Ends("readFailure") /\ UNCHANGED <<chunk, evidence, best>>
                     ELSE IF ~more.ok
                     THEN Ends("zeroRangeLimit") /\ UNCHANGED <<chunk, evidence, best>>
                     ELSE /\ chunk' = [i \in 1 .. n |->
                                IF i - 1 \in zeroed THEN ZeroUnit
                                ELSE IF i - 1 \in o.bad THEN Junk ELSE unit(i - 1)]
                          /\ evidence' = more.ranges
                          /\ best' = (best \/ failed # <<>>)
                          /\ UNCHANGED <<stage, error>>
    /\ UNCHANGED <<task, plan, segment, position, output, hashed>>

(* The evidence is noted once for a segment, before its first chunk.       *)
ZeroChunk ==
    /\ Streaming /\ chunk = <<>> /\ Current.kind = "zero" /\ position < Current.length
    /\ LET s    == Current
           more == AppendZeroRanges(evidence, <<ZeroRange(s.logical, s.length, s.why)>>)
       IN  IF position = 0 /\ ~more.ok
           THEN Ends("zeroRangeLimit") /\ UNCHANGED <<chunk, evidence>>
           ELSE /\ chunk' = [i \in 1 .. ChunkLength |-> ZeroUnit]
                /\ evidence' = IF position = 0 THEN more.ranges ELSE evidence
                /\ UNCHANGED <<stage, error>>
    /\ UNCHANGED <<task, plan, segment, position, output, hashed, best>>

(* The writer takes some of it, or fails.                                  *)
WriteCommitted ==
    /\ Streaming /\ chunk # <<>>
    /\ \E n \in 0 .. Len(chunk) :
          IF n = 0 THEN Ends("outputWrite")
                        /\ UNCHANGED <<position, segment, chunk, output, hashed>>
          ELSE LET taken == SubSeq(chunk, 1, n)
                   over  == position + n = Current.length
               IN  /\ output' = output \o taken /\ hashed' = hashed \o taken
                   /\ chunk' = SubSeq(chunk, n + 1, Len(chunk))
                   /\ segment' = IF over THEN segment + 1 ELSE segment
                   /\ position' = IF over THEN 0 ELSE position + n
                   /\ UNCHANGED <<stage, error>>
    /\ UNCHANGED <<task, plan, evidence, best>>

FinishStream ==
    /\ stage = "streaming" /\ segment \notin DOMAIN plan.segments
    /\ IF Len(output) # task.candidate.size THEN Ends("outputLength")
       ELSE IF task.expected # {} /\ hashed \notin task.expected THEN Ends("hashMismatch")
       ELSE stage' = "done" /\ UNCHANGED error
    /\ UNCHANGED <<task, plan, segment, position, chunk, output, hashed, evidence, best>>

StreamNext == StartStream \/ CancelStream \/ ReadChunk \/ ZeroChunk
              \/ WriteCommitted \/ FinishStream

StreamSpec == StreamInit /\ [][StreamNext]_streamVars

-----------------------------------------------------------------------------
(* Properties.                                                             *)

EvidenceAt(i) == {r \in Range(evidence) : i >= r.logical /\ i < r.logical + r.length}
NonSparse == {r \in Range(evidence) : r.reason # "sparse"}

(* What a score counts as there: not in use, not lost, not unknown.        *)
CleanlyReadable(candidate) ==
    {i \in 0 .. candidate.size - 1 :
        /\ \E e \in Range(candidate.extents) : i >= e.logical /\ i < e.logical + e.length
        /\ \A e \in Range(candidate.extents) :
              i >= e.logical /\ i < e.logical + e.length =>
                 e.availability \in {"freeInSnapshot", "resident", "sparse"}}

(* A file that was restored is its truth, unit by unit, or says of a unit  *)
(* that it is zero because it could not be had; nothing is ever taken from *)
(* clusters that are in use.  A plan for complete files is made exactly    *)
(* when all of the content counts as cleanly readable.                     *)
ContentIsTheFiles ==
    /\ stage = "done" /\ task.sound =>
          /\ Len(output) = Len(task.truth)
          /\ \A i \in 1 .. Len(output) :
                IF NonSparse \cap EvidenceAt(i - 1) = {} THEN output[i] = task.truth[i]
                ELSE output[i] = ZeroUnit
    /\ Range(output) \cap task.inUse = {}
    /\ stage = "planned" /\ task.policy = "completeOnly"
          /\ PlanCandidate(task.candidate, SourceLength, "zeroFillAndMap").error = "none" =>
          (plan.error = "none" <=>
              Cardinality(CleanlyReadable(task.candidate)) = task.candidate.size)

(* The extents of what is restored that hold unit i.                       *)
ExtentsAt(i) == {e \in Range(task.candidate.extents) : i >= e.logical /\ i < e.logical + e.length}

(* Every unit that was written is the one an extent stores there, or zero: *)
(* because an extent is sparse, or because the evidence says so.  The      *)
(* evidence gives no other reason than the extent there, that there is     *)
(* none, or a failed read; it is in order, and each range as long as it    *)
(* can be.  What was hashed is what was written.  A restore that is done   *)
(* is complete and what was expected; it says that it was best effort      *)
(* exactly when the evidence says that something is missing, and nothing   *)
(* is when only complete files were asked for.  A plan passes the check    *)
(* before the stream.                                                      *)
OutputIsAsReported ==
    /\ \A i \in 1 .. Len(output) :
          IF NonSparse \cap EvidenceAt(i - 1) # {} THEN output[i] = ZeroUnit
          ELSE \E e \in ExtentsAt(i - 1) :
                  \/ Stored(e) /\ output[i] = e.physical + (i - 1 - e.logical)
                  \/ e.availability = "sparse" /\ output[i] = ZeroUnit
    /\ \A r \in Range(evidence) : \A i \in r.logical .. r.logical + r.length - 1 :
          \/ r.reason = "missingExtent" /\ ExtentsAt(i) = {}
          \/ \E e \in ExtentsAt(i) :
                r.reason = IF Stored(e) THEN "previouslyReadFailed" ELSE ReasonOf(e)
    /\ \A k \in 1 .. Len(evidence) - 1 :
          LET end == evidence[k].logical + evidence[k].length
          IN  /\ end <= evidence[k+1].logical
              /\ end = evidence[k+1].logical => evidence[k].reason # evidence[k+1].reason
    /\ hashed = output
    /\ stage = "done" =>
          /\ Len(output) = task.candidate.size
          /\ task.expected \subseteq {output}
          /\ best <=> NonSparse # {}
          /\ task.policy = "completeOnly" => NonSparse = {}
    /\ error # "invalidPlan"
=============================================================================
