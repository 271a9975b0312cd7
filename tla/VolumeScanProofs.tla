-------------------------- MODULE VolumeScanProofs --------------------------
(***************************************************************************)
(* Machine-checked proofs about two of the readers of bytes.               *)
(*                                                                         *)
(* What is restored of a candidate, for every list of extents, every       *)
(* source and every way it fails to read, every length of the buffer and   *)
(* of the limits.  The argument follows the data: the lists that are       *)
(* sorted and folded, what the plan says of each unit (PlanIsSound), what  *)
(* the evidence says of it (Says), and the invariant of the stream         *)
(* (StreamInv) that relates both to the units that were written.           *)
(*                                                                         *)
(* Where the volumes of an image are, for every disk and every two layouts *)
(* of it, every stop of the tool between two sectors and every damage.     *)
(* What the sectors are to become (Goal) is on the disk or still pending   *)
(* (Underway); what a copy of a GPT, a boot record or a chain is made of   *)
(* follows, and LayoutInv carries it to the volumes that are scanned.      *)
(***************************************************************************)
EXTENDS ContentStream, ImageLayout, ListsProofs

(* A segment, an extent or a range of the evidence holds unit i.           *)
In(s, i) == i >= s.logical /\ i < s.logical + s.length

-----------------------------------------------------------------------------
(* The plan.                                                               *)

(* What segment s says of its units an extent of c says too.               *)
Backed(s, c) ==
    \A i \in Nat : In(s, i) =>
        IF s.kind = "read"
        THEN \E e \in Range(c.extents) :
                /\ In(e, i) /\ Stored(e)
                /\ s.physical + (i - s.logical) = e.physical + (i - e.logical)
        ELSE \/ s.why = "missingExtent" /\ \A e \in Range(c.extents) : ~In(e, i)
             \/ \E e \in Range(c.extents) : In(e, i) /\ ~Stored(e) /\ s.why = ReasonOf(e)

EndOfSegments(segments) ==
    IF segments = <<>> THEN 0 ELSE Last(segments).logical + Last(segments).length

(* The segments follow one another, as the check before the stream wants.  *)
SegmentsAreSound(segments, c, source, policy) ==
    /\ Len(segments) <= MaxSegments
    /\ \A k \in DOMAIN segments :
          /\ segments[k].length > 0 /\ Backed(segments[k], c)
          /\ segments[k].logical = IF k = 1 THEN 0
                                   ELSE segments[k - 1].logical + segments[k - 1].length
          /\ segments[k].logical + segments[k].length <= EndOfSegments(segments)
          /\ segments[k].kind = "read" =>
                /\ segments[k].physical \in Nat
                /\ ~(segments[k].physical + segments[k].length > source)
          /\ policy = "completeOnly" => ~Unavailable(segments[k])

PlanIsSound(p, c, source, policy) ==
    /\ SegmentsAreSound(p.segments, c, source, policy)
    /\ p.best <=> \E k \in DOMAIN p.segments : Unavailable(p.segments[k])

-----------------------------------------------------------------------------
(* The evidence.                                                           *)

(* The reasons that ranges give, unit by unit.                             *)
Says(ranges) ==
    {p \in Nat \X Reasons :
        \E k \in DOMAIN ranges : In(ranges[k], p[1]) /\ ranges[k].reason = p[2]}
Missing(says) == {p \in says : p[2] # "sparse"}

(* In order, none of them empty, and each as long as it can be.            *)
InOrder(ranges) ==
    /\ \A k \in DOMAIN ranges : ranges[k].length > 0
    /\ \A k \in 1 .. Len(ranges) - 1 :
          LET end == ranges[k].logical + ranges[k].length
          IN  /\ end <= ranges[k+1].logical
              /\ end = ranges[k+1].logical => ranges[k].reason # ranges[k+1].reason

(* Reason x for unit i is true of c.                                       *)
Ground(c, i, x) ==
    \/ x = "missingExtent" /\ \A e \in Range(c.extents) : ~In(e, i)
    \/ \E e \in Range(c.extents) :
          In(e, i) /\ x = IF Stored(e) THEN "previouslyReadFailed" ELSE ReasonOf(e)

(* Unit i was rightly restored as u.                                       *)
Right(says, c, i, u) ==
    IF \E x \in Reasons : <<i, x>> \in Missing(says) THEN u = ZeroUnit
    ELSE \E e \in Range(c.extents) :
            /\ In(e, i)
            /\ \/ Stored(e) /\ u = e.physical + (i - e.logical)
               \/ e.availability = "sparse" /\ u = ZeroUnit

-----------------------------------------------------------------------------
(* The invariant of the stream.                                            *)

(* The unit that is written next, and the one up to which the evidence has *)
(* been noted: a segment of zeros is noted before its first chunk.         *)
Here == IF segment \in DOMAIN plan.segments THEN Current.logical + position
        ELSE task.candidate.size
Begun == position > 0 \/ chunk # <<>>
Noted == IF segment \in DOMAIN plan.segments /\ Current.kind = "zero" /\ Begun
         THEN Current.logical + Current.length
         ELSE Here + Len(chunk)

TaskType ==
    /\ task.candidate \in Candidates /\ \E h : task.expected \subseteq {h}
    /\ plan = PlanCandidate(task.candidate, SourceLength, task.policy)
StreamType ==
    /\ segment \in Nat \ {0} /\ position \in Nat
    /\ chunk \in Seq(Int) /\ output \in Seq(Int)
    /\ evidence \in Seq(ZeroRanges) /\ best \in BOOLEAN
    /\ stage \in {"planned", "streaming", "done", "failed"}

NothingYet == segment = 1 /\ position = 0 /\ chunk = <<>> /\ output = <<>> /\ evidence = <<>>

PlaceInv ==
    /\ segment \in 1 .. Len(plan.segments) + 1
    /\ IF segment \in DOMAIN plan.segments
       THEN position < Current.length /\ position + Len(chunk) <= Current.length
       ELSE position = 0 /\ chunk = <<>>
    /\ Len(output) = Here

UnitsInv ==
    /\ \A i \in DOMAIN output : Right(Says(evidence), task.candidate, i - 1, output[i])
    /\ \A i \in DOMAIN chunk : Right(Says(evidence), task.candidate, Here + i - 1, chunk[i])

EvidenceInv ==
    /\ InOrder(evidence)
    /\ \A p \in Says(evidence) : p[1] < Noted /\ Ground(task.candidate, p[1], p[2])
    /\ \A k \in DOMAIN plan.segments :
          plan.segments[k].kind = "zero" /\ (k < segment \/ (k = segment /\ Begun)) =>
             \A i \in Nat : In(plan.segments[k], i) => <<i, plan.segments[k].why>> \in Says(evidence)

EffortInv ==
    /\ Missing(Says(evidence)) # {} => best /\ task.policy # "completeOnly"
    /\ best => plan.best \/ Missing(Says(evidence)) # {}

StreamInv ==
    /\ TaskType /\ StreamType
    /\ hashed = output /\ error # "invalidPlan"
    /\ stage = "planned" => NothingYet /\ best = FALSE
    /\ IF plan.error = "none" THEN PlaceInv /\ UnitsInv /\ EvidenceInv /\ EffortInv
       ELSE NothingYet /\ stage \in {"planned", "failed"}
    /\ stage \in {"streaming", "done"} => (plan.best => best)
    /\ stage = "done" =>
          /\ segment = Len(plan.segments) + 1 /\ Len(output) = task.candidate.size
          /\ task.expected \subseteq {output}

-----------------------------------------------------------------------------
(* The evidence: ranges that come in order are added in order, and the     *)
(* evidence says what it said and what they say.                           *)

ZeroStates == [ok : BOOLEAN, ranges : Seq(ZeroRanges)]
SaysOf(r)  == {p \in Nat \X Reasons : In(r, p[1]) /\ r.reason = p[2]}

LEMMA SaysMore ==
    ASSUME NEW t, NEW s, NEW r,
           \A p \in Nat \X Reasons : p \in Says(t) <=> p \in Says(s) \/ p \in SaysOf(r)
    PROVE  Says(t) = Says(s) \cup SaysOf(r)
<1>1. /\ Says(t) \subseteq Nat \X Reasons
      /\ Says(s) \subseteq Nat \X Reasons /\ SaysOf(r) \subseteq Nat \X Reasons
    BY DEF Says, SaysOf
<1> QED
    BY <1>1

(* A range that grew.                                                      *)
LEMMA GrownRange ==
    ASSUME NEW e \in ZeroRanges, NEW m \in Nat
    PROVE  /\ [e EXCEPT !.length = @ + m] \in ZeroRanges
           /\ [e EXCEPT !.length = @ + m].logical = e.logical
           /\ [e EXCEPT !.length = @ + m].reason = e.reason
           /\ [e EXCEPT !.length = @ + m].length = e.length + m
<1>1. e.length \in Nat /\ e.length + m \in Nat
    BY DEF ZeroRanges
<1> DEFINE l == e.length + m
<1>2. [e EXCEPT !.length = @ + m] = [e EXCEPT !.length = l]
    OBVIOUS
<1>3. l \in Nat
    BY <1>1
<1> HIDE DEF l
<1>4. /\ [e EXCEPT !.length = l] \in ZeroRanges
      /\ [e EXCEPT !.length = l].logical = e.logical
      /\ [e EXCEPT !.length = l].reason = e.reason
      /\ [e EXCEPT !.length = l].length = l
    BY <1>3 DEF ZeroRanges
<1> QED
    BY <1>2, <1>4 DEF l

(* One more range is added, or joins the last one.                         *)
LEMMA AppendOne ==
    ASSUME NEW z \in ZeroStates, NEW r \in ZeroRanges, r.length > 0,
           z.ok => InOrder(z.ranges) /\ \A p \in Says(z.ranges) : p[1] < r.logical
    PROVE  /\ AppendZeroRange(z, r) \in ZeroStates
           /\ AppendZeroRange(z, r).ok =>
                 /\ z.ok /\ InOrder(AppendZeroRange(z, r).ranges)
                 /\ Says(AppendZeroRange(z, r).ranges) = Says(z.ranges) \cup SaysOf(r)
<1> DEFINE s == z.ranges
           n == Len(s)
           end == s[n].logical + s[n].length
           w == AppendZeroRange(z, r)
<1>1. /\ s \in Seq(ZeroRanges) /\ z.ok \in BOOLEAN /\ n \in Nat
      /\ \A k \in 1 .. n : s[k] \in ZeroRanges
      /\ s # <<>> => n \in 1 .. n
    BY DEF ZeroStates
<1>2. /\ r.logical \in Nat /\ r.length \in Nat /\ r.reason \in Reasons
      /\ \A k \in 1 .. n : /\ s[k].logical \in Nat /\ s[k].length \in Nat
                           /\ s[k].reason \in Reasons
    BY <1>1 DEF ZeroRanges
<1>3. CASE s # <<>> /\ s[n].reason = r.reason /\ end = r.logical
    <2> DEFINE t == [s EXCEPT ![n].length = @ + r.length]
    <2>1. w = [z EXCEPT !.ranges = t]
        BY <1>3 DEF AppendZeroRange, Last
    <2>2. /\ t \in Seq(ZeroRanges) /\ Len(t) = n
          /\ \A k \in 1 .. n : k # n => t[k] = s[k]
          /\ t[n].logical = s[n].logical /\ t[n].reason = s[n].reason
          /\ t[n].length = s[n].length + r.length
        <3>1. [s[n] EXCEPT !.length = @ + r.length] \in ZeroRanges
            BY <1>1, <1>2, <1>3, GrownRange
        <3>2. t = [s EXCEPT ![n] = [s[n] EXCEPT !.length = @ + r.length]]
            BY <1>1, <1>3
        <3>3. /\ [s[n] EXCEPT !.length = @ + r.length].logical = s[n].logical
              /\ [s[n] EXCEPT !.length = @ + r.length].reason = s[n].reason
              /\ [s[n] EXCEPT !.length = @ + r.length].length = s[n].length + r.length
            BY <1>1, <1>2, <1>3, GrownRange
        <3> QED
            BY <3>1, <3>2, <3>3, <1>1, <1>3
    <2> HIDE DEF t
    <2>3. w \in ZeroStates /\ w.ranges = t /\ w.ok = z.ok
        BY <2>1, <2>2 DEF ZeroStates
    <2>4. ASSUME z.ok PROVE InOrder(t)
        <3>1. ASSUME NEW k \in 1 .. n PROVE t[k].length > 0
            <4>1. s[k].length > 0
                BY <2>4, <1>1 DEF InOrder
            <4> QED
                BY <4>1, <1>2, <2>2
        <3>2. ASSUME NEW k \in 1 .. n - 1
              PROVE  LET e == t[k].logical + t[k].length
                     IN  /\ e <= t[k+1].logical
                         /\ e = t[k+1].logical => t[k].reason # t[k+1].reason
            <4>1. k \in 1 .. Len(s) - 1 /\ k # n /\ k \in 1 .. n /\ k + 1 \in 1 .. n
                BY <1>1
            <4>2. t[k] = s[k] /\ t[k+1].logical = s[k+1].logical /\ t[k+1].reason = s[k+1].reason
                BY <4>1, <2>2
            <4>3. LET e == s[k].logical + s[k].length
                  IN  /\ e <= s[k+1].logical
                      /\ e = s[k+1].logical => s[k].reason # s[k+1].reason
                BY <4>1, <2>4 DEF InOrder
            <4> QED
                BY <4>2, <4>3
        <3> QED
            BY <3>1, <3>2, <1>1, <2>2 DEF InOrder
    <2>5. Says(t) = Says(s) \cup SaysOf(r)
        <3>1. ASSUME NEW i \in Nat, NEW x \in Reasons
              PROVE  (\E k \in 1 .. n : In(t[k], i) /\ t[k].reason = x)
                     <=> \/ \E k \in 1 .. n : In(s[k], i) /\ s[k].reason = x
                         \/ In(r, i) /\ r.reason = x
            <4>1. In(t[n], i) <=> In(s[n], i) \/ In(r, i)
                <5> DEFINE a == s[n].logical
                           b == s[n].length
                           c == r.length
                <5>1. a \in Nat /\ b \in Nat /\ c \in Nat
                    BY <1>1, <1>2, <1>3
                <5>2. t[n].logical = a /\ t[n].length = b + c /\ r.logical = a + b
                    BY <2>2, <1>3
                <5> HIDE DEF a, b, c
                <5>3. i >= a /\ i < a + (b + c) <=> (i >= a /\ i < a + b) \/ (i >= a + b /\ i < a + b + c)
                    BY <5>1
                <5> QED
                    BY <5>2, <5>3 DEF In, a, b, c
            <4>2. \A k \in 1 .. n : k # n => t[k] = s[k]
                BY <2>2
            <4>3. n \in 1 .. n /\ t[n].reason = s[n].reason /\ s[n].reason = r.reason
                BY <1>1, <1>3, <2>2
            <4>4. \A k \in 1 .. n : In(t[k], i) /\ t[k].reason = x =>
                     \/ \E j \in 1 .. n : In(s[j], i) /\ s[j].reason = x
                     \/ In(r, i) /\ r.reason = x
                BY <4>1, <4>2, <4>3
            <4>5. \A k \in 1 .. n : In(s[k], i) /\ s[k].reason = x =>
                     In(t[k], i) /\ t[k].reason = x
                BY <4>1, <4>2, <4>3
            <4>6. In(r, i) /\ r.reason = x => In(t[n], i) /\ t[n].reason = x
                BY <4>1, <4>3
            <4> QED
                BY <4>3, <4>4, <4>5, <4>6
        <3>2. DOMAIN t = 1 .. n /\ DOMAIN s = 1 .. n
            BY <1>1, <2>2
        <3> HIDE DEF s, n, t
        <3>3. ASSUME NEW p \in Nat \X Reasons
              PROVE  p \in Says(t) <=> p \in Says(s) \/ p \in SaysOf(r)
            <4>1. p[1] \in Nat /\ p[2] \in Reasons
                OBVIOUS
            <4>2. p \in SaysOf(r) <=> In(r, p[1]) /\ r.reason = p[2]
                BY DEF SaysOf
            <4>3. /\ p \in Says(t) <=> \E k \in DOMAIN t : In(t[k], p[1]) /\ t[k].reason = p[2]
                  /\ p \in Says(s) <=> \E k \in DOMAIN s : In(s[k], p[1]) /\ s[k].reason = p[2]
                BY DEF Says
            <4> QED
                BY <3>1, <3>2, <4>1, <4>2, <4>3
        <3> QED
            BY <3>3, SaysMore
    <2> QED
        BY <2>3, <2>4, <2>5
<1>4. CASE ~(s # <<>> /\ s[n].reason = r.reason /\ end = r.logical) /\ n >= MaxZeroRanges
    <2>1. w = [z EXCEPT !.ok = FALSE]
        BY <1>4 DEF AppendZeroRange, Last
    <2> QED
        BY <2>1 DEF ZeroStates
<1>5. CASE ~(s # <<>> /\ s[n].reason = r.reason /\ end = r.logical) /\ ~(n >= MaxZeroRanges)
    <2> DEFINE t == Append(s, r)
    <2>1. w = [z EXCEPT !.ranges = t]
        BY <1>5 DEF AppendZeroRange, Last
    <2>2. /\ t \in Seq(ZeroRanges) /\ Len(t) = n + 1 /\ t[n + 1] = r
          /\ \A k \in 1 .. n : t[k] = s[k]
        BY <1>1
    <2> HIDE DEF t
    <2>3. w \in ZeroStates /\ w.ranges = t /\ w.ok = z.ok
        BY <2>1, <2>2 DEF ZeroStates
    <2>4. ASSUME z.ok PROVE InOrder(t)
        <3>1. \A k \in DOMAIN t : t[k].length > 0
            BY <1>1, <2>2, <2>4 DEF InOrder
        <3>2. s # <<>> => end <= r.logical
            <4> SUFFICES ASSUME s # <<>> PROVE end <= r.logical
                OBVIOUS
            <4>1. s[n].length > 0 /\ n \in 1 .. n
                BY <1>1, <2>4 DEF InOrder
            <4>2. end - 1 \in Nat /\ In(s[n], end - 1)
                BY <4>1, <1>2 DEF In
            <4>3. <<end - 1, s[n].reason>> \in Says(s)
                BY <4>1, <4>2, <1>1, <1>2 DEF Says
            <4>4. end - 1 < r.logical
                BY <4>3, <2>4
            <4> QED
                BY <4>1, <4>4, <1>2
        <3>3. ASSUME NEW k \in 1 .. Len(t) - 1
              PROVE  LET e == t[k].logical + t[k].length
                     IN  /\ e <= t[k+1].logical
                         /\ e = t[k+1].logical => t[k].reason # t[k+1].reason
            <4>1. CASE k = n
                BY <4>1, <3>2, <2>2, <1>1, <1>5
            <4>2. CASE k # n
                <5>1. k \in 1 .. Len(s) - 1 /\ t[k] = s[k] /\ t[k + 1] = s[k + 1]
                    BY <4>2, <2>2, <1>1
                <5> QED
                    BY <5>1, <2>4 DEF InOrder
            <4> QED
                BY <4>1, <4>2
        <3> QED
            BY <3>1, <3>3 DEF InOrder
    <2>5. Says(t) = Says(s) \cup SaysOf(r)
        <3>1. ASSUME NEW i \in Nat, NEW x \in Reasons
              PROVE  (\E k \in 1 .. n + 1 : In(t[k], i) /\ t[k].reason = x)
                     <=> \/ \E k \in 1 .. n : In(s[k], i) /\ s[k].reason = x
                         \/ In(r, i) /\ r.reason = x
            <4>1. \A k \in 1 .. n + 1 : k \in 1 .. n \/ k = n + 1
                BY <1>1
            <4>2. n + 1 \in 1 .. n + 1 /\ \A k \in 1 .. n : k \in 1 .. n + 1
                BY <1>1
            <4> QED
                BY <4>1, <4>2, <2>2
        <3>2. DOMAIN t = 1 .. n + 1 /\ DOMAIN s = 1 .. n
            BY <1>1, <2>2
        <3> HIDE DEF s, n, t
        <3>3. ASSUME NEW p \in Nat \X Reasons
              PROVE  p \in Says(t) <=> p \in Says(s) \/ p \in SaysOf(r)
            <4>1. p[1] \in Nat /\ p[2] \in Reasons
                OBVIOUS
            <4>2. p \in SaysOf(r) <=> In(r, p[1]) /\ r.reason = p[2]
                BY DEF SaysOf
            <4>3. /\ p \in Says(t) <=> \E k \in DOMAIN t : In(t[k], p[1]) /\ t[k].reason = p[2]
                  /\ p \in Says(s) <=> \E k \in DOMAIN s : In(s[k], p[1]) /\ s[k].reason = p[2]
                BY DEF Says
            <4> QED
                BY <3>1, <3>2, <4>1, <4>2, <4>3
        <3> QED
            BY <3>3, SaysMore
    <2> QED
        BY <2>3, <2>4, <2>5
<1> QED
    BY <1>1, <1>3, <1>4, <1>5

(* Many more are added, one after the other.                               *)
LEMMA Appended ==
    ASSUME NEW ranges \in Seq(ZeroRanges), InOrder(ranges),
           NEW more \in Seq(ZeroRanges),
           \A k \in DOMAIN more : /\ more[k].length > 0
                                  /\ \A p \in Says(ranges) : p[1] < more[k].logical,
           \A k, l \in DOMAIN more :
              k < l => more[k].logical + more[k].length <= more[l].logical
    PROVE  /\ AppendZeroRanges(ranges, more) \in ZeroStates
           /\ AppendZeroRanges(ranges, more).ok =>
                 /\ InOrder(AppendZeroRanges(ranges, more).ranges)
                 /\ Says(AppendZeroRanges(ranges, more).ranges) = Says(ranges) \cup Says(more)
<1> DEFINE n == Len(more)
           upto(k) == {p \in Nat \X Reasons :
                          \E j \in 1 .. k : In(more[j], p[1]) /\ more[j].reason = p[2]}
           Inv == [k \in 0 .. n |-> {z \in ZeroStates :
                      z.ok => InOrder(z.ranges) /\ Says(z.ranges) = Says(ranges) \cup upto(k)}]
           step == [k \in DOMAIN more |-> [z \in [ok : BOOLEAN, ranges : Seq(ZeroRanges)] |->
                       AppendZeroRange(z, more[k])]]
           base == [ok |-> TRUE, ranges |-> ranges]
<1>1. n \in Nat /\ DOMAIN more = 1 .. n /\ \A k \in 1 .. n : more[k] \in ZeroRanges
    OBVIOUS
<1>2. base \in Inv[0]
    <2>1. upto(0) = {}
        OBVIOUS
    <2>2. base \in ZeroStates /\ base.ok /\ base.ranges = ranges
        BY DEF ZeroStates
    <2>3. 0 \in 0 .. n
        BY <1>1
    <2> HIDE DEF base, upto
    <2> QED
        BY <2>1, <2>2, <2>3
<1>3. ASSUME NEW k \in 1 .. n, NEW a \in Inv[k - 1] PROVE step[k][a] \in Inv[k]
    <2>1. k - 1 \in 0 .. n /\ k \in 0 .. n /\ k \in DOMAIN more
        BY <1>1
    <2>2. /\ a \in ZeroStates
          /\ a.ok => InOrder(a.ranges) /\ Says(a.ranges) = Says(ranges) \cup upto(k - 1)
        <3> HIDE DEF upto
        <3> QED
            BY <2>1
    <2>3. step[k][a] = AppendZeroRange(a, more[k])
        BY <2>1, <2>2 DEF ZeroStates
    <2>4. upto(k) = upto(k - 1) \cup SaysOf(more[k])
        <3>1. ASSUME NEW i \in Nat, NEW x \in Reasons
              PROVE  (\E j \in 1 .. k : In(more[j], i) /\ more[j].reason = x)
                     <=> \/ \E j \in 1 .. k - 1 : In(more[j], i) /\ more[j].reason = x
                         \/ In(more[k], i) /\ more[k].reason = x
            <4>1. \A j : j \in 1 .. k <=> (j \in 1 .. k - 1 \/ j = k)
                BY <1>1
            <4> QED
                BY <4>1
        <3> QED
            BY <3>1 DEF SaysOf
    <2>5. \A p \in upto(k - 1) : p[1] < more[k].logical
        <3> SUFFICES ASSUME NEW p \in Nat \X Reasons, NEW j \in 1 .. k - 1, In(more[j], p[1])
                     PROVE  p[1] < more[k].logical
            OBVIOUS
        <3>1. j \in DOMAIN more /\ j < k /\ p[1] \in Nat
            BY <1>1
        <3>2. more[j].logical + more[j].length <= more[k].logical
            BY <3>1, <2>1
        <3>3. more[j] \in ZeroRanges /\ more[k] \in ZeroRanges
            BY <3>1, <1>1
        <3>4. /\ more[j].logical \in Nat /\ more[j].length \in Nat /\ more[k].logical \in Nat
              /\ p[1] < more[j].logical + more[j].length
            BY <3>3 DEF In, ZeroRanges
        <3> DEFINE before == more[j].logical + more[j].length
                   start  == more[k].logical
        <3>5. before \in Nat /\ start \in Nat /\ p[1] < before /\ before <= start
            BY <3>2, <3>4
        <3> HIDE DEF before, start
        <3>6. p[1] < start
            BY <3>1, <3>5
        <3> QED
            BY <3>6 DEF start
    <2> HIDE DEF upto, step
    <2>6. a.ok => \A p \in Says(a.ranges) : p[1] < more[k].logical
        BY <2>1, <2>2, <2>5
    <2>7. /\ AppendZeroRange(a, more[k]) \in ZeroStates
          /\ AppendZeroRange(a, more[k]).ok =>
                 /\ a.ok /\ InOrder(AppendZeroRange(a, more[k]).ranges)
                 /\ Says(AppendZeroRange(a, more[k]).ranges) = Says(a.ranges) \cup SaysOf(more[k])
        BY <2>1, <2>2, <2>6, <1>1, AppendOne
    <2>8. AppendZeroRange(a, more[k]).ok =>
             Says(AppendZeroRange(a, more[k]).ranges) = Says(ranges) \cup upto(k)
        BY <2>2, <2>4, <2>7
    <2>9. AppendZeroRange(a, more[k]) \in Inv[k]
        BY <2>1, <2>7, <2>8
    <2> QED
        BY <2>3, <2>9
<1>4. Folded(step, base, n) \in Inv[n]
    <2>1. Inv \in [0 .. n -> SUBSET ZeroStates]
        OBVIOUS
    <2> HIDE DEF Inv, step, base
    <2> QED
        BY <2>1, <1>1, <1>2, <1>3, FoldedKeeps
<1>5. upto(n) = Says(more)
    BY <1>1 DEF Says
<1>6. AppendZeroRanges(ranges, more) = Folded(step, base, n)
    BY DEF AppendZeroRanges
<1>7. n \in 0 .. n
    BY <1>1
<1> HIDE DEF step, base, upto
<1> QED
    BY <1>4, <1>5, <1>6, <1>7

-----------------------------------------------------------------------------
(* What could not be read: the ranges of a report, merged.                 *)

ReadRange   == [offset : Nat, length : Nat]
MergedRange == [start : Nat, end : Nat]
Units(m) == {i \in Nat : \E k \in DOMAIN m : m[k].start <= i /\ i < m[k].end}
UnitsIn(r) == {i \in Nat : r.offset <= i /\ i < r.offset + r.length}
Apart(m) ==
    /\ \A k \in DOMAIN m : m[k].start < m[k].end
    /\ \A k, l \in DOMAIN m : k < l => m[k].end < m[l].start

(* One more range is merged, or put behind the last one.                   *)
LEMMA MergeOne ==
    ASSUME NEW m \in Seq(MergedRange), Apart(m),
           NEW r \in ReadRange, r.length > 0,
           m # <<>> => m[Len(m)].start <= r.offset
    PROVE  /\ MergeRange(m, r) \in Seq(MergedRange) /\ Apart(MergeRange(m, r))
           /\ MergeRange(m, r) # <<>>
           /\ MergeRange(m, r)[Len(MergeRange(m, r))].start <= r.offset
           /\ Units(MergeRange(m, r)) = Units(m) \cup UnitsIn(r)
<1> DEFINE n == Len(m)
           a == r.offset
           b == r.offset + r.length
           w == MergeRange(m, r)
<1>1. /\ n \in Nat /\ DOMAIN m = 1 .. n /\ a \in Nat /\ b \in Nat /\ a < b
      /\ \A k \in 1 .. n : /\ m[k] \in MergedRange
                           /\ m[k].start \in Nat /\ m[k].end \in Nat
                           /\ m[k].start < m[k].end
      /\ m # <<>> => n \in 1 .. n
    <2>1. n \in Nat /\ DOMAIN m = 1 .. n /\ m # <<>> => n \in 1 .. n
        OBVIOUS
    <2>2. r.offset \in Nat /\ r.length \in Nat
        BY DEF ReadRange
    <2>3. a \in Nat /\ b \in Nat /\ a < b
        BY <2>2
    <2>4. \A k \in 1 .. n : m[k] \in MergedRange
        OBVIOUS
    <2>5. \A k \in 1 .. n : m[k].start \in Nat /\ m[k].end \in Nat
        BY <2>4 DEF MergedRange
    <2>6. \A k \in 1 .. n : m[k].start < m[k].end
        BY <2>1 DEF Apart
    <2> QED
        BY <2>1, <2>3, <2>4, <2>5, <2>6
<1> HIDE DEF a, b
<1>2. CASE m # <<>> /\ a <= m[n].end
    <2> DEFINE e == Larger(m[n].end, b)
               x == [m[n] EXCEPT !.end = e]
    <2>0. n \in 1 .. n /\ m[n] \in MergedRange
        BY <1>1, <1>2
    <2>1. w = [m EXCEPT ![n].end = Larger(@, b)]
        BY <1>2 DEF MergeRange, Last, a, b
    <2>2. e \in Nat /\ m[n].end <= e /\ b <= e /\ (e = b \/ e = m[n].end)
        BY <2>0, <1>1 DEF Larger
    <2>3. w = [m EXCEPT ![n] = x]
        BY <2>0, <2>1
    <2> HIDE DEF e
    <2>4. x \in MergedRange /\ x.start = m[n].start /\ x.end = e
        BY <2>0, <2>2 DEF MergedRange
    <2>5. /\ w \in Seq(MergedRange) /\ Len(w) = n /\ DOMAIN w = 1 .. n /\ w[n] = x
          /\ \A k \in 1 .. n : k # n => w[k] = m[k]
        BY <2>3, <2>4, <2>0, <1>1
    <2> HIDE DEF x, w
    <2>6. Apart(w)
        <3>1. ASSUME NEW k \in 1 .. n PROVE w[k].start < w[k].end
            <4>1. m[k].start < m[k].end /\ m[n].start < m[n].end
                BY <1>1, <2>0
            <4>2. m[n].start \in Nat /\ m[n].end \in Nat
                BY <1>1, <2>0
            <4>3. x.start < x.end
                BY <4>1, <4>2, <2>2, <2>4
            <4> QED
                BY <4>1, <4>3, <2>5
        <3>2. ASSUME NEW k \in 1 .. n, NEW l \in 1 .. n, k < l
              PROVE  w[k].end < w[l].start
            <4>1. m[k].end < m[l].start
                BY <3>2, <1>1 DEF Apart
            <4>2. k # n /\ w[k] = m[k] /\ w[l].start = m[l].start
                <5>1. n \in Nat /\ k \in Nat /\ l \in Nat /\ l <= n
                    BY <1>1
                <5>2. k # n
                    BY <5>1, <3>2
                <5> QED
                    BY <5>2, <2>4, <2>5
            <4> QED
                BY <4>1, <4>2
        <3> QED
            BY <3>1, <3>2, <2>5 DEF Apart
    <2>7. m[n].start <= a
        BY <1>2 DEF a
    <2>8. \A i \in Nat : (x.start <= i /\ i < x.end)
                         <=> (m[n].start <= i /\ i < m[n].end) \/ (a <= i /\ i < b)
        BY <2>2, <2>4, <2>7, <2>0, <1>1, <1>2
    <2>9. Units(w) = Units(m) \cup UnitsIn(r)
        <3>1. ASSUME NEW i \in Nat
              PROVE  (\E k \in 1 .. n : w[k].start <= i /\ i < w[k].end)
                     <=> \/ \E k \in 1 .. n : m[k].start <= i /\ i < m[k].end
                         \/ a <= i /\ i < b
            <4>1. \A k \in 1 .. n : w[k].start <= i /\ i < w[k].end =>
                     \/ m[k].start <= i /\ i < m[k].end
                     \/ a <= i /\ i < b
                BY <2>5, <2>8
            <4>2. \A k \in 1 .. n : m[k].start <= i /\ i < m[k].end =>
                     w[k].start <= i /\ i < w[k].end
                BY <2>5, <2>8
            <4>3. a <= i /\ i < b => w[n].start <= i /\ i < w[n].end
                BY <2>5, <2>8
            <4> QED
                BY <4>1, <4>2, <4>3, <2>0
        <3> QED
            BY <3>1, <1>1, <2>5 DEF Units, UnitsIn, a, b
    <2>10. w # <<>> /\ w[Len(w)].start <= a
        <3>1. w # <<>>
            <4>1. Len(<<>>) = 0 /\ n # 0
                BY <2>0, <1>1
            <4> QED
                BY <4>1, <2>5
        <3>2. w[Len(w)].start = m[n].start
            BY <2>4, <2>5
        <3> QED
            BY <3>1, <3>2, <2>7
    <2> QED
        BY <2>5, <2>6, <2>9, <2>10 DEF w, a
<1>3. CASE ~(m # <<>> /\ a <= m[n].end)
    <2> DEFINE x == [start |-> a, end |-> b]
    <2>1. w = Append(m, x)
        BY <1>3 DEF MergeRange, Last, a, b
    <2>2. x \in MergedRange /\ x.start = a /\ x.end = b
        BY <1>1 DEF MergedRange
    <2> HIDE DEF x
    <2>3. /\ w \in Seq(MergedRange) /\ Len(w) = n + 1 /\ DOMAIN w = 1 .. n + 1
          /\ w[n + 1] = x /\ \A k \in 1 .. n : w[k] = m[k]
        BY <2>1, <2>2, <1>1
    <2> HIDE DEF w
    <2>4. ASSUME NEW k \in 1 .. n PROVE m[k].end < a
        <3>1. m[n].end < a /\ n \in 1 .. n
            BY <1>1, <1>3
        <3>2. CASE k # n
            <4>1. k < n
                <5>1. n \in Nat /\ k \in Nat /\ k <= n
                    BY <1>1
                <5> QED
                    BY <5>1, <3>2
            <4>2. m[k].end < m[n].start
                BY <4>1, <3>1, <1>1 DEF Apart
            <4> QED
                BY <4>2, <3>1, <1>1
        <3> QED
            BY <3>1, <3>2
    <2>5. Apart(w)
        <3>1. ASSUME NEW k \in 1 .. n + 1 PROVE w[k].start < w[k].end
            <4>1. k \in 1 .. n \/ k = n + 1
                BY <1>1
            <4> QED
                BY <4>1, <1>1, <2>2, <2>3
        <3>2. ASSUME NEW k \in 1 .. n + 1, NEW l \in 1 .. n + 1, k < l
              PROVE  w[k].end < w[l].start
            <4>1. k \in 1 .. n /\ (l \in 1 .. n \/ l = n + 1)
                BY <3>2, <1>1
            <4>2. CASE l = n + 1
                BY <4>1, <4>2, <2>2, <2>3, <2>4
            <4>3. CASE l \in 1 .. n
                BY <4>1, <4>3, <3>2, <1>1, <2>3 DEF Apart
            <4> QED
                BY <4>1, <4>2, <4>3
        <3> QED
            BY <3>1, <3>2, <2>3 DEF Apart
    <2>6. Units(w) = Units(m) \cup UnitsIn(r)
        <3>1. ASSUME NEW i \in Nat
              PROVE  (\E k \in 1 .. n + 1 : w[k].start <= i /\ i < w[k].end)
                     <=> \/ \E k \in 1 .. n : m[k].start <= i /\ i < m[k].end
                         \/ a <= i /\ i < b
            <4>1. \A k \in 1 .. n + 1 : k \in 1 .. n \/ k = n + 1
                BY <1>1
            <4>2. n + 1 \in 1 .. n + 1 /\ \A k \in 1 .. n : k \in 1 .. n + 1
                BY <1>1
            <4> QED
                BY <4>1, <4>2, <2>2, <2>3
        <3> QED
            BY <3>1, <1>1, <2>3 DEF Units, UnitsIn, a, b
    <2>7. w # <<>> /\ w[Len(w)].start <= a
        BY <1>1, <2>2, <2>3
    <2> QED
        BY <2>3, <2>5, <2>6, <2>7 DEF w, a
<1> QED
    BY <1>2, <1>3

(* The order in which the ranges are merged.                               *)
LEMMA RangesInOrder ==
    ASSUME NEW rs \in Seq(ReadRange)
    PROVE  /\ RangeOrder(rs) \in [DOMAIN rs -> DOMAIN rs]
           /\ \A k, l \in DOMAIN rs : k < l =>
                 rs[RangeOrder(rs)[k]].offset <= rs[RangeOrder(rs)[l]].offset
           /\ \A i \in DOMAIN rs : \E k \in DOMAIN rs : RangeOrder(rs)[k] = i
<1> DEFINE n == Len(rs)
           before == {p \in (DOMAIN rs) \X (DOMAIN rs) :
                          \/ Before(rs[p[1]], rs[p[2]])
                          \/ rs[p[1]] = rs[p[2]] /\ p[1] < p[2]}
<1>1. /\ n \in Nat /\ DOMAIN rs = 1 .. n
      /\ \A k \in 1 .. n : /\ rs[k] \in ReadRange
                           /\ rs[k].offset \in Nat /\ rs[k].length \in Nat
    <2>1. \A k \in 1 .. n : rs[k] \in ReadRange
        OBVIOUS
    <2>2. \A x \in ReadRange : x.offset \in Nat /\ x.length \in Nat
        BY DEF ReadRange
    <2> QED
        BY <2>1, <2>2
<1>2. \A i, j \in 1 .. n : <<i, j>> \in before <=>
         \/ rs[i].offset < rs[j].offset
         \/ rs[i].offset = rs[j].offset /\ rs[i].length < rs[j].length
         \/ rs[i] = rs[j] /\ i < j
    BY <1>1 DEF Before
<1>3. \A i, j \in 1 .. n : rs[i].offset = rs[j].offset /\ rs[i].length = rs[j].length
         => rs[i] = rs[j]
    <2>1. \A x, y \in ReadRange : x.offset = y.offset /\ x.length = y.length => x = y
        BY DEF ReadRange
    <2> QED
        BY <2>1, <1>1
<1> HIDE DEF before
<1>4. \A i \in 1 .. n : <<i, i>> \notin before
    <2> SUFFICES ASSUME NEW i \in 1 .. n PROVE <<i, i>> \notin before
        OBVIOUS
    <2>1. rs[i].offset \in Nat /\ rs[i].length \in Nat /\ i \in Nat
        BY <1>1
    <2>2. ~(rs[i].offset < rs[i].offset) /\ ~(rs[i].length < rs[i].length) /\ ~(i < i)
        BY <2>1
    <2> QED
        BY <2>2, <1>2
<1>5. ASSUME NEW i \in 1 .. n, NEW j \in 1 .. n, NEW k \in 1 .. n,
             <<i, j>> \in before, <<j, k>> \in before
      PROVE  <<i, k>> \in before
    <2>1. \/ rs[i].offset < rs[j].offset
          \/ rs[i].offset = rs[j].offset /\ rs[i].length < rs[j].length
          \/ rs[i] = rs[j] /\ i < j
        BY <1>2, <1>5
    <2>2. \/ rs[j].offset < rs[k].offset
          \/ rs[j].offset = rs[k].offset /\ rs[j].length < rs[k].length
          \/ rs[j] = rs[k] /\ j < k
        BY <1>2, <1>5
    <2>3. \/ rs[i].offset < rs[k].offset
          \/ rs[i].offset = rs[k].offset /\ rs[i].length < rs[k].length
          \/ rs[i] = rs[k] /\ i < k
        BY <2>1, <2>2, <1>1
    <2> QED
        BY <2>3, <1>2
<1>6. \A i, j \in 1 .. n : i = j \/ <<i, j>> \in before \/ <<j, i>> \in before
    <2> SUFFICES ASSUME NEW i \in 1 .. n, NEW j \in 1 .. n, i # j,
                        <<i, j>> \notin before, <<j, i>> \notin before
                 PROVE  FALSE
        OBVIOUS
    <2>1. /\ rs[i].offset \in Nat /\ rs[i].length \in Nat /\ i \in Nat
          /\ rs[j].offset \in Nat /\ rs[j].length \in Nat /\ j \in Nat
        BY <1>1
    <2>2. /\ ~(rs[i].offset < rs[j].offset) /\ ~(rs[j].offset < rs[i].offset)
          /\ ~(rs[i].offset = rs[j].offset /\ rs[i].length < rs[j].length)
          /\ ~(rs[j].offset = rs[i].offset /\ rs[j].length < rs[i].length)
          /\ ~(rs[i] = rs[j] /\ i < j) /\ ~(rs[j] = rs[i] /\ j < i)
        BY <1>2
    <2>3. rs[i].offset = rs[j].offset
        BY <2>1, <2>2
    <2>5. rs[i].length = rs[j].length
        BY <2>1, <2>2, <2>3
    <2>4. rs[i] = rs[j]
        BY <2>3, <2>5, <1>3
    <2> QED
        BY <2>1, <2>2, <2>4
<1>7. RangeOrder(rs) = Arranged(n, before)
    BY DEF RangeOrder, before
<1>8. /\ Arranged(n, before) \in [1 .. n -> 1 .. n]
      /\ \A k, l \in 1 .. n : k < l =>
            <<Arranged(n, before)[k], Arranged(n, before)[l]>> \in before
      /\ \A i \in 1 .. n : \E k \in 1 .. n : Arranged(n, before)[k] = i
    BY <1>1, <1>4, <1>5, <1>6, ArrangedSorts
<1>9. ASSUME NEW k \in 1 .. n, NEW l \in 1 .. n, k < l
      PROVE  rs[RangeOrder(rs)[k]].offset <= rs[RangeOrder(rs)[l]].offset
    <2>1. /\ RangeOrder(rs)[k] \in 1 .. n /\ RangeOrder(rs)[l] \in 1 .. n
          /\ <<RangeOrder(rs)[k], RangeOrder(rs)[l]>> \in before
        BY <1>7, <1>8, <1>9
    <2> DEFINE i == RangeOrder(rs)[k]
               j == RangeOrder(rs)[l]
    <2>2. rs[i].offset \in Nat /\ rs[j].offset \in Nat
        BY <2>1, <1>1
    <2>3. rs[i].offset < rs[j].offset \/ rs[i].offset = rs[j].offset
        BY <2>1, <1>2
    <2> HIDE DEF i, j
    <2>4. rs[i].offset <= rs[j].offset
        BY <2>2, <2>3
    <2> QED
        BY <2>4 DEF i, j
<1> QED
    BY <1>1, <1>7, <1>8, <1>9

(* All of the ranges of a report are merged, and nothing else is.          *)
LEMMA MergedAreTheRanges ==
    ASSUME NEW rs \in Seq(ReadRange),
           \A k \in DOMAIN rs : rs[k].length > 0
    PROVE  /\ MergedRanges(rs) \in Seq(MergedRange) /\ Apart(MergedRanges(rs))
           /\ Units(MergedRanges(rs)) = UNION {UnitsIn(rs[k]) : k \in DOMAIN rs}
<1> DEFINE n == Len(rs)
           order == RangeOrder(rs)
           upto(k) == UNION {UnitsIn(rs[order[j]]) : j \in 1 .. k}
           Inv == [k \in 0 .. n |-> {m \in Seq(MergedRange) :
                      /\ Apart(m) /\ Units(m) = upto(k)
                      /\ m # <<>> => k > 0 /\ m[Len(m)].start <= rs[order[k]].offset}]
           step == [k \in DOMAIN rs |-> [m \in Seq([start : Nat, end : Nat]) |->
                       MergeRange(m, rs[order[k]])]]
<1>1. n \in Nat /\ DOMAIN rs = 1 .. n
    OBVIOUS
<1>2. /\ order \in [1 .. n -> 1 .. n]
      /\ \A k, l \in 1 .. n : k < l => rs[order[k]].offset <= rs[order[l]].offset
      /\ \A i \in 1 .. n : \E k \in 1 .. n : order[k] = i
    BY <1>1, RangesInOrder
<1> HIDE DEF order
<1>3. <<>> \in Inv[0]
    <2>1. 0 \in 0 .. n /\ upto(0) = {}
        BY <1>1
    <2>2. <<>> \in Seq(MergedRange) /\ Apart(<<>>) /\ Units(<<>>) = {}
        BY DEF Apart, Units
    <2> HIDE DEF upto
    <2> QED
        BY <2>1, <2>2
<1>4. ASSUME NEW k \in 1 .. n, NEW m \in Inv[k - 1] PROVE step[k][m] \in Inv[k]
    <2> DEFINE r == rs[order[k]]
               w == MergeRange(m, r)
    <2>1. k - 1 \in 0 .. n /\ k \in 0 .. n /\ k \in DOMAIN rs /\ k > 0
        BY <1>1
    <2>2. /\ m \in Seq(MergedRange) /\ Apart(m) /\ Units(m) = upto(k - 1)
          /\ m # <<>> => k - 1 > 0 /\ m[Len(m)].start <= rs[order[k - 1]].offset
        <3> HIDE DEF upto
        <3> QED
            BY <2>1
    <2>3. r \in ReadRange /\ r.length > 0 /\ r.offset \in Nat
        <3>1. order[k] \in DOMAIN rs
            BY <1>1, <1>2
        <3>2. r \in ReadRange /\ r.length > 0
            BY <3>1
        <3>3. \A x \in ReadRange : x.offset \in Nat
            BY DEF ReadRange
        <3> HIDE DEF r
        <3> QED
            BY <3>2, <3>3
    <2>4. m # <<>> => m[Len(m)].start <= r.offset
        <3> SUFFICES ASSUME m # <<>> PROVE m[Len(m)].start <= r.offset
            OBVIOUS
        <3>1. k - 1 \in 1 .. n /\ k - 1 < k
            BY <2>1, <2>2
        <3>2. rs[order[k - 1]].offset <= r.offset /\ rs[order[k - 1]].offset \in Nat
            <4>1. order[k - 1] \in DOMAIN rs
                BY <3>1, <1>1, <1>2
            <4>2. rs[order[k - 1]] \in ReadRange
                BY <4>1
            <4>3. \A x \in ReadRange : x.offset \in Nat
                BY DEF ReadRange
            <4>4. rs[order[k - 1]].offset <= rs[order[k]].offset
                BY <3>1, <1>2
            <4> QED
                BY <4>2, <4>3, <4>4
        <3>3. m[Len(m)].start \in Nat
            <4>1. Len(m) \in DOMAIN m
                BY <2>2
            <4>2. m[Len(m)] \in MergedRange
                BY <4>1, <2>2
            <4> QED
                BY <4>2 DEF MergedRange
        <3>4. m[Len(m)].start <= rs[order[k - 1]].offset
            BY <2>2
        <3>5. rs[order[k]].offset = r.offset
            OBVIOUS
        <3> HIDE DEF r
        <3> QED
            BY <3>2, <3>3, <3>4, <3>5, <2>3
    <2>5. step[k][m] = w
        BY <2>1, <2>2 DEF MergedRange
    <2>6. upto(k) = upto(k - 1) \cup UnitsIn(r)
        <3>1. \A j : j \in 1 .. k <=> (j \in 1 .. k - 1 \/ j = k)
            BY <1>1
        <3> QED
            BY <3>1
    <2> HIDE DEF r, upto
    <2>7. /\ w \in Seq(MergedRange) /\ Apart(w) /\ w # <<>>
          /\ w[Len(w)].start <= r.offset
          /\ Units(w) = Units(m) \cup UnitsIn(r)
        BY <2>2, <2>3, <2>4, MergeOne
    <2> HIDE DEF w
    <2>8. w \in Inv[k]
        BY <2>1, <2>2, <2>6, <2>7 DEF r
    <2> QED
        BY <2>5, <2>8
<1>5. Folded(step, <<>>, n) \in Inv[n]
    <2>1. Inv \in [0 .. n -> SUBSET Seq(MergedRange)]
        OBVIOUS
    <2> HIDE DEF Inv, step
    <2> QED
        BY <2>1, <1>1, <1>3, <1>4, FoldedKeeps
<1>6. upto(n) = UNION {UnitsIn(rs[k]) : k \in DOMAIN rs}
    BY <1>1, <1>2
<1>7. MergedRanges(rs) = Folded(step, <<>>, n)
    BY DEF MergedRanges, order
<1>8. n \in 0 .. n
    BY <1>1
<1> HIDE DEF step, upto
<1> QED
    BY <1>5, <1>6, <1>7, <1>8

-----------------------------------------------------------------------------
(* The plan: what is pushed to it keeps it sound.                          *)

(* A segment that grew.                                                    *)
LEMMA GrownSegment ==
    ASSUME NEW s \in Segments, NEW m \in Nat
    PROVE  /\ [s EXCEPT !.length = @ + m] \in Segments
           /\ [s EXCEPT !.length = @ + m].kind = s.kind
           /\ [s EXCEPT !.length = @ + m].why = s.why
           /\ [s EXCEPT !.length = @ + m].logical = s.logical
           /\ [s EXCEPT !.length = @ + m].physical = s.physical
           /\ [s EXCEPT !.length = @ + m].length = s.length + m
<1>1. s.length \in Nat /\ s.length + m \in Nat
    BY DEF Segments
<1> DEFINE l == s.length + m
<1>2. [s EXCEPT !.length = @ + m] = [s EXCEPT !.length = l]
    OBVIOUS
<1>3. l \in Nat
    BY <1>1
<1> HIDE DEF l
<1>4. /\ [s EXCEPT !.length = l] \in Segments
      /\ [s EXCEPT !.length = l].kind = s.kind
      /\ [s EXCEPT !.length = l].why = s.why
      /\ [s EXCEPT !.length = l].logical = s.logical
      /\ [s EXCEPT !.length = l].physical = s.physical
      /\ [s EXCEPT !.length = l].length = l
    BY <1>3 DEF Segments
<1> QED
    BY <1>2, <1>4 DEF l

(* Two segments that join say of their units what each of them says.       *)
LEMMA JoinedIsBacked ==
    ASSUME NEW c, NEW s \in Segments, NEW t \in Segments, Joins(s, t),
           s.kind = "read" => s.physical \in Nat /\ t.physical \in Nat,
           Backed(s, c), Backed(t, c),
           NEW u \in Segments, u.kind = s.kind, u.why = s.why,
           u.logical = s.logical, u.physical = s.physical, u.length = s.length + t.length
    PROVE  Backed(u, c)
<1>1. /\ s.logical \in Nat /\ s.length \in Nat /\ t.logical \in Nat /\ t.length \in Nat
      /\ s.logical + s.length = t.logical /\ s.kind = t.kind /\ s.why = t.why
    BY DEF Segments, Joins
<1> SUFFICES ASSUME NEW i \in Nat, In(u, i)
             PROVE  IF u.kind = "read"
                    THEN \E e \in Range(c.extents) :
                            /\ In(e, i) /\ Stored(e)
                            /\ u.physical + (i - u.logical) = e.physical + (i - e.logical)
                    ELSE \/ u.why = "missingExtent" /\ \A e \in Range(c.extents) : ~In(e, i)
                         \/ \E e \in Range(c.extents) :
                               In(e, i) /\ ~Stored(e) /\ u.why = ReasonOf(e)
    BY DEF Backed
<1>2. In(s, i) \/ In(t, i)
    <2>1. i >= u.logical /\ i < u.logical + u.length
        BY DEF In
    <2>2. i >= s.logical /\ i < s.logical + (s.length + t.length)
        BY <2>1
    <2>3. i < s.logical + s.length \/ (i >= t.logical /\ i < t.logical + t.length)
        BY <2>2, <1>1
    <2> QED
        BY <2>2, <2>3 DEF In
<1>3. CASE u.kind = "read"
    <2>1. s.physical \in Nat /\ t.physical \in Nat /\ s.physical + s.length = t.physical
        BY <1>3 DEF Joins
    <2>2. t.physical + (i - t.logical) = u.physical + (i - u.logical)
        BY <2>1, <1>1
    <2>3. CASE In(s, i)
        BY <1>3, <2>3 DEF Backed
    <2>4. CASE In(t, i)
        <3>1. PICK e \in Range(c.extents) :
                 /\ In(e, i) /\ Stored(e)
                 /\ t.physical + (i - t.logical) = e.physical + (i - e.logical)
            BY <1>1, <1>3, <2>4 DEF Backed
        <3> QED
            BY <3>1, <1>3, <2>2
    <2> QED
        BY <1>2, <2>3, <2>4
<1>4. CASE u.kind # "read"
    <2>1. CASE In(s, i)
        BY <1>4, <2>1 DEF Backed
    <2>2. CASE In(t, i)
        BY <1>1, <1>4, <2>2 DEF Backed
    <2> QED
        BY <1>2, <2>1, <2>2
<1> QED
    BY <1>3, <1>4

(* The segment of an extent says what the extent says.                     *)
LEMMA MappingIsBacked ==
    ASSUME NEW c \in Candidates, NEW e \in Range(c.extents)
    PROVE  /\ ReadableMapping(e) \in Segments
           /\ ReadableMapping(e).logical = e.logical
           /\ ReadableMapping(e).length = e.length
           /\ ReadableMapping(e).kind = "read" => ReadableMapping(e).physical \in Nat
           /\ Backed(ReadableMapping(e), c)
<1>1. e \in Extents
    BY DEF Candidates, Range
<1>2. CASE Stored(e)
    <2>1. /\ e.availability \in {"freeInSnapshot", "resident"} /\ e.physical \in Nat
          /\ e.logical \in Nat /\ e.length \in Nat
        BY <1>1, <1>2 DEF Stored, Extents
    <2>2. ReadableMapping(e) = [kind |-> "read", logical |-> e.logical,
                                physical |-> e.physical, length |-> e.length,
                                why |-> e.availability]
        BY <1>2 DEF ReadableMapping, ReadSegment
    <2>3. Backed(ReadableMapping(e), c)
        BY <1>2, <2>2 DEF Backed, In
    <2>4. ReadableMapping(e) \in Segments
        BY <2>1, <2>2 DEF Segments
    <2> QED
        BY <2>1, <2>2, <2>3, <2>4
<1>3. CASE ~Stored(e)
    <2>1. ReasonOf(e) \in Reasons
        <3>1. e.availability \in {"freeInSnapshot", "resident"} \cup DOMAIN Reason
            BY <1>1 DEF Extents
        <3>2. "unknown" \in DOMAIN Reason /\ Reason["unknown"] = "unknownAvailability"
            BY DEF Reason
        <3> QED
            BY <3>1, <3>2 DEF ReasonOf, Reasons
    <2>2. e.logical \in Nat /\ e.length \in Nat
        BY <1>1 DEF Extents
    <2>3. ReadableMapping(e) = [kind |-> "zero", logical |-> e.logical,
                                physical |-> NoPlace, length |-> e.length,
                                why |-> ReasonOf(e)]
        BY <1>3 DEF ReadableMapping, ZeroSegment
    <2>4. Backed(ReadableMapping(e), c)
        BY <1>3, <2>3 DEF Backed, In
    <2>5. ReadableMapping(e) \in Segments
        BY <2>1, <2>2, <2>3 DEF Segments
    <2> QED
        BY <2>3, <2>4, <2>5
<1> QED
    BY <1>2, <1>3

(* A failure is noted, and nothing else.                                   *)
LEMMA FailNotes ==
    ASSUME NEW p \in PlanStates,
           NEW why \in {"unavailableContent", "segmentLimit", "overlappingExtents",
                        "physicalOutOfBounds", "zeroLengthExtent", "logicalOutOfBounds"}
    PROVE  /\ Fail(p, why) \in PlanStates /\ Fail(p, why).error # "none"
           /\ Fail(p, why).cursor = p.cursor
    BY DEF Fail, PlanStates

(* Another segment, where the plan ends, keeps it sound or fails it.       *)
LEMMA PushKeeps ==
    ASSUME NEW c, NEW source \in Nat, NEW policy,
           NEW p \in PlanStates, NEW s \in Segments, s.length > 0, Backed(s, c),
           s.kind = "read" => s.physical \in Nat /\ ~(s.physical + s.length > source),
           p.error = "none" => /\ PlanIsSound(p, c, source, policy)
                               /\ s.logical = EndOfSegments(p.segments)
    PROVE  /\ Push(p, s, policy) \in PlanStates /\ Push(p, s, policy).cursor = p.cursor
           /\ Push(p, s, policy).error = "none" =>
                 /\ p.error = "none"
                 /\ PlanIsSound(Push(p, s, policy), c, source, policy)
                 /\ EndOfSegments(Push(p, s, policy).segments) = s.logical + s.length
<1> DEFINE g == p.segments
           n == Len(g)
           q == Push(p, s, policy)
<1>1. /\ g \in Seq(Segments) /\ n \in Nat /\ DOMAIN g = 1 .. n
      /\ p.best \in BOOLEAN /\ p.cursor \in Nat
      /\ \A k \in 1 .. n : g[k] \in Segments
      /\ g # <<>> => n \in 1 .. n
    BY DEF PlanStates
<1>2. /\ \A t \in Segments : t.logical \in Nat /\ t.length \in Nat
    BY DEF Segments
<1>3. CASE p.error # "none"
    BY <1>3 DEF Push
<1>4. CASE p.error = "none" /\ Unavailable(s) /\ policy = "completeOnly"
    <2>1. q = Fail(p, "unavailableContent")
        BY <1>4 DEF Push
    <2> QED
        BY <2>1, FailNotes
<1>5. CASE /\ p.error = "none" /\ ~(Unavailable(s) /\ policy = "completeOnly")
           /\ ~(g # <<>> /\ Joins(Last(g), s)) /\ n >= MaxSegments
    <2>1. q = Fail(p, "segmentLimit")
        BY <1>5 DEF Push
    <2> QED
        BY <2>1, FailNotes
<1>6. CASE /\ p.error = "none" /\ ~(Unavailable(s) /\ policy = "completeOnly")
           /\ g # <<>> /\ Joins(Last(g), s)
    <2> DEFINE x == [g[n] EXCEPT !.length = @ + s.length]
               t == [g EXCEPT ![n] = x]
    <2>1. n \in 1 .. n /\ g[n] \in Segments /\ Joins(g[n], s) /\ s.length \in Nat
        BY <1>1, <1>2, <1>6 DEF Last
    <2>2. q = [p EXCEPT !.segments = t]
        BY <1>6, <2>1 DEF Push
    <2>3. /\ x \in Segments /\ x.kind = g[n].kind /\ x.why = g[n].why
          /\ x.logical = g[n].logical /\ x.physical = g[n].physical
          /\ x.length = g[n].length + s.length
        BY <2>1, GrownSegment
    <2> HIDE DEF x
    <2>4. /\ t \in Seq(Segments) /\ Len(t) = n /\ DOMAIN t = 1 .. n /\ t[n] = x
          /\ \A k \in 1 .. n : k # n => t[k] = g[k]
        BY <2>1, <2>3, <1>1
    <2> HIDE DEF t
    <2>5. q \in PlanStates /\ q.segments = t /\ q.best = p.best /\ q.cursor = p.cursor
        BY <2>2, <2>4 DEF PlanStates
    <2>6. /\ SegmentsAreSound(g, c, source, policy)
          /\ p.best <=> \E k \in 1 .. n : Unavailable(g[k])
          /\ s.logical = EndOfSegments(g)
        BY <1>1, <1>6 DEF PlanIsSound
    <2>7. /\ g[n].logical \in Nat /\ g[n].length \in Nat /\ g[n].length > 0
          /\ EndOfSegments(g) = g[n].logical + g[n].length
          /\ s.logical \in Nat
        BY <2>1, <2>6, <1>1, <1>2, <1>6 DEF SegmentsAreSound, EndOfSegments, Last
    <2>8. t # <<>> /\ EndOfSegments(t) = s.logical + s.length
        <3>1. t # <<>>
            <4>1. Len(<<>>) = 0 /\ n # 0
                BY <2>1
            <4> QED
                BY <4>1, <2>4
        <3>2. EndOfSegments(t) = x.logical + x.length
            BY <3>1, <2>4 DEF EndOfSegments, Last
        <3> QED
            BY <3>1, <3>2, <2>1, <2>3, <2>6, <2>7
    <2>9. Unavailable(x) <=> Unavailable(g[n])
        BY <2>3 DEF Unavailable
    <2>10. Backed(x, c)
        <3>1. g[n].kind = "read" => g[n].physical \in Nat /\ s.physical \in Nat
            BY <2>1, <2>6, <1>1 DEF SegmentsAreSound, Joins
        <3>2. Backed(g[n], c)
            BY <2>1, <2>6, <1>1 DEF SegmentsAreSound
        <3> QED
            BY <3>1, <3>2, <2>1, <2>3, JoinedIsBacked
    <2>11. ASSUME NEW k \in 1 .. n
           PROVE  /\ t[k].length > 0 /\ Backed(t[k], c)
                  /\ t[k].logical = IF k = 1 THEN 0 ELSE t[k - 1].logical + t[k - 1].length
                  /\ t[k].logical + t[k].length <= EndOfSegments(t)
                  /\ t[k].kind = "read" => /\ t[k].physical \in Nat
                                           /\ ~(t[k].physical + t[k].length > source)
                  /\ policy = "completeOnly" => ~Unavailable(t[k])
        <3>1. /\ g[k].length > 0 /\ Backed(g[k], c)
              /\ g[k].logical = IF k = 1 THEN 0 ELSE g[k - 1].logical + g[k - 1].length
              /\ g[k].logical + g[k].length <= EndOfSegments(g)
              /\ g[k].kind = "read" => /\ g[k].physical \in Nat
                                       /\ ~(g[k].physical + g[k].length > source)
              /\ policy = "completeOnly" => ~Unavailable(g[k])
            BY <2>6, <1>1 DEF SegmentsAreSound
        <3>2. /\ t[k].logical = g[k].logical
              /\ k # 1 => t[k - 1] = g[k - 1]
            <4>1. k # 1 => k - 1 \in 1 .. n /\ k - 1 # n
                BY <1>1
            <4> QED
                BY <4>1, <2>3, <2>4
        <3>3. CASE k # n
            <4>1. t[k] = g[k]
                BY <3>3, <2>4
            <4>2. g[k].logical + g[k].length <= EndOfSegments(t)
                <5>1. g[k].logical \in Nat /\ g[k].length \in Nat
                    BY <1>1, <1>2
                <5> QED
                    <6>1. EndOfSegments(g) = s.logical /\ EndOfSegments(t) = s.logical + s.length
                        BY <2>6, <2>8
                    <6>2. g[k].logical + g[k].length <= s.logical
                        BY <3>1, <6>1
                    <6>3. s.logical \in Nat /\ s.length \in Nat
                        BY <2>1, <2>7
                    <6> QED
                        BY <5>1, <6>1, <6>2, <6>3
            <4> QED
                BY <4>1, <4>2, <3>1, <3>2
        <3>4. CASE k = n
            <4>1. x.length > 0 /\ x.logical + x.length <= EndOfSegments(t)
                BY <2>1, <2>3, <2>6, <2>7, <2>8
            <4>2. x.kind = "read" => x.physical \in Nat /\ ~(x.physical + x.length > source)
                <5> SUFFICES ASSUME x.kind = "read"
                             PROVE  x.physical \in Nat /\ ~(x.physical + x.length > source)
                    OBVIOUS
                <5>1. s.kind = "read" /\ g[n].physical + g[n].length = s.physical
                    BY <2>1, <2>3 DEF Joins
                <5>2. g[n].physical \in Nat
                    BY <3>1, <3>4, <2>3
                <5> QED
                    BY <5>1, <5>2, <2>1, <2>3, <2>7
            <4>3. policy = "completeOnly" => ~Unavailable(x)
                BY <3>1, <3>4, <2>9
            <4> QED
                BY <4>1, <4>2, <4>3, <3>1, <3>2, <3>4, <2>4, <2>10
        <3> QED
            BY <3>3, <3>4
    <2>12. (\E k \in 1 .. n : Unavailable(t[k])) <=> (\E k \in 1 .. n : Unavailable(g[k]))
        BY <2>4, <2>9
    <2>13. SegmentsAreSound(t, c, source, policy)
        BY <2>4, <2>6, <2>11 DEF SegmentsAreSound
    <2>14. PlanIsSound(q, c, source, policy)
        BY <2>4, <2>5, <2>6, <2>12, <2>13 DEF PlanIsSound
    <2> HIDE DEF q
    <2> QED
        BY <1>6, <2>5, <2>8, <2>14 DEF q
<1>7. CASE /\ p.error = "none" /\ ~(Unavailable(s) /\ policy = "completeOnly")
           /\ ~(g # <<>> /\ Joins(Last(g), s)) /\ ~(n >= MaxSegments)
    <2> DEFINE t == Append(g, s)
    <2>1. q = [p EXCEPT !.segments = t, !.best = p.best \/ Unavailable(s)]
        BY <1>7 DEF Push
    <2>2. /\ t \in Seq(Segments) /\ Len(t) = n + 1 /\ DOMAIN t = 1 .. n + 1 /\ t[n + 1] = s
          /\ \A k \in 1 .. n : t[k] = g[k]
        BY <1>1
    <2> HIDE DEF t
    <2>3. /\ q \in PlanStates /\ q.segments = t /\ q.cursor = p.cursor
          /\ q.best = (p.best \/ Unavailable(s))
        BY <2>1, <2>2, <1>1 DEF PlanStates, Unavailable
    <2>4. /\ SegmentsAreSound(g, c, source, policy)
          /\ p.best <=> \E k \in 1 .. n : Unavailable(g[k])
          /\ s.logical = EndOfSegments(g)
        BY <1>1, <1>7 DEF PlanIsSound
    <2>5. s.logical \in Nat /\ s.length \in Nat
        BY <1>2
    <2>6. t # <<>> /\ EndOfSegments(t) = s.logical + s.length
        <3>1. t # <<>>
            <4>1. Len(<<>>) = 0 /\ n + 1 # 0
                BY <1>1
            <4> QED
                BY <4>1, <2>2
        <3> QED
            BY <3>1, <2>2 DEF EndOfSegments, Last
    <2>7. ASSUME NEW k \in 1 .. n + 1
          PROVE  /\ t[k].length > 0 /\ Backed(t[k], c)
                 /\ t[k].logical = IF k = 1 THEN 0 ELSE t[k - 1].logical + t[k - 1].length
                 /\ t[k].logical + t[k].length <= EndOfSegments(t)
                 /\ t[k].kind = "read" => /\ t[k].physical \in Nat
                                          /\ ~(t[k].physical + t[k].length > source)
                 /\ policy = "completeOnly" => ~Unavailable(t[k])
        <3>1. CASE k \in 1 .. n
            <4>1. /\ g[k].length > 0 /\ Backed(g[k], c)
                  /\ g[k].logical = IF k = 1 THEN 0 ELSE g[k - 1].logical + g[k - 1].length
                  /\ g[k].logical + g[k].length <= EndOfSegments(g)
                  /\ g[k].kind = "read" => /\ g[k].physical \in Nat
                                           /\ ~(g[k].physical + g[k].length > source)
                  /\ policy = "completeOnly" => ~Unavailable(g[k])
                BY <3>1, <2>4, <1>1 DEF SegmentsAreSound
            <4>2. t[k] = g[k] /\ (k # 1 => t[k - 1] = g[k - 1])
                <5>1. k # 1 => k - 1 \in 1 .. n
                    BY <3>1, <1>1
                <5> QED
                    BY <5>1, <3>1, <2>2
            <4>3. g[k].logical + g[k].length <= EndOfSegments(t)
                <5>1. g[k].logical \in Nat /\ g[k].length \in Nat
                    BY <3>1, <1>1, <1>2
                <5> QED
                    BY <5>1, <4>1, <2>4, <2>5, <2>6
            <4> QED
                BY <4>1, <4>2, <4>3
        <3>2. CASE k = n + 1
            <4>1. s.logical = IF k = 1 THEN 0 ELSE t[k - 1].logical + t[k - 1].length
                <5>1. CASE k = 1
                    <6>1. g = <<>>
                        BY <5>1, <3>2, <1>1
                    <6> QED
                        BY <5>1, <6>1, <2>4 DEF EndOfSegments
                <5>2. CASE k # 1
                    <6>1. n \in 1 .. n /\ k - 1 = n /\ g # <<>>
                        BY <5>2, <3>2, <1>1
                    <6> QED
                        BY <5>2, <6>1, <2>2, <2>4 DEF EndOfSegments, Last
                <5> QED
                    BY <5>1, <5>2
            <4>2. s.logical + s.length <= EndOfSegments(t)
                BY <2>5, <2>6
            <4> QED
                BY <4>1, <4>2, <3>2, <2>2, <1>7
        <3>3. k \in 1 .. n \/ k = n + 1
            BY <1>1
        <3> QED
            BY <3>1, <3>2, <3>3
    <2>8. (\E k \in 1 .. n + 1 : Unavailable(t[k]))
          <=> (\E k \in 1 .. n : Unavailable(g[k])) \/ Unavailable(s)
        <3>1. \A k \in 1 .. n + 1 : k \in 1 .. n \/ k = n + 1
            BY <1>1
        <3>2. n + 1 \in 1 .. n + 1 /\ \A k \in 1 .. n : k \in 1 .. n + 1
            BY <1>1
        <3> QED
            BY <3>1, <3>2, <2>2
    <2>9. n + 1 <= MaxSegments
        <3>1. MaxSegments \in Nat
            BY StreamAssumption
        <3> QED
            BY <3>1, <1>1, <1>7
    <2>10. SegmentsAreSound(t, c, source, policy)
        BY <2>2, <2>7, <2>9 DEF SegmentsAreSound
    <2>11. PlanIsSound(q, c, source, policy)
        BY <2>2, <2>3, <2>4, <2>8, <2>10 DEF PlanIsSound
    <2> HIDE DEF q
    <2> QED
        BY <1>7, <2>3, <2>6, <2>11 DEF q
<1> QED
    BY <1>3, <1>4, <1>5, <1>6, <1>7

(* A gap that no extent holds a unit of is a segment of zeros.             *)
NoneHolds(c, at, length) ==
    \A e \in Range(c.extents), i \in Nat : i >= at /\ i < at + length => ~In(e, i)

LEMMA GapIsBacked ==
    ASSUME NEW c, NEW at \in Nat, NEW length \in Nat, NoneHolds(c, at, length)
    PROVE  /\ ZeroSegment(at, length, "missingExtent") \in Segments
           /\ ZeroSegment(at, length, "missingExtent").logical = at
           /\ ZeroSegment(at, length, "missingExtent").length = length
           /\ ZeroSegment(at, length, "missingExtent").kind = "zero"
           /\ Backed(ZeroSegment(at, length, "missingExtent"), c)
<1> DEFINE s == ZeroSegment(at, length, "missingExtent")
<1>1. s = [kind |-> "zero", logical |-> at, physical |-> NoPlace, length |-> length,
           why |-> "missingExtent"]
    BY DEF ZeroSegment
<1>2. s \in Segments
    BY <1>1 DEF Segments, Reasons
<1>3. Backed(s, c)
    BY <1>1 DEF Backed, In, NoneHolds
<1> QED
    BY <1>1, <1>2, <1>3

(* The next extent, and the gap before it, keep the plan sound or fail it. *)
LEMMA PlanExtentKeeps ==
    ASSUME NEW c \in Candidates, NEW source \in Nat, NEW policy,
           NEW p \in PlanStates, NEW e \in Range(c.extents), e.length > 0,
           \A x \in Range(c.extents), i \in Nat :
              p.error = "none" /\ i >= p.cursor /\ i < e.logical => ~In(x, i),
           p.error = "none" => /\ PlanIsSound(p, c, source, policy)
                               /\ EndOfSegments(p.segments) = p.cursor
    PROVE  /\ PlanExtent(p, e, source, policy) \in PlanStates
           /\ PlanExtent(p, e, source, policy).error = "none" =>
                 /\ p.error = "none" /\ p.cursor <= e.logical
                 /\ PlanIsSound(PlanExtent(p, e, source, policy), c, source, policy)
                 /\ PlanExtent(p, e, source, policy).cursor = e.logical + e.length
                 /\ EndOfSegments(PlanExtent(p, e, source, policy).segments)
                       = e.logical + e.length
<1> DEFINE zero == ZeroSegment(p.cursor, e.logical - p.cursor, "missingExtent")
           gap  == IF e.logical > p.cursor THEN Push(p, zero, policy) ELSE p
           s    == ReadableMapping(e)
           next == IF s.kind = "read" /\ s.physical + s.length > source
                   THEN Fail(gap, "physicalOutOfBounds") ELSE Push(gap, s, policy)
           end  == e.logical + e.length
           q    == [next EXCEPT !.cursor = end]
           all  == PlanExtent(p, e, source, policy)
<1>1. e \in Extents /\ e.logical \in Nat /\ e.length \in Nat /\ p.cursor \in Nat /\ end \in Nat
    <2>1. e \in Extents
        BY DEF Candidates, Range
    <2>2. e.logical \in Nat /\ e.length \in Nat
        BY <2>1 DEF Extents
    <2>3. p.cursor \in Nat
        BY DEF PlanStates
    <2> QED
        BY <2>1, <2>2, <2>3
<1>2. CASE e.logical < p.cursor
    <2>1. all = Fail(p, "overlappingExtents")
        BY <1>2 DEF PlanExtent
    <2> QED
        BY <2>1, FailNotes
<1>3. CASE ~(e.logical < p.cursor)
    <2>1. all = q
        BY <1>3 DEF PlanExtent
    <2>2. /\ s \in Segments /\ s.logical = e.logical /\ s.length = e.length
          /\ s.kind = "read" => s.physical \in Nat
          /\ Backed(s, c)
        BY MappingIsBacked
    <2> HIDE DEF s, q
    <2>3. /\ gap \in PlanStates
          /\ gap.error = "none" => /\ p.error = "none" /\ PlanIsSound(gap, c, source, policy)
                                   /\ s.logical = EndOfSegments(gap.segments)
        <3>1. CASE e.logical > p.cursor
            <4>1. CASE p.error # "none"
                <5>1. gap = p
                    BY <4>1 DEF Push
                <5> QED
                    BY <4>1, <5>1
            <4>2. CASE p.error = "none"
                <5> DEFINE m == e.logical - p.cursor
                <5>1. m \in Nat /\ m > 0 /\ p.cursor + m = e.logical
                    BY <3>1, <1>1
                <5>2. /\ zero \in Segments /\ zero.logical = p.cursor /\ zero.length = m
                      /\ zero.kind = "zero" /\ Backed(zero, c)
                    <6>1. NoneHolds(c, p.cursor, m)
                        BY <5>1, <4>2 DEF NoneHolds
                    <6> HIDE DEF m
                    <6> DEFINE z == ZeroSegment(p.cursor, m, "missingExtent")
                    <6>2. /\ z \in Segments /\ z.logical = p.cursor /\ z.length = m
                          /\ z.kind = "zero" /\ Backed(z, c)
                        <7>1. m \in Nat /\ p.cursor \in Nat
                            BY <5>1, <1>1
                        <7> QED
                            BY <6>1, <7>1, GapIsBacked
                    <6> QED
                        BY <6>2 DEF m
                <5>3. gap = Push(p, zero, policy)
                    BY <3>1
                <5> HIDE DEF zero, gap, m
                <5>5. /\ zero.length > 0 /\ zero.kind # "read"
                      /\ PlanIsSound(p, c, source, policy)
                      /\ zero.logical = EndOfSegments(p.segments)
                    BY <4>2, <5>1, <5>2
                <5>4. /\ Push(p, zero, policy) \in PlanStates
                      /\ Push(p, zero, policy).error = "none" =>
                           /\ p.error = "none"
                           /\ PlanIsSound(Push(p, zero, policy), c, source, policy)
                           /\ EndOfSegments(Push(p, zero, policy).segments)
                                 = zero.logical + zero.length
                    BY <5>2, <5>5, PushKeeps, ZenonT(60)
                <5> QED
                    BY <5>1, <5>2, <5>3, <5>4, <2>2
            <4> QED
                BY <4>1, <4>2
        <3>2. CASE ~(e.logical > p.cursor)
            <4>1. e.logical = p.cursor /\ gap = p
                BY <3>2, <1>1, <1>3
            <4> QED
                BY <4>1, <2>2
        <3> QED
            BY <3>1, <3>2
    <2> HIDE DEF gap
    <2>4. /\ next \in PlanStates
          /\ next.error = "none" => /\ p.error = "none"
                                    /\ PlanIsSound(next, c, source, policy)
                                    /\ EndOfSegments(next.segments) = end
        <3>1. CASE s.kind = "read" /\ s.physical + s.length > source
            <4>1. next = Fail(gap, "physicalOutOfBounds")
                BY <3>1
            <4> QED
                BY <4>1, <2>3, FailNotes
        <3>2. CASE ~(s.kind = "read" /\ s.physical + s.length > source)
            <4>1. next = Push(gap, s, policy)
                BY <3>2
            <4>2. s.length > 0
                BY <2>2
            <4>3. s.kind = "read" => s.physical \in Nat /\ ~(s.physical + s.length > source)
                BY <2>2, <3>2
            <4>4. gap.error = "none" => /\ PlanIsSound(gap, c, source, policy)
                                        /\ s.logical = EndOfSegments(gap.segments)
                BY <2>3
            <4>5. /\ Push(gap, s, policy) \in PlanStates
                  /\ Push(gap, s, policy).error = "none" =>
                       /\ gap.error = "none"
                       /\ PlanIsSound(Push(gap, s, policy), c, source, policy)
                       /\ EndOfSegments(Push(gap, s, policy).segments) = s.logical + s.length
                BY <4>2, <4>3, <4>4, <2>2, <2>3, PushKeeps, ZenonT(60)
            <4> QED
                BY <4>1, <4>5, <2>2, <2>3
        <3> QED
            BY <3>1, <3>2
    <2> HIDE DEF next, end
    <2>5. /\ q \in PlanStates /\ q.cursor = end /\ q.error = next.error
          /\ q.segments = next.segments /\ q.best = next.best
        BY <2>4, <1>1 DEF PlanStates, q
    <2>6. q.error = "none" => PlanIsSound(q, c, source, policy)
        BY <2>4, <2>5 DEF PlanIsSound
    <2>7. p.cursor <= e.logical
        BY <1>1, <1>3
    <2> QED
        BY <2>1, <2>4, <2>5, <2>6, <2>7 DEF end
<1> QED
    BY <1>2, <1>3

(* The order in which the extents are planned.                             *)
LEMMA ExtentsInOrder ==
    ASSUME NEW es \in Seq(Extents)
    PROVE  /\ LogicalOrder(es) \in [DOMAIN es -> DOMAIN es]
           /\ \A k, l \in DOMAIN es : k < l =>
                 es[LogicalOrder(es)[k]].logical <= es[LogicalOrder(es)[l]].logical
           /\ \A i \in DOMAIN es : \E k \in DOMAIN es : LogicalOrder(es)[k] = i
<1> DEFINE n == Len(es)
           before == {p \in (DOMAIN es) \X (DOMAIN es) :
                          \/ es[p[1]].logical < es[p[2]].logical
                          \/ es[p[1]].logical = es[p[2]].logical /\ p[1] < p[2]}
<1>1. /\ n \in Nat /\ DOMAIN es = 1 .. n
      /\ \A k \in 1 .. n : es[k].logical \in Nat
    <2>1. \A k \in 1 .. n : es[k] \in Extents
        OBVIOUS
    <2> QED
        BY <2>1 DEF Extents
<1>2. \A i, j \in 1 .. n : <<i, j>> \in before <=>
         \/ es[i].logical < es[j].logical
         \/ es[i].logical = es[j].logical /\ i < j
    BY <1>1
<1> HIDE DEF before
<1>4. \A i \in 1 .. n : <<i, i>> \notin before
    <2> SUFFICES ASSUME NEW i \in 1 .. n PROVE <<i, i>> \notin before
        OBVIOUS
    <2>1. ~(es[i].logical < es[i].logical) /\ ~(i < i)
        BY <1>1
    <2> QED
        BY <2>1, <1>2
<1>5. ASSUME NEW i \in 1 .. n, NEW j \in 1 .. n, NEW k \in 1 .. n,
             <<i, j>> \in before, <<j, k>> \in before
      PROVE  <<i, k>> \in before
    <2>1. es[i].logical < es[j].logical \/ (es[i].logical = es[j].logical /\ i < j)
        BY <1>2, <1>5
    <2>2. es[j].logical < es[k].logical \/ (es[j].logical = es[k].logical /\ j < k)
        BY <1>2, <1>5
    <2>3. es[i].logical < es[k].logical \/ (es[i].logical = es[k].logical /\ i < k)
        BY <2>1, <2>2, <1>1
    <2> QED
        BY <2>3, <1>2
<1>6. \A i, j \in 1 .. n : i = j \/ <<i, j>> \in before \/ <<j, i>> \in before
    <2> SUFFICES ASSUME NEW i \in 1 .. n, NEW j \in 1 .. n, i # j
                 PROVE  <<i, j>> \in before \/ <<j, i>> \in before
        OBVIOUS
    <2>1. /\ es[i].logical \in Nat /\ es[j].logical \in Nat /\ i \in Nat /\ j \in Nat
        BY <1>1
    <2>2. \/ es[i].logical < es[j].logical \/ es[j].logical < es[i].logical
          \/ es[i].logical = es[j].logical
        BY <2>1
    <2>3. i < j \/ j < i
        BY <2>1
    <2> QED
        BY <2>2, <2>3, <1>2
<1>7. LogicalOrder(es) = Arranged(n, before)
    BY DEF LogicalOrder, before
<1>8. /\ Arranged(n, before) \in [1 .. n -> 1 .. n]
      /\ \A k, l \in 1 .. n : k < l =>
            <<Arranged(n, before)[k], Arranged(n, before)[l]>> \in before
      /\ \A i \in 1 .. n : \E k \in 1 .. n : Arranged(n, before)[k] = i
    BY <1>1, <1>4, <1>5, <1>6, ArrangedSorts
<1>9. ASSUME NEW k \in 1 .. n, NEW l \in 1 .. n, k < l
      PROVE  es[LogicalOrder(es)[k]].logical <= es[LogicalOrder(es)[l]].logical
    <2>1. /\ LogicalOrder(es)[k] \in 1 .. n /\ LogicalOrder(es)[l] \in 1 .. n
          /\ <<LogicalOrder(es)[k], LogicalOrder(es)[l]>> \in before
        BY <1>7, <1>8, <1>9
    <2> DEFINE i == LogicalOrder(es)[k]
               j == LogicalOrder(es)[l]
    <2>2. es[i].logical \in Nat /\ es[j].logical \in Nat
        BY <2>1, <1>1
    <2>3. es[i].logical < es[j].logical \/ es[i].logical = es[j].logical
        BY <2>1, <1>2
    <2> HIDE DEF i, j
    <2>4. es[i].logical <= es[j].logical
        BY <2>2, <2>3
    <2> QED
        BY <2>4 DEF i, j
<1> QED
    BY <1>1, <1>7, <1>8, <1>9

(* The extents are planned in order, and the plan ends with the last one.  *)
LEMMA ExtentsArePlanned ==
    ASSUME NEW c \in Candidates, NEW source \in Nat, NEW policy,
           \A e \in Range(c.extents) : e.length > 0 /\ e.logical + e.length <= c.size
    PROVE  /\ PlanExtents(c.extents, source, policy) \in PlanStates
           /\ PlanExtents(c.extents, source, policy).error = "none" =>
                 /\ PlanIsSound(PlanExtents(c.extents, source, policy), c, source, policy)
                 /\ EndOfSegments(PlanExtents(c.extents, source, policy).segments)
                       = PlanExtents(c.extents, source, policy).cursor
                 /\ PlanExtents(c.extents, source, policy).cursor <= c.size
                 /\ \A e \in Range(c.extents) :
                       e.logical + e.length <= PlanExtents(c.extents, source, policy).cursor
<1> DEFINE es == c.extents
           n == Len(es)
           order == LogicalOrder(es)
           Sound(p) == /\ PlanIsSound(p, c, source, policy)
                       /\ EndOfSegments(p.segments) = p.cursor
                       /\ p.cursor <= c.size
           Past(p, k) == \A j \in 1 .. k : es[order[j]].logical + es[order[j]].length <= p.cursor
           Inv == [k \in 0 .. n |->
                     {p \in PlanStates : p.error = "none" => Sound(p) /\ Past(p, k)}]
           step == [k \in DOMAIN es |-> [p \in PlanStates |->
                       PlanExtent(p, es[order[k]], source, policy)]]
<1>1. /\ es \in Seq(Extents) /\ n \in Nat /\ DOMAIN es = 1 .. n /\ c.size \in Nat
      /\ \A k \in 1 .. n : /\ es[k] \in Range(es) /\ es[k].logical \in Nat
                           /\ es[k].length \in Nat /\ es[k].length > 0
                           /\ es[k].logical + es[k].length <= c.size
    <2>1. es \in Seq(Extents) /\ c.size \in Nat
        BY DEF Candidates
    <2>2. n \in Nat /\ DOMAIN es = 1 .. n /\ \A k \in 1 .. n : es[k] \in Extents
        BY <2>1
    <2>3. \A k \in 1 .. n : es[k].logical \in Nat /\ es[k].length \in Nat
        BY <2>2 DEF Extents
    <2>4. \A k \in 1 .. n : es[k] \in Range(es)
        BY <2>2 DEF Range
    <2> QED
        BY <2>1, <2>2, <2>3, <2>4
<1>2. /\ order \in [1 .. n -> 1 .. n]
      /\ \A k, l \in 1 .. n : k < l => es[order[k]].logical <= es[order[l]].logical
      /\ \A i \in 1 .. n : \E k \in 1 .. n : order[k] = i
    BY <1>1, ExtentsInOrder
<1>3. NewPlan \in PlanStates /\ NewPlan.error = "none" /\ NewPlan.segments = <<>>
      /\ NewPlan.cursor = 0 /\ NewPlan.best = FALSE
    BY DEF NewPlan, PlanStates
<1> HIDE DEF order
<1>4. NewPlan \in Inv[0]
    <2>1. SegmentsAreSound(<<>>, c, source, policy)
        <3>1. MaxSegments \in Nat /\ Len(<<>>) = 0 /\ DOMAIN <<>> = {}
            BY StreamAssumption
        <3> QED
            BY <3>1 DEF SegmentsAreSound
    <2>2. PlanIsSound(NewPlan, c, source, policy)
        BY <2>1, <1>3 DEF PlanIsSound
    <2>3. EndOfSegments(NewPlan.segments) = 0
        BY <1>3 DEF EndOfSegments
    <2>4. Past(NewPlan, 0) /\ Sound(NewPlan)
        BY <2>2, <2>3, <1>1, <1>3
    <2>5. 0 \in 0 .. n
        BY <1>1
    <2> HIDE DEF Past, Sound
    <2> QED
        BY <2>4, <2>5, <1>3
<1>5. ASSUME NEW k \in 1 .. n, NEW p \in Inv[k - 1] PROVE step[k][p] \in Inv[k]
    <2> DEFINE e == es[order[k]]
               q == PlanExtent(p, e, source, policy)
    <2>1. k - 1 \in 0 .. n /\ k \in 0 .. n /\ k \in DOMAIN es
        BY <1>1
    <2>2. p \in PlanStates /\ (p.error = "none" => Sound(p) /\ Past(p, k - 1))
        <3> HIDE DEF Sound, Past
        <3> QED
            BY <2>1
    <2>3. step[k][p] = q
        BY <2>1, <2>2
    <2>4. /\ e \in Range(c.extents) /\ e.length > 0 /\ e.logical \in Nat /\ e.length \in Nat
          /\ e.logical + e.length <= c.size
        BY <1>1, <1>2
    <2>5. p.cursor \in Nat
        BY <2>2 DEF PlanStates
    <2>6. ASSUME NEW x \in Range(c.extents), NEW i \in Nat,
                 p.error = "none", i >= p.cursor, i < e.logical, In(x, i)
          PROVE  FALSE
        <3>1. PICK m \in 1 .. n : x = es[m]
            BY <1>1 DEF Range
        <3>2. PICK j \in 1 .. n : order[j] = m
            BY <1>2
        <3>3. x = es[order[j]] /\ x.logical \in Nat /\ x.length \in Nat
            BY <3>1, <3>2, <1>1
        <3>4. CASE j < k
            <4>1. j \in 1 .. k - 1
                BY <3>4
            <4>2. x.logical + x.length <= p.cursor
                <5>1. Past(p, k - 1)
                    BY <2>2, <2>6
                <5> QED
                    BY <4>1, <5>1, <3>3
            <4>3. i < x.logical + x.length /\ i >= p.cursor
                BY <2>6 DEF In
            <4> HIDE DEF e
            <4> DEFINE a == x.logical + x.length
                       b == p.cursor
            <4>4. a \in Nat
                <5>1. \A u, v \in Nat : u + v \in Nat
                    OBVIOUS
                <5> QED
                    BY <3>3, <5>1, Zenon
            <4>5. b \in Nat
                BY <2>5
            <4>6. i \in Nat
                BY <2>6
            <4>7. a <= b /\ i < a /\ i >= b
                BY <4>2, <4>3
            <4> HIDE DEF a, b
            <4> QED
                BY <4>4, <4>5, <4>6, <4>7
        <3>5. CASE ~(j < k)
            <4>1. j = k \/ k < j
                BY <3>5
            <4>2. e.logical <= x.logical
                <5>1. CASE j = k
                    BY <5>1, <3>3
                <5>2. CASE k < j
                    BY <5>2, <3>3, <1>2
                <5> QED
                    BY <4>1, <5>1, <5>2
            <4>3. i >= x.logical /\ i < e.logical
                BY <2>6 DEF In
            <4>4. e.logical \in Nat
                BY <2>4
            <4> HIDE DEF e
            <4> QED
                BY <4>2, <4>3, <4>4, <3>3
        <3> QED
            BY <3>4, <3>5
    <2> HIDE DEF e
    <2>7. p.error = "none" => /\ PlanIsSound(p, c, source, policy)
                              /\ EndOfSegments(p.segments) = p.cursor
        BY <2>2
    <2>8. /\ PlanExtent(p, e, source, policy) \in PlanStates
          /\ PlanExtent(p, e, source, policy).error = "none" =>
                 /\ p.error = "none" /\ p.cursor <= e.logical
                 /\ PlanIsSound(PlanExtent(p, e, source, policy), c, source, policy)
                 /\ PlanExtent(p, e, source, policy).cursor = e.logical + e.length
                 /\ EndOfSegments(PlanExtent(p, e, source, policy).segments)
                       = e.logical + e.length
        BY <2>2, <2>4, <2>6, <2>7, PlanExtentKeeps, ZenonT(60)
    <2> HIDE DEF q
    <2>9. /\ q \in PlanStates
          /\ q.error = "none" =>
                 /\ p.error = "none" /\ p.cursor <= e.logical
                 /\ PlanIsSound(q, c, source, policy)
                 /\ q.cursor = e.logical + e.length
                 /\ EndOfSegments(q.segments) = e.logical + e.length
        BY <2>8 DEF q
    <2>10. q.error = "none" => Sound(q)
        BY <2>4, <2>9
    <2>11. ASSUME q.error = "none" PROVE Past(q, k)
        <3> SUFFICES ASSUME NEW j \in 1 .. k
                     PROVE  es[order[j]].logical + es[order[j]].length <= q.cursor
            OBVIOUS
        <3>1. order[j] \in 1 .. n
            <4>1. j \in 1 .. n
                BY <1>1
            <4> QED
                BY <4>1, <1>2
        <3>2. es[order[j]].logical \in Nat /\ es[order[j]].length \in Nat
            BY <3>1, <1>1
        <3>3. CASE j = k
            BY <3>3, <3>2, <2>9, <2>11 DEF e
        <3>4. CASE j # k
            <4>1. j \in 1 .. k - 1
                BY <3>4
            <4>2. es[order[j]].logical + es[order[j]].length <= p.cursor
                BY <4>1, <2>2, <2>9, <2>11
            <4>3. p.cursor <= q.cursor
                <5>1. p.cursor <= e.logical /\ q.cursor = e.logical + e.length
                    BY <2>9, <2>11
                <5>2. e.logical \in Nat /\ e.length \in Nat
                    BY <2>4
                <5> QED
                    BY <5>1, <5>2, <2>5
            <4>4. q.cursor \in Nat
                BY <2>9 DEF PlanStates
            <4> DEFINE a == es[order[j]].logical + es[order[j]].length
            <4>5. a \in Nat /\ a <= p.cursor
                <5>1. a <= p.cursor
                    BY <4>2
                <5>2. \A u, v \in Nat : u + v \in Nat
                    OBVIOUS
                <5>3. a \in Nat
                    BY <3>2, <5>2, Zenon
                <5> QED
                    BY <5>1, <5>3
            <4> HIDE DEF a
            <4>6. a <= q.cursor
                BY <4>3, <4>4, <4>5, <2>5
            <4> QED
                BY <4>6 DEF a
        <3> QED
            BY <3>3, <3>4
    <2> HIDE DEF Sound, Past
    <2>12. q \in Inv[k]
        BY <2>1, <2>9, <2>10, <2>11
    <2> QED
        BY <2>3, <2>12
<1>6. Folded(step, NewPlan, n) \in Inv[n]
    <2>1. Inv \in [0 .. n -> SUBSET PlanStates]
        OBVIOUS
    <2> HIDE DEF Inv, step
    <2> QED
        BY <2>1, <1>1, <1>4, <1>5, FoldedKeeps
<1> DEFINE all == PlanExtents(c.extents, source, policy)
<1>7. all = Folded(step, NewPlan, n)
    BY DEF PlanExtents, order
<1>8. n \in 0 .. n
    BY <1>1
<1> HIDE DEF step, all
<1>9. all \in PlanStates /\ (all.error = "none" => Sound(all) /\ Past(all, n))
    <2> HIDE DEF Sound, Past
    <2> QED
        BY <1>6, <1>7, <1>8
<1>10. ASSUME all.error = "none", NEW e \in Range(c.extents)
       PROVE  e.logical + e.length <= all.cursor
    <2>1. PICK m \in 1 .. n : e = es[m]
        BY <1>1 DEF Range
    <2>2. PICK j \in 1 .. n : order[j] = m
        BY <1>2
    <2> QED
        BY <2>1, <2>2, <1>9, <1>10
<1> QED
    BY <1>9, <1>10 DEF all

(* A plan that is made is sound, and covers the candidate.                 *)
LEMMA PlansAreSound ==
    ASSUME NEW c \in Candidates, NEW source \in Nat, NEW policy
    PROVE  /\ PlanCandidate(c, source, policy) \in PlanStates
           /\ PlanCandidate(c, source, policy).error = "none" =>
                 /\ PlanIsSound(PlanCandidate(c, source, policy), c, source, policy)
                 /\ EndOfSegments(PlanCandidate(c, source, policy).segments) = c.size
<1> DEFINE es == c.extents
           all == PlanExtents(es, source, policy)
           p == PlanCandidate(c, source, policy)
<1>1. NewPlan \in PlanStates
    BY DEF NewPlan, PlanStates
<1>2. CASE Len(es) > MaxSegments
    <2>1. p = Fail(NewPlan, "segmentLimit")
        BY <1>2 DEF PlanCandidate
    <2> QED
        BY <1>1, <2>1, FailNotes
<1>3. CASE ~(Len(es) > MaxSegments) /\ \E e \in Range(es) : e.length = 0
    <2>1. p = Fail(NewPlan, "zeroLengthExtent")
        BY <1>3 DEF PlanCandidate
    <2> QED
        BY <1>1, <2>1, FailNotes
<1>4. CASE /\ ~(Len(es) > MaxSegments) /\ ~(\E e \in Range(es) : e.length = 0)
           /\ \E e \in Range(es) : e.logical + e.length > c.size
    <2>1. p = Fail(NewPlan, "logicalOutOfBounds")
        BY <1>4 DEF PlanCandidate
    <2> QED
        BY <1>1, <2>1, FailNotes
<1>5. CASE /\ ~(Len(es) > MaxSegments) /\ ~(\E e \in Range(es) : e.length = 0)
           /\ ~(\E e \in Range(es) : e.logical + e.length > c.size)
    <2>1. p = IF all.cursor < c.size
              THEN Push(all, ZeroSegment(all.cursor, c.size - all.cursor, "missingExtent"), policy)
              ELSE all
        BY <1>5 DEF PlanCandidate
    <2>2. \A e \in Range(c.extents) : /\ e.logical \in Nat /\ e.length \in Nat
                                      /\ e.length > 0 /\ e.logical + e.length <= c.size
        <3>1. c.size \in Nat /\ Range(c.extents) \subseteq Extents
            BY DEF Candidates, Range
        <3> SUFFICES ASSUME NEW e \in Range(c.extents)
                     PROVE  /\ e.logical \in Nat /\ e.length \in Nat
                            /\ e.length > 0 /\ e.logical + e.length <= c.size
            OBVIOUS
        <3>2. e.logical \in Nat /\ e.length \in Nat
            BY <3>1 DEF Extents
        <3>3. e.length # 0 /\ ~(e.logical + e.length > c.size)
            BY <1>5
        <3> QED
            BY <3>1, <3>2, <3>3
    <2>3. /\ all \in PlanStates
          /\ all.error = "none" =>
                 /\ PlanIsSound(all, c, source, policy)
                 /\ EndOfSegments(all.segments) = all.cursor
                 /\ all.cursor <= c.size
                 /\ \A e \in Range(c.extents) : e.logical + e.length <= all.cursor
        BY <2>2, ExtentsArePlanned
    <2> HIDE DEF all, p
    <2>4. all.cursor \in Nat /\ c.size \in Nat
        BY <2>3 DEF PlanStates, Candidates
    <2>5. CASE ~(all.cursor < c.size)
        <3>1. all.error = "none" => all.cursor = c.size
            BY <2>3, <2>4, <2>5
        <3>2. p = all
            BY <2>1, <2>5
        <3> QED
            BY <3>1, <3>2, <2>3 DEF p
    <2>6. CASE all.cursor < c.size
        <3> DEFINE m == c.size - all.cursor
                   zero == ZeroSegment(all.cursor, m, "missingExtent")
        <3>1. m \in Nat /\ m > 0 /\ all.cursor + m = c.size
            BY <2>4, <2>6
        <3>2. p = Push(all, zero, policy)
            BY <2>1, <2>6
        <3>3. CASE all.error # "none"
            <4>1. p = all
                BY <3>2, <3>3 DEF Push
            <4> QED
                BY <4>1, <3>3, <2>3 DEF p
        <3>4. CASE all.error = "none"
            <4> HIDE DEF m
            <4>1. NoneHolds(c, all.cursor, m)
                <5> SUFFICES ASSUME NEW e \in Range(c.extents), NEW i \in Nat,
                                    i >= all.cursor, In(e, i)
                             PROVE  FALSE
                    BY DEF NoneHolds
                <5>1. /\ e.logical \in Nat /\ e.length \in Nat
                      /\ e.logical + e.length <= all.cursor /\ i < e.logical + e.length
                    BY <2>2, <2>3, <3>4 DEF In
                <5> QED
                    BY <5>1, <2>4
            <4>2. /\ zero \in Segments /\ zero.logical = all.cursor /\ zero.length = m
                  /\ zero.kind = "zero" /\ Backed(zero, c)
                BY <4>1, <3>1, <2>4, GapIsBacked
            <4> HIDE DEF zero
            <4>3. /\ zero.length > 0 /\ zero.kind # "read"
                  /\ PlanIsSound(all, c, source, policy)
                  /\ zero.logical = EndOfSegments(all.segments)
                BY <4>2, <3>1, <3>4, <2>3
            <4>4. /\ Push(all, zero, policy) \in PlanStates
                  /\ Push(all, zero, policy).error = "none" =>
                        /\ PlanIsSound(Push(all, zero, policy), c, source, policy)
                        /\ EndOfSegments(Push(all, zero, policy).segments)
                              = zero.logical + zero.length
                BY <4>2, <4>3, <2>3, PushKeeps, ZenonT(60)
            <4> QED
                BY <4>2, <4>4, <3>1, <3>2 DEF p
        <3> QED
            BY <3>3, <3>4
    <2> QED
        BY <2>5, <2>6
<1> QED
    BY <1>2, <1>3, <1>4, <1>5

(* A sound plan passes the check before the stream.                        *)
LEMMA SoundPlansPass ==
    ASSUME NEW c \in Candidates, NEW source \in Nat, NEW policy, NEW p \in PlanStates,
           PlanIsSound(p, c, source, policy), EndOfSegments(p.segments) = c.size
    PROVE  Preflight(c, p, source, policy)
<1> DEFINE g == p.segments
           n == Len(g)
           ends == [k \in DOMAIN g |-> g[k].logical + g[k].length]
           starts == [k \in DOMAIN g |-> IF k = 1 THEN 0 ELSE ends[k - 1]]
           bad(s) == \/ s.length = 0 \/ s.logical + s.length > c.size
                     \/ s.kind = "read" /\ s.physical + s.length > source
                     \/ Unavailable(s) /\ policy = "completeOnly"
<1>1. /\ g \in Seq(Segments) /\ n \in Nat /\ DOMAIN g = 1 .. n /\ c.size \in Nat
      /\ \A k \in 1 .. n : g[k].logical \in Nat /\ g[k].length \in Nat
    <2>1. g \in Seq(Segments) /\ c.size \in Nat
        BY DEF PlanStates, Candidates
    <2>2. n \in Nat /\ DOMAIN g = 1 .. n /\ \A k \in 1 .. n : g[k] \in Segments
        BY <2>1
    <2>3. \A k \in 1 .. n : g[k].logical \in Nat /\ g[k].length \in Nat
        BY <2>2 DEF Segments
    <2> QED
        BY <2>1, <2>2, <2>3
<1>2. /\ SegmentsAreSound(g, c, source, policy)
      /\ p.best <=> \E k \in DOMAIN g : Unavailable(g[k])
    BY DEF PlanIsSound
<1>3. n <= MaxSegments
    BY <1>2 DEF SegmentsAreSound
<1>4. ASSUME NEW k \in 1 .. n PROVE ~bad(g[k]) /\ g[k].logical = starts[k]
    <2>1. /\ g[k].length > 0
          /\ g[k].logical = IF k = 1 THEN 0 ELSE g[k - 1].logical + g[k - 1].length
          /\ g[k].logical + g[k].length <= EndOfSegments(g)
          /\ g[k].kind = "read" => ~(g[k].physical + g[k].length > source)
          /\ policy = "completeOnly" => ~Unavailable(g[k])
        BY <1>1, <1>2 DEF SegmentsAreSound
    <2>2. ~(g[k].length = 0) /\ ~(g[k].logical + g[k].length > c.size)
        BY <2>1, <1>1
    <2>3. k # 1 => k - 1 \in DOMAIN g
        BY <1>1
    <2>4. starts[k] = IF k = 1 THEN 0 ELSE g[k - 1].logical + g[k - 1].length
        BY <2>3, <1>1
    <2> QED
        BY <2>1, <2>2, <2>4
<1>5. (IF g = <<>> THEN 0 ELSE Last(ends)) = c.size
    <2>1. CASE g = <<>>
        BY <2>1 DEF EndOfSegments
    <2>2. CASE g # <<>>
        <3>1. n \in 1 .. n
            BY <2>2, <1>1
        <3>2. Len(ends) = n
            BY <1>1
        <3>3. Last(ends) = g[n].logical + g[n].length
            BY <3>1, <3>2, <1>1 DEF Last
        <3> QED
            BY <2>2, <3>3 DEF EndOfSegments, Last
    <2> QED
        BY <2>1, <2>2
<1>6. (\E k \in DOMAIN g : Unavailable(g[k])) <=> (\E s \in Range(g) : Unavailable(s))
    BY DEF Range
<1> QED
    BY <1>1, <1>2, <1>3, <1>4, <1>5, <1>6 DEF Preflight

-----------------------------------------------------------------------------
(* What the stream works with.                                             *)

(* Reasons are told apart: only a sparse extent is called sparse.          *)
LEMMA OnlySparseIsSparse ==
    ASSUME NEW e \in Extents, ReasonOf(e) = "sparse"
    PROVE  e.availability = "sparse"
<1>1. e.availability \in {"freeInSnapshot", "resident"} \cup DOMAIN Reason
    BY DEF Extents
<1>2. CASE e.availability \in {"freeInSnapshot", "resident"}
    BY <1>2 DEF ReasonOf
<1>3. CASE e.availability \notin {"freeInSnapshot", "resident"}
    <2>1. e.availability \in DOMAIN Reason /\ Reason[e.availability] = "sparse"
        BY <1>1, <1>3 DEF ReasonOf
    <2> QED
        BY <2>1 DEF Reason
<1> QED
    BY <1>2, <1>3

(* The plan that is streamed.                                              *)
LEMMA PlanFacts ==
    ASSUME TaskType, plan.error = "none"
    PROVE  /\ plan.segments \in Seq(Segments) /\ Len(plan.segments) \in Nat
           /\ DOMAIN plan.segments = 1 .. Len(plan.segments)
           /\ task.candidate.size \in Nat
           /\ plan.best <=> \E k \in DOMAIN plan.segments : Unavailable(plan.segments[k])
           /\ EndOfSegments(plan.segments) = task.candidate.size
           /\ \A k \in DOMAIN plan.segments :
                 /\ plan.segments[k].kind \in {"read", "zero"}
                 /\ plan.segments[k].logical \in Nat
                 /\ plan.segments[k].length \in Nat /\ plan.segments[k].length > 0
                 /\ plan.segments[k].kind = "read" => plan.segments[k].physical \in Nat
                 /\ Backed(plan.segments[k], task.candidate)
                 /\ plan.segments[k].logical
                       = IF k = 1 THEN 0
                         ELSE plan.segments[k - 1].logical + plan.segments[k - 1].length
                 /\ task.policy = "completeOnly" => ~Unavailable(plan.segments[k])
<1>0. SourceLength \in Nat
    <2>1. TotalClusters \in Nat /\ ClusterSize \in Nat
        BY ContentAssumption
    <2> QED
        BY <2>1 DEF SourceLength
<1>1. /\ task.candidate \in Candidates
      /\ plan = PlanCandidate(task.candidate, SourceLength, task.policy)
    BY DEF TaskType
<1>2. /\ plan \in PlanStates
      /\ PlanIsSound(plan, task.candidate, SourceLength, task.policy)
      /\ EndOfSegments(plan.segments) = task.candidate.size
    BY <1>0, <1>1, PlansAreSound
<1>3. plan.segments \in Seq(Segments) /\ task.candidate.size \in Nat
    BY <1>1, <1>2 DEF PlanStates, Candidates
<1>4. /\ Len(plan.segments) \in Nat /\ DOMAIN plan.segments = 1 .. Len(plan.segments)
      /\ \A k \in DOMAIN plan.segments : plan.segments[k] \in Segments
    BY <1>3
<1>5. \A k \in DOMAIN plan.segments :
         /\ plan.segments[k].kind \in {"read", "zero"}
         /\ plan.segments[k].logical \in Nat /\ plan.segments[k].length \in Nat
    BY <1>4 DEF Segments
<1>6. /\ SegmentsAreSound(plan.segments, task.candidate, SourceLength, task.policy)
      /\ plan.best <=> \E k \in DOMAIN plan.segments : Unavailable(plan.segments[k])
    BY <1>2 DEF PlanIsSound
<1>7. \A k \in DOMAIN plan.segments :
         /\ plan.segments[k].length > 0
         /\ plan.segments[k].kind = "read" => plan.segments[k].physical \in Nat
         /\ Backed(plan.segments[k], task.candidate)
         /\ plan.segments[k].logical
               = IF k = 1 THEN 0
                 ELSE plan.segments[k - 1].logical + plan.segments[k - 1].length
         /\ task.policy = "completeOnly" => ~Unavailable(plan.segments[k])
    BY <1>6 DEF SegmentsAreSound
<1> QED
    BY <1>2, <1>3, <1>4, <1>5, <1>6, <1>7

(* The segment that is streamed ends where the next one starts, or where   *)
(* the candidate ends.                                                     *)
LEMMA NextPlace ==
    ASSUME TaskType, plan.error = "none", segment \in DOMAIN plan.segments
    PROVE  Current.logical + Current.length
              = IF segment + 1 \in DOMAIN plan.segments
                THEN plan.segments[segment + 1].logical ELSE task.candidate.size
<1> DEFINE n == Len(plan.segments)
<1>1. /\ n \in Nat /\ DOMAIN plan.segments = 1 .. n /\ plan.segments \in Seq(Segments)
      /\ EndOfSegments(plan.segments) = task.candidate.size
      /\ \A k \in DOMAIN plan.segments :
            plan.segments[k].logical
               = IF k = 1 THEN 0
                 ELSE plan.segments[k - 1].logical + plan.segments[k - 1].length
    BY PlanFacts
<1>2. CASE segment + 1 \in DOMAIN plan.segments
    <2>1. segment + 1 # 1 /\ segment + 1 - 1 = segment
        BY <1>1
    <2> QED
        BY <2>1, <1>1, <1>2 DEF Current
<1>3. CASE segment + 1 \notin DOMAIN plan.segments
    <2>1. segment = n /\ n # 0
        BY <1>1, <1>3
    <2>2. plan.segments # <<>>
        <3>1. Len(<<>>) = 0
            OBVIOUS
        <3> QED
            BY <2>1, <3>1
    <2> QED
        BY <2>1, <2>2, <1>1, <1>3 DEF EndOfSegments, Last, Current
<1> QED
    BY <1>2, <1>3

(* What a good report of a read says is what could not be read.            *)
LEMMA GoodReport ==
    ASSUME NEW n \in 1 .. ScratchLength, NEW o \in Outcomes[n], o.report.ok
    PROVE  /\ o.report.ranges \in Seq(MergedRange) /\ Apart(o.report.ranges)
           /\ Units(o.report.ranges) = o.bad
           /\ \A i \in o.bad : i \in Nat /\ i < n
<1>1. n \in Nat
    <2>1. ScratchLength \in Nat
        BY StreamAssumption
    <2> QED
        BY <2>1
<1>2. PICK r \in Reports(n) :
         o = [report |-> NormalizeBadRanges(n, r), bad |-> Covered(r.ranges)]
    BY DEF Outcomes
<1> DEFINE rs == r.ranges
<1>3. rs \in Seq(ReadRange)
    <2>1. rs \in UNION {[1 .. k -> [offset : 0 .. n, length : 0 .. n]] : k \in 0 .. 2}
        BY DEF Reports
    <2>2. PICK k \in 0 .. 2 : rs \in [1 .. k -> [offset : 0 .. n, length : 0 .. n]]
        BY <2>1
    <2>3. [offset : 0 .. n, length : 0 .. n] \subseteq ReadRange
        BY <1>1 DEF ReadRange
    <2>4. rs \in [1 .. k -> ReadRange] /\ k \in Nat
        BY <2>2, <2>3
    <2> HIDE DEF rs
    <2> QED
        BY <2>4
<1>4. /\ o.report = NormalizeBadRanges(n, r) /\ o.bad = Covered(rs)
    BY <1>2
<1>5. /\ o.report.ranges = MergedRanges(rs)
      /\ \A x \in Range(rs) : x.length > 0 /\ x.offset + x.length <= n
    BY <1>4 DEF NormalizeBadRanges
<1> HIDE DEF rs
<1>6. /\ DOMAIN rs = 1 .. Len(rs)
      /\ \A k \in DOMAIN rs : /\ rs[k] \in Range(rs) /\ rs[k] \in ReadRange
                              /\ rs[k].length > 0
    <2>1. \A k \in DOMAIN rs : rs[k] \in Range(rs) /\ rs[k] \in ReadRange
        BY <1>3 DEF Range
    <2> QED
        BY <1>3, <1>5, <2>1
<1>7. /\ MergedRanges(rs) \in Seq(MergedRange) /\ Apart(MergedRanges(rs))
      /\ Units(MergedRanges(rs)) = UNION {UnitsIn(rs[k]) : k \in DOMAIN rs}
    BY <1>3, <1>6, MergedAreTheRanges
<1>8. ASSUME NEW x \in ReadRange
      PROVE  UnitsIn(x) = x.offset .. x.offset + x.length - 1
    <2>1. x.offset \in Nat /\ x.length \in Nat
        BY DEF ReadRange
    <2> QED
        BY <2>1 DEF UnitsIn
<1>9. UNION {UnitsIn(rs[k]) : k \in DOMAIN rs} = Covered(rs)
    <2>1. \A k \in DOMAIN rs : UnitsIn(rs[k]) = rs[k].offset .. rs[k].offset + rs[k].length - 1
        BY <1>6, <1>8
    <2> QED
        BY <2>1 DEF Covered, Range
<1>10. ASSUME NEW i \in o.bad PROVE i \in Nat /\ i < n
    <2>1. PICK k \in DOMAIN rs : i \in UnitsIn(rs[k])
        BY <1>4, <1>9
    <2>2. rs[k].offset \in Nat /\ rs[k].length \in Nat /\ rs[k].offset + rs[k].length <= n
        BY <1>5, <1>6 DEF ReadRange
    <2>3. i \in Nat /\ i < rs[k].offset + rs[k].length
        BY <2>1 DEF UnitsIn
    <2> QED
        BY <2>2, <2>3, <1>1
<1> QED
    BY <1>4, <1>5, <1>7, <1>9, <1>10

-----------------------------------------------------------------------------
(* The invariant holds, and every step of the stream keeps it.             *)

(* It depends on nothing else.                                             *)
LEMMA SameStream ==
    ASSUME UNCHANGED <<task, plan, segment, position, chunk, output, evidence>>
    PROVE  /\ TaskType' <=> TaskType
           /\ PlaceInv' <=> PlaceInv
           /\ UnitsInv' <=> UnitsInv
           /\ EvidenceInv' <=> EvidenceInv
           /\ NothingYet' <=> NothingYet
           /\ Says(evidence)' = Says(evidence)
<1>1. TaskType' <=> TaskType
    BY DEF TaskType
<1>2. Here' = Here /\ Begun' = Begun /\ Current' = Current /\ Noted' = Noted
    BY DEF Here, Begun, Current, Noted
<1>3. PlaceInv' <=> PlaceInv
    BY <1>2 DEF PlaceInv
<1>4. Says(evidence)' = Says(evidence)
    OBVIOUS
<1>5. UnitsInv' <=> UnitsInv
    BY <1>2, <1>4 DEF UnitsInv
<1>6. EvidenceInv' <=> EvidenceInv
    BY <1>2, <1>4 DEF EvidenceInv
<1>7. NothingYet' <=> NothingYet
    BY DEF NothingYet
<1> QED
    BY <1>1, <1>3, <1>4, <1>5, <1>6, <1>7

(* A stream that ends, well or not, leaves all of it alone.                *)
LEMMA EndKeeps ==
    ASSUME StreamInv,
           UNCHANGED <<task, plan, segment, position, chunk, output, hashed, evidence, best>>,
           stage' \in {"streaming", "done", "failed"}, error' # "invalidPlan",
           plan.error # "none" => stage' = "failed",
           stage' = "streaming" => (plan.best => best),
           stage' = "done" =>
              /\ plan.best => best
              /\ segment = Len(plan.segments) + 1 /\ Len(output) = task.candidate.size
              /\ task.expected \subseteq {output}
    PROVE  StreamInv'
<1>1. /\ TaskType' /\ (PlaceInv' <=> PlaceInv) /\ (UnitsInv' <=> UnitsInv)
      /\ (EvidenceInv' <=> EvidenceInv) /\ (NothingYet' <=> NothingYet)
      /\ Says(evidence)' = Says(evidence)
    BY SameStream DEF StreamInv
<1>2. EffortInv' <=> EffortInv
    BY <1>1 DEF EffortInv
<1>3. StreamType'
    BY DEF StreamInv, StreamType
<1>4. IF plan.error = "none" THEN PlaceInv /\ UnitsInv /\ EvidenceInv /\ EffortInv
      ELSE NothingYet /\ stage \in {"planned", "failed"}
    BY DEF StreamInv
<1>5. IF plan'.error = "none" THEN PlaceInv' /\ UnitsInv' /\ EvidenceInv' /\ EffortInv'
      ELSE NothingYet' /\ stage' \in {"planned", "failed"}
    BY <1>1, <1>2, <1>4
<1>6. hashed' = output' /\ (stage' # "planned")
    BY DEF StreamInv
<1> QED
    BY <1>1, <1>3, <1>5, <1>6 DEF StreamInv

(* Nothing is said before anything is noted.                               *)
LEMMA NothingSaid ==
    Says(<<>>) = {} /\ Missing({}) = {} /\ InOrder(<<>>) /\ <<>> \in Seq(ZeroRanges)
<1>1. DOMAIN <<>> = {} /\ Len(<<>>) = 0 /\ 1 .. 0 - 1 = {}
    OBVIOUS
<1>2. Says(<<>>) = {}
    BY DEF Says
<1>3. Missing({}) = {}
    BY DEF Missing
<1>4. InOrder(<<>>)
    BY <1>1 DEF InOrder
<1> QED
    BY <1>2, <1>3, <1>4

(* What is to be restored is a candidate, and one content at most is       *)
(* expected of it.                                                         *)
LEMMA TasksAreTyped ==
    ASSUME StreamInit
    PROVE  TaskType
<1>1. ASSUME NEW t, t.candidate \in Candidates, task \in Tasks(t)
      PROVE  task.candidate \in Candidates /\ \E h : task.expected \subseteq {h}
    <2>1. task.candidate = t.candidate /\ task.expected \in {{}, {t.truth}}
        BY <1>1 DEF Tasks
    <2>2. task.expected \subseteq {t.truth}
        BY <2>1
    <2> QED
        BY <2>1, <2>2, <1>1
<1>2. CASE \E f \in Files, b \in Bitmaps, a \in Allocations : task \in Tasks(NtfsTask(f, b, a))
    <2>1. PICK f \in Files, b \in Bitmaps, a \in Allocations : task \in Tasks(NtfsTask(f, b, a))
        BY <1>2
    <2>2. NtfsTask(f, b, a).candidate \in Candidates
        BY CandidatesAssumption
    <2> DEFINE t == NtfsTask(f, b, a)
    <2>3. t.candidate \in Candidates /\ task \in Tasks(t)
        BY <2>1, <2>2
    <2> HIDE DEF t
    <2>4. task.candidate \in Candidates /\ \E h : task.expected \subseteq {h}
        BY <2>3, <1>1
    <2> QED
        BY <2>4 DEF TaskType, StreamInit
<1>3. CASE \E c \in Listed : task \in Tasks(ListedTask(c))
    <2>1. PICK c \in Listed : task \in Tasks(ListedTask(c))
        BY <1>3
    <2> DEFINE t == ListedTask(c)
    <2>2. t.candidate = c /\ c \in Candidates
        BY CandidatesAssumption DEF ListedTask
    <2>3. t.candidate \in Candidates /\ task \in Tasks(t)
        BY <2>1, <2>2
    <2> HIDE DEF t
    <2>4. task.candidate \in Candidates /\ \E h : task.expected \subseteq {h}
        BY <2>3, <1>1
    <2> QED
        BY <2>4 DEF TaskType, StreamInit
<1> QED
    BY <1>2, <1>3 DEF StreamInit

(* Before the stream the plan is sound, and nothing was done.              *)
LEMMA InitHolds ==
    ASSUME StreamInit
    PROVE  StreamInv
<1>1. TaskType
    BY TasksAreTyped
<1>2. /\ stage = "planned" /\ segment = 1 /\ position = 0 /\ chunk = <<>> /\ output = <<>>
      /\ hashed = <<>> /\ evidence = <<>> /\ best = FALSE /\ error = "none"
    BY DEF StreamInit
<1>3. StreamType /\ NothingYet
    <2>1. <<>> \in Seq(Int) /\ 1 \in Nat \ {0} /\ 0 \in Nat /\ <<>> \in Seq(ZeroRanges)
        BY NothingSaid
    <2>2. StreamType
        BY <1>2, <2>1 DEF StreamType
    <2>3. NothingYet
        BY <1>2 DEF NothingYet
    <2> QED
        BY <2>2, <2>3
<1>4. Says(evidence) = {} /\ Missing(Says(evidence)) = {} /\ InOrder(evidence)
      /\ DOMAIN chunk = {} /\ DOMAIN output = {} /\ Len(chunk) = 0 /\ Len(output) = 0
    BY <1>2, NothingSaid
<1>5. ASSUME plan.error = "none" PROVE PlaceInv /\ UnitsInv /\ EvidenceInv /\ EffortInv
    <2>1. /\ Len(plan.segments) \in Nat /\ DOMAIN plan.segments = 1 .. Len(plan.segments)
          /\ EndOfSegments(plan.segments) = task.candidate.size
          /\ plan.segments \in Seq(Segments)
          /\ \A k \in DOMAIN plan.segments :
                /\ plan.segments[k].logical \in Nat
                /\ plan.segments[k].length \in Nat /\ plan.segments[k].length > 0
                /\ plan.segments[k].logical
                       = IF k = 1 THEN 0
                         ELSE plan.segments[k - 1].logical + plan.segments[k - 1].length
        BY <1>1, <1>5, PlanFacts
    <2>2. PlaceInv
        <3>1. CASE 1 \in DOMAIN plan.segments
            <4>1. segment \in DOMAIN plan.segments /\ segment \in 1 .. Len(plan.segments) + 1
                BY <3>1, <2>1, <1>2
            <4>2. Current.logical = 0 /\ Current.length \in Nat /\ Current.length > 0
                BY <3>1, <2>1, <1>2 DEF Current
            <4>3. Here = 0
                BY <4>1, <4>2, <1>2 DEF Here
            <4>4. position < Current.length /\ position + Len(chunk) <= Current.length
                BY <4>2, <1>2, <1>4
            <4> QED
                BY <4>1, <4>3, <4>4, <1>4 DEF PlaceInv
        <3>2. CASE 1 \notin DOMAIN plan.segments
            <4>1. Len(plan.segments) = 0
                BY <3>2, <2>1
            <4>2. plan.segments = <<>>
                BY <4>1, <2>1
            <4>3. task.candidate.size = 0
                BY <4>2, <2>1 DEF EndOfSegments
            <4> QED
                BY <3>2, <4>1, <4>3, <1>2, <1>4 DEF PlaceInv, Here
        <3> QED
            BY <3>1, <3>2
    <2>3. UnitsInv
        BY <1>4 DEF UnitsInv
    <2>4. EvidenceInv
        <3>1. ~Begun
            BY <1>2 DEF Begun
        <3>2. \A k \in DOMAIN plan.segments : ~(k < segment)
            BY <2>1, <1>2
        <3> QED
            BY <3>1, <3>2, <1>4 DEF EvidenceInv
    <2>5. EffortInv
        BY <1>2, <1>4 DEF EffortInv
    <2> QED
        BY <2>2, <2>3, <2>4, <2>5
<1> QED
    BY <1>1, <1>2, <1>3, <1>5 DEF StreamInv

(* A plan that was made passes the check before the stream.                *)
LEMMA StartKeeps ==
    ASSUME StreamInv, StartStream
    PROVE  StreamInv'
<1>0. SourceLength \in Nat
    <2>1. TotalClusters \in Nat /\ ClusterSize \in Nat
        BY ContentAssumption
    <2> QED
        BY <2>1 DEF SourceLength
<1>1. /\ task.candidate \in Candidates
      /\ plan = PlanCandidate(task.candidate, SourceLength, task.policy)
    BY DEF StreamInv, TaskType
<1>2. /\ plan \in PlanStates
      /\ plan.error = "none" => Preflight(task.candidate, plan, SourceLength, task.policy)
    BY <1>0, <1>1, PlansAreSound, SoundPlansPass
<1>3. plan.error # "invalidPlan" /\ plan.best \in BOOLEAN
    BY <1>2 DEF PlanStates
<1>4. /\ UNCHANGED <<task, plan, segment, position, chunk, output, hashed, evidence>>
      /\ stage = "planned" /\ error # "invalidPlan"
    BY DEF StartStream, StreamInv
<1>5. CASE plan.error # "none"
    <2>1. stage' = "failed" /\ error' = plan.error /\ best' = best
        BY <1>5 DEF StartStream, Ends
    <2> QED
        BY <2>1, <1>3, <1>4, EndKeeps
<1>6. CASE plan.error = "none" /\ ~PlannedZeroRanges(plan.segments).ok
    <2>1. stage' = "failed" /\ error' = "zeroRangeLimit" /\ best' = best
        BY <1>2, <1>6 DEF StartStream, Ends
    <2> QED
        BY <2>1, <1>4, EndKeeps
<1>7. CASE plan.error = "none" /\ PlannedZeroRanges(plan.segments).ok
    <2>1. stage' = "streaming" /\ best' = plan.best /\ error' = error
        BY <1>2, <1>7 DEF StartStream
    <2>2. /\ TaskType' /\ (PlaceInv' <=> PlaceInv) /\ (UnitsInv' <=> UnitsInv)
          /\ (EvidenceInv' <=> EvidenceInv) /\ Says(evidence)' = Says(evidence)
        BY <1>4, SameStream DEF StreamInv
    <2>3. PlaceInv /\ UnitsInv /\ EvidenceInv /\ EffortInv /\ NothingYet
        BY <1>4, <1>7 DEF StreamInv
    <2>4. Missing(Says(evidence)) = {}
        BY <2>3, NothingSaid DEF NothingYet
    <2>5. EffortInv'
        BY <2>1, <2>2, <2>4, <1>4 DEF EffortInv
    <2>6. StreamType'
        BY <2>1, <1>3, <1>4 DEF StreamInv, StreamType
    <2>7. hashed' = output'
        BY <1>4 DEF StreamInv
    <2>8. plan'.error = "none" /\ plan' = plan
        BY <1>4, <1>7
    <2> QED
        BY <2>1, <2>2, <2>3, <2>5, <2>6, <2>7, <2>8, <1>4 DEF StreamInv
<1> QED
    BY <1>5, <1>6, <1>7

(* A cancelled stream leaves what was written, and what was noted.         *)
LEMMA CancelKeeps ==
    ASSUME StreamInv, CancelStream
    PROVE  StreamInv'
    BY EndKeeps DEF CancelStream, Ends

(* A stream is done when all of it was written, and was what was expected. *)
LEMMA FinishKeeps ==
    ASSUME StreamInv, FinishStream
    PROVE  StreamInv'
<1>1. /\ UNCHANGED <<task, plan, segment, position, chunk, output, hashed, evidence, best>>
      /\ stage = "streaming" /\ segment \notin DOMAIN plan.segments
    BY DEF FinishStream
<1>2. plan.error = "none" /\ TaskType /\ PlaceInv /\ (plan.best => best) /\ hashed = output
      /\ error # "invalidPlan"
    BY <1>1 DEF StreamInv
<1>3. segment = Len(plan.segments) + 1
    <2>1. Len(plan.segments) \in Nat /\ DOMAIN plan.segments = 1 .. Len(plan.segments)
        BY <1>2, PlanFacts
    <2>2. segment \in 1 .. Len(plan.segments) + 1
        BY <1>2 DEF PlaceInv
    <2> QED
        BY <2>1, <2>2, <1>1
<1>4. CASE stage' = "failed" /\ error' \in {"outputLength", "hashMismatch"}
    BY <1>1, <1>2, <1>4, EndKeeps
<1>5. CASE /\ Len(output) = task.candidate.size
           /\ ~(task.expected # {} /\ hashed \notin task.expected)
           /\ stage' = "done" /\ error' = error
    <2>1. task.expected \subseteq {output}
        <3>1. PICK h : task.expected \subseteq {h}
            BY <1>2 DEF TaskType
        <3> QED
            BY <3>1, <1>2, <1>5
    <2> QED
        BY <2>1, <1>1, <1>2, <1>3, <1>5, EndKeeps
<1> QED
    BY <1>4, <1>5 DEF FinishStream, Ends

(* Where the stream is, while it streams.                                  *)
LEMMA StreamingFacts ==
    ASSUME StreamInv, Streaming
    PROVE  /\ plan.error = "none" /\ TaskType /\ StreamType
           /\ PlaceInv /\ UnitsInv /\ EvidenceInv /\ EffortInv
           /\ stage = "streaming" /\ (plan.best => best)
           /\ hashed = output /\ error # "invalidPlan"
           /\ segment \in DOMAIN plan.segments /\ segment \in Nat /\ position \in Nat
           /\ Current.logical \in Nat /\ Current.length \in Nat
           /\ Current.kind \in {"read", "zero"}
           /\ Current.kind = "read" => Current.physical \in Nat
           /\ Backed(Current, task.candidate)
           /\ task.policy = "completeOnly" => ~Unavailable(Current)
           /\ Unavailable(Current) => plan.best
           /\ Here = Current.logical + position /\ Here \in Nat
           /\ position < Current.length /\ position + Len(chunk) <= Current.length
           /\ Len(chunk) \in Nat /\ DOMAIN chunk = 1 .. Len(chunk)
           /\ Len(output) = Here /\ DOMAIN output = 1 .. Here
<1>1. segment \in DOMAIN plan.segments /\ stage = "streaming"
    BY DEF Streaming
<1>2. /\ plan.error = "none" /\ TaskType /\ StreamType
      /\ PlaceInv /\ UnitsInv /\ EvidenceInv /\ EffortInv
      /\ (plan.best => best) /\ hashed = output /\ error # "invalidPlan"
    BY <1>1 DEF StreamInv
<1>3. /\ segment \in Nat /\ position \in Nat /\ chunk \in Seq(Int) /\ output \in Seq(Int)
    BY <1>2 DEF StreamType
<1>4. /\ Current.logical \in Nat /\ Current.length \in Nat
      /\ Current.kind \in {"read", "zero"}
      /\ Current.kind = "read" => Current.physical \in Nat
      /\ Backed(Current, task.candidate)
      /\ task.policy = "completeOnly" => ~Unavailable(Current)
      /\ Unavailable(Current) => plan.best
    BY <1>1, <1>2, PlanFacts DEF Current
<1>5. Here = Current.logical + position /\ Here \in Nat
    BY <1>1, <1>3, <1>4 DEF Here
<1>6. /\ position < Current.length /\ position + Len(chunk) <= Current.length
      /\ Len(output) = Here
    BY <1>1, <1>2 DEF PlaceInv
<1>7. Len(chunk) \in Nat /\ DOMAIN chunk = 1 .. Len(chunk) /\ DOMAIN output = 1 .. Here
    BY <1>3, <1>6
<1> QED
    BY <1>1, <1>2, <1>3, <1>4, <1>5, <1>6, <1>7

LEMMA InARow ==
    ASSUME NEW T, NEW s \in Seq(T), NEW t \in Seq(T)
    PROVE  /\ s \o t \in Seq(T) /\ Len(s \o t) = Len(s) + Len(t)
           /\ \A i \in 1 .. Len(s) : (s \o t)[i] = s[i]
           /\ \A i \in 1 .. Len(t) : (s \o t)[Len(s) + i] = t[i]
<1>1. s \o t \in Seq(T) /\ Len(s \o t) = Len(s) + Len(t)
    OBVIOUS
<1>2. ASSUME NEW i \in 1 .. Len(s) PROVE (s \o t)[i] = s[i]
    OBVIOUS
<1>3. ASSUME NEW i \in 1 .. Len(t) PROVE (s \o t)[Len(s) + i] = t[i]
    BY i \in DOMAIN t, ConcatAt
<1> QED
    BY <1>1, <1>2, <1>3

(* Writing what is in the buffer moves units that are right.               *)
LEMMA WriteKeeps ==
    ASSUME StreamInv, WriteCommitted
    PROVE  StreamInv'
<1>1. Streaming /\ chunk # <<>> /\ UNCHANGED <<task, plan, evidence, best>>
    BY DEF WriteCommitted
<1> DEFINE m == Len(chunk)
           end == Current.logical + Current.length
<1>2. /\ plan.error = "none" /\ TaskType /\ StreamType
      /\ PlaceInv /\ UnitsInv /\ EvidenceInv /\ EffortInv
      /\ stage = "streaming" /\ (plan.best => best)
      /\ hashed = output /\ error # "invalidPlan"
      /\ segment \in DOMAIN plan.segments /\ segment \in Nat /\ position \in Nat
      /\ Current.logical \in Nat /\ Current.length \in Nat
      /\ Current.kind \in {"read", "zero"}
      /\ Here = Current.logical + position /\ Here \in Nat
      /\ position < Current.length /\ position + m <= Current.length
      /\ m \in Nat /\ DOMAIN chunk = 1 .. m
      /\ Len(output) = Here /\ DOMAIN output = 1 .. Here
    BY <1>1, StreamingFacts
<1>3. chunk \in Seq(Int) /\ output \in Seq(Int) /\ m # 0
    BY <1>1, <1>2 DEF StreamType
<1>n. /\ m \in Nat /\ position \in Nat /\ Here \in Nat /\ Current.logical \in Nat
      /\ Current.length \in Nat /\ position < Current.length
      /\ position + m <= Current.length /\ Here = Current.logical + position
    BY <1>2
<1>m. m = Len(chunk) /\ end = Current.logical + Current.length
    OBVIOUS
<1> HIDE DEF m, end
<1>4. CASE Ends("outputWrite") /\ UNCHANGED <<position, segment, chunk, output, hashed>>
    BY <1>1, <1>2, <1>4, EndKeeps DEF Ends
<1>5. ASSUME NEW n \in 1 .. m,
             output' = output \o SubSeq(chunk, 1, n),
             hashed' = hashed \o SubSeq(chunk, 1, n),
             chunk' = SubSeq(chunk, n + 1, m),
             segment' = IF position + n = Current.length THEN segment + 1 ELSE segment,
             position' = IF position + n = Current.length THEN 0 ELSE position + n,
             UNCHANGED <<stage, error>>
      PROVE  StreamInv'
    <2>1. n \in Nat /\ n >= 1 /\ n <= m
        BY <1>2
    <2>2. /\ chunk' \in Seq(Int) /\ Len(chunk') = m - n /\ DOMAIN chunk' = 1 .. m - n
          /\ \A i \in 1 .. m - n : chunk'[i] = chunk[n + i]
        <3>1. chunk' \in Seq(Int) /\ Len(chunk') = m - n
            BY <1>3, <1>5, <1>m, <2>1
        <3>2. \A i \in 1 .. m - n : chunk'[i] = chunk[n + i]
            <4> SUFFICES ASSUME NEW i \in 1 .. m - n PROVE chunk'[i] = chunk[n + i]
                OBVIOUS
            <4>1. n + i = n + 1 + i - 1
                BY <2>1
            <4> QED
                BY <4>1, <1>3, <1>5, <1>m, <2>1
        <3> QED
            BY <3>1, <3>2
    <2>3. /\ SubSeq(chunk, 1, n) \in Seq(Int) /\ Len(SubSeq(chunk, 1, n)) = n
          /\ \A i \in 1 .. n : SubSeq(chunk, 1, n)[i] = chunk[i]
        BY <1>3, <1>m, <2>1
    <2> DEFINE taken == SubSeq(chunk, 1, n)
    <2> HIDE DEF taken
    <2>4. /\ output' \in Seq(Int) /\ Len(output') = Here + n /\ DOMAIN output' = 1 .. Here + n
          /\ \A i \in 1 .. Here : output'[i] = output[i]
          /\ \A i \in 1 .. n : output'[Here + i] = chunk[i]
        <3>1. output' = output \o taken
            BY <1>5 DEF taken
        <3>2. /\ taken \in Seq(Int) /\ Len(taken) = n
              /\ \A i \in 1 .. n : taken[i] = chunk[i]
            BY <2>3 DEF taken
        <3>3. output' \in Seq(Int) /\ Len(output') = Here + n
            <4>1. Len(output) = Here
                BY <1>2
            <4>2. output' \in Seq(Int) /\ Len(output') = Len(output) + Len(taken)
                BY <3>1, <3>2, <1>3, InARow
            <4> QED
                BY <4>1, <4>2, <3>2
        <3>4. \A i \in 1 .. Here : output'[i] = output[i]
            <4>1. Len(output) = Here
                BY <1>2
            <4> QED
                BY <4>1, <3>1, <3>2, <1>3, InARow
        <3>5. \A i \in 1 .. n : output'[Here + i] = chunk[i]
            <4> SUFFICES ASSUME NEW i \in 1 .. n PROVE output'[Here + i] = chunk[i]
                OBVIOUS
            <4>1. Len(output) = Here
                BY <1>2
            <4>2. (output \o taken)[Len(output) + i] = taken[i]
                BY <3>2, <1>3, InARow
            <4> QED
                BY <4>1, <4>2, <3>1, <3>2
        <3> QED
            BY <3>3, <3>4, <3>5
    <2>5. TaskType' /\ Says(evidence)' = Says(evidence)
        BY <1>1, <1>2 DEF TaskType
    <2>6. /\ \A k \in DOMAIN plan.segments :
               /\ plan.segments[k].logical \in Nat
               /\ plan.segments[k].length \in Nat /\ plan.segments[k].length > 0
          /\ DOMAIN plan.segments = 1 .. Len(plan.segments) /\ Len(plan.segments) \in Nat
          /\ task.candidate.size \in Nat
        BY <1>2, PlanFacts
    <2>7. /\ Here' = Here + n /\ PlaceInv'
          /\ Noted' = Noted
        <3>1. CASE position + n = Current.length
            <4>1. n = m /\ segment' = segment + 1 /\ position' = 0 /\ Len(chunk') = 0
                <5>1. n = m
                    BY <3>1, <1>n, <2>1
                <5>2. m - n = 0
                    BY <5>1, <1>n
                <5> QED
                    BY <5>1, <5>2, <3>1, <1>5, <2>2
            <4>2. chunk' = <<>>
                BY <4>1, <2>2
            <4>3. end = IF segment + 1 \in DOMAIN plan.segments
                        THEN plan.segments[segment + 1].logical ELSE task.candidate.size
                BY <1>2, <1>m, NextPlace
            <4>4. Here + n = end
                BY <3>1, <1>n, <1>m, <2>1
            <4>5. Here' = end
                <5>1. CASE segment + 1 \in DOMAIN plan.segments
                    <6>1. Current'.logical = plan.segments[segment + 1].logical
                        BY <4>1, <1>1 DEF Current
                    <6>2. plan.segments[segment + 1].logical \in Nat
                        BY <5>1, <2>6
                    <6> QED
                        BY <6>1, <6>2, <4>1, <4>3, <5>1, <1>1 DEF Here
                <5>2. CASE segment + 1 \notin DOMAIN plan.segments
                    BY <4>1, <4>3, <5>2, <1>1 DEF Here
                <5> QED
                    BY <5>1, <5>2
            <4>6. ~Begun'
                BY <4>1, <4>2, <1>2 DEF Begun
            <4>7. Noted' = Here' + Len(chunk')
                BY <4>6 DEF Noted
            <4>8. Noted' = end
                <5>1. end \in Nat
                    BY <1>m, <1>n
                <5> QED
                    BY <5>1, <4>1, <4>5, <4>7
            <4>9. Noted = end
                <5>1. CASE Current.kind = "zero"
                    BY <5>1, <1>1, <1>2, <1>m DEF Noted, Begun
                <5>2. CASE Current.kind # "zero"
                    BY <5>2, <4>1, <4>4, <1>m DEF Noted
                <5> QED
                    BY <5>1, <5>2
            <4>10. PlaceInv'
                <5>1. segment' \in 1 .. Len(plan'.segments) + 1
                    BY <4>1, <1>1, <1>2, <2>6
                <5>2. segment' \in DOMAIN plan'.segments =>
                         position' < Current'.length /\ position' + Len(chunk') <= Current'.length
                    <6> SUFFICES ASSUME segment + 1 \in DOMAIN plan.segments
                                 PROVE  position' < Current'.length
                                        /\ position' + Len(chunk') <= Current'.length
                        BY <4>1, <1>1
                    <6>1. Current' = plan.segments[segment + 1]
                        BY <4>1, <1>1 DEF Current
                    <6>2. Current'.length \in Nat /\ Current'.length > 0
                        BY <6>1, <2>6
                    <6> QED
                        BY <6>2, <4>1
                <5>3. Len(output') = Here'
                    BY <4>4, <4>5, <2>4
                <5> QED
                    BY <5>1, <5>2, <5>3, <4>1, <4>2 DEF PlaceInv
            <4> QED
                BY <4>4, <4>5, <4>8, <4>9, <4>10
        <3>2. CASE position + n # Current.length
            <4>1. segment' = segment /\ position' = position + n /\ Current' = Current
                BY <3>2, <1>1, <1>5 DEF Current
            <4>2. Here' = Here + n
                BY <4>1, <1>1, <1>2, <2>1 DEF Here
            <4>3. position' < Current.length /\ position' + Len(chunk') <= Current.length
                <5>1. Len(chunk') = m - n /\ position' = position + n
                    BY <4>1, <2>2
                <5>2. position' < Current.length
                    BY <5>1, <3>2, <1>n, <2>1
                <5>3. position' + Len(chunk') <= Current.length
                    BY <5>1, <1>n, <2>1
                <5> QED
                    BY <5>2, <5>3
            <4>4. PlaceInv'
                BY <4>1, <4>2, <4>3, <1>1, <1>2, <2>4 DEF PlaceInv
            <4>5. Begun' /\ Begun
                BY <4>1, <1>1, <1>2, <2>1 DEF Begun
            <4>6. Here' + Len(chunk') = Here + Len(chunk)
                BY <4>2, <1>n, <1>m, <2>1, <2>2
            <4> QED
                BY <4>1, <4>2, <4>4, <4>5, <4>6, <1>1 DEF Noted
        <3> QED
            BY <3>1, <3>2
    <2>8. UnitsInv'
        <3>1. ASSUME NEW i \in DOMAIN output'
              PROVE  Right(Says(evidence), task.candidate, i - 1, output'[i])
            <4>1. CASE i \in 1 .. Here
                BY <4>1, <1>2, <2>4 DEF UnitsInv
            <4>2. CASE i \notin 1 .. Here
                <5> DEFINE j == i - Here
                <5>1. j \in 1 .. n /\ i = Here + j /\ Here + j - 1 = i - 1
                    <6>1. i \in 1 .. Here + n /\ Here \in Nat
                        BY <2>4, <1>n
                    <6> QED
                        BY <6>1, <4>2, <2>1
                <5> HIDE DEF j
                <5>2. output'[i] = chunk[j] /\ j \in DOMAIN chunk
                    <6>1. j \in 1 .. m
                        BY <5>1, <2>1, <1>n
                    <6> QED
                        BY <6>1, <5>1, <2>4, <1>2
                <5> QED
                    BY <5>1, <5>2, <1>2 DEF UnitsInv
            <4> QED
                BY <4>1, <4>2
        <3>2. ASSUME NEW i \in DOMAIN chunk'
              PROVE  Right(Says(evidence), task.candidate, Here' + i - 1, chunk'[i])
            <4>1. i \in 1 .. m - n /\ n + i \in 1 .. m /\ Here' + i - 1 = Here + (n + i) - 1
                <5>1. i \in 1 .. m - n /\ Here' = Here + n
                    BY <2>2, <2>7
                <5> QED
                    BY <5>1, <2>1, <1>n
            <4>2. chunk'[i] = chunk[n + i]
                BY <4>1, <2>2
            <4>3. n + i \in DOMAIN chunk
                BY <4>1, <1>2
            <4>4. Right(Says(evidence), task.candidate, Here + (n + i) - 1, chunk[n + i])
                BY <4>3, <1>2 DEF UnitsInv
            <4> QED
                BY <4>1, <4>2, <4>4
        <3> QED
            BY <3>1, <3>2, <2>5, <1>1 DEF UnitsInv
    <2>9. EvidenceInv'
        <3>1. ASSUME NEW k \in DOMAIN plan.segments, plan.segments[k].kind = "zero",
                     k < segment' \/ (k = segment' /\ Begun')
              PROVE  \A i \in Nat : In(plan.segments[k], i) =>
                        <<i, plan.segments[k].why>> \in Says(evidence)
            <4>1. Begun
                BY <1>1 DEF Begun
            <4>2. k < segment \/ k = segment
                <5>1. CASE position + n = Current.length
                    <6>1. segment' = segment + 1 /\ position' = 0 /\ Len(chunk') = 0
                        <7>1. n = m
                            BY <5>1, <1>n, <2>1
                        <7>2. m - n = 0
                            BY <7>1, <1>n
                        <7> QED
                            BY <7>1, <7>2, <5>1, <1>5, <2>2
                    <6>2. ~Begun'
                        BY <6>1, <2>2 DEF Begun
                    <6>3. k < segment + 1 /\ k \in Nat
                        BY <6>1, <6>2, <3>1, <2>6
                    <6> QED
                        BY <6>3, <1>2
                <5>2. CASE position + n # Current.length
                    BY <5>2, <1>5, <3>1
                <5> QED
                    BY <5>1, <5>2
            <4> QED
                BY <3>1, <4>1, <4>2, <1>2 DEF EvidenceInv
        <3>2. /\ InOrder(evidence)
              /\ \A p \in Says(evidence) : p[1] < Noted' /\ Ground(task.candidate, p[1], p[2])
            BY <1>2, <2>7 DEF EvidenceInv
        <3> QED
            BY <3>1, <3>2, <2>5, <1>1 DEF EvidenceInv
    <2>10. EffortInv'
        BY <1>1, <1>2, <2>5 DEF EffortInv
    <2>11. StreamType'
        <3>1. segment' \in Nat \ {0} /\ position' \in Nat
            <4>1. segment \in Nat /\ segment \in Nat \ {0} /\ segment + 1 \in Nat \ {0}
                BY <1>2 DEF StreamType
            <4>2. position + n \in Nat
                BY <1>n, <2>1
            <4> QED
                BY <4>1, <4>2, <1>5
        <3> QED
            BY <3>1, <1>1, <1>2, <1>5, <2>2, <2>4 DEF StreamType
    <2>12. hashed' = output'
        BY <1>2, <1>5
    <2> QED
        BY <1>1, <1>2, <1>5, <2>5, <2>7, <2>8, <2>9, <2>10, <2>11, <2>12 DEF StreamInv
<1>6. PICK n \in 0 .. m :
         IF n = 0 THEN Ends("outputWrite") /\ UNCHANGED <<position, segment, chunk, output, hashed>>
         ELSE /\ output' = output \o SubSeq(chunk, 1, n)
              /\ hashed' = hashed \o SubSeq(chunk, 1, n)
              /\ chunk' = SubSeq(chunk, n + 1, m)
              /\ segment' = IF position + n = Current.length THEN segment + 1 ELSE segment
              /\ position' = IF position + n = Current.length THEN 0 ELSE position + n
              /\ UNCHANGED <<stage, error>>
    BY DEF WriteCommitted, m
<1>7. CASE n = 0
    BY <1>4, <1>6, <1>7
<1>8. CASE n # 0
    <2>1. n \in 1 .. m
        BY <1>2, <1>8
    <2> QED
        BY <2>1, <1>5, <1>6, <1>8
<1> QED
    BY <1>7, <1>8

(* How much of a segment comes next.                                       *)
LEMMA NextChunk ==
    ASSUME Current.length \in Nat, position \in Nat, position < Current.length
    PROVE  /\ ChunkLength \in 1 .. ScratchLength
           /\ ChunkLength \in Nat /\ ChunkLength > 0
           /\ position + ChunkLength <= Current.length
<1>1. ScratchLength \in Nat /\ ScratchLength > 0
    BY StreamAssumption
<1> DEFINE left == Current.length - position
<1>2. left \in Nat /\ left > 0 /\ position + left = Current.length
    OBVIOUS
<1>3. ChunkLength = IF left < ScratchLength THEN left ELSE ScratchLength
    BY DEF ChunkLength, Smaller
<1> HIDE DEF left
<1> QED
    BY <1>1, <1>2, <1>3

(* What is said of other units changes nothing for this one.               *)
LEMMA RightStays ==
    ASSUME NEW says, NEW more, NEW c, NEW i, NEW u, Right(says, c, i, u),
           \A x \in Reasons : <<i, x>> \notin more
    PROVE  Right(says \cup more, c, i, u)
<1>1. (\E x \in Reasons : <<i, x>> \in Missing(says \cup more))
      <=> (\E x \in Reasons : <<i, x>> \in Missing(says))
    BY DEF Missing
<1> QED
    BY <1>1 DEF Right

(* A chunk of zeros is noted, with its whole segment, before the first.    *)
LEMMA ZeroKeeps ==
    ASSUME StreamInv, ZeroChunk
    PROVE  StreamInv'
<1> DEFINE s == Current
           z == ZeroRange(s.logical, s.length, s.why)
           more == AppendZeroRanges(evidence, <<z>>)
           end == s.logical + s.length
           c == task.candidate
<1>1. /\ Streaming /\ chunk = <<>> /\ s.kind = "zero" /\ position < s.length
      /\ UNCHANGED <<task, plan, segment, position, output, hashed, best>>
    BY DEF ZeroChunk
<1>2. /\ plan.error = "none" /\ TaskType /\ StreamType
      /\ PlaceInv /\ UnitsInv /\ EvidenceInv /\ EffortInv
      /\ stage = "streaming" /\ (plan.best => best)
      /\ hashed = output /\ error # "invalidPlan"
      /\ segment \in DOMAIN plan.segments /\ segment \in Nat /\ position \in Nat
      /\ s.logical \in Nat /\ s.length \in Nat
      /\ Backed(s, c)
      /\ task.policy = "completeOnly" => ~Unavailable(s)
      /\ Unavailable(s) => plan.best
      /\ Here = s.logical + position /\ Here \in Nat
      /\ Len(output) = Here /\ DOMAIN output = 1 .. Here
    BY <1>1, StreamingFacts
<1>3. s.why \in Reasons
    <2>1. plan.segments \in Seq(Segments)
        BY <1>2, PlanFacts
    <2>2. s \in Segments
        BY <2>1, <1>2 DEF Current
    <2>3. PICK i \in Nat : In(s, i)
        <3>1. In(s, s.logical)
            BY <1>1, <1>2 DEF In
        <3> QED
            BY <3>1, <1>2
    <2>4. \/ s.why = "missingExtent"
          \/ \E e \in Range(c.extents) : s.why = ReasonOf(e)
        BY <2>3, <1>1, <1>2 DEF Backed
    <2>5. CASE s.why = "missingExtent"
        BY <2>5 DEF Reasons
    <2>6. CASE \E e \in Range(c.extents) : s.why = ReasonOf(e)
        <3>1. PICK e \in Range(c.extents) : s.why = ReasonOf(e)
            BY <2>6
        <3>2. e \in Extents
            <4>1. c \in Candidates
                BY <1>2 DEF TaskType
            <4> QED
                BY <4>1 DEF Candidates, Range
        <3>3. e.availability \in {"freeInSnapshot", "resident"} \cup DOMAIN Reason
            BY <3>2 DEF Extents
        <3>4. "unknown" \in DOMAIN Reason /\ Reason["unknown"] = "unknownAvailability"
            BY DEF Reason
        <3> QED
            BY <3>1, <3>3, <3>4 DEF ReasonOf, Reasons
    <2> QED
        BY <2>4, <2>5, <2>6
<1>4. /\ z \in ZeroRanges /\ z.logical = s.logical /\ z.length = s.length /\ z.reason = s.why
    BY <1>2, <1>3 DEF ZeroRange, ZeroRanges
<1>5. evidence \in Seq(ZeroRanges) /\ InOrder(evidence)
    BY <1>2 DEF StreamType, EvidenceInv
<1> DEFINE adds == SaysOf(z)
<1>6. adds = {p \in Nat \X Reasons : In(s, p[1]) /\ s.why = p[2]}
    BY <1>4 DEF SaysOf, In
<1>7. chunk = <<>> /\ Len(chunk) = 0 /\ DOMAIN chunk = {}
    BY <1>1
<1> HIDE DEF s, z, more, adds, c
<1>8. ASSUME position = 0
      PROVE  /\ more \in ZeroStates
             /\ more.ok => InOrder(more.ranges) /\ Says(more.ranges) = Says(evidence) \cup adds
    <2>1. Noted = s.logical
        <3>1. ~Begun
            BY <1>7, <1>8, <1>2 DEF Begun
        <3>2. Noted = Here + 0
            BY <3>1, <1>7 DEF Noted
        <3> QED
            BY <3>2, <1>2, <1>8
    <2> DEFINE one == <<z>>
    <2>2. one \in Seq(ZeroRanges) /\ DOMAIN one = {1} /\ one[1] = z
        BY <1>4
    <2>3. Says(one) = adds
        BY <2>2 DEF Says, SaysOf, adds
    <2> HIDE DEF one
    <2>4. \A k \in DOMAIN one : /\ one[k].length > 0
                                /\ \A p \in Says(evidence) : p[1] < one[k].logical
        <3>1. s.length > 0
            BY <1>1, <1>2, <1>8 DEF s
        <3> QED
            BY <3>1, <2>1, <2>2, <1>2, <1>4 DEF EvidenceInv
    <2>5. \A k, l \in DOMAIN one : k < l => one[k].logical + one[k].length <= one[l].logical
        BY <2>2
    <2>6. /\ AppendZeroRanges(evidence, one) \in ZeroStates
          /\ AppendZeroRanges(evidence, one).ok =>
                /\ InOrder(AppendZeroRanges(evidence, one).ranges)
                /\ Says(AppendZeroRanges(evidence, one).ranges) = Says(evidence) \cup Says(one)
        BY <1>5, <2>2, <2>4, <2>5, Appended
    <2> QED
        BY <2>3, <2>6 DEF more, one
<1>9. CASE position = 0 /\ ~more.ok
    <2>1. stage' = "failed" /\ error' = "zeroRangeLimit" /\ UNCHANGED <<chunk, evidence>>
        BY <1>9 DEF ZeroChunk, Ends, more, z, s
    <2> QED
        BY <2>1, <1>1, <1>2, EndKeeps
<1>10. CASE ~(position = 0 /\ ~more.ok)
    <2> DEFINE n == ChunkLength
               said == Says(evidence)
    <2>1. /\ chunk' = [i \in 1 .. n |-> ZeroUnit]
          /\ evidence' = IF position = 0 THEN more.ranges ELSE evidence
          /\ UNCHANGED <<stage, error>>
        BY <1>10 DEF ZeroChunk, more, z, s
    <2>2. n \in Nat /\ n > 0 /\ position + n <= s.length
        BY <1>1, <1>2, NextChunk DEF s
    <2> HIDE DEF n, said
    <2>3. /\ evidence' \in Seq(ZeroRanges) /\ InOrder(evidence')
          /\ Says(evidence') = said \cup adds
        <3>1. CASE position = 0
            BY <3>1, <2>1, <1>8, <1>10 DEF ZeroStates, said
        <3>2. CASE position # 0
            <4>1. Begun
                BY <3>2, <1>2 DEF Begun
            <4>2. \A i \in Nat : In(s, i) => <<i, s.why>> \in said
                BY <4>1, <1>1, <1>2 DEF EvidenceInv, s, Current, said
            <4>3. adds \subseteq said
                <5> SUFFICES ASSUME NEW p \in Nat \X Reasons, In(s, p[1]), s.why = p[2]
                             PROVE  p \in said
                    BY <1>6
                <5>1. p = <<p[1], p[2]>> /\ p[1] \in Nat
                    OBVIOUS
                <5> QED
                    BY <5>1, <4>2
            <4> QED
                BY <3>2, <2>1, <4>3, <1>5 DEF said
        <3> QED
            BY <3>1, <3>2
    <2>4. /\ chunk' \in Seq(Int) /\ Len(chunk') = n /\ DOMAIN chunk' = 1 .. n
          /\ \A i \in 1 .. n : chunk'[i] = ZeroUnit
        <3>1. ZeroUnit \in Int
            BY DEF ZeroUnit
        <3> HIDE DEF ZeroUnit
        <3> QED
            BY <2>1, <2>2, <3>1
    <2>5. chunk' # <<>>
        <3>1. Len(<<>>) = 0
            OBVIOUS
        <3> QED
            BY <3>1, <2>2, <2>4
    <2>6. /\ Current' = Current /\ Here' = Here /\ Begun' /\ c' = c
          /\ TaskType'
        <3>1. Current' = Current /\ Here' = Here
            BY <1>1 DEF Current, Here
        <3>2. Begun'
            BY <2>5 DEF Begun
        <3>3. c' = c /\ TaskType'
            BY <1>1, <1>2 DEF TaskType, c
        <3> QED
            BY <3>1, <3>2, <3>3
    <2>7. Noted' = end
        BY <2>6, <1>1, <1>2 DEF Noted, s
    <2>8. PlaceInv'
        <3>1. position' < Current'.length /\ position' + Len(chunk') <= Current'.length
            BY <2>2, <2>4, <2>6, <1>1 DEF s
        <3>2. /\ segment' \in 1 .. Len(plan'.segments) + 1 /\ segment' \in DOMAIN plan'.segments
              /\ Len(output') = Here'
            BY <1>1, <1>2, <2>6 DEF PlaceInv
        <3> QED
            BY <3>1, <3>2 DEF PlaceInv
    <2>9. /\ \A p \in adds : p[1] \in Nat /\ In(s, p[1]) /\ p[2] = s.why
          /\ \A i \in Nat : In(s, i) => <<i, s.why>> \in adds
        BY <1>3, <1>6
    <2>10. ASSUME NEW p \in said \cup adds
           PROVE  p[1] < end /\ Ground(c, p[1], p[2])
        <3>1. CASE p \in said
            <4>1. p[1] < Noted /\ Ground(c, p[1], p[2]) /\ p[1] \in Nat
                BY <3>1, <1>2 DEF EvidenceInv, said, c, Says
            <4>2. Noted \in Nat /\ Noted <= end
                <5>1. CASE Begun
                    BY <5>1, <1>1, <1>2 DEF Noted, s
                <5>2. CASE ~Begun
                    <6>1. Noted = Here + 0
                        BY <5>2, <1>7 DEF Noted
                    <6> QED
                        BY <6>1, <1>1, <1>2
                <5> QED
                    BY <5>1, <5>2
            <4>3. end \in Nat
                BY <1>2
            <4> HIDE DEF end
            <4> QED
                BY <4>1, <4>2, <4>3
        <3>2. CASE p \in adds
            <4>1. p[1] \in Nat /\ In(s, p[1]) /\ p[2] = s.why
                BY <3>2, <2>9
            <4>2. \/ s.why = "missingExtent" /\ \A e \in Range(c.extents) : ~In(e, p[1])
                  \/ \E e \in Range(c.extents) :
                        In(e, p[1]) /\ ~Stored(e) /\ s.why = ReasonOf(e)
                BY <4>1, <1>1, <1>2 DEF Backed
            <4>3. Ground(c, p[1], p[2])
                BY <4>1, <4>2 DEF Ground
            <4>4. p[1] < end
                BY <4>1 DEF In
            <4> QED
                BY <4>3, <4>4
        <3> QED
            BY <3>1, <3>2
    <2>11. EvidenceInv'
        <3>1. ASSUME NEW k \in DOMAIN plan.segments, plan.segments[k].kind = "zero",
                     k < segment \/ k = segment
              PROVE  \A i \in Nat : In(plan.segments[k], i) =>
                        <<i, plan.segments[k].why>> \in said \cup adds
            <4>1. CASE k = segment
                BY <4>1, <2>9 DEF s, Current
            <4>2. CASE k < segment
                BY <4>2, <3>1, <1>2 DEF EvidenceInv, said
            <4> QED
                BY <3>1, <4>1, <4>2
        <3> QED
            BY <3>1, <2>3, <2>6, <2>7, <2>10, <1>1 DEF EvidenceInv, c
    <2>12. UnitsInv'
        <3>1. ASSUME NEW i \in DOMAIN output
              PROVE  Right(said \cup adds, c, i - 1, output[i])
            <4>1. Right(said, c, i - 1, output[i])
                BY <1>2 DEF UnitsInv, said, c
            <4>2. CASE position = 0
                <5>1. \A x \in Reasons : <<i - 1, x>> \notin adds
                    <6>1. i \in 1 .. Here /\ Here = s.logical
                        BY <1>2, <4>2
                    <6>2. ~In(s, i - 1)
                        BY <6>1, <1>2 DEF In
                    <6> QED
                        BY <6>2, <2>9
                <5> QED
                    BY <4>1, <5>1, RightStays
            <4>3. CASE position # 0
                <5>1. said \cup adds = said
                    BY <4>3, <2>1, <2>3 DEF said
                <5> QED
                    BY <4>1, <5>1
            <4> QED
                BY <4>2, <4>3
        <3>2. ASSUME NEW i \in 1 .. n
              PROVE  Right(said \cup adds, c, Here + i - 1, ZeroUnit)
            <4> DEFINE j == Here + i - 1
            <4>1. j \in Nat /\ In(s, j)
                BY <1>2, <2>2 DEF In
            <4> HIDE DEF j
            <4>2. <<j, s.why>> \in said \cup adds
                BY <4>1, <2>9
            <4>3. CASE s.why = "sparse"
                <5>1. PICK e \in Range(c.extents) : In(e, j) /\ s.why = ReasonOf(e)
                    BY <4>1, <4>3, <1>1, <1>2 DEF Backed
                <5>2. c \in Candidates
                    BY <1>2 DEF TaskType, c
                <5>3. e \in Extents
                    BY <5>2 DEF Candidates, Range
                <5>4. e.availability = "sparse"
                    BY <5>1, <5>3, <4>3, OnlySparseIsSparse
                <5> QED
                    BY <5>1, <5>4 DEF Right, j
            <4>4. CASE s.why # "sparse"
                <5>1. <<j, s.why>> \in Missing(said \cup adds)
                    BY <4>2, <4>4 DEF Missing
                <5> QED
                    BY <5>1, <1>3 DEF Right, j
            <4> QED
                BY <4>3, <4>4
        <3> QED
            BY <3>1, <3>2, <2>3, <2>4, <2>6, <1>1 DEF UnitsInv, c
    <2>13. EffortInv'
        <3>1. ASSUME Missing(said \cup adds) # {} PROVE best /\ task.policy # "completeOnly"
            <4>1. CASE Missing(said) # {}
                BY <4>1, <1>2 DEF EffortInv, said
            <4>2. CASE Missing(said) = {}
                <5>1. PICK p \in adds : p[2] # "sparse"
                    BY <3>1, <4>2 DEF Missing
                <5>2. Unavailable(s)
                    BY <5>1, <2>9, <1>1 DEF Unavailable, s
                <5> QED
                    BY <5>2, <1>2
            <4> QED
                BY <4>1, <4>2
        <3>2. best => plan.best \/ Missing(said \cup adds) # {}
            BY <1>2 DEF EffortInv, Missing, said
        <3> QED
            BY <3>1, <3>2, <2>3, <1>1 DEF EffortInv
    <2>14. StreamType'
        BY <1>1, <1>2, <2>1, <2>3, <2>4 DEF StreamType
    <2>15. hashed' = output'
        BY <1>1, <1>2
    <2> QED
        BY <1>1, <1>2, <2>1, <2>6, <2>8, <2>11, <2>12, <2>13, <2>14, <2>15 DEF StreamInv
<1> QED
    BY <1>9, <1>10

(* The ranges of a report become ranges of the evidence, in order, that    *)
(* say of each unit that could not be read that it could not.              *)
RangesAt(at, failed) ==
    [k \in DOMAIN failed |->
        ZeroRange(at + failed[k].start, failed[k].end - failed[k].start,
                  "previouslyReadFailed")]

FailedAt(at, failed, zs) ==
    /\ zs \in Seq(ZeroRanges)
    /\ \A k \in DOMAIN zs : zs[k].length > 0 /\ at <= zs[k].logical
    /\ \A k, l \in DOMAIN zs : k < l => zs[k].logical + zs[k].length <= zs[l].logical
    /\ \A i \in Nat, x \in Reasons :
          <<at + i, x>> \in Says(zs) <=> (x = "previouslyReadFailed" /\ i \in Units(failed))
    /\ \A p \in Says(zs) : \E i \in Units(failed) :
          p = <<at + i, "previouslyReadFailed">>

LEMMA FailedRanges ==
    ASSUME NEW at \in Nat, NEW failed \in Seq(MergedRange), Apart(failed),
           NEW zs, zs = RangesAt(at, failed)
    PROVE  FailedAt(at, failed, zs)
<1> DEFINE n == Len(failed)
<1>1. n \in Nat /\ DOMAIN failed = 1 .. n /\ DOMAIN zs = 1 .. n
    BY DEF RangesAt
<1>2. \A k \in 1 .. n : /\ failed[k].start \in Nat /\ failed[k].end \in Nat
                        /\ failed[k].start < failed[k].end
    <2>1. \A k \in 1 .. n : failed[k] \in MergedRange
        OBVIOUS
    <2> QED
        BY <2>1, <1>1 DEF MergedRange, Apart
<1>3. "previouslyReadFailed" \in Reasons
    <2>1. "readFailed" \in DOMAIN Reason /\ Reason["readFailed"] = "previouslyReadFailed"
        BY DEF Reason
    <2> QED
        BY <2>1 DEF Reasons
<1>4. ASSUME NEW k \in 1 .. n
      PROVE  /\ zs[k] \in ZeroRanges /\ zs[k].reason = "previouslyReadFailed"
             /\ zs[k].logical = at + failed[k].start
             /\ zs[k].logical + zs[k].length = at + failed[k].end
             /\ zs[k].length > 0 /\ at <= zs[k].logical
    <2> DEFINE a == at + failed[k].start
               b == failed[k].end - failed[k].start
    <2>1. a \in Nat /\ b \in Nat /\ b > 0 /\ at <= a /\ a + b = at + failed[k].end
        BY <1>2
    <2>2. zs[k] = ZeroRange(a, b, "previouslyReadFailed")
        BY <1>1 DEF RangesAt
    <2> HIDE DEF a, b
    <2>3. /\ zs[k] \in ZeroRanges /\ zs[k].reason = "previouslyReadFailed"
          /\ zs[k].logical = a /\ zs[k].length = b
        BY <2>1, <2>2, <1>3 DEF ZeroRange, ZeroRanges
    <2>4. a = at + failed[k].start
        BY DEF a
    <2> QED
        BY <2>1, <2>3, <2>4
<1> HIDE DEF n
<1>5. zs \in Seq(ZeroRanges)
    <2>1. zs = [k \in 1 .. n |-> zs[k]]
        BY <1>1 DEF RangesAt
    <2>2. zs \in [1 .. n -> ZeroRanges]
        BY <2>1, <1>4
    <2> QED
        BY <2>2, <1>1
<1>6. ASSUME NEW k \in 1 .. n, NEW l \in 1 .. n, k < l
      PROVE  zs[k].logical + zs[k].length <= zs[l].logical
    <2>1. failed[k].end < failed[l].start
        BY <1>1, <1>6 DEF Apart
    <2>2. failed[k].end \in Nat /\ failed[l].start \in Nat
        BY <1>2
    <2>3. at + failed[k].end <= at + failed[l].start
        BY <2>1, <2>2
    <2> QED
        BY <2>3, <1>4
<1>7. ASSUME NEW k \in 1 .. n, NEW i \in Nat
      PROVE  In(zs[k], at + i) <=> failed[k].start <= i /\ i < failed[k].end
    <2> DEFINE a == failed[k].start
               b == failed[k].end
    <2>1. a \in Nat /\ b \in Nat /\ zs[k].logical = at + a /\ zs[k].logical + zs[k].length = at + b
        BY <1>2, <1>4
    <2> HIDE DEF a, b
    <2>2. In(zs[k], at + i) <=> at + i >= at + a /\ at + i < at + b
        BY <2>1 DEF In
    <2> QED
        BY <2>1, <2>2 DEF a, b
<1>8. ASSUME NEW i \in Nat, NEW x \in Reasons
      PROVE  <<at + i, x>> \in Says(zs) <=> x = "previouslyReadFailed" /\ i \in Units(failed)
    <2>1. at + i \in Nat
        OBVIOUS
    <2>2. <<at + i, x>> \in Says(zs) <=> \E k \in 1 .. n : In(zs[k], at + i) /\ zs[k].reason = x
        BY <2>1, <1>1 DEF Says
    <2>3. i \in Units(failed) <=> \E k \in 1 .. n : failed[k].start <= i /\ i < failed[k].end
        BY <1>1 DEF Units
    <2> QED
        BY <2>2, <2>3, <1>4, <1>7
<1>9. ASSUME NEW p \in Says(zs)
      PROVE  \E i \in Units(failed) : p = <<at + i, "previouslyReadFailed">>
    <2>1. p \in Nat \X Reasons
        BY DEF Says
    <2>2. PICK k \in 1 .. n : In(zs[k], p[1]) /\ zs[k].reason = p[2]
        BY <1>1 DEF Says
    <2>3. p[1] >= at + failed[k].start /\ p[2] = "previouslyReadFailed"
        BY <2>2, <1>4 DEF In
    <2> DEFINE i == p[1] - at
    <2>4. i \in Nat /\ at + i = p[1]
        BY <2>1, <2>3, <1>2
    <2>5. p = <<at + i, p[2]>> /\ p[2] \in Reasons
        BY <2>1, <2>4
    <2> HIDE DEF i
    <2>6. <<at + i, p[2]>> \in Says(zs)
        BY <2>5
    <2>7. i \in Units(failed)
        BY <2>4, <2>5, <2>6, <1>8
    <2> QED
        BY <2>3, <2>5, <2>7
<1> QED
    BY <1>1, <1>4, <1>5, <1>6, <1>8, <1>9 DEF FailedAt

(* A chunk that is read is right, and what of it could not be read is      *)
(* noted.                                                                  *)
LEMMA ReadKeeps ==
    ASSUME StreamInv, ReadChunk
    PROVE  StreamInv'
<1> DEFINE s == Current
           n == ChunkLength
           at == Current.logical + position
           c == task.candidate
           from == Current.physical + position
           zs(o) == [k \in DOMAIN o.report.ranges |->
                       ZeroRange(Current.logical + position + o.report.ranges[k].start,
                                 o.report.ranges[k].end - o.report.ranges[k].start,
                                 "previouslyReadFailed")]
           more(o) == AppendZeroRanges(evidence, zs(o))
           zeroed(o) == UNION {r.start .. r.end - 1 : r \in Range(o.report.ranges)}
<1>1. /\ Streaming /\ chunk = <<>> /\ s.kind = "read" /\ position < s.length
      /\ UNCHANGED <<task, plan, segment, position, output, hashed>>
    BY DEF ReadChunk
<1>2. /\ plan.error = "none" /\ TaskType /\ StreamType
      /\ PlaceInv /\ UnitsInv /\ EvidenceInv /\ EffortInv
      /\ stage = "streaming" /\ (plan.best => best)
      /\ hashed = output /\ error # "invalidPlan"
      /\ segment \in DOMAIN plan.segments /\ segment \in Nat /\ position \in Nat
      /\ s.logical \in Nat /\ s.length \in Nat /\ s.physical \in Nat
      /\ Backed(s, c)
      /\ Here = at /\ Here \in Nat
      /\ Len(output) = Here /\ DOMAIN output = 1 .. Here
    BY <1>1, StreamingFacts
<1>3. /\ n \in 1 .. ScratchLength /\ n \in Nat /\ n > 0 /\ position + n <= s.length
    BY <1>1, <1>2, NextChunk
<1>4. PICK o \in Outcomes[n] :
         IF ~o.report.ok
         THEN Ends("invalidReadOutcome") /\ UNCHANGED <<chunk, evidence, best>>
         ELSE IF o.report.ranges # <<>> /\ task.policy = "completeOnly"
         THEN Ends("readFailure") /\ UNCHANGED <<chunk, evidence, best>>
         ELSE IF ~more(o).ok
         THEN Ends("zeroRangeLimit") /\ UNCHANGED <<chunk, evidence, best>>
         ELSE /\ chunk' = [i \in 1 .. n |->
                    IF i - 1 \in zeroed(o) THEN ZeroUnit
                    ELSE IF i - 1 \in o.bad THEN Junk
                    ELSE Current.physical + position + (i - 1)]
              /\ evidence' = more(o).ranges
              /\ best' = (best \/ o.report.ranges # <<>>)
              /\ UNCHANGED <<stage, error>>
    BY DEF ReadChunk
<1> DEFINE failed == o.report.ranges
<1>5. CASE /\ stage' = "failed"
           /\ error' \in {"invalidReadOutcome", "readFailure", "zeroRangeLimit"}
           /\ UNCHANGED <<chunk, evidence, best>>
    <2> HIDE DEF s, n, at, c, from
    <2> QED
        BY <1>1, <1>2, <1>5, EndKeeps
<1>6. CASE /\ o.report.ok /\ ~(failed # <<>> /\ task.policy = "completeOnly")
           /\ more(o).ok
           /\ chunk' = [i \in 1 .. n |->
                    IF i - 1 \in zeroed(o) THEN ZeroUnit
                    ELSE IF i - 1 \in o.bad THEN Junk
                    ELSE Current.physical + position + (i - 1)]
           /\ evidence' = more(o).ranges
           /\ best' = (best \/ failed # <<>>)
           /\ UNCHANGED <<stage, error>>
    <2>1. /\ failed \in Seq(MergedRange) /\ Apart(failed)
          /\ Units(failed) = o.bad
          /\ \A i \in o.bad : i \in Nat /\ i < n
        BY <1>3, <1>4, <1>6, GoodReport
    <2> DEFINE ranges == zs(o)
               said == Says(evidence)
               adds == Says(ranges)
    <2>2. ranges = RangesAt(at, failed)
        BY DEF RangesAt
    <2>3. evidence' = AppendZeroRanges(evidence, ranges).ranges
          /\ AppendZeroRanges(evidence, ranges).ok
        BY <1>6
    <2>4. chunk' = [i \in 1 .. n |->
                      IF i - 1 \in zeroed(o) THEN ZeroUnit
                      ELSE IF i - 1 \in o.bad THEN Junk ELSE from + (i - 1)]
        BY <1>6
    <2>5. zeroed(o) = o.bad
        <3>1. ASSUME NEW k \in DOMAIN failed
              PROVE  failed[k].start .. failed[k].end - 1
                        = {i \in Nat : failed[k].start <= i /\ i < failed[k].end}
            <4>1. failed[k] \in MergedRange
                BY <2>1
            <4>2. failed[k].start \in Nat /\ failed[k].end \in Nat
                BY <4>1 DEF MergedRange
            <4> QED
                BY <4>2
        <3>2. zeroed(o) = UNION {failed[k].start .. failed[k].end - 1 : k \in DOMAIN failed}
            BY DEF Range
        <3>3. zeroed(o) = UNION {{i \in Nat : failed[k].start <= i /\ i < failed[k].end} :
                                    k \in DOMAIN failed}
            BY <3>1, <3>2
        <3>4. zeroed(o) = Units(failed)
            BY <3>3 DEF Units
        <3> QED
            BY <3>4, <2>1
    <2>6. (at \in Nat) /\ (from \in Nat)
        BY <1>2
    <2>7. at = s.logical + position /\ from = s.physical + position
        OBVIOUS
    <2> HIDE DEF s, n, at, c, from, ranges, failed, zeroed, more, zs
    <2>8. /\ ranges \in Seq(ZeroRanges)
          /\ \A k \in DOMAIN ranges : ranges[k].length > 0 /\ at <= ranges[k].logical
          /\ \A k, l \in DOMAIN ranges :
                k < l => ranges[k].logical + ranges[k].length <= ranges[l].logical
          /\ \A i \in Nat, x \in Reasons :
                <<at + i, x>> \in adds <=> x = "previouslyReadFailed" /\ i \in Units(failed)
          /\ \A p \in adds : \E i \in Units(failed) : p = <<at + i, "previouslyReadFailed">>
        <3>1. FailedAt(at, failed, ranges)
            BY <2>1, <2>2, <2>6, FailedRanges
        <3> QED
            BY <3>1 DEF FailedAt
    <2>9. Len(chunk) = 0 /\ DOMAIN chunk = {} /\ evidence \in Seq(ZeroRanges)
          /\ InOrder(evidence)
        BY <1>1, <1>2 DEF StreamType, EvidenceInv
    <2>10. Noted = at
        <3>1. Noted = Here + 0
            BY <1>1, <2>9 DEF Noted, s
        <3> QED
            BY <3>1, <1>2
    <2>11. \A p \in said : p[1] \in Nat /\ p[1] < at /\ Ground(c, p[1], p[2])
        <3>1. \A p \in said : p[1] \in Nat
            BY DEF Says
        <3> QED
            BY <3>1, <1>2, <2>10 DEF EvidenceInv, c
    <2>12. \A k \in DOMAIN ranges : /\ ranges[k].length > 0
                                    /\ \A p \in Says(evidence) : p[1] < ranges[k].logical
        <3> SUFFICES ASSUME NEW k \in DOMAIN ranges, NEW p \in Says(evidence)
                     PROVE  p[1] < ranges[k].logical
            BY <2>8
        <3>1. ranges[k] \in ZeroRanges
            BY <2>8
        <3>2. ranges[k].logical \in Nat /\ at <= ranges[k].logical
            BY <3>1, <2>8 DEF ZeroRanges
        <3> QED
            BY <3>2, <2>6, <2>11
    <2>13. /\ evidence' \in Seq(ZeroRanges) /\ InOrder(evidence')
           /\ Says(evidence') = said \cup adds
        <3>1. /\ AppendZeroRanges(evidence, ranges) \in ZeroStates
              /\ AppendZeroRanges(evidence, ranges).ok =>
                    /\ InOrder(AppendZeroRanges(evidence, ranges).ranges)
                    /\ Says(AppendZeroRanges(evidence, ranges).ranges)
                          = Says(evidence) \cup Says(ranges)
            BY <2>8, <2>9, <2>12, Appended
        <3> QED
            BY <3>1, <2>3 DEF ZeroStates
    <2> HIDE DEF said, adds
    <2>14. /\ chunk' \in Seq(Int) /\ Len(chunk') = n /\ DOMAIN chunk' = 1 .. n
           /\ \A i \in 1 .. n : /\ i - 1 \in o.bad => chunk'[i] = ZeroUnit
                                /\ i - 1 \notin o.bad => chunk'[i] = from + (i - 1)
        <3> DEFINE unit(i) == IF i - 1 \in o.bad THEN ZeroUnit ELSE from + (i - 1)
        <3>1. chunk' = [i \in 1 .. n |-> unit(i)]
            BY <2>4, <2>5
        <3>2. \A i \in 1 .. n : unit(i) \in Int
            BY <2>6 DEF ZeroUnit
        <3> HIDE DEF unit
        <3>3. chunk' \in Seq(Int) /\ Len(chunk') = n /\ DOMAIN chunk' = 1 .. n
            BY <3>1, <3>2, <1>3
        <3>4. \A i \in 1 .. n : chunk'[i] = unit(i)
            BY <3>1
        <3> QED
            BY <3>3, <3>4 DEF unit
    <2>15. Current' = Current /\ Here' = Here /\ c' = c /\ TaskType'
        BY <1>1, <1>2 DEF Current, Here, c, TaskType
    <2>16. Noted' = at + n
        <3>1. Noted' = Here' + Len(chunk')
            BY <2>15, <1>1 DEF Noted, s
        <3> QED
            BY <3>1, <2>14, <2>15, <1>2
    <2>17. ASSUME NEW i \in Nat, i < n
           PROVE  \E e \in Range(c.extents) :
                     /\ In(e, at + i) /\ Stored(e)
                     /\ from + i = e.physical + ((at + i) - e.logical)
        <3> DEFINE j == at + i
        <3> DEFINE a == s.logical
                   b == s.length
                   d == s.physical
        <3>0. /\ a \in Nat /\ b \in Nat /\ d \in Nat /\ position \in Nat /\ n \in Nat
              /\ at = a + position /\ from = d + position /\ position + n <= b
            BY <2>7, <1>2, <1>3
        <3>j. j = at + i /\ a = s.logical /\ b = s.length /\ d = s.physical
            OBVIOUS
        <3> HIDE DEF j, a, b, d
        <3>p. j \in Nat /\ j >= a /\ j < a + b /\ d + (j - a) = from + i
            BY <3>0, <3>j, <2>17
        <3>1. j \in Nat /\ In(s, j) /\ s.physical + (j - s.logical) = from + i
            BY <3>p, <3>j DEF In
        <3>2. \E e \in Range(c.extents) :
                 /\ In(e, j) /\ Stored(e)
                 /\ s.physical + (j - s.logical) = e.physical + (j - e.logical)
            BY <3>1, <1>1, <1>2 DEF Backed
        <3>3. PICK e \in Range(c.extents) :
                 /\ In(e, j) /\ Stored(e)
                 /\ s.physical + (j - s.logical) = e.physical + (j - e.logical)
            BY <3>2
        <3>4. from + i = e.physical + (j - e.logical)
            BY <3>1, <3>3
        <3> QED
            BY <3>3, <3>4, <3>j
    <2>18. PlaceInv'
        <3>1. position' < Current'.length /\ position' + Len(chunk') <= Current'.length
            BY <2>14, <2>15, <1>1, <1>3 DEF s
        <3>2. /\ segment' \in 1 .. Len(plan'.segments) + 1 /\ segment' \in DOMAIN plan'.segments
              /\ Len(output') = Here'
            BY <1>1, <1>2, <2>15 DEF PlaceInv
        <3> QED
            BY <3>1, <3>2 DEF PlaceInv
    <2>19. ASSUME NEW p \in said \cup adds
           PROVE  p[1] < at + n /\ Ground(c, p[1], p[2])
        <3>1. CASE p \in said
            <4>1. p[1] \in Nat /\ p[1] < at /\ Ground(c, p[1], p[2])
                BY <3>1, <2>11
            <4> QED
                BY <4>1, <2>6, <1>3
        <3>2. CASE p \in adds
            <4>1. PICK i \in o.bad : p = <<at + i, "previouslyReadFailed">>
                BY <3>2, <2>1, <2>8
            <4>2. i \in Nat /\ i < n
                BY <2>1
            <4>3. p[1] = at + i /\ p[2] = "previouslyReadFailed"
                BY <4>1
            <4>4. Ground(c, at + i, "previouslyReadFailed")
                BY <4>2, <2>17 DEF Ground
            <4> QED
                BY <4>2, <4>3, <4>4, <2>6, <1>3
        <3> QED
            BY <3>1, <3>2
    <2>20. EvidenceInv'
        <3>1. ASSUME NEW k \in DOMAIN plan.segments, plan.segments[k].kind = "zero",
                     k < segment \/ k = segment
              PROVE  \A i \in Nat : In(plan.segments[k], i) =>
                        <<i, plan.segments[k].why>> \in said \cup adds
            <4>1. k # segment
                BY <3>1, <1>1 DEF s, Current
            <4> QED
                BY <3>1, <4>1, <1>2 DEF EvidenceInv, said
        <3> QED
            BY <3>1, <2>13, <2>15, <2>16, <2>19, <1>1 DEF EvidenceInv, c
    <2>21. UnitsInv'
        <3>1. ASSUME NEW i \in DOMAIN output
              PROVE  Right(said \cup adds, c, i - 1, output[i])
            <4>1. Right(said, c, i - 1, output[i])
                BY <1>2 DEF UnitsInv, said, c
            <4>2. \A x \in Reasons : <<i - 1, x>> \notin adds
                <5> SUFFICES ASSUME NEW x \in Reasons, <<i - 1, x>> \in adds PROVE FALSE
                    OBVIOUS
                <5>1. PICK j \in o.bad : <<i - 1, x>> = <<at + j, "previouslyReadFailed">>
                    BY <2>1, <2>8
                <5>2. j \in Nat /\ i - 1 = at + j
                    BY <5>1, <2>1
                <5>3. i \in 1 .. at
                    BY <1>2
                <5> QED
                    BY <5>2, <5>3, <2>6
            <4> QED
                BY <4>1, <4>2, RightStays
        <3>2. ASSUME NEW i \in 1 .. n
              PROVE  Right(said \cup adds, c, Here + i - 1, chunk'[i])
            <4> DEFINE j == i - 1
            <4>1. j \in Nat /\ j < n /\ Here + i - 1 = at + j
                BY <1>2, <1>3, <2>6
            <4>2. /\ j \in o.bad => chunk'[i] = ZeroUnit
                  /\ j \notin o.bad => chunk'[i] = from + j
                BY <2>14
            <4> HIDE DEF j
            <4>3. \A x \in Reasons : <<at + j, x>> \in Missing(said \cup adds) <=>
                     x = "previouslyReadFailed" /\ j \in o.bad
                <5> SUFFICES ASSUME NEW x \in Reasons
                             PROVE  <<at + j, x>> \in Missing(said \cup adds) <=>
                                       x = "previouslyReadFailed" /\ j \in o.bad
                    OBVIOUS
                <5>1. <<at + j, x>> \notin said
                    <6> SUFFICES ASSUME <<at + j, x>> \in said PROVE FALSE
                        OBVIOUS
                    <6>1. at + j < at
                        BY <2>11
                    <6> QED
                        BY <6>1, <4>1, <2>6
                <5>2. <<at + j, x>> \in adds <=> x = "previouslyReadFailed" /\ j \in o.bad
                    BY <4>1, <2>1, <2>8
                <5> QED
                    BY <5>1, <5>2 DEF Missing
            <4>4. CASE j \in o.bad
                <5>1. "previouslyReadFailed" \in Reasons
                    <6>1. "readFailed" \in DOMAIN Reason
                          /\ Reason["readFailed"] = "previouslyReadFailed"
                        BY DEF Reason
                    <6> QED
                        BY <6>1 DEF Reasons
                <5>2. \E x \in Reasons : <<at + j, x>> \in Missing(said \cup adds)
                    BY <5>1, <4>3, <4>4
                <5>3. Right(said \cup adds, c, at + j, ZeroUnit)
                    BY <5>2 DEF Right
                <5> QED
                    BY <5>3, <4>1, <4>2, <4>4
            <4>5. CASE j \notin o.bad
                <5>1. ~ \E x \in Reasons : <<at + j, x>> \in Missing(said \cup adds)
                    BY <4>3, <4>5
                <5>2. \E e \in Range(c.extents) :
                         /\ In(e, at + j) /\ Stored(e)
                         /\ from + j = e.physical + ((at + j) - e.logical)
                    BY <4>1, <2>17
                <5>3. Right(said \cup adds, c, at + j, from + j)
                    <6> DEFINE l == at + j
                               u == from + j
                               says == said \cup adds
                    <6> HIDE DEF l, u, says
                    <6>1. /\ ~ \E x \in Reasons : <<l, x>> \in Missing(says)
                          /\ \E e \in Range(c.extents) :
                                In(e, l) /\ Stored(e) /\ u = e.physical + (l - e.logical)
                        BY <5>1, <5>2 DEF l, u, says
                    <6>2. Right(says, c, l, u)
                        BY <6>1 DEF Right
                    <6> QED
                        BY <6>2 DEF l, u, says
                <5> QED
                    BY <5>3, <4>1, <4>2, <4>5
            <4> QED
                BY <4>4, <4>5
        <3> QED
            BY <3>1, <3>2, <2>13, <2>14, <2>15, <1>1 DEF UnitsInv, c
    <2>22. failed = <<>> => adds = {}
        <3> SUFFICES ASSUME failed = <<>>, NEW p \in adds PROVE FALSE
            OBVIOUS
        <3>1. PICK i \in Units(failed) : p = <<at + i, "previouslyReadFailed">>
            BY <2>8
        <3> QED
            BY <3>1 DEF Units
    <2>23. failed # <<>> => Missing(adds) # {}
        <3> SUFFICES ASSUME failed # <<>> PROVE Missing(adds) # {}
            OBVIOUS
        <3>1. 1 \in DOMAIN failed /\ failed[1] \in MergedRange
            BY <2>1
        <3>2. failed[1].start \in Nat /\ failed[1].start < failed[1].end
            BY <3>1, <2>1 DEF MergedRange, Apart
        <3>3. failed[1].start \in Units(failed)
            BY <3>1, <3>2 DEF Units
        <3>4. "previouslyReadFailed" \in Reasons
            <4>1. "readFailed" \in DOMAIN Reason /\ Reason["readFailed"] = "previouslyReadFailed"
                BY DEF Reason
            <4> QED
                BY <4>1 DEF Reasons
        <3>5. <<at + failed[1].start, "previouslyReadFailed">> \in adds
            BY <3>2, <3>3, <3>4, <2>8
        <3> QED
            BY <3>5 DEF Missing
    <2>24. EffortInv'
        <3>1. Missing(said \cup adds) # {} => best' /\ task.policy # "completeOnly"
            <4>1. CASE failed = <<>>
                <5>1. said \cup adds = said
                    BY <4>1, <2>22
                <5> QED
                    BY <5>1, <4>1, <1>2, <1>6 DEF EffortInv, said
            <4>2. CASE failed # <<>>
                BY <4>2, <1>6
            <4> QED
                BY <4>1, <4>2
        <3>2. best' => plan.best \/ Missing(said \cup adds) # {}
            <4>1. Missing(adds) \subseteq Missing(said \cup adds)
                  /\ Missing(said) \subseteq Missing(said \cup adds)
                BY DEF Missing
            <4> QED
                BY <4>1, <2>23, <1>2, <1>6 DEF EffortInv, said
        <3> QED
            BY <3>1, <3>2, <2>13, <1>1 DEF EffortInv
    <2>25. StreamType'
        <3>1. best' \in BOOLEAN
            BY <1>6
        <3> QED
            BY <3>1, <1>1, <1>2, <1>6, <2>13, <2>14 DEF StreamType
    <2>26. hashed' = output' /\ (plan'.best => best')
        BY <1>1, <1>2, <1>6
    <2> QED
        BY <1>1, <1>2, <1>6, <2>15, <2>18, <2>20, <2>21, <2>24, <2>25, <2>26 DEF StreamInv
<1> QED
    BY <1>4, <1>5, <1>6 DEF Ends

-----------------------------------------------------------------------------
(* Every step keeps the invariant.                                         *)
LEMMA StepKeeps ==
    ASSUME StreamInv, [StreamNext]_streamVars
    PROVE  StreamInv'
<1>1. CASE StartStream
    BY <1>1, StartKeeps
<1>2. CASE CancelStream
    BY <1>2, CancelKeeps
<1>3. CASE ReadChunk
    BY <1>3, ReadKeeps
<1>4. CASE ZeroChunk
    BY <1>4, ZeroKeeps
<1>5. CASE WriteCommitted
    BY <1>5, WriteKeeps
<1>6. CASE FinishStream
    BY <1>6, FinishKeeps
<1>7. CASE UNCHANGED streamVars
    <2>1. /\ UNCHANGED <<task, plan, segment, position, chunk, output, evidence>>
          /\ UNCHANGED <<stage, hashed, best, error>>
        BY <1>7 DEF streamVars
    <2>2. /\ TaskType' <=> TaskType
          /\ PlaceInv' <=> PlaceInv
          /\ UnitsInv' <=> UnitsInv
          /\ EvidenceInv' <=> EvidenceInv
          /\ NothingYet' <=> NothingYet
          /\ Says(evidence)' = Says(evidence)
        BY <2>1, SameStream
    <2>3. (EffortInv' <=> EffortInv) /\ (StreamType' <=> StreamType)
        BY <2>1, <2>2 DEF EffortInv, StreamType
    <2> QED
        BY <2>1, <2>2, <2>3 DEF StreamInv
<1> QED
    BY <1>1, <1>2, <1>3, <1>4, <1>5, <1>6, <1>7 DEF StreamNext

(* What the evidence says of a unit is what its ranges there say.          *)
LEMMA SaysWhatIsThere ==
    ASSUME evidence \in Seq(ZeroRanges), NEW i \in Nat
    PROVE  NonSparse \cap EvidenceAt(i) # {}
           <=> \E x \in Reasons : <<i, x>> \in Missing(Says(evidence))
<1>1. \A k \in DOMAIN evidence : /\ evidence[k] \in Range(evidence)
                                 /\ evidence[k].reason \in Reasons
    <2>1. \A k \in DOMAIN evidence : evidence[k] \in ZeroRanges
        OBVIOUS
    <2> QED
        BY <2>1 DEF Range, ZeroRanges
<1>2. \A x \in Reasons : <<i, x>> \in Missing(Says(evidence)) <=>
         x # "sparse" /\ \E k \in DOMAIN evidence : In(evidence[k], i) /\ evidence[k].reason = x
    BY DEF Missing, Says
<1>3. ASSUME NonSparse \cap EvidenceAt(i) # {}
      PROVE  \E x \in Reasons : <<i, x>> \in Missing(Says(evidence))
    <2>1. PICK r \in Range(evidence) : /\ r.reason # "sparse" /\ i >= r.logical
                                       /\ i < r.logical + r.length
        BY <1>3 DEF NonSparse, EvidenceAt
    <2>2. PICK k \in DOMAIN evidence : r = evidence[k]
        BY DEF Range
    <2>3. In(evidence[k], i) /\ evidence[k].reason # "sparse"
        BY <2>1, <2>2 DEF In
    <2> QED
        BY <2>3, <1>1, <1>2
<1>4. ASSUME NEW x \in Reasons, <<i, x>> \in Missing(Says(evidence))
      PROVE  NonSparse \cap EvidenceAt(i) # {}
    <2>1. PICK k \in DOMAIN evidence : In(evidence[k], i) /\ evidence[k].reason # "sparse"
        BY <1>2, <1>4
    <2>2. evidence[k] \in NonSparse \cap EvidenceAt(i)
        BY <2>1, <1>1 DEF NonSparse, EvidenceAt, In
    <2> QED
        BY <2>2
<1> QED
    BY <1>3, <1>4

(* A range that says that something is missing says it of a unit.          *)
LEMMA MissingSomewhere ==
    ASSUME evidence \in Seq(ZeroRanges), InOrder(evidence)
    PROVE  NonSparse # {} <=> Missing(Says(evidence)) # {}
<1>1. \A k \in DOMAIN evidence : /\ evidence[k] \in Range(evidence)
                                 /\ evidence[k].logical \in Nat /\ evidence[k].length \in Nat
                                 /\ evidence[k].length > 0
                                 /\ evidence[k].reason \in Reasons
    <2>1. \A k \in DOMAIN evidence : evidence[k] \in ZeroRanges
        OBVIOUS
    <2> QED
        BY <2>1 DEF Range, ZeroRanges, InOrder
<1>2. ASSUME NEW r \in NonSparse PROVE Missing(Says(evidence)) # {}
    <2>1. PICK k \in DOMAIN evidence : r = evidence[k] /\ r.reason # "sparse"
        BY DEF NonSparse, Range
    <2>2. In(evidence[k], evidence[k].logical)
        BY <1>1 DEF In
    <2>3. <<evidence[k].logical, evidence[k].reason>> \in Says(evidence)
        BY <2>2, <1>1 DEF Says
    <2> QED
        BY <2>1, <2>3 DEF Missing
<1>3. ASSUME NEW p \in Missing(Says(evidence)) PROVE NonSparse # {}
    <2>1. p \in Says(evidence) /\ p[2] # "sparse"
        BY DEF Missing
    <2>2. PICK k \in DOMAIN evidence : evidence[k].reason = p[2]
        BY <2>1 DEF Says
    <2> QED
        BY <2>1, <2>2, <1>1 DEF NonSparse
<1> QED
    BY <1>2, <1>3

(* The invariant says what is reported.                                    *)
LEMMA InvSaysSo ==
    ASSUME StreamInv
    PROVE  OutputIsAsReported
<1> DEFINE c == task.candidate
<1>1. TaskType /\ StreamType /\ hashed = output /\ error # "invalidPlan"
    BY DEF StreamInv
<1>2. evidence \in Seq(ZeroRanges) /\ output \in Seq(Int) /\ c \in Candidates
    BY <1>1 DEF StreamType, TaskType
<1>3. IF plan.error = "none" THEN PlaceInv /\ UnitsInv /\ EvidenceInv /\ EffortInv
      ELSE NothingYet /\ stage \in {"planned", "failed"}
    BY DEF StreamInv
<1>4. /\ InOrder(evidence)
      /\ \A p \in Says(evidence) : Ground(c, p[1], p[2])
      /\ \A i \in DOMAIN output : Right(Says(evidence), c, i - 1, output[i])
    <2>1. CASE plan.error = "none"
        BY <2>1, <1>3 DEF EvidenceInv, UnitsInv
    <2>2. CASE plan.error # "none"
        <3>1. evidence = <<>> /\ output = <<>>
            BY <2>2, <1>3 DEF NothingYet
        <3>2. DOMAIN output = {}
            BY <3>1
        <3> QED
            BY <3>1, <3>2, NothingSaid
    <2> QED
        BY <2>1, <2>2
<1> HIDE DEF c
<1>5. ASSUME NEW i \in 1 .. Len(output)
      PROVE  IF NonSparse \cap EvidenceAt(i - 1) # {} THEN output[i] = ZeroUnit
             ELSE \E e \in ExtentsAt(i - 1) :
                     \/ Stored(e) /\ output[i] = e.physical + (i - 1 - e.logical)
                     \/ e.availability = "sparse" /\ output[i] = ZeroUnit
    <2> DEFINE j == i - 1
    <2>1. j \in Nat /\ i \in DOMAIN output
        BY <1>2
    <2>2. Right(Says(evidence), c, j, output[i])
        BY <2>1, <1>4
    <2> HIDE DEF j
    <2>3. NonSparse \cap EvidenceAt(j) # {}
          <=> \E x \in Reasons : <<j, x>> \in Missing(Says(evidence))
        BY <2>1, <1>2, SaysWhatIsThere
    <2>4. CASE NonSparse \cap EvidenceAt(j) # {}
        BY <2>2, <2>3, <2>4 DEF Right, j
    <2>5. CASE ~(NonSparse \cap EvidenceAt(j) # {})
        <3>1. PICK e \in Range(c.extents) :
                 /\ In(e, j)
                 /\ \/ Stored(e) /\ output[i] = e.physical + (j - e.logical)
                    \/ e.availability = "sparse" /\ output[i] = ZeroUnit
            BY <2>2, <2>3, <2>5 DEF Right
        <3>2. e \in ExtentsAt(j)
            BY <3>1 DEF ExtentsAt, In, c
        <3> QED
            BY <3>1, <3>2, <2>5 DEF j
    <2> QED
        BY <2>4, <2>5
<1>6. ASSUME NEW r \in Range(evidence), NEW i \in r.logical .. r.logical + r.length - 1
      PROVE  \/ r.reason = "missingExtent" /\ ExtentsAt(i) = {}
             \/ \E e \in ExtentsAt(i) :
                   r.reason = IF Stored(e) THEN "previouslyReadFailed" ELSE ReasonOf(e)
    <2>1. PICK k \in DOMAIN evidence : r = evidence[k]
        BY DEF Range
    <2>2. r \in ZeroRanges
        BY <2>1, <1>2
    <2>3. r.logical \in Nat /\ r.length \in Nat /\ r.reason \in Reasons
        BY <2>2 DEF ZeroRanges
    <2>4. i \in Nat /\ In(r, i)
        BY <2>3 DEF In
    <2>5. <<i, r.reason>> \in Says(evidence)
        BY <2>1, <2>3, <2>4 DEF Says
    <2>6. Ground(c, i, r.reason)
        BY <2>5, <1>4
    <2> QED
        BY <2>6 DEF Ground, ExtentsAt, In, c
<1>7. \A k \in 1 .. Len(evidence) - 1 :
         LET end == evidence[k].logical + evidence[k].length
         IN  /\ end <= evidence[k+1].logical
             /\ end = evidence[k+1].logical => evidence[k].reason # evidence[k+1].reason
    BY <1>4 DEF InOrder
<1>8. ASSUME stage = "done"
      PROVE  /\ Len(output) = task.candidate.size
             /\ task.expected \subseteq {output}
             /\ best <=> NonSparse # {}
             /\ task.policy = "completeOnly" => NonSparse = {}
    <2>1. /\ plan.error = "none" /\ (plan.best => best)
          /\ segment = Len(plan.segments) + 1 /\ Len(output) = task.candidate.size
          /\ task.expected \subseteq {output}
          /\ EvidenceInv /\ EffortInv
        BY <1>8 DEF StreamInv
    <2>2. NonSparse # {} <=> Missing(Says(evidence)) # {}
        BY <1>2, <1>4, MissingSomewhere
    <2>3. ASSUME plan.best PROVE Missing(Says(evidence)) # {}
        <3>1. /\ Len(plan.segments) \in Nat /\ DOMAIN plan.segments = 1 .. Len(plan.segments)
              /\ plan.best <=> \E k \in DOMAIN plan.segments : Unavailable(plan.segments[k])
              /\ \A k \in DOMAIN plan.segments :
                    /\ plan.segments[k].logical \in Nat
                    /\ plan.segments[k].length \in Nat /\ plan.segments[k].length > 0
            BY <2>1, <1>1, PlanFacts
        <3>2. PICK k \in DOMAIN plan.segments : Unavailable(plan.segments[k])
            BY <3>1, <2>3
        <3>3. k < segment
            BY <3>1, <2>1
        <3> DEFINE s == plan.segments[k]
        <3>4. s.kind = "zero" /\ s.why # "sparse" /\ s.logical \in Nat /\ In(s, s.logical)
            BY <3>1, <3>2 DEF Unavailable, In
        <3>5. <<s.logical, s.why>> \in Says(evidence)
            BY <3>3, <3>4, <2>1 DEF EvidenceInv
        <3> HIDE DEF s
        <3> QED
            BY <3>4, <3>5 DEF Missing
    <2> QED
        BY <2>1, <2>2, <2>3 DEF EffortInv
<1> QED
    BY <1>1, <1>5, <1>6, <1>7, <1>8 DEF OutputIsAsReported

(* Whatever is restored of a candidate - from any extents, with any units  *)
(* that cannot be read, cancelled or not - every unit written is the one   *)
(* its extent stores there or a zero that the evidence accounts for, what  *)
(* was hashed is what was written, and a restore that is done is complete. *)
THEOREM RestoredAsReported == StreamSpec => []OutputIsAsReported
<1>1. StreamInit => StreamInv
    BY InitHolds
<1>2. StreamInv /\ [StreamNext]_streamVars => StreamInv'
    BY StepKeeps
<1>3. StreamInv => OutputIsAsReported
    BY InvSaysSo
<1> QED
    BY <1>1, <1>2, <1>3, PTL DEF StreamSpec

-----------------------------------------------------------------------------
(* The sectors of a disk image, and what they are when the tool is done.   *)

GptLayouts == {l \in {old, new} : l.kind = "gpt"}
Headers == {Header(l, primary) : l \in GptLayouts, primary \in BOOLEAN}
Tables == {Table(l) : l \in GptLayouts}
EntryLists == {es \in Seq(PartitionEntries) : Len(es) >= 2}
BootRecords == {BootRecord(es) : es \in EntryLists}
Contents == {Empty, Garbage, Volume} \cup Headers \cup Tables \cup BootRecords
Sectors == 0 .. LastLba + 1
RecordAt(l, k) == EbrChain(l)[k][2]
Ats(l) == {l.logical[k].at : k \in DOMAIN l.logical}

Goal(s) ==
    IF new.kind = "gpt"
    THEN IF s = 0 THEN {Protective}
         ELSE IF s = 1 THEN {Header(new, TRUE)}
         ELSE IF s \in {2, LastLba - 1} THEN {Table(new)}
         ELSE IF s = LastLba THEN {Header(new, FALSE)} ELSE Contents
    ELSE IF new.kind = "mbr"
    THEN IF s = 0 THEN {BootRecord(new.entries)}
         ELSE IF s \in Ats(new)
         THEN {RecordAt(new, k) : k \in {j \in DOMAIN new.logical : new.logical[j].at = s}}
         ELSE IF s \in {1, LastLba} THEN Contents \ Headers ELSE Contents
    ELSE IF s = 0 THEN {Volume} ELSE {Empty}

(* Every sector is as it has to be or will be written, and what is written *)
(* is as it has to be or will be overwritten.                              *)
Underway ==
    /\ damaged = {}
    /\ \A s \in Sectors : image[s] \in Goal(s) \/ \E i \in DOMAIN pending : pending[i][1] = s
    /\ \A i \in DOMAIN pending :
          \/ pending[i][2] \in Goal(pending[i][1])
          \/ \E j \in DOMAIN pending : i < j /\ pending[j][1] = pending[i][1]

DiskOK ==
    /\ old \in Layouts /\ new \in Layouts /\ (new.kind = "none" => old = new)
    /\ image \in [Sectors -> Contents] /\ image[LastLba + 1] \notin Headers
    /\ pending \in Seq((0 .. LastLba) \X Contents)
    /\ last \in {LastLba, LastLba + 1}
    /\ unreadable \subseteq damaged /\ damaged \subseteq Sectors

Finished ==
    pending = <<>> =>
        \A s \in Sectors : \/ image[s] \in Goal(s) /\ (s \in unreadable => image[s] # Empty)
                           \/ s \in damaged /\ s \notin unreadable /\ image[s] = Garbage

LEMMA LayoutFacts ==
    ASSUME NEW l \in Layouts
    PROVE  /\ l \in [kind : {"gpt", "mbr", "none"}, name : STRING, entries : Seq(PartitionEntries),
                 logical : Seq(LogicalVolumes), back : Nat]
           /\ l.kind = "gpt" => GptLayout(l)
           /\ l.kind = "mbr" => MbrLayout(l)
           /\ l.kind = "none" => l.entries = <<>> /\ l.logical = <<>>
<1>1. /\ l \in [kind : {"gpt", "mbr", "none"}, name : STRING, entries : Seq(PartitionEntries),
                 logical : Seq(LogicalVolumes), back : Nat]
      /\ CASE l.kind = "gpt" -> GptLayout(l)
            [] l.kind = "mbr" -> MbrLayout(l)
            [] l.kind = "none" -> l.entries = <<>> /\ l.logical = <<>>
    BY LayoutsAssumption, Zenon
<1> QED
    BY <1>1

LEMMA ContentKinds ==
    ASSUME NEW c \in Contents
    PROVE  /\ c.kind = "gptHeader" => c \in Headers
           /\ c.kind \in {"mbr", "boot"} => c.entries \in EntryLists
<1>1. CASE c \in {Empty, Garbage, Volume}
    BY <1>1, CodeAssumption DEF Empty, Garbage, Volume, EntryLists
<1>2. CASE c \in Headers
    <2>1. PICK l \in GptLayouts, p \in BOOLEAN : c = Header(l, p)
        BY <1>2 DEF Headers
    <2>2. c.kind = "gptHeader"
        BY <2>1 DEF Header
    <2> QED
        BY <2>2, <1>2
<1>3. CASE c \in Tables
    <2>1. PICK l \in GptLayouts : c = Table(l)
        BY <1>3 DEF Tables
    <2>2. c.kind = "gptTable"
        BY <2>1 DEF Table
    <2> QED
        BY <2>2
<1>4. CASE c \in BootRecords
    <2>1. PICK es \in EntryLists : c = BootRecord(es)
        BY <1>4 DEF BootRecords
    <2>2. c.kind = "mbr" /\ c.entries = es
        BY <2>1 DEF BootRecord
    <2> QED
        BY <2>2
<1> QED
    BY <1>1, <1>2, <1>3, <1>4 DEF Contents

(* What is no header.                                                      *)
LEMMA NoHeaders ==
    /\ Empty \notin Headers /\ Volume \notin Headers /\ Garbage \notin Headers
    /\ \A es : BootRecord(es) \notin Headers
<1>1. \A h \in Headers : h.kind = "gptHeader"
    BY DEF Headers, Header
<1> QED
    BY <1>1 DEF Empty, Volume, Garbage, BootRecord

LEMMA ProtectiveIsOne == Protective \in BootRecords
<1>1. /\ Entry("protective", 1, LastLba) \in PartitionEntries
      /\ Unused \in PartitionEntries
    BY LayoutAssumption DEF Entry, Unused, PartitionEntries
<1> DEFINE a == Entry("protective", 1, LastLba)
<1> HIDE DEF a
<1>2. \A x, y \in PartitionEntries : <<x, y>> \in Seq(PartitionEntries) /\ Len(<<x, y>>) = 2
    OBVIOUS
<1>3. <<a, Unused>> \in EntryLists
    BY <1>1, <1>2 DEF EntryLists, a
<1> QED
    BY <1>3 DEF Protective, BootRecords, a

(* The records of a chain are boot records where they have to be.          *)
LEMMA ChainFacts ==
    ASSUME NEW l \in Layouts, l.kind = "mbr"
    PROVE  /\ EbrChain(l) \in Seq((1 .. LastLba) \X BootRecords)
           /\ DOMAIN EbrChain(l) = DOMAIN l.logical
           /\ \A k \in DOMAIN l.logical :
                 /\ l.logical[k].at \in 1 .. LastLba
                 /\ EbrChain(l)[k] = <<l.logical[k].at, RecordAt(l, k)>>
                 /\ RecordAt(l, k).kind = "mbr" /\ RecordAt(l, k).signed
                 /\ RecordAt(l, k).entries[1] =
                        Entry("plain", l.logical[k].start - l.logical[k].at, l.logical[k].sectors)
                 /\ LET next == IF k < Len(l.logical) THEN l.logical[k + 1].at ELSE l.back
                    IN  RecordAt(l, k).entries[2] =
                            IF next = 0 THEN Unused
                            ELSE Entry("extended", next - l.logical[1].at, 1)
<1> DEFINE vs == l.logical
           Next(k) == IF k < Len(vs) THEN vs[k + 1].at ELSE l.back
           First(k) == Entry("plain", vs[k].start - vs[k].at, vs[k].sectors)
           Second(k) == IF Next(k) = 0 THEN Unused ELSE Entry("extended", Next(k) - vs[1].at, 1)
<1>1. vs \in Seq(LogicalVolumes) /\ l.back \in Nat /\ MbrLayout(l)
    BY LayoutFacts
<1>2. \A k \in DOMAIN vs :
        /\ vs[k].at \in Nat /\ vs[k].start \in Nat /\ vs[k].sectors \in Nat
        /\ vs[k].at > 0 /\ vs[k].at <= LastLba /\ vs[k].at >= vs[1].at /\ vs[k].at <= vs[k].start
        /\ vs[1].at \in Nat
    <2> TAKE k \in DOMAIN vs
    <2>1. 1 \in DOMAIN vs
        BY <1>1
    <2>2. vs[k] \in LogicalVolumes /\ vs[1] \in LogicalVolumes
        BY <1>1, <2>1
    <2>3. vs[k].at \in vs[1].at .. LastLba /\ vs[k].at > 0 /\ vs[k].at <= vs[k].start
        BY <1>1 DEF MbrLayout
    <2> QED
        BY <2>2, <2>3, LayoutAssumption DEF LogicalVolumes
<1>3. \A k \in DOMAIN vs : Next(k) = 0 \/ (Next(k) \in Nat /\ Next(k) >= vs[1].at)
    <2> TAKE k \in DOMAIN vs
    <2>1. CASE k < Len(vs)
        <3>1. k + 1 \in DOMAIN vs
            BY <2>1, <1>1
        <3> QED
            BY <3>1, <2>1, <1>2
    <2>2. CASE ~(k < Len(vs))
        <3>1. l.back = 0 \/ \E j \in DOMAIN vs : l.back = vs[j].at
            BY <1>1 DEF MbrLayout
        <3> QED
            BY <3>1, <2>2, <1>2
    <2> QED
        BY <2>1, <2>2
<1>4. EbrChain(l) = [k \in DOMAIN vs |-> <<vs[k].at, BootRecord(<<First(k), Second(k)>>)>>]
    BY DEF EbrChain
<1>5. \A k \in DOMAIN vs : First(k) \in PartitionEntries /\ Second(k) \in PartitionEntries
    <2> TAKE k \in DOMAIN vs
    <2>1. First(k) \in PartitionEntries
        BY <1>2 DEF Entry, PartitionEntries
    <2>2. Second(k) \in PartitionEntries
        <3> HIDE DEF Next
        <3>1. vs[1].at \in Nat
            BY <1>2
        <3>2. Next(k) # 0 => Next(k) - vs[1].at \in Nat
            BY <1>3, <3>1
        <3> QED
            BY <3>2 DEF Entry, PartitionEntries, Unused
    <2> QED
        BY <2>1, <2>2
<1>6. DOMAIN vs = 1 .. Len(vs) /\ Len(vs) \in Nat
    BY <1>1
<1> HIDE DEF First, Second
<1>7. \A k \in DOMAIN vs : <<First(k), Second(k)>> \in EntryLists
    BY <1>5 DEF EntryLists
<1>8. \A k \in DOMAIN vs : BootRecord(<<First(k), Second(k)>>) \in BootRecords
    BY <1>7 DEF BootRecords
<1>9. \A k \in DOMAIN vs : RecordAt(l, k) = BootRecord(<<First(k), Second(k)>>)
    BY <1>4 DEF RecordAt
<1>10. \A k \in DOMAIN vs : EbrChain(l)[k] = <<vs[k].at, RecordAt(l, k)>>
    BY <1>4, <1>9
<1>11. EbrChain(l) \in Seq((1 .. LastLba) \X BootRecords)
    <2> DEFINE S == (1 .. LastLba) \X BootRecords
               g == EbrChain(l)
    <2>1. \A k \in DOMAIN vs : <<vs[k].at, RecordAt(l, k)>> \in S
        <3> TAKE k \in DOMAIN vs
        <3>1. vs[k].at \in 1 .. LastLba
            BY <1>2, LayoutAssumption
        <3>2. RecordAt(l, k) \in BootRecords
            BY <1>8, <1>9, Zenon
        <3> QED
            BY <3>1, <3>2
    <2> HIDE DEF S
    <2>2. g = [k \in DOMAIN vs |-> <<vs[k].at, RecordAt(l, k)>>]
        BY <1>4, <1>9
    <2> HIDE DEF g
    <2>3. g \in [1 .. Len(vs) -> S]
        BY <2>1, <2>2, <1>6
    <2>4. g \in Seq(S)
        BY <2>3, <1>6
    <2> QED
        BY <2>4 DEF S, g
<1>12. \A k \in DOMAIN vs : /\ RecordAt(l, k).kind = "mbr" /\ RecordAt(l, k).signed
                            /\ RecordAt(l, k).entries = <<First(k), Second(k)>>
    BY <1>9 DEF BootRecord
<1>13. \A k \in DOMAIN vs : vs[k].at \in 1 .. LastLba
    BY <1>2, LayoutAssumption
<1>14. DOMAIN EbrChain(l) = DOMAIN vs
    BY <1>4
<1>15. \A k \in DOMAIN vs : RecordAt(l, k).entries[1] = First(k)
    BY <1>12
<1>16. \A k \in DOMAIN vs : RecordAt(l, k).entries[2] = Second(k)
    BY <1>12
<1>17. \A k \in DOMAIN l.logical :
          RecordAt(l, k).entries[1] =
                        Entry("plain", l.logical[k].start - l.logical[k].at, l.logical[k].sectors)
    BY <1>15 DEF First
<1>18. \A k \in DOMAIN l.logical :
           LET next == IF k < Len(l.logical) THEN l.logical[k + 1].at ELSE l.back
                    IN  RecordAt(l, k).entries[2] =
                            IF next = 0 THEN Unused
                            ELSE Entry("extended", next - l.logical[1].at, 1)
    BY <1>16 DEF Second
<1> HIDE DEF Next
<1> QED
    BY <1>10, <1>11, <1>12, <1>13, <1>14, <1>17, <1>18

(* What the tool writes for a layout, and where.                           *)
LEMMA WritesFacts ==
    ASSUME NEW l \in {old, new}, l \in Layouts
    PROVE  Writes(l) \in Seq((0 .. LastLba) \X Contents)
<1> DEFINE S == (0 .. LastLba) \X Contents
<1>1. l.kind \in {"gpt", "mbr", "none"} /\ l.entries \in Seq(PartitionEntries)
    BY LayoutFacts
<1>2. CASE l.kind = "gpt"
    <2>1. /\ Table(l) \in Contents /\ Header(l, TRUE) \in Contents
          /\ Header(l, FALSE) \in Contents /\ Protective \in Contents
        <3>1. l \in GptLayouts
            BY <1>2 DEF GptLayouts
        <3>2. Table(l) \in Tables
            BY <3>1, Zenon DEF Tables
        <3>3. \A primary \in BOOLEAN : Header(l, primary) \in Headers
            <4> TAKE primary \in BOOLEAN
            <4> QED
                BY <3>1 DEF Headers
        <3> QED
            BY <3>2, <3>3, ProtectiveIsOne DEF Contents
    <2>2. /\ LastLba - 1 \in 0 .. LastLba /\ LastLba \in 0 .. LastLba
          /\ 2 \in 0 .. LastLba /\ 1 \in 0 .. LastLba /\ 0 \in 0 .. LastLba
        BY LayoutAssumption
    <2>3. Writes(l) = <<<<LastLba - 1, Table(l)>>, <<LastLba, Header(l, FALSE)>>,
                        <<2, Table(l)>>, <<1, Header(l, TRUE)>>, <<0, Protective>>>>
        BY <1>2 DEF Writes
    <2>4. /\ <<LastLba - 1, Table(l)>> \in S /\ <<LastLba, Header(l, FALSE)>> \in S
          /\ <<2, Table(l)>> \in S /\ <<1, Header(l, TRUE)>> \in S /\ <<0, Protective>> \in S
        BY <2>1, <2>2
    <2> HIDE DEF S
    <2>5. \A a, b, c, d, e \in S : <<a, b, c, d, e>> \in Seq(S)
        OBVIOUS
    <2> QED
        BY <2>3, <2>4, <2>5 DEF S
<1>3. CASE l.kind = "mbr"
    <2>1. EbrChain(l) \in Seq(S)
        <3>1. (1 .. LastLba) \X BootRecords \subseteq S
            BY LayoutAssumption DEF Contents
        <3> HIDE DEF S
        <3> QED
            BY <3>1, <1>3, ChainFacts
    <2>2. <<0, BootRecord(l.entries)>> \in S
        <3>1. l.entries \in EntryLists
            BY <1>1, <1>3, LayoutFacts DEF MbrLayout, EntryLists
        <3>2. BootRecord(l.entries) \in Contents
            BY <3>1 DEF BootRecords, Contents
        <3> QED
            BY <3>2, LayoutAssumption
    <2>3. Writes(l) = Reverse(EbrChain(l)) \o <<<<0, BootRecord(l.entries)>>>>
        BY <1>3 DEF Writes
    <2> HIDE DEF S
    <2>4. Reverse(EbrChain(l)) \in Seq(S)
        BY <2>1 DEF Reverse
    <2> DEFINE r == Reverse(EbrChain(l))
               x == <<0, BootRecord(l.entries)>>
    <2> HIDE DEF r, x
    <2>5. r \in Seq(S) /\ x \in S
        BY <2>2, <2>4 DEF r, x
    <2>6. r \o <<x>> \in Seq(S)
        BY <2>5
    <2> QED
        BY <2>3, <2>6 DEF r, x, S
<1>4. CASE l.kind = "none"
    BY <1>4 DEF Writes
<1> QED
    BY <1>1, <1>2, <1>3, <1>4

(* Where a record of the chain is in the list of writes.                   *)
LEMMA ChainWrites ==
    ASSUME NEW l \in Layouts, l.kind = "mbr"
    PROVE  LET W == Writes(l)
               n == Len(l.logical)
           IN  /\ n \in Nat /\ DOMAIN W = 1 .. n + 1 /\ W[n + 1] = <<0, BootRecord(l.entries)>>
               /\ \A k \in 1 .. n : /\ n - k + 1 \in 1 .. n
                                    /\ W[k] = <<l.logical[n - k + 1].at, RecordAt(l, n - k + 1)>>
<1> DEFINE n == Len(l.logical)
           c == EbrChain(l)
           x == <<0, BootRecord(l.entries)>>
<1>1. l.logical \in Seq(LogicalVolumes)
    BY LayoutFacts
<1>2. n \in Nat /\ DOMAIN l.logical = 1 .. n
    BY <1>1
<1>3. /\ c \in Seq((1 .. LastLba) \X BootRecords) /\ DOMAIN c = 1 .. n
      /\ \A k \in 1 .. n : c[k] = <<l.logical[k].at, RecordAt(l, k)>>
    BY <1>2, ChainFacts
<1>4. Writes(l) = Reverse(c) \o <<x>>
    BY DEF Writes
<1> HIDE DEF c, x, n
<1>5. Len(c) = n
    BY <1>3, <1>2
<1>6. Reverse(c) = [k \in 1 .. n |-> c[n - k + 1]]
    BY <1>5 DEF Reverse
<1>7. \A k \in 1 .. n : n - k + 1 \in 1 .. n
    BY <1>2
<1> DEFINE r == Reverse(c)
<1>8. /\ r \in Seq(Range(c)) /\ Len(r) = n /\ \A k \in 1 .. n : r[k] = c[n - k + 1]
    <2>1. r \in [1 .. n -> Range(c)]
        BY <1>3, <1>6, <1>7 DEF Range
    <2> HIDE DEF r
    <2>2. r \in Seq(Range(c)) /\ Len(r) = n
        BY <2>1, <1>2
    <2> QED
        BY <2>2, <1>6 DEF r
<1> HIDE DEF r
<1>9. /\ DOMAIN (r \o <<x>>) = 1 .. n + 1 /\ (r \o <<x>>)[n + 1] = x
      /\ \A k \in 1 .. n : (r \o <<x>>)[k] = r[k]
    <2>1. Len(<<x>>) = 1 /\ <<x>>[1] = x /\ <<x>> \in Seq({x})
        OBVIOUS
    <2> DEFINE y == <<x>>
    <2> HIDE DEF y
    <2>2. /\ DOMAIN (r \o y) = 1 .. Len(r) + Len(y)
          /\ \A k \in 1 .. Len(r) + Len(y) : (r \o y)[k] = IF k <= Len(r) THEN r[k] ELSE y[k - Len(r)]
        <3> DEFINE T == Range(c) \cup {x}
        <3>1. y \in Seq(T)
            BY DEF y
        <3>2. \A t \in Seq(Range(c)) : t \in Seq(T)
            OBVIOUS
        <3> HIDE DEF T
        <3>3. r \in Seq(T)
            BY <3>2, <1>8, Zenon
        <3> QED
            BY <3>1, <3>3
    <2>3. Len(y) = 1 /\ y[1] = x
        BY <2>1 DEF y
    <2>4. n + 1 \in 1 .. n + 1 /\ ~(n + 1 <= n) /\ n + 1 - n = 1 /\ \A k \in 1 .. n : k \in 1 .. n + 1 /\ k <= n
        BY <1>2
    <2>5. r \o y = r \o <<x>>
        BY DEF y
    <2>6. \A k \in 1 .. n : (r \o y)[k] = r[k]
        BY <2>2, <2>3, <2>4, <1>8
    <2>7. (r \o y)[n + 1] = x /\ DOMAIN (r \o y) = 1 .. n + 1
        BY <2>2, <2>3, <2>4, <1>8
    <2>8. /\ DOMAIN (r \o <<x>>) = DOMAIN (r \o y) /\ (r \o <<x>>)[n + 1] = (r \o y)[n + 1]
          /\ \A k \in 1 .. n : (r \o <<x>>)[k] = (r \o y)[k]
        BY <2>5, Zenon
    <2> QED
        BY <2>6, <2>7, <2>8, Zenon
<1>10. \A k \in 1 .. n : (r \o <<x>>)[k] = <<l.logical[n - k + 1].at, RecordAt(l, n - k + 1)>>
    BY <1>9, <1>8, <1>7, <1>3
<1>11. Writes(l) = r \o <<x>>
    BY <1>4 DEF r
<1> QED
    BY <1>2, <1>7, <1>9, <1>10, <1>11 DEF n, x

-----------------------------------------------------------------------------
(* Every write is as the sector has to be, and only what is not written    *)
(* may be as it was.                                                       *)

LEMMA FiveWrites ==
    ASSUME NEW a, NEW b, NEW c, NEW d, NEW e
    PROVE  /\ DOMAIN <<a, b, c, d, e>> = 1 .. 5 /\ <<a, b, c, d, e>>[1] = a
           /\ <<a, b, c, d, e>>[2] = b /\ <<a, b, c, d, e>>[3] = c
           /\ <<a, b, c, d, e>>[4] = d /\ <<a, b, c, d, e>>[5] = e
OBVIOUS

LEMMA NewGoal ==
    ASSUME new \in Layouts
    PROVE  LET W == Writes(new)
           IN  /\ \A i \in DOMAIN W : W[i][2] \in Goal(W[i][1])
               /\ new.kind = "gpt" => \A s \in Sectors : Goal(s) = Contents \/ \E i \in DOMAIN W : W[i][1] = s
               /\ new.kind = "mbr" => \A s \in Sectors :
                      \/ s \notin {1, LastLba} /\ Goal(s) = Contents
                      \/ s \in {1, LastLba} /\ Goal(s) = Contents \ Headers
                      \/ \E i \in DOMAIN W : W[i][1] = s
<1>1. CASE new.kind = "gpt"
    <2> DEFINE W == <<<<LastLba - 1, Table(new)>>, <<LastLba, Header(new, FALSE)>>,
                      <<2, Table(new)>>, <<1, Header(new, TRUE)>>, <<0, Protective>>>>
    <2>1. Writes(new) = W
        BY <1>1 DEF Writes
    <2>2. /\ DOMAIN W = 1 .. 5 /\ W[1] = <<LastLba - 1, Table(new)>>
          /\ W[2] = <<LastLba, Header(new, FALSE)>> /\ W[3] = <<2, Table(new)>>
          /\ W[4] = <<1, Header(new, TRUE)>> /\ W[5] = <<0, Protective>>
        <3> DEFINE w1 == <<LastLba - 1, Table(new)>>
                   w2 == <<LastLba, Header(new, FALSE)>>
                   w3 == <<2, Table(new)>>
                   w4 == <<1, Header(new, TRUE)>>
                   w5 == <<0, Protective>>
        <3> HIDE DEF w1, w2, w3, w4, w5
        <3>1. W = <<w1, w2, w3, w4, w5>>
            BY DEF w1, w2, w3, w4, w5
        <3> HIDE DEF W
        <3>2. /\ DOMAIN W = 1 .. 5 /\ W[1] = w1 /\ W[2] = w2 /\ W[3] = w3 /\ W[4] = w4
              /\ W[5] = w5
            BY <3>1, FiveWrites
        <3> QED
            BY <3>2 DEF w1, w2, w3, w4, w5
    <2>3. /\ Goal(0) = {Protective} /\ Goal(1) = {Header(new, TRUE)} /\ Goal(2) = {Table(new)}
          /\ Goal(LastLba - 1) = {Table(new)} /\ Goal(LastLba) = {Header(new, FALSE)}
          /\ \A s : s \notin {0, 1, 2, LastLba - 1, LastLba} => Goal(s) = Contents
        <3>1. /\ LastLba \notin {0, 1, 2, LastLba - 1} /\ LastLba - 1 \notin {0, 1}
              /\ 2 \notin {0, 1} /\ 1 # 0
            BY LayoutAssumption
        <3> QED
            BY <1>1, <3>1, Zenon DEF Goal
    <2> HIDE DEF W
    <2>4. \A i \in 1 .. 5 : i = 1 \/ i = 2 \/ i = 3 \/ i = 4 \/ i = 5
        OBVIOUS
    <2>5. \A i \in DOMAIN W : W[i][2] \in Goal(W[i][1])
        <3>1. \A w, y, z : w = <<y, z>> /\ Goal(y) = {z} => w[2] \in Goal(w[1])
            OBVIOUS
        <3>2. W[1][2] \in Goal(W[1][1])
            BY <3>1, <2>2, <2>3, Zenon
        <3>3. W[2][2] \in Goal(W[2][1])
            BY <3>1, <2>2, <2>3, Zenon
        <3>4. W[3][2] \in Goal(W[3][1])
            BY <3>1, <2>2, <2>3, Zenon
        <3>5. W[4][2] \in Goal(W[4][1])
            BY <3>1, <2>2, <2>3, Zenon
        <3>6. W[5][2] \in Goal(W[5][1])
            BY <3>1, <2>2, <2>3, Zenon
        <3> QED
            BY <3>2, <3>3, <3>4, <3>5, <3>6, <2>2, <2>4
    <2>6. \A s \in Sectors : Goal(s) = Contents \/ \E i \in DOMAIN W : W[i][1] = s
        <3> SUFFICES ASSUME NEW s \in {0, 1, 2, LastLba - 1, LastLba}
                     PROVE  \E i \in 1 .. 5 : W[i][1] = s
            BY <2>2, <2>3
        <3>1. /\ W[1][1] = LastLba - 1 /\ W[2][1] = LastLba /\ W[3][1] = 2
              /\ W[4][1] = 1 /\ W[5][1] = 0
            BY <2>2
        <3>2. 1 \in 1 .. 5 /\ 2 \in 1 .. 5 /\ 3 \in 1 .. 5 /\ 4 \in 1 .. 5 /\ 5 \in 1 .. 5
            OBVIOUS
        <3> QED
            BY <3>1, <3>2
    <2> QED
        BY <1>1, <2>1, <2>5, <2>6
<1>2. CASE new.kind = "mbr"
    <2> DEFINE W == Writes(new)
               vs == new.logical
               n == Len(vs)
    <2>1. /\ n \in Nat /\ DOMAIN W = 1 .. n + 1 /\ W[n + 1] = <<0, BootRecord(new.entries)>>
          /\ \A k \in 1 .. n : /\ n - k + 1 \in 1 .. n
                               /\ W[k] = <<vs[n - k + 1].at, RecordAt(new, n - k + 1)>>
        BY <1>2, ChainWrites
    <2>2. DOMAIN vs = 1 .. n
        BY LayoutFacts
    <2>3. \A k \in 1 .. n : vs[k].at \in 1 .. LastLba
        BY <1>2, <2>2, ChainFacts
    <2>4. Goal(0) = {BootRecord(new.entries)}
        BY <1>2 DEF Goal
    <2>5. \A k \in 1 .. n : RecordAt(new, k) \in Goal(vs[k].at)
        <3> TAKE k \in 1 .. n
        <3>1. vs[k].at # 0 /\ vs[k].at \in Ats(new)
            BY <2>2, <2>3, LayoutAssumption DEF Ats
        <3>2. k \in {j \in DOMAIN vs : vs[j].at = vs[k].at}
            BY <2>2
        <3>3. Goal(vs[k].at) = {RecordAt(new, j) : j \in {j \in DOMAIN vs : vs[j].at = vs[k].at}}
            BY <3>1, <1>2 DEF Goal
        <3> QED
            BY <3>2, <3>3
    <2> HIDE DEF W, n
    <2>6. \A i \in 1 .. n + 1 : i = n + 1 \/ i \in 1 .. n
        BY <2>1
    <2>7. \A i \in DOMAIN W : W[i][2] \in Goal(W[i][1])
        <3> TAKE i \in DOMAIN W
        <3>1. CASE i = n + 1
            BY <3>1, <2>1, <2>4
        <3>2. CASE i \in 1 .. n
            <4>1. W[i][1] = vs[n - i + 1].at /\ W[i][2] = RecordAt(new, n - i + 1)
                BY <3>2, <2>1
            <4>2. n - i + 1 \in 1 .. n
                BY <3>2, <2>1
            <4> QED
                BY <4>1, <4>2, <2>5
        <3> QED
            BY <3>1, <3>2, <2>1, <2>6
    <2>8. ASSUME NEW s \in Sectors
          PROVE  \/ s \notin {1, LastLba} /\ Goal(s) = Contents
                 \/ s \in {1, LastLba} /\ Goal(s) = Contents \ Headers
                 \/ \E i \in DOMAIN W : W[i][1] = s
        <3>1. CASE s = 0
            <4>1. n + 1 \in DOMAIN W /\ W[n + 1][1] = 0
                BY <2>1
            <4> QED
                BY <4>1, <3>1
        <3>2. CASE s \in Ats(new)
            <4>1. PICK k \in 1 .. n : vs[k].at = s
                BY <3>2, <2>2 DEF Ats
            <4>2. n - k + 1 \in 1 .. n /\ n - (n - k + 1) + 1 = k
                BY <2>1
            <4>3. n - k + 1 \in DOMAIN W
                BY <4>2, <2>1
            <4>4. W[n - k + 1] = <<vs[k].at, RecordAt(new, k)>>
                BY <4>2, <2>1
            <4> QED
                BY <4>1, <4>3, <4>4
        <3>3. CASE s # 0 /\ s \notin Ats(new)
            BY <3>3, <1>2 DEF Goal
        <3> QED
            BY <3>1, <3>2, <3>3
    <2> QED
        BY <1>2, <2>7, <2>8 DEF W
<1>3. CASE new.kind = "none"
    <2>1. Writes(new) = <<>>
        BY <1>3 DEF Writes
    <2> QED
        BY <2>1, <1>3
<1>4. new.kind \in {"gpt", "mbr", "none"}
    BY LayoutFacts
<1> QED
    BY <1>1, <1>2, <1>3, <1>4

(* The last of the writes to a sector stands.                              *)
LEMMA WrittenAt ==
    ASSUME NEW base, NEW T, NEW ws \in Seq(T), NEW s \in DOMAIN base
    PROVE  \/ AfterWrites(base, ws)[s] = base[s] /\ \A k \in DOMAIN ws : ws[k][1] # s
           \/ \E k \in DOMAIN ws : ws[k][1] = s /\ AfterWrites(base, ws)[s] = ws[k][2]
<1> DEFINE lastOf(k) == \A j \in DOMAIN ws : ws[j][1] = ws[k][1] => j <= k
           r == [x \in DOMAIN base |->
                   IF \E k \in DOMAIN ws : ws[k][1] = x
                   THEN ws[CHOOSE k \in DOMAIN ws : ws[k][1] = x /\ lastOf(k)][2] ELSE base[x]]
<1>1. AfterWrites(base, ws) = r
    BY DEF AfterWrites
<1>2. ASSUME NEW m \in DOMAIN ws, ws[m][1] = s
      PROVE  \E k \in DOMAIN ws : ws[k][1] = s /\ lastOf(k)
    <2> DEFINE n == Len(ws)
               N == {a \in Nat : \E k \in DOMAIN ws : ws[k][1] = s /\ a = n - k}
    <2>1. n \in Nat /\ DOMAIN ws = 1 .. n
        OBVIOUS
    <2>2. N \in SUBSET Nat /\ n - m \in N
        BY <2>1, <1>2
    <2> HIDE DEF N
    <2>3. PICK a \in N : \A b \in N : a <= b
        BY <2>2, LeastNumber
    <2>4. PICK k \in DOMAIN ws : ws[k][1] = s /\ a = n - k
        BY <2>3 DEF N
    <2>5. ASSUME NEW j \in DOMAIN ws, ws[j][1] = s PROVE j <= k
        <3>1. n - j \in N
            BY <2>5, <2>1 DEF N
        <3>2. n - k <= n - j
            BY <3>1, <2>3, <2>4
        <3> QED
            BY <3>2, <2>1
    <2> QED
        BY <2>4, <2>5
<1>3. \/ r[s] = base[s] /\ \A k \in DOMAIN ws : ws[k][1] # s
      \/ \E k \in DOMAIN ws : ws[k][1] = s /\ r[s] = ws[k][2]
    <2>1. CASE \E k \in DOMAIN ws : ws[k][1] = s
        <3> DEFINE Q(k) == ws[k][1] = s /\ lastOf(k)
                   c == CHOOSE k \in DOMAIN ws : Q(k)
        <3>1. \E k \in DOMAIN ws : Q(k)
            BY <2>1, <1>2
        <3>2. c \in DOMAIN ws /\ Q(c)
            <4> HIDE DEF Q
            <4> QED
                BY <3>1
        <3>3. r[s] = ws[c][2]
            BY <2>1
        <3> HIDE DEF r, c
        <3> QED
            BY <3>2, <3>3
    <2>2. CASE ~\E k \in DOMAIN ws : ws[k][1] = s
        BY <2>2
    <2> QED
        BY <2>1, <2>2
<1> HIDE DEF r
<1> QED
    BY <1>1, <1>3

LEMMA Joined ==
    ASSUME NEW K, NEW s \in Seq(K), NEW t \in Seq(K)
    PROVE  /\ s \o t \in Seq(K) /\ Len(s) \in Nat
           /\ \A i \in DOMAIN s : i \in DOMAIN (s \o t) /\ (s \o t)[i] = s[i] /\ i <= Len(s)
           /\ \A i \in DOMAIN t : Len(s) + i \in DOMAIN (s \o t) /\ (s \o t)[Len(s) + i] = t[i]
                                  /\ Len(s) + i > Len(s)
           /\ \A i \in DOMAIN (s \o t) : \/ i \in DOMAIN s /\ (s \o t)[i] = s[i]
                                         \/ \E j \in DOMAIN t : (s \o t)[i] = t[j]
<1> DEFINE r == s \o t
<1>1. /\ r \in Seq(K) /\ DOMAIN r = 1 .. Len(s) + Len(t) /\ Len(s) \in Nat /\ Len(t) \in Nat
      /\ DOMAIN s = 1 .. Len(s) /\ DOMAIN t = 1 .. Len(t)
      /\ \A j \in 1 .. Len(s) + Len(t) : r[j] = IF j <= Len(s) THEN s[j] ELSE t[j - Len(s)]
    OBVIOUS
<1> HIDE DEF r
<1>2. ASSUME NEW i \in DOMAIN s PROVE i \in DOMAIN r /\ r[i] = s[i] /\ i <= Len(s)
    BY <1>1
<1>3. ASSUME NEW i \in DOMAIN t
      PROVE  Len(s) + i \in DOMAIN r /\ r[Len(s) + i] = t[i] /\ Len(s) + i > Len(s)
    <2>1. Len(s) + i > Len(s) /\ Len(s) + i - Len(s) = i /\ Len(s) + i \in 1 .. Len(s) + Len(t)
        BY <1>1
    <2> QED
        BY <2>1, <1>1
<1>4. ASSUME NEW i \in DOMAIN r
      PROVE  (i \in DOMAIN s /\ r[i] = s[i]) \/ \E j \in DOMAIN t : r[i] = t[j]
    <2>1. CASE i <= Len(s)
        BY <2>1, <1>1
    <2>2. CASE ~(i <= Len(s))
        <3>1. i - Len(s) \in DOMAIN t
            BY <2>2, <1>1
        <3> QED
            BY <3>1, <2>2, <1>1
    <2> QED
        BY <2>1, <2>2
<1> QED
    BY <1>1, <1>2, <1>3, <1>4 DEF r

(* The disk as it was partitioned first, and what the tool is to write.    *)
LEMMA DiskInit ==
    ASSUME ImageInit
    PROVE  DiskOK /\ Underway
<1> DEFINE base == [s \in Sectors |-> IF s \in VolumesOf(old) THEN Volume ELSE Empty]
           W == Writes(old)
<1>1. /\ old \in Layouts /\ new \in Layouts /\ (new.kind = "none" => old = new)
      /\ last \in {LastLba, LastLba + 1} /\ unreadable = {} /\ damaged = {}
      /\ image = AfterWrites(base, W)
    BY DEF ImageInit, Sectors
<1>2. base \in [Sectors -> Contents]
    BY DEF Contents
<1>3. W \in Seq((0 .. LastLba) \X Contents)
    BY <1>1, WritesFacts
<1>4. W \in Seq(Sectors \X Contents)
    <2>1. (0 .. LastLba) \X Contents \subseteq Sectors \X Contents
        BY LayoutAssumption DEF Sectors
    <2>2. \A S, T : S \subseteq T => \A q \in Seq(S) : q \in Seq(T)
        OBVIOUS
    <2> QED
        BY <1>3, <2>1, <2>2
<1>5. /\ DOMAIN image = Sectors
      /\ \A s \in Sectors : \/ image[s] = base[s] /\ \A k \in DOMAIN W : W[k][1] # s
                            \/ \E k \in DOMAIN W : W[k][1] = s /\ image[s] = W[k][2]
    <2>1. DOMAIN base = Sectors
        OBVIOUS
    <2> HIDE DEF base, W
    <2>2. DOMAIN AfterWrites(base, W) = Sectors
        BY <2>1 DEF AfterWrites
    <2>3. ASSUME NEW s \in Sectors
          PROVE  \/ image[s] = base[s] /\ \A k \in DOMAIN W : W[k][1] # s
                 \/ \E k \in DOMAIN W : W[k][1] = s /\ image[s] = W[k][2]
        <3>1. s \in DOMAIN base
            BY <2>1
        <3> QED
            BY <3>1, <1>1, <1>4, WrittenAt
    <2> QED
        BY <1>1, <2>2, <2>3
<1>6. \A s \in Sectors : base[s] = Empty \/ base[s] = Volume
    OBVIOUS
<1>7. \A k \in DOMAIN W : W[k][1] \in 0 .. LastLba /\ W[k][2] \in Contents
    <2> HIDE DEF W
    <2> QED
        BY <1>3
<1>8. Empty \in Contents /\ Volume \in Contents
    BY DEF Contents
<1>9. image \in [Sectors -> Contents]
    <2> HIDE DEF base, W
    <2>1. \A s \in Sectors : image[s] \in Contents
        BY <1>5, <1>6, <1>7, <1>8
    <2>2. image = [s \in Sectors |-> image[s]]
        <3>1. image = [s \in DOMAIN image |-> image[s]]
            BY <1>1 DEF AfterWrites
        <3> QED
            BY <3>1, <1>5
    <2> QED
        BY <2>1, <2>2
<1>10. image[LastLba + 1] \notin Headers
    <2>1. LastLba + 1 \in Sectors /\ LastLba + 1 \notin 0 .. LastLba
        BY LayoutAssumption DEF Sectors
    <2> HIDE DEF base, W
    <2>2. image[LastLba + 1] = base[LastLba + 1]
        BY <2>1, <1>5, <1>7
    <2> QED
        BY <2>1, <2>2, <1>6, NoHeaders
<1>11. old.kind # "gpt" => \A s \in Sectors : image[s] \notin Headers
    <2> SUFFICES ASSUME old.kind # "gpt", NEW s \in Sectors PROVE image[s] \notin Headers
        OBVIOUS
    <2>1. CASE image[s] = base[s]
        BY <2>1, <1>6, NoHeaders
    <2>2. CASE \E k \in DOMAIN W : W[k][1] = s /\ image[s] = W[k][2]
        <3>1. PICK k \in DOMAIN W : image[s] = W[k][2]
            BY <2>2
        <3>2. CASE old.kind = "mbr"
            <4> DEFINE n == Len(old.logical)
            <4>1. /\ n \in Nat /\ DOMAIN W = 1 .. n + 1 /\ W[n + 1] = <<0, BootRecord(old.entries)>>
                  /\ \A j \in 1 .. n : /\ n - j + 1 \in 1 .. n
                               /\ W[j] = <<old.logical[n - j + 1].at, RecordAt(old, n - j + 1)>>
                BY <1>1, <3>2, ChainWrites
            <4>2. \A j \in 1 .. n : RecordAt(old, j).kind = "mbr"
                <5>1. DOMAIN old.logical = 1 .. n
                    BY <1>1, LayoutFacts
                <5> QED
                    BY <5>1, <1>1, <3>2, ChainFacts
            <4>3. \A h \in Headers : h.kind = "gptHeader"
                BY DEF Headers, Header
            <4> HIDE DEF n, W
            <4>4. CASE k = n + 1
                BY <4>1, <4>4, <3>1, NoHeaders
            <4>5. CASE k \in 1 .. n
                <5>1. W[k][2] = RecordAt(old, n - k + 1) /\ n - k + 1 \in 1 .. n
                    BY <4>1, <4>5
                <5> QED
                    BY <5>1, <4>2, <4>3, <3>1
            <4> QED
                BY <4>1, <4>4, <4>5
        <3>3. CASE old.kind = "none"
            BY <3>1, <3>3 DEF Writes
        <3> QED
            BY <1>1, <3>2, <3>3, LayoutFacts
    <2> QED
        BY <2>1, <2>2, <1>5
<1> HIDE DEF base
<1>12. CASE old = new
    <2>1. pending = <<>>
        BY <1>12 DEF ImageInit
    <2>2. ASSUME NEW s \in Sectors PROVE image[s] \in Goal(s)
        <3>1. CASE \E k \in DOMAIN W : W[k][1] = s /\ image[s] = W[k][2]
            BY <3>1, <1>1, <1>12, NewGoal
        <3>2. CASE image[s] = base[s] /\ \A k \in DOMAIN W : W[k][1] # s
            <4>1. image[s] \in Contents /\ image[s] \notin Headers
                BY <3>2, <1>6, <1>8, NoHeaders
            <4>2. CASE new.kind = "gpt"
                BY <4>1, <4>2, <3>2, <1>1, <1>12, NewGoal
            <4>3. CASE new.kind = "mbr"
                <5>1. \/ Goal(s) = Contents \/ Goal(s) = Contents \ Headers
                      \/ \E i \in DOMAIN W : W[i][1] = s
                    BY <4>3, <1>1, <1>12, NewGoal
                <5> QED
                    BY <5>1, <4>1, <3>2
            <4>4. CASE new.kind = "none"
                <5>1. VolumesOf(old) = {0}
                    BY <4>4, <1>12 DEF VolumesOf
                <5>2. image[s] = IF s = 0 THEN Volume ELSE Empty
                    BY <5>1, <3>2 DEF base
                <5>3. Goal(s) = IF s = 0 THEN {Volume} ELSE {Empty}
                    BY <4>4 DEF Goal
                <5> QED
                    BY <5>2, <5>3
            <4> QED
                BY <1>1, <4>2, <4>3, <4>4, LayoutFacts
        <3> QED
            BY <3>1, <3>2, <1>5
    <2>3. pending \in Seq((0 .. LastLba) \X Contents) /\ DOMAIN pending = {}
        BY <2>1
    <2> QED
        BY <1>1, <1>9, <1>10, <2>2, <2>3 DEF DiskOK, Underway
<1>13. CASE old # new
    <2> DEFINE V == Writes(new)
               C == IF new.kind = "gpt" THEN <<>> ELSE Clearing(old)
    <2>1. pending = C \o V
        BY <1>13 DEF ImageInit
    <2>2. V \in Seq((0 .. LastLba) \X Contents)
        BY <1>1, WritesFacts
    <2>3. /\ C \in Seq((0 .. LastLba) \X {Empty}) /\ \A i \in DOMAIN C : C[i][2] = Empty /\ C[i][1] \in {1, LastLba}
          /\ new.kind = "gpt" => C = <<>>
          /\ new.kind = "mbr" /\ old.kind = "gpt" =>
                 /\ \E i \in DOMAIN C : C[i][1] = 1
                 /\ \E i \in DOMAIN C : C[i][1] = LastLba
        <3> DEFINE a == <<1, Empty>>
                   b == <<LastLba, Empty>>
        <3>1. C = <<>> \/ C = <<a, b>>
            BY DEF Clearing
        <3>2. new.kind = "mbr" /\ old.kind = "gpt" => C = <<a, b>>
            BY DEF Clearing
        <3>3. a \in (0 .. LastLba) \X {Empty} /\ b \in (0 .. LastLba) \X {Empty}
            BY LayoutAssumption
        <3>4. a[1] = 1 /\ b[1] = LastLba /\ a[2] = Empty /\ b[2] = Empty
            OBVIOUS
        <3>5. new.kind = "gpt" => C = <<>>
            OBVIOUS
        <3> HIDE DEF a, b, C
        <3>6. \A S : \A x, y \in S : /\ <<x, y>> \in Seq(S) /\ DOMAIN <<x, y>> = {1, 2}
                                     /\ <<x, y>>[1] = x /\ <<x, y>>[2] = y
            OBVIOUS
        <3>7. CASE C = <<>>
            BY <3>2, <3>7
        <3>8. CASE C = <<a, b>>
            <4>1. /\ C \in Seq((0 .. LastLba) \X {Empty}) /\ DOMAIN C = {1, 2} /\ C[1] = a /\ C[2] = b
                BY <3>8, <3>3, <3>6
            <4> QED
                BY <4>1, <3>4, <3>5
        <3> QED
            BY <3>1, <3>7, <3>8
    <2> HIDE DEF V, C
    <2>4. C \in Seq((0 .. LastLba) \X Contents)
        <3>1. (0 .. LastLba) \X {Empty} \subseteq (0 .. LastLba) \X Contents
            BY <1>8
        <3>2. \A S, T : S \subseteq T => \A q \in Seq(S) : q \in Seq(T)
            OBVIOUS
        <3> QED
            BY <2>3, <3>1, <3>2
    <2> DEFINE K == (0 .. LastLba) \X Contents
    <2> HIDE DEF K
    <2>5. /\ pending \in Seq(K) /\ Len(C) \in Nat
          /\ \A i \in DOMAIN C : i \in DOMAIN pending /\ pending[i] = C[i] /\ i <= Len(C)
          /\ \A i \in DOMAIN V : Len(C) + i \in DOMAIN pending /\ pending[Len(C) + i] = V[i] /\ Len(C) + i > Len(C)
          /\ \A i \in DOMAIN pending : \/ i \in DOMAIN C /\ pending[i] = C[i]
                                       \/ \E j \in DOMAIN V : pending[i] = V[j]
        BY <2>1, <2>2, <2>4, Joined DEF K
    <2>6. ASSUME NEW s \in Sectors
          PROVE  image[s] \in Goal(s) \/ \E i \in DOMAIN pending : pending[i][1] = s
        <3>1. CASE \E i \in DOMAIN V : V[i][1] = s
            BY <3>1, <2>5
        <3>2. CASE \E i \in DOMAIN C : C[i][1] = s
            BY <3>2, <2>5
        <3>3. CASE /\ \A i \in DOMAIN V : V[i][1] # s
                   /\ \A i \in DOMAIN C : C[i][1] # s
            <4>1. image[s] \in Contents
                BY <1>9
            <4>2. CASE new.kind = "gpt"
                BY <4>1, <4>2, <3>3, <1>1, NewGoal DEF V
            <4>3. CASE new.kind = "mbr"
                <5>1. \/ s \notin {1, LastLba} /\ Goal(s) = Contents
                      \/ s \in {1, LastLba} /\ Goal(s) = Contents \ Headers
                    BY <4>3, <3>3, <1>1, NewGoal DEF V
                <5>2. s \in {1, LastLba} => old.kind # "gpt"
                    BY <4>3, <2>3, <3>3
                <5> QED
                    BY <5>1, <5>2, <4>1, <1>11
            <4>4. new.kind # "none"
                BY <1>1, <1>13
            <4> QED
                BY <1>1, <4>2, <4>3, <4>4, LayoutFacts
        <3> QED
            BY <3>1, <3>2, <3>3
    <2>7. ASSUME NEW i \in DOMAIN pending
          PROVE  \/ pending[i][2] \in Goal(pending[i][1])
                 \/ \E j \in DOMAIN pending : i < j /\ pending[j][1] = pending[i][1]
        <3>1. CASE \E j \in DOMAIN V : pending[i] = V[j]
            BY <3>1, <1>1, NewGoal DEF V
        <3>2. CASE i \in DOMAIN C /\ pending[i] = C[i]
            <4> DEFINE s == C[i][1]
            <4>1. s \in {1, LastLba} /\ C[i][2] = Empty /\ s \in Sectors
                BY <3>2, <2>3, LayoutAssumption DEF Sectors
            <4>2. new.kind = "mbr"
                <5>1. new.kind # "none" /\ new.kind # "gpt"
                    BY <1>1, <1>13, <2>3, <3>2
                <5> QED
                    BY <5>1, <1>1, LayoutFacts
            <4>3. CASE \E j \in DOMAIN V : V[j][1] = s
                <5>1. PICK j \in DOMAIN V : V[j][1] = s
                    BY <4>3
                <5>2. Len(C) + j \in DOMAIN pending /\ pending[Len(C) + j][1] = pending[i][1]
                    BY <5>1, <2>5, <3>2
                <5>3. i < Len(C) + j
                    <6>1. i <= Len(C) /\ Len(C) + j > Len(C) /\ i \in Nat /\ j \in Nat /\ Len(C) \in Nat
                        BY <3>2, <5>1, <2>5, <2>2, <2>4
                    <6> QED
                        BY <6>1
                <5> QED
                    BY <5>2, <5>3
            <4>4. CASE \A j \in DOMAIN V : V[j][1] # s
                <5>1. Goal(s) = Contents \ Headers
                    BY <4>1, <4>2, <4>4, <1>1, NewGoal DEF V
                <5>2. Empty \in Goal(s)
                    BY <5>1, <1>8, NoHeaders
                <5> QED
                    BY <5>2, <4>1, <3>2
            <4> QED
                BY <4>3, <4>4
        <3> QED
            BY <3>1, <3>2, <2>5
    <2>8. pending \in Seq((0 .. LastLba) \X Contents)
        BY <2>5 DEF K
    <2> QED
        BY <1>1, <1>9, <1>10, <2>6, <2>7, <2>8 DEF DiskOK, Underway
<1> QED
    BY <1>12, <1>13

LEMMA ToolKeeps ==
    ASSUME DiskOK, Underway, ToolWrites
    PROVE  DiskOK' /\ Underway'
<1> DEFINE h == Head(pending)
           n == Len(pending)
           K == (0 .. LastLba) \X Contents
<1>1. /\ pending \in Seq(K) /\ pending # <<>> /\ image' = [image EXCEPT ![h[1]] = h[2]]
      /\ pending' = Tail(pending) /\ UNCHANGED <<old, new, last, unreadable, damaged>>
    BY DEF DiskOK, ToolWrites, Write
<1> HIDE DEF K
<1>2. /\ n \in Nat /\ n > 0 /\ DOMAIN pending = 1 .. n /\ h = pending[1] /\ h \in K
      /\ pending' \in Seq(K) /\ DOMAIN pending' = 1 .. n - 1
      /\ \A i \in 1 .. n - 1 : pending'[i] = pending[i + 1]
    BY <1>1
<1> HIDE DEF h, n
<1>3. h[1] \in 0 .. LastLba /\ h[2] \in Contents /\ h[1] \in Sectors /\ h[1] # LastLba + 1
    BY <1>2, LayoutAssumption DEF K, Sectors
<1>4. image \in [Sectors -> Contents] /\ image[LastLba + 1] \notin Headers
    BY DEF DiskOK
<1>5. /\ image' \in [Sectors -> Contents] /\ image'[h[1]] = h[2]
      /\ \A s \in Sectors : s # h[1] => image'[s] = image[s]
    BY <1>1, <1>3, <1>4
<1>6. /\ Headers' = Headers /\ Contents' = Contents /\ \A s : Goal(s)' = Goal(s)
    BY <1>1 DEF Headers, Contents, Tables, GptLayouts, Goal, Ats, RecordAt, EbrChain, Header, Table,
                Sectors
<1>7. image'[LastLba + 1] \notin Headers
    <2>1. LastLba + 1 \in Sectors
        BY LayoutAssumption DEF Sectors
    <2> QED
        BY <2>1, <1>3, <1>4, <1>5
<1>8. DiskOK'
    <2>1. pending' \in Seq((0 .. LastLba) \X Contents)
        BY <1>2 DEF K
    <2> QED
        BY <2>1, <1>1, <1>5, <1>6, <1>7 DEF DiskOK
<1>9. ASSUME NEW s \in Sectors, NEW i \in DOMAIN pending, i # 1, pending[i][1] = s
      PROVE  i - 1 \in DOMAIN pending' /\ pending'[i - 1][1] = s
    <2>1. i - 1 \in 1 .. n - 1 /\ (i - 1) + 1 = i
        BY <1>9, <1>2
    <2> QED
        BY <2>1, <1>2, <1>9
<1>10. ASSUME NEW s \in Sectors
       PROVE  image'[s] \in Goal(s) \/ \E i \in DOMAIN pending' : pending'[i][1] = s
    <2>1. CASE s = h[1]
        <3>1. 1 \in DOMAIN pending /\ \A j \in DOMAIN pending : 1 < j => j # 1
            BY <1>2
        <3>2. \/ h[2] \in Goal(h[1])
              \/ \E j \in DOMAIN pending : 1 < j /\ pending[j][1] = h[1]
            BY <3>1, <1>2 DEF Underway
        <3> QED
            BY <3>1, <3>2, <2>1, <1>5, <1>9
    <2>2. CASE s # h[1]
        <3>1. image[s] \in Goal(s) \/ \E i \in DOMAIN pending : pending[i][1] = s
            BY DEF Underway
        <3> QED
            BY <3>1, <2>2, <1>2, <1>5, <1>9
    <2> QED
        BY <2>1, <2>2
<1>11. ASSUME NEW i \in DOMAIN pending'
       PROVE  \/ pending'[i][2] \in Goal(pending'[i][1])
              \/ \E j \in DOMAIN pending' : i < j /\ pending'[j][1] = pending'[i][1]
    <2>1. i \in 1 .. n - 1 /\ i + 1 \in 1 .. n /\ pending'[i] = pending[i + 1]
        BY <1>2
    <2>2. CASE pending[i + 1][2] \in Goal(pending[i + 1][1])
        BY <2>1, <2>2
    <2>3. CASE \E j \in DOMAIN pending : i + 1 < j /\ pending[j][1] = pending[i + 1][1]
        <3>1. PICK j \in 1 .. n : i + 1 < j /\ pending[j][1] = pending[i + 1][1]
            BY <2>3, <1>2
        <3>2. j - 1 \in 1 .. n - 1 /\ i < j - 1 /\ (j - 1) + 1 = j
            BY <3>1, <2>1, <1>2
        <3>3. pending'[j - 1] = pending[j]
            BY <3>2, <1>2
        <3> QED
            BY <3>1, <3>2, <3>3, <2>1, <1>2
    <2> QED
        BY <2>1, <2>2, <2>3, <1>2 DEF Underway
<1>12. Underway'
    <2>1. damaged' = {}
        BY <1>1 DEF Underway
    <2> QED
        BY <2>1, <1>6, <1>10, <1>11 DEF Underway
<1> QED
    BY <1>8, <1>12

LEMMA ImageTaken ==
    ASSUME DiskOK, Underway, TakeImage
    PROVE  DiskOK' /\ Finished'
<1>1. PICK lost \in SUBSET Sectors, garbled \in SUBSET Sectors :
          /\ unreadable' = lost /\ damaged' = lost \cup garbled /\ lost \cap garbled = {}
          /\ image' = [s \in DOMAIN image |-> IF s \in garbled THEN Garbage ELSE image[s]]
          /\ \A s \in lost : image[s] # Empty
    <2>1. 0 .. last \subseteq Sectors
        BY LayoutAssumption DEF DiskOK, Sectors
    <2>2. PICK lost, garbled \in SUBSET {s \in 0 .. last : image[s] # Empty} :
          /\ unreadable' = lost /\ damaged' = lost \cup garbled /\ lost \cap garbled = {}
          /\ image' = [s \in DOMAIN image |-> IF s \in garbled THEN Garbage ELSE image[s]]
        BY DEF TakeImage
    <2>3. /\ lost \in SUBSET Sectors /\ garbled \in SUBSET Sectors
          /\ \A s \in lost : image[s] # Empty
        BY <2>1, <2>2
    <2> QED
        BY <2>2, <2>3
<1>2. UNCHANGED <<old, new, pending, last>>
    BY DEF TakeImage
<1>3. image \in [Sectors -> Contents] /\ image[LastLba + 1] \notin Headers
    BY DEF DiskOK
<1>4. Garbage \in Contents
    BY DEF Contents
<1>5. /\ image' \in [Sectors -> Contents]
      /\ \A s \in Sectors : image'[s] = IF s \in garbled THEN Garbage ELSE image[s]
    BY <1>1, <1>3, <1>4
<1>6. /\ Headers' = Headers /\ Contents' = Contents /\ \A s : Goal(s)' = Goal(s)
    BY <1>2 DEF Headers, Contents, Tables, GptLayouts, Goal, Ats, RecordAt, EbrChain, Header, Table,
                Sectors
<1>7. image'[LastLba + 1] \notin Headers
    <2>1. LastLba + 1 \in Sectors
        BY LayoutAssumption DEF Sectors
    <2> QED
        BY <2>1, <1>3, <1>5, NoHeaders
<1>8. DiskOK'
    BY <1>1, <1>2, <1>5, <1>6, <1>7 DEF DiskOK
<1>9. Finished'
    <2> SUFFICES ASSUME pending = <<>>, NEW s \in Sectors
                 PROVE  \/ image'[s] \in Goal(s) /\ (s \in unreadable' => image'[s] # Empty)
                        \/ s \in damaged' /\ s \notin unreadable' /\ image'[s] = Garbage
        BY <1>2, <1>6 DEF Finished
    <2>1. image[s] \in Goal(s)
        BY DEF Underway
    <2> QED
        BY <2>1, <1>1, <1>5
<1> QED
    BY <1>8, <1>9

-----------------------------------------------------------------------------
(* GPT: what a header that is found says, and what its copy gives.         *)

LEMMA HeaderFields ==
    ASSUME NEW l, NEW primary \in BOOLEAN
    PROVE  LET h == Header(l, primary)
           IN  /\ h.kind = "gptHeader" /\ h.guid = l.name /\ h.crc = l.entries
               /\ h.count = Len(l.entries)
               /\ h.firstUsable = 3 /\ h.lastUsable = LastLba - 2
               /\ primary => h.current = 1 /\ h.backup = LastLba /\ h.entryLba = 2
               /\ ~primary => h.current = LastLba /\ h.backup = 1 /\ h.entryLba = LastLba - 1
BY DEF Header, FirstUsable, LastUsable

LEMMA GptLayoutFacts ==
    ASSUME DiskOK, NEW l \in GptLayouts
    PROVE  /\ l \in Layouts /\ l.kind = "gpt" /\ GptLayout(l) /\ l.entries \in Seq(PartitionEntries)
           /\ l.name \in STRING
           /\ l = [kind |-> "gpt", name |-> l.name, entries |-> l.entries, logical |-> <<>>, back |-> 0]
<1>1. l \in Layouts /\ l.kind = "gpt"
    BY DEF DiskOK, GptLayouts
<1>2. /\ l \in [kind : {"gpt", "mbr", "none"}, name : STRING, entries : Seq(PartitionEntries),
                 logical : Seq(LogicalVolumes), back : Nat]
      /\ GptLayout(l)
    BY <1>1, LayoutFacts
<1>3. l.logical = <<>> /\ l.back = 0
    BY <1>2 DEF GptLayout
<1> QED
    BY <1>1, <1>2, <1>3

LEMMA LastFacts ==
    ASSUME DiskOK
    PROVE  /\ LastLba \in Nat /\ LastLba >= 8 /\ last \in Nat /\ last >= LastLba /\ last \in Sectors
           /\ (last = LastLba \/ last = LastLba + 1) /\ 1 \in Sectors /\ 0 \in Sectors /\ 2 \in Sectors
           /\ LastLba \in Sectors /\ LastLba - 1 \in Sectors
BY LayoutAssumption DEF DiskOK, Sectors

Place(primary) == IF primary THEN 1 ELSE last

LEMMA HeaderHere ==
    ASSUME DiskOK, NEW primary \in BOOLEAN,
           ReadValidatedHeader(Place(primary), primary).failure = "none"
    PROVE  /\ last = LastLba /\ Place(primary) \notin unreadable
           /\ \E l \in GptLayouts :
                 /\ image[Place(primary)] = Header(l, primary)
                 /\ ReadValidatedHeader(Place(primary), primary) = Found(Header(l, primary))
<1> DEFINE lba == Place(primary)
           h == image[lba]
<1>1. lba \in Sectors /\ h \in Contents
    BY LastFacts DEF DiskOK, Place
<1>2. /\ lba \notin unreadable /\ h.kind = "gptHeader" /\ h.current = lba
      /\ ValidateHeaderTopology(h, primary) /\ ReadValidatedHeader(lba, primary) = Found(h)
    <2>1. \A why \in {"read", "notRecognized", "corrupt"} : NoHeader(why).failure # "none"
        BY DEF NoHeader
    <2> HIDE DEF lba
    <2>2. ReadValidatedHeader(lba, primary).failure = "none"
        BY DEF lba
    <2> QED
        BY <2>1, <2>2 DEF ReadValidatedHeader
<1> HIDE DEF h, lba
<1>3. h \in Headers
    BY <1>1, <1>2, ContentKinds
<1>4. PICK l \in GptLayouts, p \in BOOLEAN : h = Header(l, p)
    BY <1>3 DEF Headers
<1>5. h.backup = IF primary THEN last ELSE 1
    BY <1>2 DEF ValidateHeaderTopology
<1>6. /\ p => h.current = 1 /\ h.backup = LastLba
      /\ ~p => h.current = LastLba /\ h.backup = 1
    BY <1>4, HeaderFields
<1>7. lba = IF primary THEN 1 ELSE last
    BY DEF lba, Place
<1>8. p = primary /\ last = LastLba
    BY <1>2, <1>5, <1>6, <1>7, LastFacts
<1>9. h = Header(l, primary)
    BY <1>4, <1>8
<1> QED
    BY <1>2, <1>8, <1>9 DEF h, lba

LEMMA HeaderIsFound ==
    ASSUME DiskOK, NEW primary \in BOOLEAN, NEW l, last = LastLba,
           Place(primary) \notin unreadable, image[Place(primary)] = Header(l, primary)
    PROVE  ReadValidatedHeader(Place(primary), primary) = Found(Header(l, primary))
<1> DEFINE lba == Place(primary)
           h == Header(l, primary)
<1>1. lba = IF primary THEN 1 ELSE last
    BY DEF Place
<1>2. h.kind = "gptHeader" /\ h.current = lba
    BY <1>1, HeaderFields
<1>3. ValidateHeaderTopology(h, primary)
    <2>1. h.backup = (IF primary THEN last ELSE 1) /\ h.firstUsable = 3 /\ h.lastUsable = LastLba - 2
        BY HeaderFields
    <2> HIDE DEF h
    <2> QED
        BY <2>1, LastFacts DEF ValidateHeaderTopology
<1>4. image[lba] = h /\ lba \notin unreadable
    OBVIOUS
<1> HIDE DEF h, lba
<1>5. ReadValidatedHeader(lba, primary) = Found(h)
    BY <1>2, <1>3, <1>4 DEF ReadValidatedHeader
<1> QED
    BY <1>5 DEF h, lba

(* The entries of a copy that are used are the volumes of its layout.      *)
LEMMA CopyHasTheVolumes ==
    ASSUME DiskOK, NEW l \in GptLayouts, NEW primary \in BOOLEAN
    PROVE  LET h == Header(l, primary) IN GptRegions(h.crc, h) = Wanted(l)
<1> DEFINE es == l.entries
           h == Header(l, primary)
           A == {e \in Range(es) : /\ e.type # "none" /\ EndOf(e) >= e.start
                                   /\ e.start >= h.firstUsable /\ EndOf(e) <= h.lastUsable
                                   /\ EndOf(e) <= last}
           B == {e \in Range(es) : /\ e.type = "plain" /\ e.sectors > 0
                                   /\ IF l.kind = "gpt" THEN e.start >= FirstUsable /\ EndOf(e) <= LastUsable
                                      ELSE EndOf(e) <= last}
<1>1. /\ l.kind = "gpt" /\ es \in Seq(PartitionEntries) /\ l.logical = <<>>
      /\ \A k \in DOMAIN es : es[k].type \in {"none", "plain"}
    BY GptLayoutFacts DEF GptLayout
<1>2. h.firstUsable = FirstUsable /\ h.lastUsable = LastUsable /\ h.crc = es
    BY HeaderFields DEF FirstUsable, LastUsable
<1>3. A = B
    <2>1. \A e \in Range(es) : e.type \in {"none", "plain"} /\ e.start \in Nat /\ e.sectors \in Nat
        <3> TAKE e \in Range(es)
        <3>1. PICK k \in DOMAIN es : e = es[k]
            BY DEF Range
        <3>2. es[k] \in PartitionEntries /\ es[k].type \in {"none", "plain"}
            BY <1>1
        <3> QED
            BY <3>1, <3>2 DEF PartitionEntries
    <2>2. LastUsable <= last /\ LastUsable \in Nat /\ FirstUsable \in Nat
        BY LastFacts DEF LastUsable, FirstUsable
    <2> HIDE DEF h, es
    <2>3. \A e \in Range(es) : e \in A <=> e \in B
        BY <1>1, <1>2, <2>1, <2>2, LastFacts DEF EndOf
    <2>4. A \subseteq Range(es) /\ B \subseteq Range(es)
        OBVIOUS
    <2> HIDE DEF A, B
    <2> QED
        BY <2>3, <2>4
<1> DEFINE used == Filter(es, B)
           rs == [k \in DOMAIN used |-> Region(used[k])]
<1>4. Wanted(l) = rs \o [k \in DOMAIN l.logical |-> Region(l.logical[k])]
    BY DEF Wanted
<1>5. GptRegions(es, h) = [k \in DOMAIN Filter(es, A) |-> Region(Filter(es, A)[k])]
    BY DEF GptRegions
<1> HIDE DEF A, B, h
<1>6. GptRegions(es, h) = rs
    BY <1>3, <1>5
<1>7. used \in Seq(PartitionEntries \cap B)
    BY <1>1, FilterKeeps
<1> HIDE DEF used
<1>8. rs \in Seq({Region(e) : e \in PartitionEntries})
    <2> DEFINE T == {Region(e) : e \in PartitionEntries}
               n == Len(used)
    <2>1. n \in Nat /\ DOMAIN used = 1 .. n /\ \A k \in 1 .. n : used[k] \in PartitionEntries
        BY <1>7
    <2>2. \A k \in 1 .. n : Region(used[k]) \in T
        BY <2>1
    <2> HIDE DEF T, n
    <2>3. rs \in [1 .. n -> T]
        BY <2>1, <2>2
    <2> HIDE DEF rs
    <2>4. rs \in Seq(T)
        BY <2>1, <2>3
    <2> QED
        BY <2>4 DEF T
<1> HIDE DEF rs
<1>9. [k \in DOMAIN l.logical |-> Region(l.logical[k])] = <<>>
    BY <1>1
<1>10. rs \o <<>> = rs
    BY <1>8
<1> QED
    BY <1>2, <1>4, <1>6, <1>9, <1>10 DEF h

LEMMA CopyIsWanted ==
    ASSUME DiskOK, NEW l \in GptLayouts, NEW primary \in BOOLEAN, last = LastLba
    PROVE  LET h == Header(l, primary)
               c == ParseGptCopy(Found(h))
           IN  /\ c.failure = "none" => c.regions = Wanted(l)
               /\ (/\ image[h.entryLba] = Table(l) /\ h.entryLba \notin unreadable
                   /\ Wanted(l) # <<>>) => c.failure = "none"
<1> DEFINE h == Header(l, primary)
           c == ParseGptCopy(Found(h))
           sector == image[h.entryLba]
<1>1. Found(h).failure = "none" /\ Found(h).header = h
    BY DEF Found
<1>2. GptRegions(h.crc, h) = Wanted(l)
    BY CopyHasTheVolumes
<1>3. \A why : NoCopy(why).failure = why
    BY DEF NoCopy
<1> HIDE DEF h
<1>4. c = IF \/ h.count \notin 1 .. MaxEntries
             \/ ~(IF h.current = 1 THEN h.entryLba > 1 /\ h.entryLba + 1 <= h.firstUsable
                  ELSE h.entryLba > h.lastUsable /\ h.entryLba + 1 <= h.current)
          THEN NoCopy("corrupt")
          ELSE IF h.entryLba \in unreadable THEN NoCopy("read")
          ELSE IF sector # [kind |-> "gptTable", entries |-> h.crc] THEN NoCopy("corrupt")
          ELSE IF GptRegions(sector.entries, h) = <<>> THEN NoCopy("notRecognized")
          ELSE [failure |-> "none", regions |-> GptRegions(sector.entries, h)]
    BY <1>1 DEF ParseGptCopy
<1>5. sector = [kind |-> "gptTable", entries |-> h.crc] => sector.entries = h.crc
    <2> HIDE DEF sector
    <2>1. [kind |-> "gptTable", entries |-> h.crc].entries = h.crc
        OBVIOUS
    <2> QED
        BY <2>1, Zenon
<1>6. c.failure = "none" => c.regions = Wanted(l)
    <2> HIDE DEF c, sector
    <2>1. SUFFICES ASSUME c.failure = "none" PROVE c.regions = Wanted(l)
        OBVIOUS
    <2>2. /\ sector = [kind |-> "gptTable", entries |-> h.crc]
          /\ c = [failure |-> "none", regions |-> GptRegions(sector.entries, h)]
        BY <1>3, <1>4, <2>1
    <2>3. c.regions = GptRegions(sector.entries, h)
        BY <2>2
    <2> QED
        BY <1>2, <1>5, <2>2, <2>3
<1>7. /\ h.count \in 1 .. MaxEntries
      /\ IF h.current = 1 THEN h.entryLba > 1 /\ h.entryLba + 1 <= h.firstUsable
         ELSE h.entryLba > h.lastUsable /\ h.entryLba + 1 <= h.current
    <2>1. Len(l.entries) \in 1 .. MaxEntries
        BY GptLayoutFacts DEF GptLayout
    <2>2. /\ h.count = Len(l.entries) /\ h.firstUsable = 3 /\ h.lastUsable = LastLba - 2
          /\ primary => h.current = 1 /\ h.backup = LastLba /\ h.entryLba = 2
          /\ ~primary => h.current = LastLba /\ h.backup = 1 /\ h.entryLba = LastLba - 1
        BY HeaderFields DEF h
    <2> QED
        BY <2>1, <2>2, LastFacts
<1>8. ASSUME sector = Table(l), h.entryLba \notin unreadable, Wanted(l) # <<>>
      PROVE  c.failure = "none"
    <2>1. sector = [kind |-> "gptTable", entries |-> h.crc]
        BY <1>8, HeaderFields DEF Table, h
    <2> HIDE DEF c, sector
    <2>2. c = [failure |-> "none", regions |-> GptRegions(sector.entries, h)]
        BY <1>2, <1>4, <1>5, <1>7, <1>8, <2>1
    <2> QED
        BY <2>2
<1> QED
    BY <1>6, <1>8 DEF h

LEMMA NoCopyFails ==
    ASSUME NEW found, found.failure # "none"
    PROVE  ParseGptCopy(found).failure # "none"
<1>1. ParseGptCopy(found) = NoCopy(found.failure)
    BY DEF ParseGptCopy
<1> QED
    BY <1>1 DEF NoCopy

LEMMA SomeFailure ==
    ASSUME NEW a, NEW b
    PROVE  NoCopy(PreferCopyFailure(a, b)).failure # "none" /\ NoCopy("corrupt").failure = "corrupt"
BY DEF NoCopy, PreferCopyFailure

(* What the table is taken from, when one is found.                        *)
LEMMA GptOutcome ==
    ASSUME DiskOK, ParseGpt.failure = "none"
    PROVE  /\ last = LastLba
           /\ \E primary \in BOOLEAN, l \in GptLayouts :
                 image[Place(primary)] = Header(l, primary) /\ ParseGpt.regions = Wanted(l)
<1> DEFINE p == ReadValidatedHeader(1, TRUE)
           b == ReadValidatedHeader(last, FALSE)
           primary == ParseGptCopy(p)
           backup  == ParseGptCopy(b)
<1>1. \/ ParseGpt = primary /\ primary.failure = "none"
      \/ ParseGpt = backup /\ backup.failure = "none"
    <2> HIDE DEF p, b, primary, backup
    <2>1. ParseGpt =
            IF p.failure = "none" /\ b.failure = "none"
            THEN IF ~HeadersAreReciprocal(p.header, b.header) THEN NoCopy("corrupt")
                 ELSE IF primary.failure = "none" THEN primary
                 ELSE IF backup.failure = "none" THEN backup
                 ELSE NoCopy(PreferCopyFailure(primary.failure, backup.failure))
            ELSE IF primary.failure = "none" THEN primary
            ELSE IF backup.failure = "none" THEN backup
            ELSE NoCopy(PreferCopyFailure(primary.failure, backup.failure))
        BY DEF ParseGpt, p, b, primary, backup
    <2> QED
        BY <2>1, SomeFailure
<1>2. Place(TRUE) = 1 /\ Place(FALSE) = last
    BY DEF Place
<1>3. ASSUME NEW q \in BOOLEAN, ParseGptCopy(ReadValidatedHeader(Place(q), q)).failure = "none"
      PROVE  /\ last = LastLba
             /\ \E l \in GptLayouts :
                   /\ image[Place(q)] = Header(l, q)
                   /\ ParseGptCopy(ReadValidatedHeader(Place(q), q)).regions = Wanted(l)
    <2>1. ReadValidatedHeader(Place(q), q).failure = "none"
        BY <1>3, NoCopyFails
    <2>2. /\ last = LastLba
          /\ \E l \in GptLayouts : /\ image[Place(q)] = Header(l, q)
                                   /\ ReadValidatedHeader(Place(q), q) = Found(Header(l, q))
        BY <2>1, HeaderHere
    <2>3. PICK l \in GptLayouts : /\ image[Place(q)] = Header(l, q)
                                 /\ ReadValidatedHeader(Place(q), q) = Found(Header(l, q))
        BY <2>2
    <2>4. ParseGptCopy(Found(Header(l, q))).failure = "none"
        BY <2>3, <1>3
    <2>5. ParseGptCopy(Found(Header(l, q))).regions = Wanted(l)
        BY <2>2, <2>4, CopyIsWanted
    <2> QED
        BY <2>2, <2>3, <2>5
<1>4. primary = ParseGptCopy(ReadValidatedHeader(Place(TRUE), TRUE))
    BY <1>2
<1>5. backup = ParseGptCopy(ReadValidatedHeader(Place(FALSE), FALSE))
    BY <1>2
<1> HIDE DEF primary, backup
<1>6. CASE ParseGpt = primary /\ primary.failure = "none"
    <2>1. /\ last = LastLba
          /\ \E l \in GptLayouts : image[Place(TRUE)] = Header(l, TRUE) /\ primary.regions = Wanted(l)
        BY <1>3, <1>4, <1>6
    <2> QED
        BY <2>1, <1>6
<1>7. CASE ParseGpt = backup /\ backup.failure = "none"
    <2>1. /\ last = LastLba
          /\ \E l \in GptLayouts : image[Place(FALSE)] = Header(l, FALSE) /\ backup.regions = Wanted(l)
        BY <1>3, <1>5, <1>7
    <2> QED
        BY <2>1, <1>7
<1> QED
    BY <1>1, <1>6, <1>7

(* Two whole copies of different layouts are not believed.                 *)
LEMMA GptDisagrees ==
    ASSUME DiskOK, old # new, last = LastLba, Whole(old, TRUE), Whole(new, FALSE)
    PROVE  ParseGpt.failure = "corrupt"
<1> DEFINE p == ReadValidatedHeader(1, TRUE)
           b == ReadValidatedHeader(last, FALSE)
           ho == Header(old, TRUE)
           hn == Header(new, FALSE)
<1>1. Place(TRUE) = 1 /\ Place(FALSE) = last
    BY DEF Place
<1>2. old \in GptLayouts /\ new \in GptLayouts
    BY DEF Whole, GptLayouts
<1>3. p = Found(ho)
    <2>1. 1 \notin unreadable /\ image[1] = ho
        <3>1. ho.current = 1
            BY HeaderFields
        <3>2. ho.current \notin damaged /\ image[ho.current] = ho
            BY DEF Whole
        <3> QED
            BY <3>1, <3>2 DEF DiskOK
    <2> HIDE DEF ho
    <2> QED
        BY <2>1, <1>1, HeaderIsFound DEF ho
<1>4. b = Found(hn)
    <2>1. last \notin unreadable /\ image[last] = hn
        <3>1. hn.current = last
            BY HeaderFields
        <3>2. hn.current \notin damaged /\ image[hn.current] = hn
            BY DEF Whole
        <3> QED
            BY <3>1, <3>2 DEF DiskOK
    <2> HIDE DEF hn
    <2> QED
        BY <2>1, <1>1, HeaderIsFound DEF hn
<1>5. /\ p.failure = "none" /\ b.failure = "none" /\ p.header = ho /\ b.header = hn
    <2> HIDE DEF p, b, ho, hn
    <2> QED
        BY <1>3, <1>4 DEF Found
<1>6. ~HeadersAreReciprocal(ho, hn)
    <2> SUFFICES ASSUME HeadersAreReciprocal(ho, hn) PROVE FALSE
        OBVIOUS
    <2>1. ho.guid = hn.guid /\ ho.crc = hn.crc
        BY DEF HeadersAreReciprocal
    <2>2. old.name = new.name /\ old.entries = new.entries
        BY <2>1, HeaderFields
    <2>3. /\ old = [kind |-> "gpt", name |-> old.name, entries |-> old.entries, logical |-> <<>>, back |-> 0]
          /\ new = [kind |-> "gpt", name |-> new.name, entries |-> new.entries, logical |-> <<>>, back |-> 0]
        BY <1>2, GptLayoutFacts
    <2>4. old = new
        BY <2>2, <2>3, Zenon
    <2> QED
        BY <2>4
<1> HIDE DEF ho, hn
<1>7. ParseGpt = NoCopy("corrupt")
    <2>1. p.failure = "none" /\ b.failure = "none" /\ ~HeadersAreReciprocal(p.header, b.header)
        BY <1>5, <1>6
    <2> QED
        BY <2>1 DEF ParseGpt
<1> QED
    BY <1>7, SomeFailure

(* Damage to one copy does not cost the other.                             *)
LEMMA GptSurvives ==
    ASSUME DiskOK, Finished, pending = <<>>, last = LastLba, new.kind = "gpt", Wanted(new) # <<>>,
           NEW keeps \in BOOLEAN,
           damaged \cap (IF keeps THEN {1, 2} ELSE {LastLba - 1, LastLba}) = {}
    PROVE  ParseGpt.failure = "none"
<1> DEFINE p == ReadValidatedHeader(1, TRUE)
           b == ReadValidatedHeader(last, FALSE)
           primary == ParseGptCopy(p)
           backup  == ParseGptCopy(b)
           h(q) == Header(new, q)
<1>1. Place(TRUE) = 1 /\ Place(FALSE) = last
    BY DEF Place
<1>2. new \in GptLayouts
    BY DEF GptLayouts
<1>3. /\ \A q \in BOOLEAN : Place(q) \in Sectors /\ (image[Place(q)] = h(q) \/ image[Place(q)] = Garbage)
      /\ image[Place(keeps)] = h(keeps) /\ Place(keeps) \notin unreadable
      /\ h(keeps).entryLba \notin unreadable /\ image[h(keeps).entryLba] = Table(new)
    <2>1. /\ Goal(1) = {h(TRUE)} /\ Goal(LastLba) = {h(FALSE)}
          /\ Goal(2) = {Table(new)} /\ Goal(LastLba - 1) = {Table(new)}
        <3>1. /\ LastLba \notin {0, 1, 2, LastLba - 1} /\ LastLba - 1 \notin {0, 1}
              /\ 2 \notin {0, 1} /\ 1 # 0
            BY LayoutAssumption
        <3> QED
            BY <3>1, Zenon DEF Goal
    <2>2. \A s \in Sectors : image[s] \in Goal(s) \/ (s \in damaged /\ image[s] = Garbage)
        BY DEF Finished
    <2>3. h(TRUE).entryLba = 2 /\ h(FALSE).entryLba = LastLba - 1
        BY HeaderFields
    <2> HIDE DEF h
    <2>4. \A q \in BOOLEAN : Place(q) \in Sectors /\ (image[Place(q)] = h(q) \/ image[Place(q)] = Garbage)
        <3>1. image[1] = h(TRUE) \/ image[1] = Garbage
            BY <2>1, <2>2, LastFacts
        <3>2. image[LastLba] = h(FALSE) \/ image[LastLba] = Garbage
            BY <2>1, <2>2, LastFacts
        <3> QED
            BY <3>1, <3>2, <1>1, LastFacts
    <2>5. CASE keeps
        <3>1. 1 \notin damaged /\ 2 \notin damaged
            BY <2>5
        <3>2. image[1] = h(TRUE) /\ image[2] = Table(new)
            BY <3>1, <2>1, <2>2, LastFacts
        <3>3. 1 \notin unreadable /\ 2 \notin unreadable
            BY <3>1 DEF DiskOK
        <3>4. keeps = TRUE
            BY <2>5
        <3> QED
            BY <3>2, <3>3, <3>4, <2>3, <2>4, <1>1
    <2>6. CASE ~keeps
        <3>1. LastLba - 1 \notin damaged /\ LastLba \notin damaged
            BY <2>6
        <3>2. image[LastLba] = h(FALSE) /\ image[LastLba - 1] = Table(new)
            BY <3>1, <2>1, <2>2, LastFacts
        <3>3. LastLba - 1 \notin unreadable /\ LastLba \notin unreadable
            BY <3>1 DEF DiskOK
        <3>4. keeps = FALSE
            BY <2>6
        <3> QED
            BY <3>2, <3>3, <3>4, <2>3, <2>4, <1>1
    <2> QED
        BY <2>5, <2>6
<1>4. ReadValidatedHeader(Place(keeps), keeps) = Found(h(keeps))
    <2> HIDE DEF h
    <2> QED
        BY <1>3, HeaderIsFound DEF h
<1>5. ParseGptCopy(ReadValidatedHeader(Place(keeps), keeps)).failure = "none"
    BY <1>2, <1>3, <1>4, CopyIsWanted
<1>6. primary.failure = "none" \/ backup.failure = "none"
    <2>1. CASE keeps = TRUE
        BY <2>1, <1>1, <1>5
    <2>2. CASE keeps = FALSE
        BY <2>2, <1>1, <1>5
    <2> QED
        BY <2>1, <2>2
<1>7. ASSUME p.failure = "none", b.failure = "none" PROVE HeadersAreReciprocal(p.header, b.header)
    <2>1. ASSUME NEW q \in BOOLEAN, ReadValidatedHeader(Place(q), q).failure = "none"
          PROVE  ReadValidatedHeader(Place(q), q) = Found(h(q))
        <3>1. Place(q) \notin unreadable /\ \E l \in GptLayouts : image[Place(q)] = Header(l, q)
            BY <2>1, HeaderHere
        <3>2. image[Place(q)] # Garbage
            <4>1. image[Place(q)] \in Headers
                BY <3>1 DEF Headers
            <4> QED
                BY <4>1, NoHeaders
        <3>3. image[Place(q)] = h(q)
            <4> HIDE DEF h
            <4> QED
                BY <1>3, <3>2
        <3> QED
            BY <3>1, <3>3, HeaderIsFound
    <2>2. p = Found(h(TRUE)) /\ b = Found(h(FALSE))
        BY <1>7, <1>1, <2>1
    <2>3. p.header = h(TRUE) /\ b.header = h(FALSE)
        <3> HIDE DEF p, b, h
        <3> QED
            BY <2>2 DEF Found
    <2>4. HeadersAreReciprocal(h(TRUE), h(FALSE))
        <3>1. /\ h(TRUE).guid = new.name /\ h(TRUE).crc = new.entries /\ h(TRUE).count = Len(new.entries)
              /\ h(TRUE).firstUsable = 3 /\ h(TRUE).lastUsable = LastLba - 2
              /\ h(TRUE).current = 1 /\ h(TRUE).backup = LastLba
            BY HeaderFields
        <3>2. /\ h(FALSE).guid = new.name /\ h(FALSE).crc = new.entries /\ h(FALSE).count = Len(new.entries)
              /\ h(FALSE).firstUsable = 3 /\ h(FALSE).lastUsable = LastLba - 2
              /\ h(FALSE).current = LastLba /\ h(FALSE).backup = 1
            BY HeaderFields
        <3> HIDE DEF h
        <3> QED
            BY <3>1, <3>2 DEF HeadersAreReciprocal
    <2> QED
        BY <2>3, <2>4
<1> HIDE DEF p, b
<1>8. ParseGpt =
            IF p.failure = "none" /\ b.failure = "none"
            THEN IF ~HeadersAreReciprocal(p.header, b.header) THEN NoCopy("corrupt")
                 ELSE IF primary.failure = "none" THEN primary
                 ELSE IF backup.failure = "none" THEN backup
                 ELSE NoCopy(PreferCopyFailure(primary.failure, backup.failure))
            ELSE IF primary.failure = "none" THEN primary
            ELSE IF backup.failure = "none" THEN backup
            ELSE NoCopy(PreferCopyFailure(primary.failure, backup.failure))
    BY DEF ParseGpt, p, b
<1> HIDE DEF primary, backup
<1> QED
    BY <1>6, <1>7, <1>8

-----------------------------------------------------------------------------
(* MBR: the chain of logical volumes, and all volumes.                     *)

Bounded == {r \in Regions : r.sectors > 0 /\ EndOf(r) <= last}

LEMMA SectorEntries ==
    ASSUME DiskOK, NEW lba \in Nat, lba <= last, HasEntries(lba)
    PROVE  /\ image[lba].entries \in Seq(PartitionEntries) /\ Len(image[lba].entries) >= 2
           /\ image[lba].entries[1] \in PartitionEntries /\ image[lba].entries[2] \in PartitionEntries
<1>1. lba \in Sectors
    BY LastFacts DEF Sectors
<1>2. image[lba] \in Contents /\ image[lba].kind \in {"mbr", "boot"}
    BY <1>1 DEF DiskOK, HasEntries
<1> DEFINE es == image[lba].entries
<1>3. es \in EntryLists
    BY <1>2, ContentKinds
<1> HIDE DEF es
<1>4. es \in Seq(PartitionEntries) /\ Len(es) >= 2
    BY <1>3 DEF EntryLists
<1>5. es[1] \in PartitionEntries /\ es[2] \in PartitionEntries
    BY <1>4
<1> QED
    BY <1>4, <1>5 DEF es

(* Wherever the chain leads, its volumes are inside the image.             *)
LEMMA ChainIsBounded ==
    ASSUME DiskOK, NEW base \in Nat
    PROVE  FollowEbr(base) \in Seq(Bounded)
<1> DEFINE n == MaxEbrChain
           I == {w \in Walks : w.regions \in Seq(Bounded)}
           Inv == [k \in 0 .. n |-> I]
           step == [k \in 1 .. n |-> [w \in Walks |-> NextEbr(base, w)]]
           start == [current |-> base, visited |-> {}, regions |-> <<>>, ended |-> FALSE]
<1>1. n \in Nat
    BY LayoutAssumption
<1>2. start \in I
    <2>1. <<>> \in Seq(Regions) /\ <<>> \in Seq(Bounded) /\ {} \in SUBSET Nat
        OBVIOUS
    <2>2. start \in Walks
        BY <2>1 DEF Walks
    <2> QED
        BY <2>1, <2>2
<1>3. ASSUME NEW w \in I PROVE NextEbr(base, w) \in I
    <2> DEFINE first == image[w.current].entries[1]
               second == image[w.current].entries[2]
               here == [start |-> w.current + first.start, sectors |-> first.sectors]
               stops == \/ w.current \in w.visited \/ w.current > last
                        \/ w.current \in unreadable \/ ~HasEntries(w.current)
    <2>1. /\ w \in Walks /\ w.current \in Nat /\ w.visited \in SUBSET Nat
          /\ w.regions \in Seq(Regions) /\ w.regions \in Seq(Bounded) /\ w.ended \in BOOLEAN
        BY DEF Walks
    <2>2. CASE w.ended
        BY <2>2 DEF NextEbr
    <2>3. CASE ~w.ended /\ stops
        <3>1. NextEbr(base, w) = [w EXCEPT !.ended = TRUE]
            BY <2>3 DEF NextEbr
        <3>2. [w EXCEPT !.ended = TRUE] \in I
            BY <2>1 DEF Walks
        <3> QED
            BY <3>1, <3>2
    <2>4. CASE ~w.ended /\ ~stops
        <3> DEFINE more == IF first.type # "none" /\ InBounds(here.start, here.sectors)
                           THEN Append(w.regions, here) ELSE w.regions
        <3>1. w.current <= last /\ HasEntries(w.current)
            BY <2>1, <2>4, LastFacts
        <3>2. first \in PartitionEntries /\ second \in PartitionEntries
            BY <3>1, <2>1, SectorEntries
        <3>3. /\ first.start \in Nat /\ first.sectors \in Nat /\ second.start \in Nat
              /\ second.sectors \in Nat
            <4>1. \A e \in PartitionEntries : e.start \in Nat /\ e.sectors \in Nat
                BY DEF PartitionEntries
            <4> QED
                BY <3>2, <4>1
        <3>4. NextEbr(base, w) =
                [current |-> base + second.start, visited |-> w.visited \cup {w.current},
                 regions |-> more, ended |-> ~Extended(second)]
            BY <2>4 DEF NextEbr
        <3> HIDE DEF first, second
        <3>5. here \in Regions /\ here.start \in Nat /\ here.sectors \in Nat
            BY <2>1, <3>3 DEF Regions
        <3>6. InBounds(here.start, here.sectors) => here \in Bounded
            <4> HIDE DEF here
            <4> QED
                BY <3>5 DEF InBounds, Bounded, EndOf
        <3>7. more \in Seq(Bounded) /\ more \in Seq(Regions)
            <4>1. Bounded \subseteq Regions
                BY DEF Bounded
            <4> HIDE DEF here
            <4>2. more \in Seq(Bounded)
                BY <2>1, <3>6
            <4> HIDE DEF more
            <4>3. \A S, T : S \subseteq T => \A q \in Seq(S) : q \in Seq(T)
                OBVIOUS
            <4> QED
                BY <4>1, <4>2, <4>3
        <3> HIDE DEF more, here
        <3>8. base + second.start \in Nat /\ w.visited \cup {w.current} \in SUBSET Nat
            BY <2>1, <3>3
        <3>9. (~Extended(second)) \in BOOLEAN
            OBVIOUS
        <3> QED
            BY <3>4, <3>7, <3>8, <3>9 DEF Walks
    <2> QED
        BY <2>2, <2>3, <2>4
<1>4. \A k \in 1 .. n : \A a \in Inv[k - 1] : step[k][a] \in Inv[k]
    <2> TAKE k \in 1 .. n
    <2>1. k \in 0 .. n /\ k - 1 \in 0 .. n
        BY <1>1
    <2> TAKE a \in Inv[k - 1]
    <2>2. a \in I /\ a \in Walks
        BY <2>1
    <2>3. step[k][a] = NextEbr(base, a)
        BY <2>2
    <2> QED
        BY <2>1, <2>2, <2>3, <1>3
<1>5. Inv \in [0 .. n -> SUBSET Walks] /\ start \in Inv[0] /\ Inv[n] = I
    BY <1>1, <1>2
<1> HIDE DEF n, Inv, step, start, I
<1>6. Folded(step, start, n) \in Inv[n]
    BY <1>1, <1>4, <1>5, FoldedKeeps
<1>7. FollowEbr(base) = Folded(step, start, n).regions
    BY DEF FollowEbr, step, start, n
<1> QED
    BY <1>5, <1>6, <1>7 DEF I

(* The sectors of the chain are its records or are damaged.                *)
LEMMA ChainOnDisk ==
    ASSUME DiskOK, Finished, pending = <<>>, new.kind = "mbr", NEW k \in DOMAIN new.logical
    PROVE  /\ new.logical[k].at \in Sectors
           /\ \/ image[new.logical[k].at] = RecordAt(new, k)
              \/ new.logical[k].at \in damaged /\ image[new.logical[k].at] = Garbage
<1> DEFINE vs == new.logical
           s == vs[k].at
<1>1. new \in Layouts
    BY DEF DiskOK
<1>2. s \in 1 .. LastLba
    BY <1>1, ChainFacts
<1>3. s \in Sectors /\ s # 0
    BY <1>2, LastFacts DEF Sectors
<1>4. \A i, j \in DOMAIN vs : vs[i].at = vs[j].at => i = j
    BY <1>1, LayoutFacts DEF MbrLayout
<1>5. Goal(s) = {RecordAt(new, j) : j \in {j \in DOMAIN vs : vs[j].at = s}}
    BY <1>3 DEF Goal, Ats
<1>6. {j \in DOMAIN vs : vs[j].at = s} = {k}
    BY <1>4
<1>7. \A c \in Goal(s) : c = RecordAt(new, k)
    BY <1>5, <1>6
<1> HIDE DEF s
<1>8. image[s] \in Goal(s) \/ (s \in damaged /\ image[s] = Garbage)
    BY <1>3 DEF Finished
<1> QED
    BY <1>3, <1>7, <1>8 DEF s

(* The walk along the chain of new: m records on, or over.                 *)
Walked(m) == [i \in 1 .. m |-> Region(new.logical[i])]
Ahead(m) ==
    [current |-> IF m < Len(new.logical) THEN new.logical[m + 1].at ELSE new.back,
     visited |-> {new.logical[i].at : i \in 1 .. m}, regions |-> Walked(m), ended |-> FALSE]
Over ==
    {w \in Walks : w.ended /\ \E m \in 0 .. Len(new.logical) :
                       w.regions = Walked(m) /\ (damaged = {} => m = Len(new.logical))}

LEMMA WalkFacts ==
    ASSUME new \in Layouts, new.kind = "mbr", NEW m \in 0 .. Len(new.logical)
    PROVE  /\ new.logical \in Seq(LogicalVolumes) /\ new.back \in Nat /\ Len(new.logical) \in Nat
           /\ DOMAIN new.logical = 1 .. Len(new.logical) /\ Len(new.logical) <= MaxEbrChain
           /\ Walked(m) \in Seq(Regions) /\ Ahead(m) \in Walks
<1> DEFINE vs == new.logical
           N == Len(vs)
<1>1. vs \in Seq(LogicalVolumes) /\ new.back \in Nat /\ N <= MaxEbrChain
    BY LayoutFacts DEF MbrLayout
<1>2. N \in Nat /\ DOMAIN vs = 1 .. N /\ \A i \in 1 .. N : vs[i] \in LogicalVolumes
    BY <1>1
<1>3. \A v \in LogicalVolumes : v.at \in Nat /\ Region(v) \in Regions
    BY DEF LogicalVolumes, Region, Regions
<1> HIDE DEF vs, N
<1>4. m \in Nat /\ m <= N /\ 1 .. m \subseteq 1 .. N
    BY <1>2 DEF N, vs
<1>5. \A i \in 1 .. m : Region(vs[i]) \in Regions /\ vs[i].at \in Nat
    BY <1>2, <1>3, <1>4
<1>6. [i \in 1 .. m |-> Region(vs[i])] \in Seq(Regions)
    BY <1>4, <1>5
<1>7. {vs[i].at : i \in 1 .. m} \in SUBSET Nat
    BY <1>5
<1>8. (IF m < N THEN vs[m + 1].at ELSE new.back) \in Nat
    <2>1. CASE m < N
        <3>1. m + 1 \in 1 .. N
            BY <2>1, <1>2, <1>4
        <3> QED
            BY <2>1, <3>1, <1>2, <1>3
    <2>2. CASE ~(m < N)
        BY <2>2, <1>1
    <2> QED
        BY <2>1, <2>2
<1> QED
    BY <1>1, <1>2, <1>6, <1>7, <1>8 DEF Walked, Ahead, Walks, vs, N

LEMMA WalkStops ==
    ASSUME new \in Layouts, new.kind = "mbr", NEW m \in 0 .. Len(new.logical),
           damaged = {} => m = Len(new.logical)
    PROVE  [Ahead(m) EXCEPT !.ended = TRUE] \in Over
<1> DEFINE w == Ahead(m)
           x == [w EXCEPT !.ended = TRUE]
<1>1. w \in Walks /\ w.regions = Walked(m)
    BY WalkFacts DEF Ahead
<1> HIDE DEF w
<1>2. x \in Walks /\ x.ended /\ x.regions = w.regions
    BY <1>1 DEF Walks
<1> QED
    BY <1>1, <1>2 DEF Over, w

LEMMA WalkEnds ==
    ASSUME DiskOK, new.kind = "mbr", new.logical # <<>>, new.back # 0, NEW base
    PROVE  NextEbr(base, Ahead(Len(new.logical))) \in Over
<1> DEFINE vs == new.logical
           N == Len(vs)
           w == Ahead(N)
<1>1. new \in Layouts
    BY DEF DiskOK
<1>2. vs \in Seq(LogicalVolumes) /\ N \in Nat /\ N \in 0 .. N /\ DOMAIN vs = 1 .. N
    <2>1. \A L \in Layouts : L.logical \in Seq(LogicalVolumes)
        BY LayoutFacts
    <2> HIDE DEF vs
    <2>2. vs \in Seq(LogicalVolumes)
        BY <1>1, <2>1 DEF vs
    <2> QED
        BY <2>2
<1>3. new.back \in {vs[i].at : i \in DOMAIN vs}
    BY <1>1, LayoutFacts DEF MbrLayout
<1>4. ~(N < N)
    BY <1>2
<1>5. w.current \in w.visited /\ w.ended = FALSE
    <2> HIDE DEF vs, N
    <2>1. w = [current |-> new.back, visited |-> {vs[i].at : i \in 1 .. N}, regions |-> Walked(N),
               ended |-> FALSE]
        BY <1>4 DEF Ahead, vs, N
    <2> QED
        BY <2>1, <1>2, <1>3
<1>6. NextEbr(base, w) = [w EXCEPT !.ended = TRUE]
    <2> HIDE DEF w
    <2> QED
        BY <1>5 DEF NextEbr
<1>7. [w EXCEPT !.ended = TRUE] \in Over
    BY <1>1, <1>2, WalkStops
<1> QED
    BY <1>6, <1>7

LEMMA WalkGoesOn ==
    ASSUME DiskOK, Finished, pending = <<>>, new.kind = "mbr",
           NEW m \in Nat, m < Len(new.logical)
    PROVE  LET x == NextEbr(new.logical[1].at, Ahead(m))
           IN  x \in Over \/ (x = Ahead(m + 1) /\ (m + 1 = Len(new.logical) => new.back # 0))
<1> DEFINE vs == new.logical
           N == Len(vs)
           w == Ahead(m)
           v == vs[m + 1]
           base == vs[1].at
           next == IF m + 1 < N THEN vs[m + 2].at ELSE new.back
           first == image[v.at].entries[1]
           second == image[v.at].entries[2]
           here == [start |-> w.current + first.start, sectors |-> first.sectors]
<1>1. new \in Layouts /\ MbrLayout(new)
    BY LayoutFacts DEF DiskOK
<1>2. /\ vs \in Seq(LogicalVolumes) /\ new.back \in Nat /\ N \in Nat /\ DOMAIN vs = 1 .. N
      /\ m \in 0 .. N /\ m + 1 \in 0 .. N
      /\ Walked(m) \in Seq(Regions) /\ Ahead(m) \in Walks /\ Ahead(m + 1) \in Walks
      /\ Walked(m + 1) \in Seq(Regions)
    <2>1. N \in Nat
        <3>1. vs \in Seq(LogicalVolumes)
            BY <1>1, LayoutFacts
        <3> HIDE DEF vs
        <3> QED
            BY <3>1
    <2>2. m \in 0 .. N /\ m + 1 \in 0 .. N
        BY <2>1
    <2> QED
        BY <2>2, <1>1, WalkFacts
<1>3. m + 1 \in DOMAIN vs /\ 1 \in DOMAIN vs /\ (m + 1 < N => m + 2 \in DOMAIN vs)
    BY <1>2
<1>4. w = [current |-> v.at, visited |-> {vs[i].at : i \in 1 .. m}, regions |-> Walked(m), ended |-> FALSE]
    BY DEF Ahead
<1>5. /\ v \in LogicalVolumes /\ v.at \in Nat /\ v.start \in Nat /\ v.sectors \in Nat
      /\ v.at >= base /\ base \in Nat /\ v.at > 0 /\ v.at <= LastLba /\ v.at <= v.start
      /\ v.sectors > 0 /\ EndOf(v) <= LastLba
    <2>1. \A k \in DOMAIN vs : vs[k] \in LogicalVolumes
        BY <1>2
    <2>2. \A u \in LogicalVolumes : u.at \in Nat /\ u.start \in Nat /\ u.sectors \in Nat
        BY DEF LogicalVolumes
    <2>3. /\ v.at \in base .. LastLba /\ v.at > 0 /\ v.at <= v.start
          /\ v.sectors > 0 /\ EndOf(v) <= LastLba
        BY <1>1, <1>3 DEF MbrLayout
    <2>4. v \in LogicalVolumes /\ vs[1] \in LogicalVolumes
        BY <2>1, <1>3
    <2> HIDE DEF v
    <2> QED
        BY <2>2, <2>3, <2>4, LastFacts
<1>6. v.at \notin {vs[i].at : i \in 1 .. m}
    <2>1. \A j, k \in DOMAIN vs : vs[j].at = vs[k].at => j = k
        BY <1>1 DEF MbrLayout
    <2>2. \A i \in 1 .. m : i \in DOMAIN vs /\ i # m + 1
        BY <1>2
    <2> QED
        BY <2>1, <2>2, <1>3
<1>7. /\ v.at \in Sectors
      /\ \/ image[v.at] = RecordAt(new, m + 1)
         \/ v.at \in damaged /\ image[v.at] = Garbage
    BY <1>3, ChainOnDisk
<1>8. v.at <= last
    BY <1>5, LastFacts
<1> HIDE DEF w
<1>9. w.current = v.at /\ w.visited = {vs[i].at : i \in 1 .. m} /\ w.ended = FALSE /\ w.regions = Walked(m)
    BY <1>4
<1>10. CASE v.at \in unreadable \/ image[v.at] = Garbage
    <2>1. damaged # {}
        <3>1. v.at \in damaged
            <4>1. RecordAt(new, m + 1).kind = "mbr" /\ Garbage.kind = "garbage"
                BY <1>1, <1>3, ChainFacts DEF Garbage
            <4> HIDE DEF v
            <4> QED
                BY <1>7, <1>10, <4>1 DEF DiskOK
        <3> QED
            BY <3>1
    <2>2. w.current \in unreadable \/ ~HasEntries(w.current)
        <3>1. image[v.at] = Garbage => ~HasEntries(v.at)
            BY DEF HasEntries, Garbage
        <3> QED
            BY <1>9, <1>10, <3>1
    <2>3. NextEbr(base, w) = [w EXCEPT !.ended = TRUE]
        <3> HIDE DEF base
        <3> QED
            BY <2>2, <1>9 DEF NextEbr
    <2>4. [w EXCEPT !.ended = TRUE] \in Over
        BY <2>1, <1>1, <1>2, WalkStops DEF w
    <2> QED
        BY <2>3, <2>4 DEF w
<1>11. CASE v.at \notin unreadable /\ image[v.at] # Garbage
    <2>1. image[v.at] = RecordAt(new, m + 1)
        BY <1>7, <1>11
    <2>2. /\ HasEntries(v.at)
          /\ first = Entry("plain", v.start - v.at, v.sectors)
          /\ second = IF next = 0 THEN Unused ELSE Entry("extended", next - base, 1)
        <3>1. /\ RecordAt(new, m + 1).kind = "mbr" /\ RecordAt(new, m + 1).signed
              /\ RecordAt(new, m + 1).entries[1] = Entry("plain", v.start - v.at, v.sectors)
              /\ LET nx == IF m + 1 < N THEN vs[m + 1 + 1].at ELSE new.back
                 IN RecordAt(new, m + 1).entries[2] =
                       IF nx = 0 THEN Unused ELSE Entry("extended", nx - base, 1)
            BY <1>1, <1>3, ChainFacts
        <3>2. m + 1 + 1 = m + 2
            OBVIOUS
        <3> QED
            BY <2>1, <3>1, <3>2 DEF HasEntries
    <2>3. next \in Nat /\ (next # 0 => next >= base) /\ (next = 0 => m + 1 = N /\ new.back = 0)
        <3>1. CASE m + 1 < N
            <4>1. m + 2 \in DOMAIN vs
                BY <3>1, <1>3
            <4>2. vs[m + 2].at \in base .. LastLba /\ vs[m + 2].at > 0
                BY <4>1, <1>1 DEF MbrLayout
            <4>3. next = vs[m + 2].at
                BY <3>1
            <4> HIDE DEF next
            <4>4. next \in base .. LastLba /\ next > 0
                BY <4>2, <4>3
            <4> HIDE DEF base
            <4> QED
                BY <4>4, <1>5, LastFacts
        <3>2. CASE ~(m + 1 < N)
            <4>1. m + 1 = N /\ next = new.back
                BY <3>2, <1>2
            <4>2. new.back \in {0} \cup {vs[k].at : k \in DOMAIN vs}
                BY <1>1 DEF MbrLayout
            <4>3. \A k \in DOMAIN vs : vs[k].at \in base .. LastLba
                BY <1>1 DEF MbrLayout
            <4>4. new.back = 0 \/ new.back \in base .. LastLba
                BY <4>2, <4>3
            <4> HIDE DEF next
            <4> QED
                BY <4>1, <4>4, <1>2, <1>5, LastFacts
        <3> QED
            BY <3>1, <3>2
    <2> HIDE DEF first, second, next
    <2>4. first.type = "plain" /\ first.start = v.start - v.at /\ first.sectors = v.sectors
        BY <2>2 DEF Entry
    <2>5. here = Region(v) /\ InBounds(here.start, here.sectors)
        <3>1. w.current + first.start = v.start
            BY <1>9, <2>4, <1>5
        <3>2. here = [start |-> v.start, sectors |-> v.sectors]
            BY <3>1, <2>4
        <3>3. v.start + v.sectors - 1 <= last
            <4>1. EndOf(v) = v.start + v.sectors - 1
                BY DEF EndOf
            <4> DEFINE u == v
            <4> HIDE DEF u
            <4>2. u.start \in Nat /\ u.sectors \in Nat /\ EndOf(u) <= LastLba
                BY <1>5 DEF u
            <4>3. EndOf(u) = u.start + u.sectors - 1
                BY <4>1 DEF u
            <4>4. u.start + u.sectors - 1 <= last
                BY <4>2, <4>3, LastFacts
            <4> QED
                BY <4>4 DEF u
        <3> HIDE DEF here, v
        <3>4. here.start = v.start /\ here.sectors = v.sectors
            BY <3>2
        <3> QED
            BY <3>2, <3>3, <3>4, <1>5 DEF Region, InBounds
    <2> HIDE DEF here
    <2>6. NextEbr(base, w) = [current |-> base + second.start, visited |-> w.visited \cup {w.current},
                              regions |-> Append(w.regions, here), ended |-> ~Extended(second)]
        <3>1. ~(\/ w.current \in w.visited \/ w.current > last
                \/ w.current \in unreadable \/ ~HasEntries(w.current))
            <4> DEFINE c == v.at
            <4>1. c \in Nat /\ c <= last /\ last \in Nat
                BY <1>5, <1>8, LastFacts
            <4>2. c \notin w.visited /\ c \notin unreadable /\ HasEntries(c) /\ w.current = c
                BY <1>6, <1>9, <1>11, <2>2
            <4> HIDE DEF c
            <4>3. ~(c > last)
                BY <4>1
            <4> QED
                BY <4>2, <4>3
        <3>2. first = image[w.current].entries[1] /\ second = image[w.current].entries[2]
            BY <1>9 DEF first, second
        <3>3. here = [start |-> w.current + first.start, sectors |-> first.sectors]
            BY DEF here
        <3>4. first.type # "none"
            BY <2>4
        <3> HIDE DEF base, v
        <3> QED
            BY <3>1, <3>2, <3>3, <3>4, <2>5, <1>9 DEF NextEbr
    <2>7. Append(w.regions, here) = Walked(m + 1)
        <3>1. Walked(m) = [i \in 1 .. m |-> Region(vs[i])]
              /\ Walked(m + 1) = [i \in 1 .. m + 1 |-> Region(vs[i])]
            BY DEF Walked
        <3>2. here = Region(vs[m + 1])
            BY <2>5
        <3> HIDE DEF vs
        <3>4. Len(Walked(m)) = m /\ DOMAIN Append(Walked(m), here) = 1 .. m + 1
            BY <3>1, <1>2
        <3>5. \A i \in 1 .. m + 1 : Append(Walked(m), here)[i] = Walked(m + 1)[i]
            BY <3>1, <3>2, <3>4
        <3>6. DOMAIN Walked(m + 1) = 1 .. m + 1
            BY <3>1
        <3>7. Append(Walked(m), here) = Walked(m + 1)
            BY <3>4, <3>5, <3>6, <1>2
        <3> QED
            BY <3>7, <1>9
    <2>8. w.visited \cup {w.current} = {vs[i].at : i \in 1 .. m + 1}
        <3>1. 1 .. m + 1 = (1 .. m) \cup {m + 1}
            OBVIOUS
        <3> QED
            BY <3>1, <1>9
    <2>9. CASE next = 0
        <3>1. Extended(second) = FALSE /\ second.start = 0
            BY <2>9, <2>2 DEF Unused, Entry, Extended
        <3>2. NextEbr(base, w).ended = TRUE /\ NextEbr(base, w).regions = Walked(m + 1)
            <4>1. ~Extended(second) = TRUE
                BY <3>1
            <4> DEFINE x == NextEbr(base, w)
                       c == base + second.start
                       seen == w.visited \cup {w.current}
                       found == Append(w.regions, here)
                       ends == ~Extended(second)
            <4>2. x = [current |-> c, visited |-> seen, regions |-> found, ended |-> ends]
                BY <2>6
            <4> HIDE DEF x, c, seen, found, ends
            <4>3. x.ended = ends /\ x.regions = found
                BY <4>2
            <4> QED
                BY <4>1, <4>3, <2>7 DEF x, found, ends
        <3>3. NextEbr(base, w) \in Walks
            <4>1. base + second.start \in Nat
                BY <3>1, <1>5
            <4>2. w.visited \cup {w.current} \in SUBSET Nat
                <5>1. w.visited \in SUBSET Nat /\ w.current \in Nat
                    BY <1>2 DEF w, Walks
                <5> QED
                    BY <5>1
            <4> QED
                BY <2>6, <2>7, <3>1, <4>1, <4>2, <1>2 DEF Walks
        <3>4. m + 1 = N
            BY <2>9, <2>3
        <3> HIDE DEF base
        <3>5. NextEbr(base, w) \in Over
            BY <3>2, <3>3, <3>4, <1>2 DEF Over
        <3> QED
            BY <3>5 DEF base, w
    <2>10. CASE next # 0
        <3>1. second = Entry("extended", next - base, 1)
            BY <2>10, <2>2
        <3>2. Extended(second) = TRUE /\ second.start = next - base
            BY <3>1 DEF Entry, Extended
        <3>3. base + second.start = next
            BY <3>2, <2>3, <1>5
        <3>4. Ahead(m + 1) = [current |-> next, visited |-> {vs[i].at : i \in 1 .. m + 1},
                              regions |-> Walked(m + 1), ended |-> FALSE]
            <4>1. m + 1 + 1 = m + 2
                OBVIOUS
            <4> QED
                BY <4>1 DEF Ahead, next
        <3>5. NextEbr(base, w) = Ahead(m + 1)
            BY <2>6, <2>7, <2>8, <3>2, <3>3, <3>4
        <3>6. m + 1 = N => new.back # 0
            BY <2>10, <1>2 DEF next
        <3> QED
            BY <3>5, <3>6 DEF w
    <2> QED
        BY <2>9, <2>10
<1> QED
    BY <1>10, <1>11

(* Of an undamaged chain all logical volumes are found, of a damaged one   *)
(* the first of them.                                                      *)
LEMMA ChainWalked ==
    ASSUME DiskOK, Finished, pending = <<>>, new.kind = "mbr", new.logical # <<>>
    PROVE  \E m \in 0 .. Len(new.logical) :
              /\ FollowEbr(new.logical[1].at) = Walked(m)
              /\ damaged = {} => m = Len(new.logical)
<1> DEFINE n == MaxEbrChain
           N == Len(new.logical)
           base == new.logical[1].at
           I(k) == {w \in {Ahead(k)} : k <= N /\ (k = N => new.back # 0)}
           Inv == [k \in 0 .. n |-> Over \cup I(k)]
           step == [k \in 1 .. n |-> [w \in Walks |-> NextEbr(base, w)]]
           start == [current |-> base, visited |-> {}, regions |-> <<>>, ended |-> FALSE]
<1>1. new \in Layouts /\ n \in Nat
    BY LayoutAssumption DEF DiskOK
<1>2. N \in Nat /\ N >= 1 /\ N <= n
    <2>1. new.logical \in Seq(LogicalVolumes) /\ N <= n
        BY <1>1, LayoutFacts DEF MbrLayout
    <2> QED
        BY <2>1
<1>3. start \in Inv[0]
    <2>1. Walked(0) = <<>>
        BY DEF Walked
    <2>2. {new.logical[i].at : i \in 1 .. 0} = {}
        OBVIOUS
    <2>3. 0 < N /\ 0 + 1 = 1
        BY <1>2
    <2>4. Ahead(0) = start
        BY <2>1, <2>2, <2>3 DEF Ahead
    <2>5. start \in I(0)
        BY <2>3, <2>4
    <2> HIDE DEF I, start
    <2> QED
        BY <2>5, <1>1
<1>4. \A k \in 0 .. n : \A a \in I(k) : a = Ahead(k) /\ a \in Walks /\ k \in 0 .. N
                                         /\ (k = N => new.back # 0)
    <2> TAKE k \in 0 .. n
    <2> TAKE a \in I(k)
    <2>1. a = Ahead(k) /\ k <= N /\ (k = N => new.back # 0)
        OBVIOUS
    <2>2. k \in 0 .. N
        BY <1>2, <2>1
    <2>3. Ahead(k) \in Walks
        BY <1>1, <2>2, WalkFacts
    <2> QED
        BY <2>1, <2>2, <2>3
<1>5. \A a \in Over : NextEbr(base, a) = a /\ a \in Walks
    BY DEF Over, NextEbr
<1>6. \A k \in 1 .. n : \A a \in Inv[k - 1] : step[k][a] \in Inv[k]
    <2> TAKE k \in 1 .. n
    <2>1. k \in 0 .. n /\ k - 1 \in 0 .. n /\ k - 1 \in Nat /\ k - 1 + 1 = k
        BY <1>1
    <2> TAKE a \in Inv[k - 1]
    <2>2. Inv[k] = Over \cup I(k) /\ Inv[k - 1] = Over \cup I(k - 1)
        BY <2>1
    <2>3. \A w \in Walks : step[k][w] = NextEbr(base, w)
        OBVIOUS
    <2>4. CASE a \in Over
        BY <2>2, <2>3, <2>4, <1>5
    <2>5. CASE a \in I(k - 1)
        <3> DEFINE x == NextEbr(base, Ahead(k - 1))
        <3>1. a = Ahead(k - 1) /\ a \in Walks /\ k - 1 \in 0 .. N /\ (k - 1 = N => new.back # 0)
            <4> HIDE DEF I
            <4> QED
                BY <2>1, <2>5, <1>4
        <3>2. step[k][a] = x
            BY <2>3, <3>1
        <3>3. CASE k - 1 = N
            <4>1. Ahead(k - 1) = Ahead(N) /\ new.back # 0
                BY <3>1, <3>3
            <4>2. NextEbr(base, Ahead(N)) \in Over
                BY <4>1, WalkEnds
            <4> QED
                BY <4>1, <4>2, <3>2, <2>2
        <3>4. CASE k - 1 < N
            <4>1. x \in Over \/ (x = Ahead(k - 1 + 1) /\ (k - 1 + 1 = N => new.back # 0))
                BY <2>1, <3>4, WalkGoesOn
            <4>2. x \in Over \/ (x = Ahead(k) /\ (k = N => new.back # 0))
                BY <4>1, <2>1
            <4>3. k <= N
                BY <3>4, <2>1, <1>2
            <4> HIDE DEF x
            <4>4. x \in Over \/ x \in I(k)
                BY <4>2, <4>3
            <4> QED
                BY <4>4, <3>2, <2>2
        <3> QED
            BY <3>1, <3>3, <3>4, <1>2, <2>1
    <2> QED
        BY <2>2, <2>4, <2>5
<1>7. Inv \in [0 .. n -> SUBSET Walks]
    <2>1. \A k \in 0 .. n : Over \cup I(k) \in SUBSET Walks
        <3> HIDE DEF I
        <3> QED
            BY <1>4, <1>5
    <2> HIDE DEF I
    <2> QED
        BY <2>1
<1>8. Inv[n] = Over \cup I(n) /\ n \in 0 .. n
    BY <1>1
<1> HIDE DEF Inv, step, start, I, n
<1>9. Folded(step, start, n) \in Inv[n]
    BY <1>1, <1>3, <1>6, <1>7, FoldedKeeps
<1>10. FollowEbr(base) = Folded(step, start, n).regions
    BY DEF FollowEbr, step, start, n
<1> DEFINE w == Folded(step, start, n)
<1> HIDE DEF w
<1>11. w \in Over \/ w \in I(n)
    BY <1>8, <1>9 DEF w
<1>12. CASE w \in Over
    BY <1>10, <1>12 DEF Over, w
<1>13. CASE w \in I(n)
    <2>1. w = Ahead(n) /\ n \in 0 .. N
        BY <1>4, <1>8, <1>13
    <2>2. n = N
        BY <2>1, <1>2
    <2>3. w.regions = Walked(N) /\ N \in 0 .. N
        BY <2>1, <2>2 DEF Ahead
    <2> QED
        BY <2>3, <1>10 DEF w
<1> QED
    BY <1>11, <1>12, <1>13

LEMMA RegionsOf ==
    ASSUME NEW q \in Seq(PartitionEntries), NEW B, \A e \in Range(q) : Region(e) \in B
    PROVE  [k \in DOMAIN q |-> Region(q[k])] \in Seq(B)
<1>1. Len(q) \in Nat /\ DOMAIN q = 1 .. Len(q)
    OBVIOUS
<1>2. \A k \in 1 .. Len(q) : Region(q[k]) \in B
    BY <1>1 DEF Range
<1> QED
    BY <1>1, <1>2

LEMMA FilteredEntries ==
    ASSUME NEW es \in Seq(PartitionEntries), NEW S
    PROVE  Filter(es, S) \in Seq(PartitionEntries)
<1>1. Filter(es, S) \in Seq(PartitionEntries \cap S)
    BY FilterKeeps
<1>2. \A U, T : U \subseteq T => \A q \in Seq(U) : q \in Seq(T)
    OBVIOUS
<1>3. PartitionEntries \cap S \subseteq PartitionEntries
    OBVIOUS
<1> QED
    BY <1>1, <1>2, <1>3

LEMMA FlattenedNone == Flattened(<<>>) = <<>>
<1>1. <<>> \in Seq({})
    OBVIOUS
<1> QED
    BY <1>1, FlattenedFew

(* The volumes of a boot record, of the primary entries and of the chains. *)
PlainEntries(es) ==
    {e \in Range(es) : e.type \notin {"none", "extended"} /\ InBounds(e.start, e.sectors)}
ExtendedEntries(es) == {e \in Range(es) : Extended(e)}
PlainRegions(es) ==
    LET plain == Filter(es, PlainEntries(es)) IN [k \in DOMAIN plain |-> Region(plain[k])]
ChainRegions(es) ==
    LET extended == Filter(es, ExtendedEntries(es))
    IN  [k \in DOMAIN extended |-> FollowEbr(extended[k].start)]

LEMMA ParseMbrIs ==
    LET es == image[0].entries
        regions == PlainRegions(es) \o Flattened(ChainRegions(es))
    IN  ParseMbr = IF 0 \in unreadable THEN NoCopy("read")
                   ELSE IF ~HasEntries(0) THEN NoCopy("notRecognized")
                   ELSE IF \E e \in Range(es) : e.type = "protective" THEN NoCopy("corrupt")
                   ELSE IF regions = <<>> THEN NoCopy("notRecognized")
                   ELSE [failure |-> "none", regions |-> regions]
BY DEF ParseMbr, PlainRegions, ChainRegions, PlainEntries, ExtendedEntries

LEMMA MbrParts ==
    ASSUME DiskOK, NEW es \in Seq(PartitionEntries)
    PROVE  /\ PlainRegions(es) \in Seq(Bounded) /\ ChainRegions(es) \in Seq(Seq(Bounded))
           /\ Flattened(ChainRegions(es)) \in Seq(Bounded)
<1> DEFINE plain == Filter(es, PlainEntries(es))
           extended == Filter(es, ExtendedEntries(es))
<1>1. plain \in Seq(PartitionEntries) /\ extended \in Seq(PartitionEntries)
    BY FilteredEntries
<1>2. \A j \in DOMAIN plain : plain[j] \in PlainEntries(es)
    BY FilterHas
<1>3. \A e \in PartitionEntries : InBounds(e.start, e.sectors) => Region(e) \in Bounded
    <2> TAKE e \in PartitionEntries
    <2>1. e.start \in Nat /\ e.sectors \in Nat
        BY DEF PartitionEntries
    <2>2. Region(e).start = e.start /\ Region(e).sectors = e.sectors /\ Region(e) \in Regions
        BY <2>1 DEF Region, Regions
    <2> QED
        BY <2>1, <2>2 DEF InBounds, Bounded, EndOf
<1> HIDE DEF plain, extended
<1>4. \A e \in Range(plain) : Region(e) \in Bounded
    <2> TAKE e \in Range(plain)
    <2>1. PICK j \in DOMAIN plain : e = plain[j]
        BY DEF Range
    <2>2. e \in PartitionEntries
        BY <1>1, <2>1
    <2>3. InBounds(e.start, e.sectors)
        BY <1>2, <2>1 DEF PlainEntries
    <2> QED
        BY <2>2, <2>3, <1>3
<1>5. [k \in DOMAIN plain |-> Region(plain[k])] \in Seq(Bounded)
    BY <1>1, <1>4, RegionsOf
<1>6. \A k \in DOMAIN extended : FollowEbr(extended[k].start) \in Seq(Bounded)
    <2> TAKE k \in DOMAIN extended
    <2>1. extended[k] \in PartitionEntries
        BY <1>1
    <2>2. extended[k].start \in Nat
        BY <2>1 DEF PartitionEntries
    <2> QED
        BY <2>2, ChainIsBounded
<1>7. [k \in DOMAIN extended |-> FollowEbr(extended[k].start)] \in Seq(Seq(Bounded))
    <2>1. Len(extended) \in Nat /\ DOMAIN extended = 1 .. Len(extended)
        BY <1>1
    <2> QED
        BY <2>1, <1>6
<1>8. ChainRegions(es) \in Seq(Seq(Bounded))
    BY <1>7 DEF ChainRegions, extended
<1> QED
    BY <1>5, <1>8, FlattenedHas DEF PlainRegions, plain

LEMMA MbrIsBounded ==
    ASSUME DiskOK, ParseMbr.failure = "none"
    PROVE  /\ ParseMbr.regions \in Seq(Bounded) /\ image[0] # Protective
           /\ LET es == image[0].entries
              IN  ParseMbr.regions = PlainRegions(es) \o Flattened(ChainRegions(es))
<1> DEFINE es == image[0].entries
           regions == PlainRegions(es) \o Flattened(ChainRegions(es))
<1>1. \A why \in {"read", "notRecognized", "corrupt"} : NoCopy(why).failure # "none"
    BY DEF NoCopy
<1>2. /\ HasEntries(0) /\ ~\E e \in Range(es) : e.type = "protective"
      /\ ParseMbr = [failure |-> "none", regions |-> regions]
    <2> HIDE DEF es, regions
    <2>1. ParseMbr = IF 0 \in unreadable THEN NoCopy("read")
                   ELSE IF ~HasEntries(0) THEN NoCopy("notRecognized")
                   ELSE IF \E e \in Range(es) : e.type = "protective" THEN NoCopy("corrupt")
                   ELSE IF regions = <<>> THEN NoCopy("notRecognized")
                   ELSE [failure |-> "none", regions |-> regions]
        BY ParseMbrIs DEF es, regions
    <2> QED
        BY <2>1, <1>1
<1>3. es \in Seq(PartitionEntries)
    BY <1>2, SectorEntries, LastFacts
<1>4. regions \in Seq(Bounded)
    <2>1. \A x, y \in Seq(Bounded) : x \o y \in Seq(Bounded)
        OBVIOUS
    <2> HIDE DEF es
    <2> QED
        BY <1>3, <2>1, MbrParts
<1>5. image[0] # Protective
    <2> SUFFICES ASSUME image[0] = Protective PROVE FALSE
        OBVIOUS
    <2>1. es = <<Entry("protective", 1, LastLba), Unused>>
        BY DEF Protective, BootRecord
    <2>2. Entry("protective", 1, LastLba).type = "protective"
        BY DEF Entry
    <2>3. Entry("protective", 1, LastLba) \in Range(es)
        <3> HIDE DEF es
        <3>1. 1 \in DOMAIN es /\ es[1] = Entry("protective", 1, LastLba)
            BY <2>1
        <3> QED
            BY <3>1 DEF Range
    <2> QED
        BY <1>2, <2>2, <2>3
<1> HIDE DEF regions
<1> QED
    BY <1>2, <1>4, <1>5 DEF regions

LEMMA PrefixRange ==
    ASSUME NEW T, NEW x \in Seq(T), NEW y \in Seq(T), NEW z \in Seq(T),
           Len(y) <= Len(z), \A i \in 1 .. Len(y) : y[i] = z[i]
    PROVE  Range(x \o y) \subseteq Range(x \o z)
<1>1. /\ Len(x) \in Nat /\ Len(y) \in Nat /\ Len(z) \in Nat
      /\ DOMAIN (x \o y) = 1 .. Len(x) + Len(y) /\ DOMAIN (x \o z) = 1 .. Len(x) + Len(z)
    OBVIOUS
<1>2. ASSUME NEW k \in 1 .. Len(x) + Len(y)
      PROVE  k \in 1 .. Len(x) + Len(z) /\ (x \o y)[k] = (x \o z)[k]
    <2>1. k \in 1 .. Len(x) + Len(z)
        BY <1>1
    <2>2. /\ (x \o y)[k] = IF k <= Len(x) THEN x[k] ELSE y[k - Len(x)]
          /\ (x \o z)[k] = IF k <= Len(x) THEN x[k] ELSE z[k - Len(x)]
        BY <1>1, <2>1
    <2>3. k <= Len(x) \/ k - Len(x) \in 1 .. Len(y)
        BY <1>1
    <2> QED
        BY <2>1, <2>2, <2>3
<1>3. \A r \in Range(x \o y) : r \in Range(x \o z)
    <2> TAKE r \in Range(x \o y)
    <2>1. PICK k \in 1 .. Len(x) + Len(y) : r = (x \o y)[k]
        BY <1>1 DEF Range
    <2>2. k \in DOMAIN (x \o z) /\ r = (x \o z)[k]
        BY <2>1, <1>1, <1>2
    <2> QED
        BY <2>2 DEF Range
<1> QED
    BY <1>3

(* The boot record, when it is read, is that of the layout.                *)
LEMMA BootRecordIsNew ==
    ASSUME DiskOK, Finished, pending = <<>>, ParseMbr.failure = "none"
    PROVE  image[0] \in Goal(0) /\ 0 \notin unreadable /\ HasEntries(0)
<1>1. \A why \in {"read", "notRecognized", "corrupt"} : NoCopy(why).failure # "none"
    BY DEF NoCopy
<1>2. 0 \notin unreadable /\ HasEntries(0)
    BY <1>1 DEF ParseMbr
<1>3. image[0] # Garbage
    BY <1>2 DEF HasEntries, Garbage
<1> QED
    BY <1>2, <1>3, LastFacts DEF Finished

LEMMA MbrIsNew ==
    ASSUME DiskOK, Finished, pending = <<>>, new.kind = "mbr", ParseMbr.failure = "none"
    PROVE  /\ Range(ParseMbr.regions) \subseteq Range(Wanted(new))
           /\ damaged = {} => ParseMbr.regions = Wanted(new)
<1> DEFINE es == new.entries
           vs == new.logical
           N == Len(vs)
           P == PlainRegions(es)
           C == Flattened(ChainRegions(es))
<1>1. new \in Layouts /\ MbrLayout(new)
    BY LayoutFacts DEF DiskOK
<1>2. es \in Seq(PartitionEntries) /\ vs \in Seq(LogicalVolumes)
    BY <1>1, LayoutFacts
<1>3. image[0].entries = es
    <2>1. Goal(0) = {BootRecord(es)}
        BY DEF Goal
    <2>2. image[0] = BootRecord(es)
        BY <2>1, BootRecordIsNew
    <2> QED
        BY <2>2 DEF BootRecord
<1>4. ParseMbr.regions = P \o C
    BY <1>3, MbrIsBounded
<1>5. Wanted(new) = P \o Walked(N)
    <2> DEFINE A == {e \in Range(es) : /\ e.type = "plain" /\ e.sectors > 0
                                       /\ IF new.kind = "gpt" THEN e.start >= FirstUsable /\ EndOf(e) <= LastUsable
                                          ELSE EndOf(e) <= last}
    <2>1. A = PlainEntries(es)
        <3>1. ASSUME NEW e \in Range(es) PROVE e \in A <=> e \in PlainEntries(es)
            <4>1. PICK k \in DOMAIN es : e = es[k]
                BY DEF Range
            <4>2. e \in PartitionEntries /\ e.type # "protective"
                BY <4>1, <1>1, <1>2 DEF MbrLayout
            <4>3. e.type \in {"none", "plain", "extended"}
                BY <4>2 DEF PartitionEntries
            <4>4. e \in A <=> e.type = "plain" /\ e.sectors > 0 /\ EndOf(e) <= last
                <5> HIDE DEF es
                <5> QED
                    OBVIOUS
            <4>5. e \in PlainEntries(es) <=> e.type \notin {"none", "extended"} /\ e.sectors > 0 /\ EndOf(e) <= last
                BY DEF PlainEntries, InBounds, EndOf
            <4> QED
                BY <4>3, <4>4, <4>5
        <3>2. A \subseteq Range(es) /\ PlainEntries(es) \subseteq Range(es)
            BY DEF PlainEntries
        <3> HIDE DEF A, es
        <3> QED
            BY <3>1, <3>2
    <2>2. Wanted(new) = LET used == Filter(es, A)
                        IN  [k \in DOMAIN used |-> Region(used[k])] \o [k \in DOMAIN vs |-> Region(vs[k])]
        BY DEF Wanted
    <2>3. [k \in DOMAIN vs |-> Region(vs[k])] = Walked(N)
        <3>1. DOMAIN vs = 1 .. N
            BY <1>2
        <3> QED
            BY <3>1 DEF Walked
    <2>4. Wanted(new) = LET used == Filter(es, A) IN [k \in DOMAIN used |-> Region(used[k])] \o Walked(N)
        <3> HIDE DEF A, es, vs, N
        <3> QED
            BY <2>2, <2>3
    <2> HIDE DEF A, es, vs, N
    <2> QED
        BY <2>1, <2>4 DEF P, PlainRegions
<1>6. \E m \in 0 .. N : C = Walked(m) /\ (damaged = {} => m = N)
    <2>1. CASE vs = <<>>
        <3>1. \A i \in DOMAIN es : es[i] \notin ExtendedEntries(es)
            BY <2>1, <1>1 DEF MbrLayout, ExtendedEntries
        <3>2. Filter(es, ExtendedEntries(es)) = <<>>
            BY <3>1, <1>2, FilterNone
        <3>3. ChainRegions(es) = <<>>
            <4> HIDE DEF es
            <4> QED
                BY <3>2 DEF ChainRegions
        <3>4. C = <<>>
            <4> HIDE DEF es
            <4> QED
                BY <3>3, FlattenedNone
        <3>5. N = 0 /\ Walked(0) = <<>>
            BY <2>1 DEF Walked
        <3> HIDE DEF C, N
        <3> QED
            BY <3>4, <3>5
    <2>2. CASE vs # <<>>
        <3> DEFINE base == vs[1].at
        <3>1. PICK k \in DOMAIN es :
                  /\ {j \in DOMAIN es : Extended(es[j])} = {k}
                  /\ es[k].start = base
            BY <2>2, <1>1 DEF MbrLayout
        <3>2. es[k] \in ExtendedEntries(es) /\ \A i \in DOMAIN es : es[i] \in ExtendedEntries(es) => i = k
            BY <3>1 DEF ExtendedEntries, Range
        <3>3. Filter(es, ExtendedEntries(es)) = <<es[k]>>
            BY <3>2, <1>2, FilterOne
        <3>4. ChainRegions(es) = <<FollowEbr(base)>>
            <4> DEFINE e == es[k]
            <4>1. \A x : LET q == <<x>> IN [j \in DOMAIN q |-> FollowEbr(q[j].start)] = <<FollowEbr(x.start)>>
                OBVIOUS
            <4>2. e.start = base
                BY <3>1
            <4> HIDE DEF es, base
            <4> QED
                BY <3>3, <4>1, <4>2 DEF ChainRegions
        <3>5. PICK m \in 0 .. N : FollowEbr(base) = Walked(m) /\ (damaged = {} => m = N)
            BY <2>2, ChainWalked
        <3>6. Walked(m) \in Seq(Regions)
            BY <1>1, WalkFacts
        <3>7. C = Walked(m)
            <4> HIDE DEF base, es
            <4> QED
                BY <3>4, <3>5, <3>6, FlattenedFew
        <3> QED
            BY <3>5, <3>7
    <2> QED
        BY <2>1, <2>2
<1>7. PICK m \in 0 .. N : C = Walked(m) /\ (damaged = {} => m = N)
    BY <1>6
<1>8. N \in Nat
    BY <1>2
<1>9. P \in Seq(Regions)
    <2>1. P \in Seq(Bounded)
        BY <1>2, MbrParts
    <2>2. Bounded \subseteq Regions
        BY DEF Bounded
    <2>3. \A S, T : S \subseteq T => \A q \in Seq(S) : q \in Seq(T)
        OBVIOUS
    <2> HIDE DEF P
    <2> QED
        BY <2>1, <2>2, <2>3
<1>10. Walked(m) \in Seq(Regions) /\ Walked(N) \in Seq(Regions)
    <2>1. N \in 0 .. N
        BY <1>8
    <2> QED
        BY <2>1, <1>1, WalkFacts
<1>11. Len(Walked(m)) = m /\ Len(Walked(N)) = N /\ m <= N /\ \A i \in 1 .. m : Walked(m)[i] = Walked(N)[i]
    <2> HIDE DEF N, vs
    <2>1. m \in Nat /\ m <= N
        BY <1>8
    <2>2. Walked(m) = [i \in 1 .. m |-> Region(new.logical[i])] /\ Walked(N) = [i \in 1 .. N |-> Region(new.logical[i])]
        BY DEF Walked
    <2>3. Len(Walked(m)) = m /\ Len(Walked(N)) = N
        BY <2>1, <2>2, <1>8, <1>10
    <2>4. \A i \in 1 .. m : i \in 1 .. N
        BY <2>1, <1>8
    <2> QED
        BY <2>1, <2>2, <2>3, <2>4
<1>12. Range(P \o Walked(m)) \subseteq Range(P \o Walked(N))
    <2> HIDE DEF P, N, vs
    <2> QED
        BY <1>9, <1>10, <1>11, PrefixRange
<1> HIDE DEF P, C, N
<1> QED
    BY <1>4, <1>5, <1>7, <1>12

(* A GPT that is found when the tool is done is the one it wrote.          *)
LEMMA GptIsNew ==
    ASSUME DiskOK, Finished, pending = <<>>, ParseGpt.failure = "none"
    PROVE  new.kind = "gpt" /\ ParseGpt.regions = Wanted(new)
<1>1. last = LastLba
    BY GptOutcome
<1>2. PICK p \in BOOLEAN, l \in GptLayouts :
          image[Place(p)] = Header(l, p) /\ ParseGpt.regions = Wanted(l)
    BY GptOutcome
<1> DEFINE s == Place(p)
<1>3. /\ s \in Sectors /\ s \in {1, LastLba} /\ s # 0 /\ s # 2 /\ s # LastLba - 1
      /\ s = IF p THEN 1 ELSE LastLba
    BY <1>1, LastFacts DEF Place
<1>4. image[s] \in Headers
    BY <1>2 DEF Headers
<1> HIDE DEF s
<1>5. image[s] \in Goal(s)
    BY <1>3, <1>4, NoHeaders DEF Finished
<1>6. CASE new.kind = "gpt"
    <2>1. image[s] = Header(new, p)
        <3>1. CASE p
            <4>1. Goal(1) = {Header(new, TRUE)}
                BY <1>6, 1 # 0 DEF Goal
            <4> QED
                BY <3>1, <4>1, <1>3, <1>5
        <3>2. CASE ~p
            <4>1. LastLba # 0 /\ LastLba # 1 /\ LastLba \notin {2, LastLba - 1}
                BY LastFacts
            <4>2. Goal(LastLba) = {Header(new, FALSE)}
                BY <1>6, <4>1, Zenon DEF Goal
            <4> QED
                BY <3>2, <4>2, <1>3, <1>5
        <3> QED
            BY <3>1, <3>2
    <2>2. new \in GptLayouts
        BY <1>6 DEF GptLayouts
    <2>3. Header(l, p) = Header(new, p)
        BY <1>2, <2>1 DEF s
    <2> DEFINE h == Header(new, p)
    <2>4. GptRegions(h.crc, h) = Wanted(new)
        BY <2>2, CopyHasTheVolumes
    <2> DEFINE g == Header(l, p)
    <2>5. GptRegions(g.crc, g) = Wanted(l)
        BY CopyHasTheVolumes
    <2>6. g = h
        BY <2>3
    <2> HIDE DEF g, h
    <2>7. Wanted(l) = Wanted(new)
        BY <2>4, <2>5, <2>6
    <2> QED
        BY <1>2, <1>6, <2>7
<1>7. CASE new.kind = "mbr"
    <2>1. ASSUME s \in Ats(new) PROVE FALSE
        <3>1. Goal(s) = {RecordAt(new, k) : k \in {j \in DOMAIN new.logical : new.logical[j].at = s}}
            BY <1>3, <1>7, <2>1 DEF Goal
        <3>2. PICK k \in DOMAIN new.logical : image[s] = RecordAt(new, k)
            BY <3>1, <1>5
        <3>3. new \in Layouts
            BY DEF DiskOK
        <3>4. image[s].kind = "mbr"
            BY <3>2, <3>3, <1>7, ChainFacts
        <3>5. \A h \in Headers : h.kind = "gptHeader"
            BY DEF Headers, Header
        <3> QED
            BY <3>4, <3>5, <1>4
    <2>2. Goal(s) = Contents \ Headers
        BY <1>3, <1>7, <2>1 DEF Goal
    <2> QED
        BY <2>2, <1>4, <1>5
<1>8. CASE new.kind \notin {"gpt", "mbr"}
    <2>1. Goal(s) = {Empty}
        BY <1>3, <1>8 DEF Goal
    <2> QED
        BY <2>1, <1>4, <1>5, NoHeaders
<1> QED
    BY <1>6, <1>7, <1>8

(* A disk that became GPT is not taken for an MBR disk.                    *)
LEMMA MbrIsNotGpt ==
    ASSUME DiskOK, Finished, pending = <<>>, new.kind = "gpt"
    PROVE  ParseMbr.failure # "none"
<1>1. Goal(0) = {Protective}
    BY DEF Goal
<1> QED
    BY <1>1, BootRecordIsNew, MbrIsBounded

(* A disk without a table has none.                                        *)
LEMMA NoTable ==
    ASSUME DiskOK, Finished, pending = <<>>, new.kind = "none"
    PROVE  ParseGpt.failure = "notRecognized" /\ ParseMbr.failure \in {"read", "notRecognized"}
<1>1. \A s \in Sectors : s # 0 => image[s].kind # "gptHeader" /\ s \notin unreadable
    <2> SUFFICES ASSUME NEW s \in Sectors, s # 0
                 PROVE  image[s].kind # "gptHeader" /\ s \notin unreadable
        OBVIOUS
    <2>1. Goal(s) = {Empty}
        BY DEF Goal
    <2>2. \/ image[s] = Empty /\ s \notin unreadable
          \/ image[s] = Garbage /\ s \notin unreadable
        BY <2>1 DEF Finished
    <2> QED
        BY <2>2 DEF Empty, Garbage
<1>2. \A s \in Sectors, q \in BOOLEAN : s # 0 => ReadValidatedHeader(s, q) = NoHeader("notRecognized")
    BY <1>1 DEF ReadValidatedHeader
<1>3. ParseGpt.failure = "notRecognized"
    <2> DEFINE p == ReadValidatedHeader(1, TRUE)
               b == ReadValidatedHeader(last, FALSE)
               f == "notRecognized"
    <2>1. p = NoHeader(f) /\ b = NoHeader(f)
        <3>1. last # 0 /\ 1 # 0
            BY LastFacts
        <3> HIDE DEF f
        <3> QED
            BY <1>2, <3>1, LastFacts DEF f
    <2>2. NoHeader(f).failure = f /\ NoCopy(f).failure = f
        BY DEF NoHeader, NoCopy
    <2>3. ParseGptCopy(NoHeader(f)) = NoCopy(f)
        BY <2>2 DEF ParseGptCopy
    <2>4. PreferCopyFailure(f, f) = f
        BY DEF PreferCopyFailure
    <2>5. f # "none"
        OBVIOUS
    <2> HIDE DEF p, b, f
    <2>6. ParseGpt =
            IF p.failure = "none" /\ b.failure = "none"
            THEN IF ~HeadersAreReciprocal(p.header, b.header) THEN NoCopy("corrupt")
                 ELSE IF ParseGptCopy(p).failure = "none" THEN ParseGptCopy(p)
                 ELSE IF ParseGptCopy(b).failure = "none" THEN ParseGptCopy(b)
                 ELSE NoCopy(PreferCopyFailure(ParseGptCopy(p).failure, ParseGptCopy(b).failure))
            ELSE IF ParseGptCopy(p).failure = "none" THEN ParseGptCopy(p)
            ELSE IF ParseGptCopy(b).failure = "none" THEN ParseGptCopy(b)
            ELSE NoCopy(PreferCopyFailure(ParseGptCopy(p).failure, ParseGptCopy(b).failure))
        BY DEF ParseGpt, p, b
    <2>7. p.failure = f /\ ParseGptCopy(p) = NoCopy(f) /\ ParseGptCopy(b) = NoCopy(f)
        BY <2>1, <2>2, <2>3
    <2>8. ParseGpt = NoCopy(PreferCopyFailure(f, f))
        BY <2>2, <2>5, <2>6, <2>7
    <2> QED
        BY <2>2, <2>4, <2>8 DEF f
<1>4. ParseMbr.failure \in {"read", "notRecognized"}
    <2> DEFINE es == image[0].entries
    <2>1. \A why : NoCopy(why).failure = why
        BY DEF NoCopy
    <2>2. 0 \in Sectors /\ Goal(0) = {Volume}
        BY LastFacts DEF Goal
    <2>3. CASE 0 \in unreadable \/ ~HasEntries(0)
        BY <2>1, <2>3 DEF ParseMbr
    <2>4. CASE 0 \notin unreadable /\ HasEntries(0)
        <3>1. image[0] # Garbage
            BY <2>4 DEF HasEntries, Garbage
        <3>2. image[0] = Volume
            BY <2>2, <3>1 DEF Finished
        <3>3. es = Code
            BY <3>2 DEF Volume
        <3> HIDE DEF es
        <3>4. /\ es \in Seq(PartitionEntries)
              /\ \A k \in DOMAIN es : /\ es[k].type \notin {"extended", "protective"}
                                      /\ (es[k].sectors = 0 \/ EndOf(es[k]) > LastLba + 1)
            BY <3>3, CodeAssumption
        <3>5. \A k \in DOMAIN es : es[k] \notin PlainEntries(es)
            <4> TAKE k \in DOMAIN es
            <4>1. es[k] \in PartitionEntries
                BY <3>4
            <4> DEFINE e == es[k]
            <4> HIDE DEF e
            <4>2. e.start \in Nat /\ e.sectors \in Nat
                <5>1. \A x \in PartitionEntries : x.start \in Nat /\ x.sectors \in Nat
                    BY DEF PartitionEntries
                <5> QED
                    BY <4>1, <5>1 DEF e
            <4>3. e.sectors = 0 \/ EndOf(e) > LastLba + 1
                BY <3>4 DEF e
            <4>4. ~InBounds(e.start, e.sectors)
                BY <4>2, <4>3, LastFacts DEF InBounds, EndOf
            <4> QED
                BY <4>4 DEF PlainEntries, e
        <3>6. \A k \in DOMAIN es : es[k] \notin ExtendedEntries(es)
            BY <3>4 DEF ExtendedEntries, Extended
        <3>7. Filter(es, PlainEntries(es)) = <<>> /\ Filter(es, ExtendedEntries(es)) = <<>>
            BY <3>4, <3>5, <3>6, FilterNone
        <3>8. PlainRegions(es) = <<>> /\ ChainRegions(es) = <<>>
            BY <3>7 DEF PlainRegions, ChainRegions
        <3>9. Flattened(ChainRegions(es)) = <<>>
            BY <3>8, FlattenedNone
        <3>10. PlainRegions(es) \o Flattened(ChainRegions(es)) = <<>>
            BY <3>8, <3>9
        <3>11. ~\E e \in Range(es) : e.type = "protective"
            BY <3>4 DEF Range
        <3>12. ParseMbr = NoCopy("notRecognized")
            BY <3>10, <3>11, <2>4, ParseMbrIs DEF es
        <3> QED
            BY <3>12, <2>1
    <2> QED
        BY <2>3, <2>4
<1> QED
    BY <1>3, <1>4

-----------------------------------------------------------------------------
(* The table that is found.                                                *)

LEMMA GptIsBounded ==
    ASSUME DiskOK, ParseGpt.failure = "none"
    PROVE  /\ ParseGpt.regions \in Seq(Bounded)
           /\ \E l \in {old, new} : l.kind = "gpt" /\ ParseGpt.regions = Wanted(l)
<1>1. PICK p \in BOOLEAN, l \in GptLayouts : ParseGpt.regions = Wanted(l)
    BY GptOutcome
<1> DEFINE h == Header(l, p)
           es == l.entries
           A == {e \in Range(es) : /\ e.type # "none" /\ EndOf(e) >= e.start
                                   /\ e.start >= h.firstUsable /\ EndOf(e) <= h.lastUsable
                                   /\ EndOf(e) <= last}
           used == Filter(es, A)
<1>2. h.crc = es /\ es \in Seq(PartitionEntries)
    BY HeaderFields, GptLayoutFacts
<1>3. Wanted(l) = GptRegions(h.crc, h)
    BY CopyHasTheVolumes
<1>4. GptRegions(es, h) = [k \in DOMAIN used |-> Region(used[k])]
    BY DEF GptRegions
<1> HIDE DEF h, es
<1>5. used \in Seq(PartitionEntries)
    <2> HIDE DEF A
    <2> QED
        BY <1>2, FilteredEntries
<1>6. \A j \in DOMAIN used : used[j] \in A
    <2> HIDE DEF A
    <2> QED
        BY <1>2, FilterHas
<1> HIDE DEF used
<1>7. \A e \in Range(used) : Region(e) \in Bounded
    <2> TAKE e \in Range(used)
    <2>1. PICK j \in DOMAIN used : e = used[j]
        BY DEF Range
    <2>2. e \in PartitionEntries
        BY <1>5, <2>1
    <2>3. EndOf(e) >= e.start /\ EndOf(e) <= last
        BY <1>6, <2>1
    <2>4. e.start \in Nat /\ e.sectors \in Nat
        <3>1. \A x \in PartitionEntries : x.start \in Nat /\ x.sectors \in Nat
            BY DEF PartitionEntries
        <3> QED
            BY <2>2, <3>1
    <2>5. Region(e) \in Regions /\ Region(e).start = e.start /\ Region(e).sectors = e.sectors
        BY <2>4 DEF Region, Regions
    <2>6. e.sectors > 0 /\ EndOf(Region(e)) = EndOf(e)
        BY <2>3, <2>4, <2>5 DEF EndOf
    <2> QED
        BY <2>3, <2>5, <2>6 DEF Bounded
<1>8. [k \in DOMAIN used |-> Region(used[k])] \in Seq(Bounded)
    BY <1>5, <1>7, RegionsOf
<1>9. l \in {old, new} /\ l.kind = "gpt"
    BY DEF GptLayouts
<1> QED
    BY <1>1, <1>2, <1>3, <1>4, <1>8, <1>9

LEMMA WholeDiskIsBounded ==
    ASSUME DiskOK
    PROVE  WholeDisk \in Seq(Bounded)
<1> DEFINE r == [start |-> 0, sectors |-> last + 1]
<1>1. last \in Nat
    BY LastFacts
<1>2. r \in Regions /\ r.sectors > 0 /\ EndOf(r) = last /\ last <= last
    BY <1>1 DEF Regions, EndOf
<1>3. r \in Bounded
    BY <1>2 DEF Bounded
<1> HIDE DEF r
<1>4. <<r>> \in Seq(Bounded)
    BY <1>3
<1> QED
    BY <1>4 DEF r, WholeDisk

LEMMA ParseGptFails ==
    ParseGpt.failure \in {"none", "read", "corrupt", "notRecognized"}
<1> DEFINE p == ReadValidatedHeader(1, TRUE)
           b == ReadValidatedHeader(last, FALSE)
           primary == ParseGptCopy(p)
           backup  == ParseGptCopy(b)
           f == PreferCopyFailure(primary.failure, backup.failure)
<1> HIDE DEF p, b, primary, backup
<1>1. f \in {"read", "corrupt", "notRecognized"}
    BY DEF PreferCopyFailure
<1> HIDE DEF f
<1>2. \A why : NoCopy(why).failure = why
    BY DEF NoCopy
<1>3. ParseGpt =
            IF p.failure = "none" /\ b.failure = "none"
            THEN IF ~HeadersAreReciprocal(p.header, b.header) THEN NoCopy("corrupt")
                 ELSE IF primary.failure = "none" THEN primary
                 ELSE IF backup.failure = "none" THEN backup
                 ELSE NoCopy(f)
            ELSE IF primary.failure = "none" THEN primary
            ELSE IF backup.failure = "none" THEN backup
            ELSE NoCopy(f)
    BY DEF ParseGpt, p, b, primary, backup, f
<1> QED
    BY <1>1, <1>2, <1>3

LEMMA ParseMbrFails ==
    /\ ParseMbr.failure \in {"none", "read", "corrupt", "notRecognized"}
    /\ ParseMbr.failure = "notRecognized" => image[0] # Protective
<1> DEFINE es == image[0].entries
           regions == PlainRegions(es) \o Flattened(ChainRegions(es))
<1>1. \A why : NoCopy(why).failure = why
    BY DEF NoCopy
<1>2. \A x : [failure |-> "none", regions |-> x].failure = "none"
    OBVIOUS
<1>3. ParseMbr = IF 0 \in unreadable THEN NoCopy("read")
                 ELSE IF ~HasEntries(0) THEN NoCopy("notRecognized")
                 ELSE IF \E e \in Range(es) : e.type = "protective" THEN NoCopy("corrupt")
                 ELSE IF regions = <<>> THEN NoCopy("notRecognized")
                 ELSE [failure |-> "none", regions |-> regions]
    BY ParseMbrIs
<1>4. image[0] = Protective => HasEntries(0) /\ \E e \in Range(es) : e.type = "protective"
    <2> SUFFICES ASSUME image[0] = Protective
                 PROVE  HasEntries(0) /\ \E e \in Range(es) : e.type = "protective"
        OBVIOUS
    <2>1. /\ image[0].kind = "mbr" /\ image[0].signed
          /\ es = <<Entry("protective", 1, LastLba), Unused>>
        BY DEF Protective, BootRecord
    <2>2. Entry("protective", 1, LastLba).type = "protective"
        BY DEF Entry
    <2> HIDE DEF es
    <2>3. 1 \in DOMAIN es /\ es[1] = Entry("protective", 1, LastLba)
        BY <2>1
    <2>4. es[1] \in Range(es)
        BY <2>3 DEF Range
    <2> QED
        BY <2>1, <2>2, <2>3, <2>4 DEF HasEntries
<1> HIDE DEF es, regions
<1> QED
    BY <1>1, <1>2, <1>3, <1>4

LEMMA DiscoverIs ==
    \/ ParseGpt.failure = "none" /\ Discover = [kind |-> "gpt", regions |-> ParseGpt.regions]
    \/ ParseGpt.failure # "none" /\ Discover.kind \in {"read", "corrupt"}
    \/ ParseMbr.failure = "none" /\ Discover = [kind |-> "mbr", regions |-> ParseMbr.regions]
    \/ /\ ParseGpt.failure = "notRecognized" /\ ParseMbr.failure = "notRecognized"
       /\ Discover = [kind |-> "none", regions |-> WholeDisk]
<1>1. ParseGpt.failure \in {"none", "read", "corrupt", "notRecognized"}
    BY ParseGptFails
<1>2. ParseMbr.failure \in {"none", "read", "corrupt", "notRecognized"}
    BY ParseMbrFails
<1> DEFINE g == ParseGpt
           m == ParseMbr
<1>3. Discover =
        IF g.failure = "none" THEN [kind |-> "gpt", regions |-> g.regions]
        ELSE IF g.failure # "notRecognized" THEN [kind |-> g.failure, regions |-> <<>>]
        ELSE IF m.failure = "none" THEN [kind |-> "mbr", regions |-> m.regions]
        ELSE IF m.failure # "notRecognized" THEN [kind |-> m.failure, regions |-> <<>>]
        ELSE [kind |-> "none", regions |-> WholeDisk]
    BY DEF Discover, WholeDisk
<1> HIDE DEF g, m
<1>4. \A f : [kind |-> f, regions |-> <<>>].kind = f
    OBVIOUS
<1> QED
    BY <1>1, <1>2, <1>3, <1>4 DEF g, m

(* What is found is sound, and it is found where one copy is whole.        *)
Sound(kind, rs) ==
    /\ \A r \in Range(rs) : r.sectors > 0 /\ EndOf(r) <= last
    /\ kind = "gpt" =>
          /\ \E l \in {old, new} : l.kind = "gpt" /\ rs = Wanted(l)
          /\ pending = <<>> => new.kind = "gpt" /\ rs = Wanted(new)
          /\ ~(old # new /\ last = LastLba /\ Whole(old, TRUE) /\ Whole(new, FALSE))
    /\ kind = "mbr" =>
          /\ pending = <<>> => new.kind = "mbr" /\ Range(rs) \subseteq Range(Wanted(new))
          /\ pending = <<>> /\ damaged = {} => rs = Wanted(new)
    /\ kind # "gpt" => image[0] # Protective
    /\ pending = <<>> /\ new.kind = "none" => rs = WholeDisk
Recoverable ==
    /\ pending = <<>> /\ last = LastLba /\ new.kind = "gpt" /\ Wanted(new) # <<>>
    /\ \E copy \in {PrimaryCopy, BackupCopy} : damaged \subseteq {0} \cup copy

LEMMA BoundedRange ==
    ASSUME NEW rs \in Seq(Bounded)
    PROVE  \A r \in Range(rs) : r.sectors > 0 /\ EndOf(r) <= last
BY DEF Bounded, Range

LEMMA DiscoverIsSound ==
    ASSUME DiskOK, Finished, Discover.kind \notin {"read", "corrupt"}
    PROVE  /\ Sound(Discover.kind, Discover.regions) /\ Discover.regions \in Seq(Bounded)
<1>1. CASE ParseGpt.failure = "none" /\ Discover = [kind |-> "gpt", regions |-> ParseGpt.regions]
    <2> DEFINE rs == ParseGpt.regions
    <2>1. rs \in Seq(Bounded) /\ \E l \in {old, new} : l.kind = "gpt" /\ rs = Wanted(l)
        BY <1>1, GptIsBounded
    <2>2. pending = <<>> => new.kind = "gpt" /\ rs = Wanted(new)
        BY <1>1, GptIsNew
    <2>3. ~(old # new /\ last = LastLba /\ Whole(old, TRUE) /\ Whole(new, FALSE))
        BY <1>1, GptDisagrees
    <2>4. \A r \in Range(rs) : r.sectors > 0 /\ EndOf(r) <= last
        BY <2>1, BoundedRange
    <2>5. Discover.kind = "gpt" /\ Discover.regions = rs
        BY <1>1
    <2> HIDE DEF rs
    <2>6. pending = <<>> /\ new.kind = "none" => rs = WholeDisk
        BY <2>2
    <2> QED
        BY <2>1, <2>2, <2>3, <2>4, <2>5, <2>6 DEF Sound
<1>2. CASE ParseMbr.failure = "none" /\ Discover = [kind |-> "mbr", regions |-> ParseMbr.regions]
    <2> DEFINE rs == ParseMbr.regions
    <2>1. rs \in Seq(Bounded) /\ image[0] # Protective
        BY <1>2, MbrIsBounded
    <2>2. pending = <<>> => new.kind = "mbr"
        <3>1. new.kind \in {"gpt", "mbr", "none"}
            BY LayoutFacts DEF DiskOK
        <3>2. pending = <<>> => new.kind # "gpt"
            BY <1>2, MbrIsNotGpt
        <3>3. pending = <<>> => new.kind # "none"
            BY <1>2, NoTable
        <3> QED
            BY <3>1, <3>2, <3>3
    <2>3. pending = <<>> => /\ Range(rs) \subseteq Range(Wanted(new))
                            /\ damaged = {} => rs = Wanted(new)
        BY <1>2, <2>2, MbrIsNew
    <2>4. \A r \in Range(rs) : r.sectors > 0 /\ EndOf(r) <= last
        BY <2>1, BoundedRange
    <2>5. Discover.kind = "mbr" /\ Discover.regions = rs
        BY <1>2
    <2> HIDE DEF rs
    <2> QED
        BY <2>1, <2>2, <2>3, <2>4, <2>5 DEF Sound
<1>3. CASE /\ ParseMbr.failure = "notRecognized"
           /\ Discover = [kind |-> "none", regions |-> WholeDisk]
    <2>1. image[0] # Protective
        BY <1>3, ParseMbrFails
    <2>2. WholeDisk \in Seq(Bounded)
        BY WholeDiskIsBounded
    <2>3. \A r \in Range(WholeDisk) : r.sectors > 0 /\ EndOf(r) <= last
        BY <2>2, BoundedRange
    <2>4. Discover.kind = "none" /\ Discover.regions = WholeDisk
        BY <1>3
    <2> QED
        BY <2>1, <2>2, <2>3, <2>4 DEF Sound
<1> QED
    BY <1>1, <1>2, <1>3, DiscoverIs

LEMMA RecoverableIsFound ==
    ASSUME DiskOK, Finished, Recoverable
    PROVE  Discover.kind \notin {"read", "corrupt"}
<1>1. PICK copy \in {PrimaryCopy, BackupCopy} : damaged \subseteq {0} \cup copy
    BY DEF Recoverable
<1> DEFINE keeps == copy # PrimaryCopy
<1>2. damaged \cap (IF keeps THEN {1, 2} ELSE {LastLba - 1, LastLba}) = {}
    <2>1. LastLba \notin {0, 1, 2} /\ LastLba - 1 \notin {0, 1, 2}
        BY LayoutAssumption
    <2>2. CASE keeps
        <3>1. copy = BackupCopy
            BY <2>2
        <3>2. damaged \subseteq {0} \cup {LastLba - 1, LastLba}
            <4>1. damaged \subseteq {0} \cup BackupCopy
                BY <1>1, <3>1
            <4> QED
                BY <4>1 DEF BackupCopy
        <3>3. damaged \cap {1, 2} = {}
            <4> SUFFICES ASSUME NEW s \in damaged PROVE s \notin {1, 2}
                OBVIOUS
            <4>1. s = 0 \/ s = LastLba - 1 \/ s = LastLba
                BY <3>2
            <4> HIDE DEF keeps
            <4> QED
                BY <4>1, LayoutAssumption
        <3>4. (IF keeps THEN {1, 2} ELSE {LastLba - 1, LastLba}) = {1, 2}
            BY <2>2, Zenon
        <3> QED
            BY <3>3, <3>4, Zenon
    <2>3. CASE ~keeps
        <3>1. damaged \subseteq {0} \cup {1, 2}
            <4>1. damaged \subseteq {0} \cup PrimaryCopy
                BY <1>1, <2>3
            <4> QED
                BY <4>1 DEF PrimaryCopy
        <3>2. damaged \cap {LastLba - 1, LastLba} = {}
            <4> SUFFICES ASSUME NEW s \in damaged PROVE s \notin {LastLba - 1, LastLba}
                OBVIOUS
            <4>1. s \in {0, 1, 2}
                BY <3>1
            <4> QED
                BY <4>1, <2>1
        <3>3. (IF keeps THEN {1, 2} ELSE {LastLba - 1, LastLba}) = {LastLba - 1, LastLba}
            BY <2>3, Zenon
        <3> QED
            BY <3>2, <3>3, Zenon
    <2> QED
        BY <2>2, <2>3
<1>3. keeps \in BOOLEAN
    OBVIOUS
<1>4. /\ pending = <<>> /\ last = LastLba /\ new.kind = "gpt" /\ Wanted(new) # <<>>
    BY DEF Recoverable
<1> HIDE DEF keeps
<1>5. ParseGpt.failure = "none"
    BY <1>2, <1>3, <1>4, GptSurvives
<1>6. Discover = [kind |-> "gpt", regions |-> ParseGpt.regions]
    BY <1>5 DEF Discover
<1> QED
    BY <1>6

(* The scan of an image.                                                   *)
FileSystems == {"read", "unrecognized", "corrupt", "ntfs", "fat12", "fat16", "fat32"}
Statuses == {"unrecognized", "complete", "partial", "failed"}
VolumeReports == [index : Nat, region : Regions, fileSystem : FileSystems, status : Statuses]

ReportsOK ==
    /\ imagePhase \in {"use", "open"} => reports = <<>>
    /\ imagePhase \in {"volumes", "done"} =>
          /\ partitions.regions \in Seq(Regions) /\ reports \in Seq(VolumeReports)
          /\ Len(reports) <= Len(partitions.regions)
          /\ \A k \in 1 .. Len(reports) : reports[k].region = partitions.regions[k]
    /\ imagePhase = "done" => Len(reports) = Len(partitions.regions)
Concluded ==
    /\ imagePhase \in {"volumes", "done"} => Sound(partitions.kind, partitions.regions)
    /\ imageError \in {"read", "corrupt"} => imagePhase = "failed" /\ ~Recoverable

(* The inductive invariant of a scan of an image.                          *)
LayoutInv ==
    /\ DiskOK /\ Finished /\ (imagePhase = "use" => Underway)
    /\ ReportsOK /\ Concluded

LEMMA UnderwayIsFinished ==
    ASSUME DiskOK, Underway
    PROVE  Finished
<1> SUFFICES ASSUME pending = <<>>, NEW s \in Sectors
             PROVE  image[s] \in Goal(s) /\ s \notin unreadable
    BY DEF Finished
<1>1. DOMAIN pending = {}
    OBVIOUS
<1>2. unreadable = {}
    BY DEF DiskOK, Underway
<1> QED
    BY <1>1, <1>2 DEF Underway

LEMMA LayoutSound ==
    ASSUME LayoutInv
    PROVE  PartitionsAreSound
<1>1. /\ imagePhase \in {"volumes", "done"} => Sound(partitions.kind, partitions.regions)
      /\ imageError \in {"read", "corrupt"} => ~Recoverable
    BY DEF LayoutInv, Concluded
<1>2. imagePhase = "done" => [k \in DOMAIN reports |-> reports[k].region] = partitions.regions
    <2> SUFFICES ASSUME imagePhase = "done"
                 PROVE  [k \in DOMAIN reports |-> reports[k].region] = partitions.regions
        OBVIOUS
    <2> DEFINE rs == partitions.regions
               f == [k \in DOMAIN reports |-> reports[k].region]
    <2>1. /\ rs \in Seq(Regions) /\ reports \in Seq(VolumeReports) /\ Len(reports) = Len(rs)
          /\ \A k \in 1 .. Len(reports) : reports[k].region = rs[k]
        BY DEF LayoutInv, ReportsOK
    <2> HIDE DEF rs
    <2>2. DOMAIN reports = 1 .. Len(rs) /\ Len(rs) \in Nat
        BY <2>1
    <2>3. \A k \in 1 .. Len(rs) : f[k] = rs[k]
        BY <2>1, <2>2
    <2>4. f = [k \in 1 .. Len(rs) |-> rs[k]]
        BY <2>2, <2>3
    <2>5. rs = [k \in 1 .. Len(rs) |-> rs[k]]
        BY <2>1
    <2> QED
        BY <2>4, <2>5 DEF rs
<1> QED
    BY <1>1, <1>2 DEF PartitionsAreSound, Sound, Recoverable

LEMMA LayoutStarts ==
    ASSUME ImageInit
    PROVE  LayoutInv
<1>1. DiskOK /\ Underway
    BY DiskInit
<1>2. imagePhase = "use" /\ reports = <<>> /\ imageError = "none"
    BY DEF ImageInit
<1>3. Finished
    BY <1>1, UnderwayIsFinished
<1> QED
    BY <1>1, <1>2, <1>3 DEF LayoutInv, ReportsOK, Concluded

(* What a step on the image as it was taken leaves alone.                  *)
LEMMA LayoutUnchanged ==
    ASSUME LayoutInv, UNCHANGED <<old, new, image, pending, last, unreadable, damaged>>
    PROVE  /\ DiskOK' /\ Finished' /\ Underway' = Underway /\ Recoverable' = Recoverable
           /\ \A kind, rs : Sound(kind, rs)' = Sound(kind, rs)
<1>1. \A l : Wanted(l)' = Wanted(l)
    BY DEF Wanted
<1>2. \A l, p : Whole(l, p)' = Whole(l, p)
    BY DEF Whole
<1>3. WholeDisk' = WholeDisk
    BY DEF WholeDisk
<1>4. \A s : Goal(s)' = Goal(s)
    BY DEF Goal, Contents, Headers, Tables, GptLayouts, Ats
<1>5. Contents' = Contents /\ Headers' = Headers
    BY DEF Contents, Headers, Tables, GptLayouts
<1>6. DiskOK'
    BY <1>5 DEF LayoutInv, DiskOK
<1>7. Finished'
    BY <1>4 DEF LayoutInv, Finished
<1>8. Underway' = Underway
    BY <1>4 DEF Underway
<1>9. Recoverable' = Recoverable
    BY <1>1 DEF Recoverable
<1>10. \A kind, rs : Sound(kind, rs)' = Sound(kind, rs)
    <2> SUFFICES ASSUME NEW kind, NEW rs
                 PROVE  Sound(kind, rs)' = Sound(kind, rs)
        OBVIOUS
    <2> QED
        BY <1>1, <1>2, <1>3 DEF Sound
<1> QED
    BY <1>6, <1>7, <1>8, <1>9, <1>10

LEMMA LayoutKept ==
    ASSUME LayoutInv, [ImageNext]_imageVars
    PROVE  LayoutInv'
<1> DEFINE S == <<old, new, image, pending, last, unreadable, damaged>>
<1>1. /\ DiskOK /\ Finished /\ (imagePhase = "use" => Underway) /\ ReportsOK /\ Concluded
    BY DEF LayoutInv
<1>2. CASE ToolWrites
    <2>1. /\ imagePhase = "use" /\ UNCHANGED <<imagePhase, partitions, reports, imageError>>
        BY <1>2 DEF ToolWrites
    <2>2. DiskOK' /\ Underway'
        BY <1>1, <1>2, <2>1, ToolKeeps
    <2>3. Finished'
        <3>1. DiskOK' /\ Underway' => Finished'
            BY UnderwayIsFinished, PTL
        <3> QED
            BY <2>2, <3>1
    <2>4. ReportsOK' /\ Concluded'
        BY <1>1, <2>1 DEF ReportsOK, Concluded
    <2> QED
        BY <2>2, <2>3, <2>4 DEF LayoutInv
<1>3. CASE TakeImage
    <2>1. /\ imagePhase = "use" /\ imagePhase' = "open" /\ UNCHANGED <<partitions, reports, imageError>>
        BY <1>3 DEF TakeImage
    <2>2. DiskOK' /\ Finished'
        BY <1>1, <1>3, <2>1, ImageTaken
    <2>3. ReportsOK' /\ Concluded'
        BY <1>1, <2>1 DEF ReportsOK, Concluded
    <2> QED
        BY <2>1, <2>2, <2>3 DEF LayoutInv
<1>4. CASE RefusePath
    <2>1. /\ imagePhase' = "failed" /\ UNCHANGED S /\ imageError' \notin {"read", "corrupt"}
        BY <1>4 DEF RefusePath
    <2>2. DiskOK' /\ Finished'
        BY <2>1, LayoutUnchanged
    <2>3. ReportsOK' /\ Concluded'
        BY <2>1 DEF ReportsOK, Concluded
    <2> QED
        BY <2>1, <2>2, <2>3 DEF LayoutInv
<1>5. CASE ScanImagePath
    <2> DEFINE found == Discover
    <2>1. /\ imagePhase = "open" /\ UNCHANGED S /\ reports' = reports
          /\ IF found.kind \in {"read", "corrupt"}
             THEN imagePhase' = "failed" /\ imageError' = found.kind /\ UNCHANGED partitions
             ELSE imagePhase' = "volumes" /\ partitions' = found /\ UNCHANGED imageError
        BY <1>5 DEF ScanImagePath
    <2>2. /\ DiskOK' /\ Finished' /\ Recoverable' = Recoverable
          /\ \A kind, rs : Sound(kind, rs)' = Sound(kind, rs)
        BY <2>1, LayoutUnchanged
    <2>3. reports = <<>> /\ imageError \notin {"read", "corrupt"}
        BY <1>1, <2>1 DEF ReportsOK, Concluded
    <2>4. CASE found.kind \in {"read", "corrupt"}
        <3>1. ~Recoverable
            BY <1>1, <2>4, RecoverableIsFound
        <3> HIDE DEF found
        <3>2. imagePhase' = "failed" /\ imageError' = found.kind
            BY <2>1, <2>4
        <3>3. ReportsOK' /\ Concluded'
            BY <2>2, <3>1, <3>2 DEF ReportsOK, Concluded
        <3> QED
            BY <2>2, <3>2, <3>3 DEF LayoutInv
    <2>5. CASE found.kind \notin {"read", "corrupt"}
        <3>1. Sound(found.kind, found.regions) /\ found.regions \in Seq(Bounded)
            BY <1>1, <2>5, DiscoverIsSound
        <3>2. found.regions \in Seq(Regions)
            <4>1. Bounded \subseteq Regions
                BY DEF Bounded
            <4>2. \A U, T : U \subseteq T => \A q \in Seq(U) : q \in Seq(T)
                OBVIOUS
            <4> HIDE DEF found
            <4> QED
                BY <3>1, <4>1, <4>2
        <3> HIDE DEF found
        <3>3. imagePhase' = "volumes" /\ partitions' = found /\ imageError' = imageError
            BY <2>1, <2>5
        <3>4. Sound(partitions.kind, partitions.regions)'
            BY <2>2, <3>1, <3>3
        <3>5. Concluded'
            BY <2>3, <3>3, <3>4 DEF Concluded
        <3>6. ReportsOK'
            <4>1. <<>> \in Seq(VolumeReports) /\ Len(<<>>) = 0 /\ Len(found.regions) \in Nat
                BY <3>2
            <4>2. reports' = <<>> /\ partitions'.regions = found.regions
                BY <2>1, <2>3, <3>3
            <4> QED
                BY <3>2, <3>3, <4>1, <4>2 DEF ReportsOK
        <3> QED
            BY <2>2, <3>3, <3>5, <3>6 DEF LayoutInv
    <2> QED
        BY <2>4, <2>5
<1>6. CASE FinishImage
    <2>1. /\ imagePhase = "volumes" /\ Len(reports) = Len(partitions.regions) /\ imagePhase' = "done"
          /\ UNCHANGED S /\ UNCHANGED <<partitions, reports, imageError>>
        BY <1>6 DEF FinishImage
    <2>2. /\ DiskOK' /\ Finished' /\ \A kind, rs : Sound(kind, rs)' = Sound(kind, rs)
        BY <2>1, LayoutUnchanged
    <2>3. ReportsOK'
        BY <1>1, <2>1 DEF ReportsOK
    <2>4. Concluded'
        <3>1. Sound(partitions.kind, partitions.regions)'
            BY <1>1, <2>1, <2>2 DEF Concluded
        <3>2. imageError' \notin {"read", "corrupt"}
            BY <1>1, <2>1 DEF Concluded
        <3> QED
            BY <3>1, <3>2 DEF Concluded
    <2> QED
        BY <2>1, <2>2, <2>3, <2>4 DEF LayoutInv
<1>7. CASE UNCHANGED imageVars
    <2>1. UNCHANGED S /\ UNCHANGED <<imagePhase, partitions, reports, imageError>>
        BY <1>7 DEF imageVars
    <2>2. /\ DiskOK' /\ Finished' /\ Underway' = Underway /\ Recoverable' = Recoverable
          /\ \A kind, rs : Sound(kind, rs)' = Sound(kind, rs)
        BY <2>1, LayoutUnchanged
    <2>3. ReportsOK'
        BY <1>1, <2>1 DEF ReportsOK
    <2>4. Concluded'
        BY <1>1, <2>1, <2>2 DEF Concluded
    <2> QED
        BY <1>1, <2>1, <2>2, <2>3, <2>4 DEF LayoutInv
<1>8. CASE ScanVolume
    <2> DEFINE k == Len(reports) + 1
               rs == partitions.regions
    <2>1. /\ imagePhase = "volumes" /\ Len(reports) < Len(rs)
          /\ UNCHANGED S /\ partitions' = partitions
          /\ \/ /\ imagePhase' = "failed" /\ imageError' = "volumeScan" /\ reports' = reports
             \/ \E boot \in Boots, outcome \in {"complete", "partial", "failed"}, deep \in BOOLEAN :
                   /\ reports' = Append(reports, Report(k, rs[k], FileSystem(rs[k], boot),
                          CASE FileSystem(rs[k], boot) = "unrecognized"       -> "unrecognized"
                            [] FileSystem(rs[k], boot) = "ntfs"               -> outcome
                            [] OTHER -> IF deep THEN "partial" ELSE outcome))
                   /\ UNCHANGED <<imagePhase, imageError>>
        BY <1>8 DEF ScanVolume
    <2>2. /\ DiskOK' /\ Finished' /\ \A kind, q : Sound(kind, q)' = Sound(kind, q)
        BY <2>1, LayoutUnchanged
    <2>3. imageError \notin {"read", "corrupt"} /\ Sound(partitions.kind, rs)
        BY <1>1, <2>1 DEF Concluded
    <2>4. CASE imagePhase' = "failed" /\ imageError' = "volumeScan"
        BY <2>2, <2>4 DEF LayoutInv, ReportsOK, Concluded
    <2>5. CASE \E boot \in Boots, outcome \in {"complete", "partial", "failed"}, deep \in BOOLEAN :
                   /\ reports' = Append(reports, Report(k, rs[k], FileSystem(rs[k], boot),
                          CASE FileSystem(rs[k], boot) = "unrecognized"       -> "unrecognized"
                            [] FileSystem(rs[k], boot) = "ntfs"               -> outcome
                            [] OTHER -> IF deep THEN "partial" ELSE outcome))
                   /\ UNCHANGED <<imagePhase, imageError>>
        <3>1. PICK boot \in Boots, outcome \in {"complete", "partial", "failed"}, deep \in BOOLEAN :
                   /\ reports' = Append(reports, Report(k, rs[k], FileSystem(rs[k], boot),
                          CASE FileSystem(rs[k], boot) = "unrecognized"       -> "unrecognized"
                            [] FileSystem(rs[k], boot) = "ntfs"               -> outcome
                            [] OTHER -> IF deep THEN "partial" ELSE outcome))
                   /\ UNCHANGED <<imagePhase, imageError>>
            BY <2>5
        <3> DEFINE fs == FileSystem(rs[k], boot)
                   st == CASE fs = "unrecognized"       -> "unrecognized"
                            [] fs = "ntfs"               -> outcome
                            [] OTHER -> IF deep THEN "partial" ELSE outcome
                   x == Report(k, rs[k], fs, st)
        <3>2. fs \in FileSystems
            <4>1. NtfsBoot(boot, rs[k].sectors) \in {"notRecognized", "corrupt", "ntfs"}
                BY DEF NtfsBoot
            <4>2. FatBoot(boot, rs[k].sectors) \in {"notRecognized", "corrupt", "fat12", "fat16", "fat32"}
                BY Zenon DEF FatBoot
            <4> HIDE DEF rs, k
            <4> QED
                BY <4>1, <4>2 DEF FileSystem, FileSystems
        <3> HIDE DEF fs
        <3>3. st \in Statuses
            BY DEF Statuses
        <3>4. /\ rs \in Seq(Regions) /\ reports \in Seq(VolumeReports) /\ Len(reports) <= Len(rs)
              /\ \A j \in 1 .. Len(reports) : reports[j].region = rs[j]
            BY <1>1, <2>1 DEF ReportsOK
        <3> HIDE DEF rs, st
        <3>5. k \in Nat /\ k <= Len(rs) /\ rs[k] \in Regions
            <4>1. Len(reports) \in Nat /\ Len(rs) \in Nat /\ Len(reports) < Len(rs)
                BY <2>1, <3>4
            <4>2. k \in 1 .. Len(rs)
                BY <4>1
            <4> HIDE DEF k
            <4> QED
                BY <4>1, <4>2, <3>4
        <3>6. x \in VolumeReports /\ x.region = rs[k]
            BY <3>2, <3>3, <3>5 DEF Report, VolumeReports
        <3> HIDE DEF x
        <3>7. reports' = Append(reports, x)
            BY <3>1 DEF x, st, fs, rs
        <3>8. /\ reports' \in Seq(VolumeReports) /\ Len(reports') = k
              /\ \A j \in 1 .. k : reports'[j].region = rs[j]
            <4>1. Append(reports, x) \in Seq(VolumeReports) /\ Len(Append(reports, x)) = k
                BY <3>4, <3>6
            <4>2. \A j \in 1 .. k : Append(reports, x)[j] = IF j = k THEN x ELSE reports[j]
                BY <3>4
            <4>3. \A j \in 1 .. k : j = k \/ j \in 1 .. Len(reports)
                BY <3>4
            <4> QED
                BY <3>4, <3>6, <3>7, <4>1, <4>2, <4>3
        <3> HIDE DEF k
        <3>9. partitions'.regions = rs /\ imagePhase' = "volumes"
            BY <2>1, <3>1 DEF rs
        <3>10. ReportsOK'
            BY <3>4, <3>5, <3>8, <3>9 DEF ReportsOK
        <3>11. Concluded'
            <4>1. Sound(partitions.kind, partitions.regions)'
                BY <2>1, <2>2, <2>3 DEF rs
            <4>2. imageError' \notin {"read", "corrupt"}
                BY <2>3, <3>1
            <4> QED
                BY <4>1, <4>2 DEF Concluded
        <3> QED
            BY <2>2, <3>9, <3>10, <3>11 DEF LayoutInv
    <2> HIDE DEF k, rs
    <2> QED
        BY <2>1, <2>4, <2>5
<1> QED
    BY <1>2, <1>3, <1>4, <1>5, <1>6, <1>7, <1>8 DEF ImageNext

(* An image that is scanned by itself.                                     *)
ImageSpec == ImageInit /\ [][ImageNext]_imageVars

(* The volumes of an image, found through any stop of the tool and any     *)
(* damage, are those of one layout of its disk, and each of them gets its  *)
(* report: for every disk, every table and every limit.                    *)
THEOREM PartitionsFound == ImageSpec => []PartitionsAreSound
<1>1. ImageInit => LayoutInv
    BY LayoutStarts
<1>2. LayoutInv /\ [ImageNext]_imageVars => LayoutInv'
    BY LayoutKept
<1>3. LayoutInv => PartitionsAreSound
    BY LayoutSound
<1> QED
    BY <1>1, <1>2, <1>3, PTL DEF ImageSpec
=============================================================================
